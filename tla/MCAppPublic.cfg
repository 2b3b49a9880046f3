\* The public room: three sessions of two people come and go while two
\* messages are said, with one broken link and one restart of the server.
SPECIFICATION AppSpec
CONSTANTS
    Session = {s1, s2, s3}
    NoSession = NoSession
    Name = {alice, bob}
    Group = {}
    QuotedNames = {}
    EscapedNames = {}
    Operations = {"public"}
    Chunks = 1
    MaxOps = 2
    ExclusiveNames = TRUE
    MaxRestarts = 1
    MaxBacklog = 0
    MaxBreaks = 1
SYMMETRY Symmetry
CHECK_DEADLOCK FALSE
INVARIANTS
    AppTypeOK
    PublicViewComplete
    UserListFresh
    OnlineSessionsListed
    SessionKnowsItsUser
PROPERTY
    PublicRoomImplemented
