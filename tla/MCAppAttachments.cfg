\* Attachments to everybody, to a person and to a group, two at a time, among
\* messages and typing frames; the messages of two people to each other.
SPECIFICATION AppSpec
CONSTANTS
    Session = {s1, s2}
    NoSession = NoSession
    Name = {alice, bob}
    Group = {g}
    QuotedNames = {}
    EscapedNames = {}
    Operations = {"public", "private", "group", "typing", "attachment"}
    Chunks = 1
    MaxOps = 2
    ExclusiveNames = TRUE
    MaxRestarts = 0
    MaxBacklog = 0
    MaxBreaks = 1
SYMMETRY Symmetry
CHECK_DEADLOCK FALSE
INVARIANTS
    ConversationsAgree
    ChunksHaveRoute
    CompletedAttachmentIsWhole
