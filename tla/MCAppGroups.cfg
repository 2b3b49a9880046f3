\* One group: two sessions make, join, join again and write to it, before and
\* after one restart; they may have one name, and of the two names the server
\* reads one as the other, and the other not at all.
SPECIFICATION AppSpec
CONSTANTS
    Session = {s1, s2}
    NoSession = NoSession
    Name = {alice, bob}
    Group = {g}
    QuotedNames = {bob}
    EscapedNames = {alice}
    Operations = {"group"}
    Chunks = 1
    MaxOps = 3
    ExclusiveNames = FALSE
    MaxRestarts = 1
    MaxBacklog = 0
    MaxBreaks = 1
SYMMETRY Symmetry
CHECK_DEADLOCK FALSE
INVARIANTS
    GroupViewComplete
    HistoryOnDisk
    MembersAreRouted
    NoDangling
PROPERTY
    GroupRoomsImplemented
