\* Two people and a group that one of them leaves in the middle of a text.
SPECIFICATION TypingSpec
CONSTANTS
    Session = {s1, s2}
    NoSession = NoSession
    Name = {alice, bob}
    Group = {g}
    QuotedNames = {}
    EscapedNames = {}
    Operations = {"group", "typing"}
    Chunks = 1
    MaxOps = 3
    ExclusiveNames = TRUE
    MaxRestarts = 0
    MaxBreaks = 0
    MaxBacklog = 0
SYMMETRY Symmetry
CHECK_DEADLOCK FALSE
INVARIANT
    GroupTypingOnlyWithText
