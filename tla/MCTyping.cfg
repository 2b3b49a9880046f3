\* Two people and two groups: what is typed, sent and left unfinished.
SPECIFICATION SpecFromBoth
CONSTANTS
    Session = {s1, s2}
    NoSession = NoSession
    Name = {alice, bob}
    Group = {g, h}
    QuotedNames = {}
    EscapedNames = {}
    Operations = {"group", "typing"}
    Chunks = 1
    MaxOps = 3
    ExclusiveNames = TRUE
    MaxRestarts = 0
    MaxBreaks = 0
    MaxBacklog = 0
SYMMETRY Symmetry
CHECK_DEADLOCK FALSE
INVARIANTS
    TypingTypeOK
    TypingHasText
    GroupTypingHasText
