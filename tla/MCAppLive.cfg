\* The public room under fairness: a link breaks, with a word or without.
SPECIFICATION LiveSpec
CONSTANTS
    Session = {s1, s2}
    NoSession = NoSession
    Name = {alice, bob}
    Group = {}
    QuotedNames = {}
    EscapedNames = {}
    Operations = {"public"}
    Chunks = 1
    MaxOps = 1
    ExclusiveNames = TRUE
    MaxRestarts = 0
    MaxBacklog = 0
    MaxBreaks = 1
CHECK_DEADLOCK FALSE
PROPERTIES
    EveryPublicMessageShown
    DeadSessionsLeave
