\* A name with a quote in it.
SPECIFICATION Spec
CONSTANTS
    Session = {s1, s2}
    NoSession = NoSession
    Name = {alice, bob}
    Group = {}
    QuotedNames = {bob}
    EscapedNames = {}
    Operations = {}
    Chunks = 1
    MaxOps = 0
    ExclusiveNames = TRUE
    MaxRestarts = 0
    MaxBacklog = 0
    MaxBreaks = 2
CHECK_DEADLOCK FALSE
INVARIANTS
    SessionKnowsItsUser
