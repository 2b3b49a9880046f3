\* A person connects a second time under the same name while a private
\* attachment is sent.
SPECIFICATION AppSpec
CONSTANTS
    Session = {s1, s2, s3}
    NoSession = NoSession
    Name = {alice, bob}
    Group = {}
    QuotedNames = {}
    EscapedNames = {}
    Operations = {"private", "attachment"}
    Chunks = 1
    MaxOps = 1
    ExclusiveNames = FALSE
    MaxRestarts = 0
    MaxBacklog = 0
    MaxBreaks = 0
SYMMETRY Symmetry
CHECK_DEADLOCK FALSE
INVARIANTS
    CompletedAttachmentIsWhole
