\* Each kind of window with three files between its recorder and its camera.
SPECIFICATION Spec
CONSTANTS
    MaxFiles = 3
    MaxTakes = 3
    Kinds = {"chat", "group", "private"}
CHECK_DEADLOCK FALSE
INVARIANTS
    WindowsTypeOK
    PendingVoiceIsLast
    VoiceControlsAgree
    ListenersSendWhole
    CameraNeverStuck
PROPERTY
    DeletedVoiceNeverSent
