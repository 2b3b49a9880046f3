\* Frames in both directions; on the way to the client every write finds room
\* for its whole frame, on the way to the server it never does.
SPECIFICATION StreamSpec
CONSTANTS
    Base = 2
    Directions = {"toServer", "toClient"}
    RoomToServer = 3
    RoomToClient = 21
    MaxBody = 2
    MaxFrames = 3
CHECK_DEADLOCK FALSE
INVARIANTS
    StreamTypeOK
PROPERTY
    ImplementsChannel
