\* The server writes to a client that reads more slowly than it is written to.
SPECIFICATION StreamSpec
CONSTANTS
    Base = 2
    Directions = {"toClient"}
    RoomToServer = 3
    RoomToClient = 9
    MaxBody = 2
    MaxFrames = 3
CHECK_DEADLOCK FALSE
INVARIANTS
    DeliveredInOrder
