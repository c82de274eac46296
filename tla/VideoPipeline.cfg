\* The code's three reconnections; a channel of two and five frames; bytes of four
\* values, so that lengths 1 and 4 to 7 begin like a start code.
CONSTANTS
    Base = 4
    Units <- MCUnits
    Capacity = 2
    maxReconnectAttempts = 3
    MaxFrames = 5
SPECIFICATION VideoSpec
INVARIANTS VideoTypeOK FramesKept Decodable RoomLeft
CHECK_DEADLOCK FALSE
