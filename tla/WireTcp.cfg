SPECIFICATION TimedSpec
CONSTANTS
    Idle = 6
    Beat = 3
    Keepalive = 3
    KeepaliveOnly = 8
    Window = 2
    Pieces = 3
    Transport = "tcp"
INVARIANTS
    LiveSessionKept
    
CHECK_DEADLOCK FALSE
