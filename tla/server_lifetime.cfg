CONSTANTS
    Conns = {c1, c2}
    nullptr = nullptr
    IdWidth = 1
    MaxAccept = 2
    MaxMsgs = 2
    MaxPending = 2
SPECIFICATION Spec
SYMMETRY Symmetry
INVARIANT HandlersHaveConnection
CHECK_DEADLOCK FALSE
