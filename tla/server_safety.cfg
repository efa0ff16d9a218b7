CONSTANTS
    Conns = {c1, c2, c3}
    nullptr = nullptr
    IdWidth = 2
    MaxAccept = 3
    MaxMsgs = 1
    MaxPending = 2
SPECIFICATION Spec
SYMMETRY Symmetry
INVARIANTS RegistryClean OpenIsRegistered EveryoneTold UniqueIds
CHECK_DEADLOCK FALSE
