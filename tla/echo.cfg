CONSTANTS
    Capacity = 3
    MaxBytes = 7
SPECIFICATION Spec
INVARIANTS EchoInOrder OneWrite RangesInArray NoOverlap
PROPERTIES EverythingEchoed
CHECK_DEADLOCK FALSE
