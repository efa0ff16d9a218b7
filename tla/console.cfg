CONSTANTS
    MaxKeys = 3
    MaxMsgs = 2
SPECIFICATION Spec
INVARIANTS PromiseOutlivesThread KeysInOrder
PROPERTIES KeysActedOn MessagesShown
CHECK_DEADLOCK FALSE
