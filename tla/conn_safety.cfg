CONSTANTS
    Keys = {1, 2}
    ServerKey = 1
    Encrypt <- MCEncrypt
    Numbers <- MCNumbers
    Clock = 5
    Payloads = {p1}
    NoPayload = NoPayload
    Zero = 0
    MaxSend = 2
    MaxAnnounce = 1
SPECIFICATION Spec
INVARIANTS TypeOK WriteLoop ValidatedFirst FramesAligned InOrderDelivery PatientClientAccepted
CHECK_DEADLOCK FALSE
