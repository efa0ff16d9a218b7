CONSTANTS
    Keys = {1, 2}
    ServerKey = 1
    Encrypt <- MCEncrypt
    Numbers <- MCNumbers
    Clock = 5
    Payloads = {p1}
    NoPayload = NoPayload
    Zero = 0
    MaxSend = 1
    MaxAnnounce = 0
SPECIFICATION FairSpec
PROPERTIES DeliveredOrDown CloseIsPropagated
CHECK_DEADLOCK FALSE
