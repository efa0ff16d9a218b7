CONSTANTS
    s1 = s1
    s2 = s2
    Sessions = {s1, s2}
    nullptr = nullptr
    Requests <- MCRequests
    Quota <- MCQuota
SPECIFICATION Spec
INVARIANTS AnswersInOrder CloseIsLast OneOperation
PROPERTIES SessionsEnd NobodyWaits
CHECK_DEADLOCK FALSE
