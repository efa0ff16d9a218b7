CONSTANTS
    Inputs <- MCInputs
    Quota <- MCQuota
    MaxInputs <- MCMaxInputs
SPECIFICATION Spec
INVARIANTS WriteLoop DeliveredInOrder MembersInformed TextWhole PatientAnswered
PROPERTIES LeaversRemoved
CHECK_DEADLOCK FALSE
