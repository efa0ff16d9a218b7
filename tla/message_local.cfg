CONSTANTS
    Sizes = {1, 4}
    Values = {1, 2}
    MaxPut = 3
SPECIFICATION Spec
INVARIANTS LocalRoundTrip FirstValueArrives
