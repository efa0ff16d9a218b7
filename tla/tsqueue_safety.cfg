CONSTANTS
    Consumers = {c1}
    NoThread = NoThread
    NoValue = NoValue
    Producers = {p1, p2}
    Values = {v1, v2}
    MaxPush = 2
SPECIFICATION Spec
SYMMETRY Symmetry
INVARIANTS TypeOK LockDiscipline PopDefined
PROPERTY DequeSpec
