CONSTANTS
    Consumers = {c1}
    NoThread = NoThread
    NoValue = NoValue
    Producers = {p1}
    Values = {v1}
    MaxPush = 2
SPECIFICATION FairSpec
PROPERTIES EveryCallReturns PushWakesSleeper
CHECK_DEADLOCK FALSE
