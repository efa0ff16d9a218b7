CONSTANTS
    Consumers = {c1}
    NoThread = NoThread
    NoValue = NoValue
    Producers = {p1}
    Values = {v1}
    MaxPush = 1
SPECIFICATION FairSpec
PROPERTY NoSleepOnMessages
