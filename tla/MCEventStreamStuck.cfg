SPECIFICATION FairSpec
CONSTANTS
    a1 = a1
    a2 = a2
    alice = alice
    Conn = {a1, a2}
    User = {alice}
    Owner <- MCOwner
    Producer = {p1}
    BusCap = 1
    QueueCap = 1
    MaxMessages = 2
PROPERTY BackpressureIsPerConnection
CHECK_DEADLOCK FALSE
