SPECIFICATION Spec
CONSTANTS
    a1 = a1
    a2 = a2
    alice = alice
    Conn = {a1, a2}
    User = {alice, bob}
    Owner <- MCOwner
    Producer = {p1, p2}
    BusCap = 1
    QueueCap = 1
    MaxMessages = 2
SYMMETRY Symmetric
INVARIANTS TypeOK OpenIsRegistered
PROPERTY DeliversInOrder
CHECK_DEADLOCK FALSE
