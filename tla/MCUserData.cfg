SPECIFICATION Spec
CONSTANTS
    c1 = c1
    c2 = c2
    s1 = s1
    s2 = s2
    alice = alice
    User = {alice}
    Session = {s1, s2}
    Chat = {c1, c2}
    Owner <- MCOwner
    MaxSessions = 1
SYMMETRY Symmetric
INVARIANTS TypeOK SessionsBounded NoOrphans
PROPERTIES PromptsSpaced
CHECK_DEADLOCK FALSE
