SPECIFICATION Spec
CONSTANTS
    r1 = r1
    r2 = r2
    c1 = c1
    c2 = c2
    Request = {r1, r2}
    Connection = {c1, c2}
    NoConnection = NoConnection
    MaxConnections <- MCMaxConnections
    MaxMessages = 1
    MaxBlocked = 1
SYMMETRY Symmetric
INVARIANTS TypeOK UsersHaveParts ConnectionsBounded CountedAreOpen AllowanceBounded
PROPERTIES BlockedAreShutOut
