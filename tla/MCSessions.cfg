CONSTANTS
    Users = {u1, u2}
    Req = {r1, r2}
    Cookies = {c1, c2}
    NoUser = NoUser
    MaxAge = 1
    MaxTime = 2
SPECIFICATION Spec
INVARIANTS
    TypeOK
PROPERTIES
    SweptSessionNeverAccepted
    ExpiredEventuallySwept
