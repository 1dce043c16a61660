CONSTANTS
    Users = {u1}
    Req = {r1, r2}
    Creds = {k1, k2}
    MaxCh = 3
    MaxCtr = 1
    MaxCrash = 1
SPECIFICATION Spec
INVARIANTS
    TypeOK
    ReplayRejected
