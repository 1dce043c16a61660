CONSTANTS
    Req = {r1, r2, r3}
    Users = {u1, u2}
SPECIFICATION Spec
INVARIANTS
    TypeOK
    CACertMatchesSigner
PROPERTIES
    ImplementsSealedCA
    RequestsAnswered
