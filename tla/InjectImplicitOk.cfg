CONSTANTS
    Req = {r1, r2}
    Users = {u1, u2}
SPECIFICATION Spec
INVARIANT
    InjectOkMeansUnsealed
