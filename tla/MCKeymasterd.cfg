CONSTANTS
    Users = {alice, bob}
    Req = {r1, r2}
    Main = Main
    NoUser = NoUser
    StartupUser = alice
    Urls <- MCUrls
SPECIFICATION Spec
INVARIANTS
    TypeOK
PROPERTIES
    RequestsComplete
