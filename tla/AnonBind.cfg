CONSTANTS
    Users = {alice, bob}
    Req = {r1, r2}
    Main = Main
    NoUser = NoUser
    StartupUser = alice
    Urls <- MCUrlsAnonBind
SPECIFICATION Spec
INVARIANT
    CertOnlyForAuthenticatedOwner
