CONSTANTS
    Urls <- MCUrls
    HtConfigured = TRUE
SPECIFICATION Spec
INVARIANTS
    TypeOK
PROPERTIES
    ImplementsPrimaryAuth
