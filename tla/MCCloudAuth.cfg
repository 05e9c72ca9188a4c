SPECIFICATION Spec
SYMMETRY Symmetry
CONSTANTS
    Account = {a1, a2}
    NoAccount = NoAccount
    Caller = {c1, c2}
    Login = {l1}
    Visit = {v1}
    MaxGrants = 3
INVARIANTS
    TypeOK
    IdentityMatchesTokens
    TokensAreUsable
    RefusedForAReason
    LoggedOutStays
    FirstReportNeverBlocks
CHECK_DEADLOCK FALSE
