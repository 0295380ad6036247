\* Two users, a tab and a keyring, two calls at once that may die.
SPECIFICATION Spec
CONSTANTS
    u1 = u1
    u2 = u2
    t1 = t1
    k1 = k1
    c1 = c1
    c2 = c2
    None = None
    Users <- MCUsers
    Founders <- MCFounders
    Tabs <- MCTabs
    Keyrings <- MCKeyrings
    Uses <- MCUses
    GivenRoles <- MCGivenRoles
    GivenEmails <- MCGivenEmails
    Calls <- MCCalls
SYMMETRY Symmetry
INVARIANTS
    TypeOK
    SessionsEndWithCause
PROPERTIES
    UsedOnce
