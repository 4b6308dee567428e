SPECIFICATION Spec
CONSTANTS
    n1 = n1
    n2 = n2
    p1 = p1
    l1 = l1
    c = c
    d = d
    Addresses = {p1, l1, c, d}
    Literals <- MCLiterals
    Names <- MCNames
    Answers <- MCAnswers
    PositiveTTL = 2
    NegativeTTL = 1
    Grace = 1
    MaxLookup = 1
    Requests = {r1, r2}
    Boot = boot
    Routes <- MCRoutes
    Claims <- MCClaims
    Junk = junk
INVARIANTS TypeOK LastStrangerIsTheClient
PROPERTIES TrustFollowsTheNames LookupsSpaced EveryRequestGoesOn
