SPECIFICATION PsbtSpec
CONSTANTS
    k1 = k1
    k2 = k2
    s1 = s1
    r1 = r1
    r2 = r2
    none = none
    bad = bad
    malformed = malformed
    Malformed = malformed
    PrivateKeys <- MCKeys
    Seeds <- MCSeeds
    Nonces <- MCNonces
    NoKey = none
    BadKey = bad
    Pastes <- MCPastes
    ChildOf <- MCChildOf
INVARIANT CleanVerdictTrue
