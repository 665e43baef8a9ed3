SPECIFICATION FairSpec
CONSTANTS
    w1 = w1  w2 = w2  w3 = w3  w4 = w4  A = A  B = B  C = C  NoOne = NoOne
    Keys = {"consolidation"}
    Callers <- FourCallers
    Tokens <- ThreeTokens
    TokenOf <- SharedToken
    Timeouts = {1, 2}
    MaxTime = 6
INVARIANTS LeaseExclusive
PROPERTIES LostOnlyByExpiryOrRelease Reclaimed
