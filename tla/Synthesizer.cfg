SPECIFICATION FairSpec
CONSTANTS
    Workers = {w1, w2}
    Minute = 16
    RpmLimit = 8
INVARIANT TypeOK
INVARIANT InTime
PROPERTY Spaced
PROPERTY OnlyFallbackHangs
