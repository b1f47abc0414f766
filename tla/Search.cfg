SPECIFICATION Spec
CONSTANTS
    Articles = {a1, a2, a3, a4, a5}
    PageSize = 2
    Pages = 2
    Minute = 2
    Day = 3
    MaxNow = 3
    MaxOdd = 1
    MaxFaults = 1
SYMMETRY Alike
INVARIANT TypeOK
INVARIANT OncePerSearch
INVARIANT SearchFindsAll
