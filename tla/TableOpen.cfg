SPECIFICATION TableSpec
CONSTANTS
    k1 = k1  k2 = k2  k3 = k3  k4 = k4  k5 = k5
    Keys <- FiveKeys
    HashOf <- Hashes
    Values = {v1, v2}
    Growth = 4
    Limit = 1
    Sizes = {1, 2, 4, 8, 16}
    MaxBuckets = 16
    MinLoads = {0, 15}
    MaxLoads = {50, 95}
    Counts = {0, 8}
    Ranges <- Pairs
SYMMETRY Alike
INVARIANTS TableInv IterationCovers
PROPERTY IsMap
