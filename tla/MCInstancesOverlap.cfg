CONSTANTS
    Run = {p, q, r}
    MaxKills = 0
SYMMETRY RunSymmetry
SPECIFICATION LockSpec
INVARIANTS OneRunInside
