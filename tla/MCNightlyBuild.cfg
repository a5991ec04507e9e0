SPECIFICATION Spec
CONSTANTS
    Runs = {r1, r2}
    Shas = {s1}
    Locks = {l1, l2}
    WarmLegs = {w1, w2}
    CompileLegs = {c1}
    MaxAttempts = 2
    MaxMishaps = 1
SYMMETRY Symmetric
INVARIANTS TypeOK MarkerSound SkipSound TestedBuildComplete
PROPERTY InputsFrozen
CHECK_DEADLOCK FALSE
