SPECIFICATION Spec
CONSTANTS
    Runs = {r1, r2}
    Shas = {s1}
    Locks = {l1}
    WarmLegs = {w1}
    CompileLegs = {c1}
    MaxAttempts = 1
    MaxMishaps = 1
INVARIANT SkipsSuccessfulRun
CHECK_DEADLOCK FALSE
