SPECIFICATION FairSpec
CONSTANTS
    Runs = {r1, r2}
    Shas = {s1}
    Locks = {l1}
    WarmLegs = {w1}
    CompileLegs = {c1}
    MaxAttempts = 2
    MaxMishaps = 1
PROPERTY RunsFinish
CHECK_DEADLOCK FALSE
