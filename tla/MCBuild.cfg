SPECIFICATION BuildSpec
CONSTANTS
    board = board
    cam = cam
    lvdsComma = lvdsComma
    lvds = lvds
    c1 = c1
    c2 = c2
    c3 = c3
    Names <- MCNames
    Encode <- MCEncode
    Compats <- MCCompats
    Files <- MCFiles
    Combos <- MCCombos
    Certs = {cert1, cert2}
    Layouts = {layout1, layout2}
    MaxChanges = 2
    MaxFailures = 2
    Lengths <- JanToMar
    MaxDays = 1
    Horizon = 66
SYMMETRY Symmetry
INVARIANTS
    BuildTypesOK ConfigsDeclared ConfigsUnique LinkedWhenRolesKept
    CapsuleConsistent UsedKept TwoMonthsKept
PROPERTIES ImplementsContract CopyFaithful
CHECK_DEADLOCK FALSE
