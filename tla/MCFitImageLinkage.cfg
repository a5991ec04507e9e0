SPECIFICATION Spec
CONSTANTS
    board = board
    cam = cam
    lvdsComma = lvdsComma
    lvds = lvds
    c1 = c1
    c2 = c2
    c3 = c3
    Names <- MCNames
    Encode <- MCEncode
    Compats <- MCCompats
    Files <- MCFiles
    Combos <- MCCombos
INVARIANT FdtLinkage
CHECK_DEADLOCK FALSE
