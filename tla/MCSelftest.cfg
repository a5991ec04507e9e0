SPECIFICATION SelftestSpec
CONSTANTS
    Names <- MCNames
    Encode <- MCEncode
    Compats <- MCCompats
    Files <- MCFiles
    Combos <- MCCombos
    MetaNodes <- MCMetaNodes
    COMPAT_SKIP_PATTERNS <- MCSkipPatterns
    Trees <- MCTrees
    Machines <- MCMachines
    Layers <- MCLayers
    NameVariants <- Variants
    MaxFaults = 1
INVARIANTS
    SelftestTypesOK ParsedIsTree SuitePasses JudgedAsDeserved MatrixSound
CHECK_DEADLOCK FALSE
