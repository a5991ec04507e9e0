SPECIFICATION BoardSpec
CONSTANTS
    short = short
    long = long
    Sms <- MCSms
    Parts <- MCParts
    MaxRef = 4
    MaxFaults = 2
    d1 = d1
    d2 = d2
    d3 = d3
    d4 = d4
    Cards = {d1, d2, d3, d4}
    Addr <- FourAddr
    MaxCuts = 3
INVARIANTS
    BoardTypesOK ScriptAlone MountedClean StoredKept
    IndexOwned StoredComplete DefaultKept FileListed StartsUnlessFaults
    CardsInOrder
PROPERTY BlankGetsMounted
