SPECIFICATION Spec
CONSTANTS
    short = short
    long = long
    Sms <- MCSms
    Parts <- MCParts
    MaxRef = 4
    MaxFaults = 0
INVARIANT PartsIndexed
