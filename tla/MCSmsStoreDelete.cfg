SPECIFICATION Spec
CONSTANTS
    short = short
    long = long
    Sms <- OneSms
    Parts <- OneParts
    MaxRef = 4
    MaxFaults = 1
INVARIANT DeletedGone
