SPECIFICATION TeeSpec
CONSTANT MaxCuts = 1
INVARIANT OnlyMkfsFails
