\* Round trip on a big-endian 64-bit build: exclusion lengths are written as 0.
CONSTANTS
    Null = Null
    Patterns <- MCPatterns
    Filters <- MCFilters
    Names <- MCNames
    Levels <- MCLevels
    SymbolNameLen = 4
    MaxExclusions = 2
    BigEndian = TRUE
    SizeTBytes = 8
    Tampers = {}
    TamperTypes = {}
    TamperValues = {}
SPECIFICATION Spec
INVARIANT RoundTrip
