\* The user filter of an agent-domain rule with pattern * and no log level rule.
CONSTANTS
    Null = Null
    Patterns <- MCPatterns
    Filters <- MCFilters
    Names <- MCNames
    Levels <- MCLevels
    SymbolNameLen = 4
    MaxExclusions = 2
    BigEndian = FALSE
    SizeTBytes = 8
    Tampers = {}
    TamperTypes = {}
    TamperValues = {}
SPECIFICATION Spec
INVARIANT FilterKeepsUserFilter
