\* A client payload with a KERNEL_FUNCTION type byte, or with a
\* log_level_rule_len larger than the rule it covers, trips an assert.
CONSTANTS
    Null = Null
    Patterns <- MCPatterns
    Filters <- MCFilters
    Names <- MCNames
    Levels <- MCLevels
    SymbolNameLen = 4
    MaxExclusions = 2
    BigEndian = FALSE
    SizeTBytes = 8
    Tampers = {"type", "llr_len"}
    TamperTypes = {"KERNEL_FUNCTION"}
    TamperValues = {6}
SPECIFICATION Spec
INVARIANT NoAbortOnClientPayload
