\* Client-built rules through serialize, header rewrites create_from_payload rejects,
\* create_from_payload and filter/exclusion generation, little-endian 64-bit build.
CONSTANTS
    Null = Null
    Patterns <- MCPatterns
    Filters <- MCFilters
    Names <- MCNames
    Levels <- MCLevels
    SymbolNameLen = 4
    MaxExclusions = 2
    BigEndian = FALSE
    SizeTBytes = 8
    Tampers = {"type", "domain", "llr_len"}
    TamperTypes = {"SYSCALL", "UNKNOWN"}
    TamperValues = {0, 1, 3, 4}
SPECIFICATION Spec
INVARIANT TypeOK
INVARIANT RoundTrip
INVARIANT AcceptedRuleWellFormed
INVARIANT ExclusionsReachTracer
INVARIANT AgentFilterSound
