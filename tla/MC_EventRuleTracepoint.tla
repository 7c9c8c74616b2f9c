---------------------- MODULE MC_EventRuleTracepoint ----------------------
(* Model-checking instance of EventRuleTracepoint.  Names are a symbol    *)
(* length apart around LTTNG_SYMBOL_NAME_LEN (4 here); levels straddle    *)
(* the UST range EMERG..DEBUG.                                            *)
EXTENDS EventRuleTracepoint

MCPatterns == {"", "*", "ab"}
MCFilters == {"", "x"}
MCNames == {"abc", "abcd"}
MCLevels == {-1, 6, 15}
=============================================================================
