------------------------ MODULE EventRuleTracepoint ------------------------
(***************************************************************************)
(* The tracepoint event rule (src/src/common/event-rule/tracepoint.c and  *)
(* the generic layer event-rule.c).  A client builds a rule through the   *)
(* setters, serializes it and sends it; the session daemon deserializes   *)
(* it with create_from_payload, which re-applies the setters, and then    *)
(* generates the filter and the exclusions it pushes to the tracer.       *)
(*                                                                         *)
(* The payload is a sequence of segments, each standing for the bytes one *)
(* append wrote: the event_rule_comm and tracepoint_comm headers, a       *)
(* NUL-terminated string, a log level rule blob or a uint32 length.       *)
(* Strings are TLA+ strings, so strlen() is Len().  A client may be       *)
(* hostile: it may rewrite header fields before sending.                  *)
(***************************************************************************)
EXTENDS Integers, Sequences, FiniteSets

CONSTANTS
    Null,           \* a NULL pointer
    Patterns,       \* pattern arguments given to set_pattern
    Filters,        \* filter expressions given to set_filter
    Names,          \* exclusion names given to add_exclusion
    Levels,         \* log levels of the log level rules a client builds
    SymbolNameLen,  \* LTTNG_SYMBOL_NAME_LEN
    MaxExclusions,  \* bound on the exclusions a client adds
    BigEndian,      \* byte order of the build
    SizeTBytes,     \* sizeof(size_t) of the build
    Tampers,        \* header rewrites a hostile client may apply
    TamperTypes,    \* event rule types it may write into the type byte
    TamperValues    \* values it may write into the domain or log_level_rule_len

ASSUME SizeTBytes \in {4, 8} /\ BigEndian \in BOOLEAN
ASSUME Tampers \subseteq {"type", "domain", "llr_len"}

VARIABLES
    rule,       \* the client's rule, or Null
    status,     \* the status the last setter returned
    sent,       \* the rule that was serialized, or Null
    wire,       \* the payload, << >> before sending
    tampered,   \* a hostile client rewrote the payload
    rx,         \* daemon side: [ret, rule] from create_from_payload, or Null
    prepared    \* daemon side: the internal filter and exclusions, or Null

vars == <<rule, status, sent, wire, tampered, rx, prepared>>

(* enum lttng_domain_type *)
NONE == 0
KERNEL == 1
UST == 2
JUL == 3
LOG4J == 4
PYTHON == 5
AgentDomains == {JUL, LOG4J, PYTHON}

(* enum lttng_loglevel: EMERG .. DEBUG *)
LOGLEVEL_EMERG == 0
LOGLEVEL_DEBUG == 14

LogLevelRules == [type : {"exactly", "at_least"}, level : Levels]

-----------------------------------------------------------------------------
(* lttng_event_rule_tracepoint_create(): NULL for LTTNG_DOMAIN_NONE,      *)
(* otherwise pattern "*" and nothing else set.                            *)
TracepointCreate(d) ==
    IF d = NONE THEN Null
    ELSE [domain |-> d, pattern |-> "*", filter |-> Null, llr |-> Null,
          exclusions |-> << >>]

(* lttng_event_rule_tracepoint_validate() *)
Validate(r) == r.pattern # Null /\ r.domain # NONE

(* A setter's result: the status and the rule it leaves.                  *)
Result(st, r) == [status |-> st, rule |-> r]

(* Mutant: the strlen(pattern) == 0 check dropped. *)
SetPatternAcceptsEmpty(r, p) == Result("OK", [r EXCEPT !.pattern = p])

SetPattern(r, p) ==
    IF p = "" THEN Result("INVALID", r) ELSE Result("OK", [r EXCEPT !.pattern = p])

SetFilter(r, f) ==
    IF f = "" THEN Result("INVALID", r) ELSE Result("OK", [r EXCEPT !.filter = f])

DomainSupportsLogLevels(d) == d # KERNEL

(* log_level_rule_valid(): never for the kernel, EMERG..DEBUG for UST,    *)
(* any int for the agent domains.                                         *)
LogLevelRuleValid(l, d) ==
    \/ d = UST /\ l.level >= LOGLEVEL_EMERG /\ l.level <= LOGLEVEL_DEBUG
    \/ d \in AgentDomains

SetLogLevelRule(r, l) ==
    CASE ~DomainSupportsLogLevels(r.domain) -> Result("UNSUPPORTED", r)
      [] ~LogLevelRuleValid(l, r.domain)    -> Result("INVALID", r)
      [] OTHER                              -> Result("OK", [r EXCEPT !.llr = l])

(* Mutants: the domain switch dropped; ">" for ">=" on the name length. *)
AddExclusionAnyDomain(r, e) ==
    IF Len(e) >= SymbolNameLen THEN Result("INVALID", r)
    ELSE Result("OK", [r EXCEPT !.exclusions = Append(@, e)])

AddExclusionOffByOne(r, e) ==
    CASE r.domain # UST           -> Result("UNSUPPORTED", r)
      [] Len(e) > SymbolNameLen   -> Result("INVALID", r)
      [] OTHER -> Result("OK", [r EXCEPT !.exclusions = Append(@, e)])

AddExclusion(r, e) ==
    CASE r.domain # UST           -> Result("UNSUPPORTED", r)
      [] Len(e) >= SymbolNameLen  -> Result("INVALID", r)
      [] OTHER -> Result("OK", [r EXCEPT !.exclusions = Append(@, e)])

-----------------------------------------------------------------------------
(* Serialization.  A uint32 length written from a size_t: the code hands  *)
(* &len and sizeof(uint32_t) to the append, so it writes the first four   *)
(* bytes of the size_t in memory: the low half on a little-endian build   *)
(* or with a 4-byte size_t, the high half (0 for any length below 2^32)   *)
(* on a big-endian build with an 8-byte size_t.                           *)
Uint32FromSizeT(n) ==
    IF BigEndian /\ SizeTBytes = 8 THEN 0 ELSE n

Str(s) == [seg |-> "str", s |-> s]

(* lttng_log_level_rule_serialize(): nothing for NULL, else an int8 type  *)
(* and an int32 level.                                                    *)
LogLevelRuleSerialize(l) ==
    IF l = Null THEN << >> ELSE << [seg |-> "llr", type |-> l.type, level |-> l.level] >>

LlrCommSize == 5

SegSize(g) ==
    CASE g.seg = "str"    -> Len(g.s) + 1
      [] g.seg = "llr"    -> LlrCommSize
      [] g.seg = "u32"    -> 4
      [] g.seg = "header" -> 21
      [] g.seg = "type"   -> 1

ExclusionSegments(ex) ==
    [i \in 1..2 * Len(ex) |->
        IF i % 2 = 1 THEN [seg |-> "u32", v |-> Uint32FromSizeT(Len(ex[(i + 1) \div 2]) + 1)]
                     ELSE Str(ex[i \div 2])]

RECURSIVE SumSizes(_)
SumSizes(gs) == IF gs = << >> THEN 0 ELSE SegSize(Head(gs)) + SumSizes(Tail(gs))

(* Mutants: filter_len without the NUL; log_level_rule_len back-patched   *)
(* after the exclusions were appended.                                    *)
SerializeFilterLenNoNul(r) ==
    LET llr == LogLevelRuleSerialize(r.llr)
        ex  == ExclusionSegments(r.exclusions)
    IN << [seg |-> "type", type |-> "TRACEPOINT"],
          [seg |-> "header", domain |-> r.domain,
           pattern_len |-> Len(r.pattern) + 1,
           filter_len |-> IF r.filter = Null THEN 0 ELSE Len(r.filter),
           llr_len |-> SumSizes(llr),
           exclusions_count |-> Len(r.exclusions),
           exclusions_len |-> SumSizes(ex)],
          Str(r.pattern) >>
       \o (IF r.filter = Null THEN << >> ELSE << Str(r.filter) >>)
       \o llr \o ex

(* lttng_event_rule_serialize() then lttng_event_rule_tracepoint_serialize(): *)
(* header, pattern, filter, log level rule, and each exclusion as a length *)
(* and its bytes; log_level_rule_len is back-patched into the header.     *)
Serialize(r) ==
    LET llr == LogLevelRuleSerialize(r.llr)
        ex  == ExclusionSegments(r.exclusions)
    IN << [seg |-> "type", type |-> "TRACEPOINT"],
          [seg |-> "header", domain |-> r.domain,
           pattern_len |-> Len(r.pattern) + 1,
           filter_len |-> IF r.filter = Null THEN 0 ELSE Len(r.filter) + 1,
           llr_len |-> SumSizes(llr),
           exclusions_count |-> Len(r.exclusions),
           exclusions_len |-> SumSizes(ex)],
          Str(r.pattern) >>
       \o (IF r.filter = Null THEN << >> ELSE << Str(r.filter) >>)
       \o llr \o ex

-----------------------------------------------------------------------------
(* Deserialization.  A read of a NUL-terminated string of declared length *)
(* L at a segment succeeds when L is its length with the NUL; a view of   *)
(* zero bytes, or one ending before the NUL, holds no string.             *)
ReadStr(w, i, L) ==
    IF i <= Len(w) /\ w[i].seg = "str" /\ L = Len(w[i].s) + 1 THEN w[i].s ELSE Null

Remaining(w, i) == IF i > Len(w) THEN 0 ELSE SumSizes(SubSeq(w, i, Len(w)))

(* lttng_log_level_rule_create_from_payload() on a view of L bytes: -1    *)
(* when the view overruns the payload or holds no rule, else the size it  *)
(* consumed, which is the size of a rule whatever L is.                   *)
LogLevelRuleCreateFromPayload(w, i, L) ==
    IF L <= Remaining(w, i) /\ i <= Len(w) /\ w[i].seg = "llr" /\ L >= LlrCommSize
    THEN [ret |-> LlrCommSize, llr |-> [type |-> w[i].type, level |-> w[i].level]]
    ELSE [ret |-> -1, llr |-> Null]

(* The exclusion whose uint32 length is at segment j. *)
ReadExclusion(w, j) ==
    IF j <= Len(w) /\ w[j].seg = "u32" THEN ReadStr(w, j + 1, w[j].v) ELSE Null

RECURSIVE AddExclusions(_, _)
AddExclusions(res, es) ==
    IF es = << >> \/ res.status # "OK" THEN res
    ELSE IF Head(es) = Null THEN Result("ERROR", res.rule)
    ELSE AddExclusions(AddExclusion(res.rule, Head(es)), Tail(es))

Ret(kind, r) == [ret |-> kind, rule |-> r]

(* The header's domain_type check: NONE < d <= PYTHON. *)
DomainInRange(d) == d > NONE /\ d <= PYTHON

(* lttng_event_rule_tracepoint_create_from_payload(): check the domain,   *)
(* map pattern, filter and log level rule, assert that the rule consumed  *)
(* log_level_rule_len bytes, add each exclusion, then set the pattern,    *)
(* the filter and the log level rule through the setters.                 *)
TracepointCreateFromPayload(w) ==
    LET h   == w[2]
        d   == h.domain
        pat == ReadStr(w, 3, h.pattern_len)
        fi  == IF h.filter_len = 0 THEN 0 ELSE 1
        flt == IF fi = 0 THEN Null ELSE ReadStr(w, 4, h.filter_len)
        li  == 4 + fi
        llr == LogLevelRuleCreateFromPayload(w, li, h.llr_len)
        ei  == li + (IF h.llr_len = 0 THEN 0 ELSE 1)
        exs == [k \in 1..h.exclusions_count |-> ReadExclusion(w, ei + 2 * (k - 1))]
        withEx  == AddExclusions(Result("OK", TracepointCreate(d)), exs)
        withPat == SetPattern(withEx.rule, pat)
        withFlt == IF flt = Null THEN withPat ELSE SetFilter(withPat.rule, flt)
        withLlr == IF h.llr_len = 0 THEN withFlt ELSE SetLogLevelRule(withFlt.rule, llr.llr)
    IN CASE ~DomainInRange(d)                        -> Ret("error", Null)
         [] pat = Null                                -> Ret("error", Null)
         [] fi = 1 /\ flt = Null                      -> Ret("error", Null)
         [] h.llr_len # 0 /\ llr.ret < 0              -> Ret("error", Null)
         [] h.llr_len # 0 /\ llr.ret # h.llr_len      -> Ret("abort", Null)
         [] withEx.status # "OK"                      -> Ret("error", Null)
         [] withPat.status # "OK"                     -> Ret("error", Null)
         [] withFlt.status # "OK"                     -> Ret("error", Null)
         [] withLlr.status # "OK"                     -> Ret("error", Null)
         [] OTHER                                     -> Ret("ok", withLlr.rule)

(* lttng_event_rule_create_from_payload(): dispatch on the type byte;     *)
(* KERNEL_FUNCTION has no deserializer and trips assert(create_from_payload). *)
(* A rule the deserializer built but validate() refuses is returned with  *)
(* -1: *event_rule was already set.                                       *)
CreateFromPayload(w) ==
    CASE w[1].type = "KERNEL_FUNCTION" -> Ret("abort", Null)
      [] w[1].type # "TRACEPOINT"      -> Ret("error", Null)
      [] OTHER ->
           LET r == TracepointCreateFromPayload(w)
           IN IF r.ret = "ok" /\ ~Validate(r.rule) THEN Ret("error", r.rule) ELSE r

(* lttng_event_rule_tracepoint_get_exclusions_count() *)
GetExclusionsCount(r) == Len(r.exclusions)

(* lttng_event_rule_tracepoint_get_exclusion_at_index(): the exclusion at *)
(* index i (from 0).  An index at or past the count also returns OK but   *)
(* leaves *exclusion untouched: the caller reads what its variable held.  *)
GetExclusionAtIndex(r, i, held) ==
    IF i >= GetExclusionsCount(r) THEN held ELSE r.exclusions[i + 1]

(* lttng_event_rule_tracepoint_is_equal(): domain, exclusion count,       *)
(* filter presence, pattern, filter, log level rule, exclusions in order. *)
IsEqual(a, b) ==
    /\ a.domain = b.domain
    /\ Len(a.exclusions) = Len(b.exclusions)
    /\ (a.filter = Null) = (b.filter = Null)
    /\ a.pattern = b.pattern
    /\ a.filter = b.filter
    /\ a.llr = b.llr
    /\ \A i \in 0..(GetExclusionsCount(a) - 1) :
           GetExclusionAtIndex(a, i, "") = GetExclusionAtIndex(b, i, "")

-----------------------------------------------------------------------------
(* lttng_event_rule_tracepoint_get_filter() and _get_log_level_rule():   *)
(* status UNSET when the member is NULL, OK and the member otherwise.     *)
Getter(v) == IF v = Null THEN [status |-> "UNSET"] ELSE [status |-> "OK", val |-> v]
GetFilter(r) == Getter(r.filter)
GetLogLevelRule(r) == Getter(r.llr)

(* The filter handed to the bytecode compiler, as the expression it       *)
(* denotes: "(A) && (B)" is an And node, the rest are predicates.          *)
And(a, b) == [k |-> "and", l |-> a, r |-> b]
UserFilter(f) == [k |-> "user", f |-> f]
LoggerName(p) == [k |-> "logger", p |-> p]
LogLevelOpSwapped(l) == IF l.type = "exactly" THEN ">=" ELSE "=="
LogLevelOp(l) == IF l.type = "exactly" THEN "==" ELSE ">="
IntLogLevel(l) == [k |-> "loglevel", op |-> LogLevelOp(l), level |-> l.level]

RECURSIVE Conjuncts(_)
Conjuncts(e) ==
    IF e = Null THEN {}
    ELSE IF e.k = "and" THEN Conjuncts(e.l) \cup Conjuncts(e.r) ELSE {e}

(* generate_agent_filter(): a logger_name predicate unless the pattern is *)
(* "*", joined to the user filter; then, with a log level rule, an        *)
(* int_loglevel predicate joined to whichever of the two exists.  The    *)
(* pattern getter cannot fail here: the daemon only holds rules that      *)
(* passed validate, which requires a pattern.                             *)
GenerateAgentFilter(r) ==
    LET filter  == IF GetFilter(r).status = "OK" THEN GetFilter(r).val ELSE Null
        named == IF r.pattern = "*" THEN Null
                 ELSE IF filter # Null THEN And(UserFilter(filter), LoggerName(r.pattern))
                 ELSE LoggerName(r.pattern)
        llr == GetLogLevelRule(r)
    IN IF llr.status # "OK" THEN named
       ELSE IF filter # Null \/ named # Null
            THEN And(IF named # Null THEN named ELSE UserFilter(filter), IntLogLevel(llr.val))
            ELSE IntLogLevel(llr.val)

(* lttng_event_rule_tracepoint_generate_filter_bytecode(): the agent      *)
(* filter for agent domains, the user filter otherwise; no bytecode when  *)
(* the internal filter is NULL.                                           *)
InternalFilter(r) ==
    IF r.domain \in AgentDomains THEN GenerateAgentFilter(r)
    ELSE IF GetFilter(r).status = "OK" THEN UserFilter(GetFilter(r).val) ELSE Null

(* lttng_strncpy() into a LTTNG_SYMBOL_NAME_LEN buffer fails on a name    *)
(* that does not fit with its NUL.                                        *)
FitsSymbolName(s) == Len(s) < SymbolNameLen

(* The copy loop of generate_exclusions() with bound n.  exclusion_str is *)
(* an uninitialised local of the loop body; the build keeps it in one     *)
(* stack slot, so an index the getter leaves unset reads the previous     *)
(* iteration's name.                                                      *)
RECURSIVE CopyExclusions(_, _, _, _, _)
CopyExclusions(r, i, n, held, names) ==
    IF i >= n THEN [status |-> "OK", names |-> names]
    ELSE LET e == GetExclusionAtIndex(r, i, held)
         IN IF ~FitsSymbolName(e) THEN [status |-> "ERROR", names |-> << >>]
            ELSE CopyExclusions(r, i + 1, n, e, Append(names, e))

(* Mutant: the copy loop of generate_exclusions() written i <= count.    *)
GenerateExclusionsPastCount(r) ==
    IF r.domain # UST \/ GetExclusionsCount(r) = 0 THEN [status |-> "NONE", names |-> << >>]
    ELSE CopyExclusions(r, 0, GetExclusionsCount(r) + 1, "", << >>)

(* lttng_event_rule_tracepoint_generate_exclusions(): nothing outside UST *)
(* or without exclusions, else every exclusion copied in index order.     *)
GenerateExclusions(r) ==
    IF r.domain # UST \/ GetExclusionsCount(r) = 0 THEN [status |-> "NONE", names |-> << >>]
    ELSE CopyExclusions(r, 0, GetExclusionsCount(r), "", << >>)

(* lttng_event_rule_tracepoint_generate_lttng_event(): the legacy event   *)
(* descriptor, NULL when the pattern does not fit in the name.            *)
GenerateLttngEvent(r) ==
    LET llr == GetLogLevelRule(r)
    IN IF ~FitsSymbolName(r.pattern) THEN Null
       ELSE [name |-> r.pattern,
             loglevel_type |-> IF llr.status = "UNSET" THEN "ALL"
                               ELSE IF llr.val.type = "exactly" THEN "SINGLE" ELSE "RANGE",
             loglevel |-> IF llr.status = "UNSET" THEN 0 ELSE llr.val.level]

-----------------------------------------------------------------------------
Init ==
    /\ rule = Null
    /\ status = "OK"
    /\ sent = Null
    /\ wire = << >>
    /\ tampered = FALSE
    /\ rx = Null
    /\ prepared = Null

DaemonUnchanged == UNCHANGED <<sent, wire, tampered, rx, prepared>>

Create(d) ==
    /\ rule = Null
    /\ rule' = TracepointCreate(d)
    /\ UNCHANGED status /\ DaemonUnchanged

(* A setter call on the client's rule. *)
Apply(res) == rule' = res.rule /\ status' = res.status /\ DaemonUnchanged

ClientSetPattern(p) == rule # Null /\ Apply(SetPattern(rule, p))
ClientSetFilter(f) == rule # Null /\ Apply(SetFilter(rule, f))
ClientSetLogLevelRule(l) == rule # Null /\ Apply(SetLogLevelRule(rule, l))
ClientAddExclusion(e) ==
    /\ rule # Null
    /\ Len(rule.exclusions) < MaxExclusions
    /\ Apply(AddExclusion(rule, e))

Send ==
    /\ rule # Null /\ wire = << >>
    /\ wire' = Serialize(rule)
    /\ sent' = rule
    /\ UNCHANGED <<rule, status, tampered, rx, prepared>>

(* A hostile client rewrites a header field of the payload it sends. *)
Tamper(field, v) ==
    /\ wire # << >> /\ rx = Null
    /\ field \in Tampers
    /\ wire' = CASE field = "type"   -> [wire EXCEPT ![1].type = v]
                 [] field = "domain" -> [wire EXCEPT ![2].domain = v]
                 [] OTHER            -> [wire EXCEPT ![2].llr_len = v]
    /\ wire' # wire
    /\ tampered' = TRUE
    /\ UNCHANGED <<rule, status, sent, rx, prepared>>

Receive ==
    /\ wire # << >> /\ rx = Null
    /\ rx' = CreateFromPayload(wire)
    /\ UNCHANGED <<rule, status, sent, wire, tampered, prepared>>

(* The daemon generates what it pushes to the tracer for an accepted rule. *)
Prepare ==
    /\ rx # Null /\ rx.ret = "ok" /\ prepared = Null
    /\ prepared' = [filter |-> InternalFilter(rx.rule),
                    exclusions |-> GenerateExclusions(rx.rule),
                    event |-> GenerateLttngEvent(rx.rule)]
    /\ UNCHANGED <<rule, status, sent, wire, tampered, rx>>

TamperChoices ==
    ({"type"} \X TamperTypes) \cup ({"domain", "llr_len"} \X TamperValues)

Next ==
    \/ \E d \in NONE..PYTHON : Create(d)
    \/ \E p \in Patterns : ClientSetPattern(p)
    \/ \E f \in Filters : ClientSetFilter(f)
    \/ \E l \in LogLevelRules : ClientSetLogLevelRule(l)
    \/ \E e \in Names : ClientAddExclusion(e)
    \/ Send
    \/ \E c \in TamperChoices : Tamper(c[1], c[2])
    \/ Receive
    \/ Prepare

Spec == Init /\ [][Next]_vars

-----------------------------------------------------------------------------
Rules == [domain : KERNEL..PYTHON, pattern : Patterns \ {""},
          filter : (Filters \ {""}) \cup {Null}, llr : LogLevelRules \cup {Null},
          exclusions : UNION {[1..n -> Names] : n \in 0..MaxExclusions}]

TypeOK ==
    /\ rule \in Rules \cup {Null}
    /\ sent \in Rules \cup {Null}
    /\ status \in {"OK", "INVALID", "UNSUPPORTED", "ERROR"}
    /\ tampered \in BOOLEAN
    /\ rx = Null \/ rx.ret \in {"ok", "error", "abort"}
    /\ rx # Null /\ rx.ret = "ok" => rx.rule \in Rules

(* An unaltered payload deserializes, through create_from_payload and its *)
(* setters, into a rule is_equal() to the one serialized: lengths, the    *)
(* back-patched log_level_rule_len and each exclusion length agree.       *)
RoundTrip ==
    rx # Null /\ ~tampered => rx.ret = "ok" /\ IsEqual(rx.rule, sent)

(* Whatever a client sends, a rule the daemon accepts obeys the domain    *)
(* rules of the setters: exclusions only for UST, a log level rule only   *)
(* where the domain accepts its level.                                    *)
AcceptedRuleWellFormed ==
    rx # Null /\ rx.ret = "ok" =>
        /\ rx.rule.exclusions # << >> => rx.rule.domain = UST
        /\ rx.rule.llr # Null => DomainSupportsLogLevels(rx.rule.domain)
                                 /\ LogLevelRuleValid(rx.rule.llr, rx.rule.domain)

(* create_from_payload() rejects a malformed payload with -1; it never    *)
(* aborts the daemon on what a client sent.                               *)
NoAbortOnClientPayload == rx # Null => rx.ret # "abort"

(* Every exclusion of an accepted rule reaches the tracer:                *)
(* generate_exclusions() copies each name, in order, into a               *)
(* LTTNG_SYMBOL_NAME_LEN slot; add_exclusion() admitted only names that   *)
(* fit.                                                                   *)
ExclusionsReachTracer ==
    prepared # Null =>
        /\ prepared.exclusions.status # "ERROR"
        /\ prepared.exclusions.names =
               IF rx.rule.domain = UST THEN rx.rule.exclusions ELSE << >>

(* The predicates the specification asks of the filter generated for a    *)
(* rule: the user filter, logger_name for a pattern other than "*" in an  *)
(* agent domain, and int_loglevel for a log level rule in one.            *)
ReferenceFilter(r) ==
    (IF r.filter # Null THEN {UserFilter(r.filter)} ELSE {})
    \cup (IF r.domain \in AgentDomains /\ r.pattern # "*" THEN {LoggerName(r.pattern)} ELSE {})
    \cup (IF r.domain \in AgentDomains /\ r.llr # Null
          THEN {[k |-> "loglevel", op |-> IF r.llr.type = "exactly" THEN "==" ELSE ">=",
                 level |-> r.llr.level]}
          ELSE {})

(* generate_filter_bytecode() tests only what the rule asks, with the     *)
(* right operator and level, and never omits the logger_name or           *)
(* int_loglevel predicate of an agent rule.                               *)
AgentFilterSound ==
    prepared # Null =>
        LET got == Conjuncts(prepared.filter)
            ref == ReferenceFilter(rx.rule)
        IN got \subseteq ref /\ ref \ {UserFilter(rx.rule.filter)} \subseteq got

(* The user's filter expression is part of the filter generated for the   *)
(* rule, whatever its domain and pattern.                                 *)
FilterKeepsUserFilter ==
    prepared # Null => Conjuncts(prepared.filter) = ReferenceFilter(rx.rule)
=============================================================================
