--------------------------- MODULE SessiondOptions ---------------------------
(***************************************************************************)
(* Option handling of lttng-sessiond (main.c): set_options() scans the     *)
(* command line for '?', loads the configuration file entry by entry       *)
(* through config_entry_handler(), then replays the command line through   *)
(* set_option(), stopping at the first error.  The inputs (the file's      *)
(* entries, the command line, whether the binary runs setuid) are chosen   *)
(* in Init; every later step is the code's.                                *)
(*                                                                         *)
(* An argument is a sequence of characters ("0".."9", letters), so that    *)
(* strtoul() and config_parse_value() are modelled by what they compute.   *)
(* Whether a command-line option was given in long or short form only      *)
(* changes the warning text, so a command-line element is the long name.   *)
(***************************************************************************)
EXTENDS Integers, FiniteSets, SequencesExt

CONSTANTS
    Null,          \* no argument (a no_argument option on the command line)
    Default,       \* the value sessiond_config_init() put in a field
    NoValue,       \* a string field after config_string_set(.., NULL)
    Args,          \* argument strings the inputs may carry
    CfgNames,      \* entry names the configuration file may hold
    CmdNames,      \* options the command line may hold ("?" = unknown)
    MaxCfg,        \* bound on the number of configuration entries
    MaxCmd,        \* bound on the number of command-line options
    AllocFailures  \* {FALSE} or {FALSE, TRUE}: whether strdup() may fail

VARIABLES
    cfg,      \* the configuration file: a sequence of [name, value]
    cmd,      \* the command line: a sequence of [name, arg]
    setuid,   \* lttng_is_setuid_setgid()
    phase,    \* "scan", "config", "cmdline", "done" (returned), "exit"
    i,        \* the configuration entry being handled
    optind,   \* getopt's global optind: the command-line option read next
    ret,      \* set_options()'s ret
    conf,     \* struct sessiond_config and opt_print_version
    oom       \* history: some strdup() failed

vars == <<cfg, cmd, setuid, phase, i, optind, ret, conf, oom>>

EINVAL == 22
ENOMEM == 12
COUNTER_BUCKET_MAX == 65535   \* EVENT_NOTIFIER_ERROR_COUNTER_NUMBER_OF_BUCKET_MAX

(* long_options[], by the branch of set_option() that handles each:       *)
(* the options whose string argument is stored as is,                     *)
StringOpts == {"client-sock", "apps-sock", "group",
               "kconsumerd-cmd-sock", "kconsumerd-err-sock",
               "ustconsumerd32-cmd-sock", "ustconsumerd32-err-sock",
               "ustconsumerd64-cmd-sock", "ustconsumerd64-err-sock",
               "consumerd32-path", "consumerd32-libdir",
               "consumerd64-path", "consumerd64-libdir",
               "pidfile", "load", "kmod-probes", "extra-kmod-probes"}
(* the no_argument options that set a boolean,                            *)
FlagOpts == {"daemonize", "background", "sig-parent", "no-kernel",
             "quiet", "version"}
(* every no_argument option, and the whole table.                         *)
NoArgOpts == FlagOpts \cup {"help", "verbose", "verbose-consumer"}
LongNames == StringOpts \cup NoArgOpts \cup
             {"agent-tcp-port", "config", "event-notifier-error-number-of-bucket"}
(* config_ignore_options[] *)
IgnoredInConfig == {"help", "version", "config"}

-----------------------------------------------------------------------------
(* Conversions.                                                           *)

DigitValue == "0" :> 0 @@ "1" :> 1 @@ "2" :> 2 @@ "3" :> 3 @@ "4" :> 4 @@
              "5" :> 5 @@ "6" :> 6 @@ "7" :> 7 @@ "8" :> 8 @@ "9" :> 9

IsDigitIn(c, base) == c \in DOMAIN DigitValue /\ DigitValue[c] < base

(* isdigit(arg[0]) *)
StartsWithDigit(s) == Len(s) > 0 /\ s[1] \in DOMAIN DigitValue

RECURSIVE Accumulate(_, _, _)
Accumulate(s, base, acc) ==
    IF s = <<>> \/ ~IsDigitIn(Head(s), base) THEN acc
    ELSE Accumulate(Tail(s), base, acc * base + DigitValue[Head(s)])

(* strtoul(arg, NULL, 0): base 16 after "0x", base 8 after a leading "0",  *)
(* base 10 otherwise; conversion stops at the first invalid digit.        *)
Strtoul(s) ==
    IF Len(s) >= 2 /\ s[1] = "0" /\ s[2] = "x" THEN Accumulate(Tail(Tail(s)), 16, 0)
    ELSE IF Len(s) >= 1 /\ s[1] = "0" THEN Accumulate(s, 8, 0)
    ELSE Accumulate(s, 10, 0)

TrueWords == {<<"y", "e", "s">>, <<"t", "r", "u", "e">>, <<"o", "n">>}
FalseWords == {<<"n", "o">>, <<"f", "a", "l", "s", "e">>, <<"o", "f", "f">>}

(* config_parse_value(): a decimal number, yes/true/on (1),               *)
(* no/false/off (0), anything else (including "") is -1.                  *)
ConfigParseValue(s) ==
    CASE s = <<>>           -> -1
      [] StartsWithDigit(s) -> Accumulate(s, 10, 0)
      [] s \in TrueWords    -> 1
      [] s \in FalseWords   -> 0
      [] OTHER              -> -1

Clamp(v) == IF v < 0 THEN 0 ELSE IF v <= 3 THEN v ELSE 3

-----------------------------------------------------------------------------
(* set_option(opt, arg, optname): the new configuration and the return    *)
(* value; "exit" when --help ends the process.  alloc = strdup() fails.   *)

Result(c, r) == [conf |-> c, ret |-> r, exit |-> FALSE]

StringOption(c, o, arg, alloc) ==
    IF arg = Null \/ arg = <<>> THEN Result(c, -EINVAL)
    ELSE IF setuid THEN Result(c, 0)
    ELSE IF alloc THEN Result([c EXCEPT !.str[o] = NoValue], -ENOMEM)
    ELSE Result([c EXCEPT !.str[o] = arg], 0)

(* the strtoul() checks of --agent-tcp-port and of the bucket count:     *)
(* a leading digit, then 0 < v < max.                                    *)
NumberOk(arg, max) == StartsWithDigit(arg) /\ Strtoul(arg) # 0
                      /\ Strtoul(arg) < max

(* Mutant: the port check written v > 65535.                             *)
AgentTcpPortUpTo65535(c, arg) ==
    IF arg = Null \/ arg = <<>> THEN Result(c, -EINVAL)
    ELSE IF setuid THEN Result(c, 0)
    ELSE IF ~NumberOk(arg, 65536) THEN Result(c, -1)
    ELSE Result([c EXCEPT !.port = Strtoul(arg)], 0)

AgentTcpPort(c, arg) ==
    IF arg = Null \/ arg = <<>> THEN Result(c, -EINVAL)
    ELSE IF setuid THEN Result(c, 0)
    ELSE IF ~NumberOk(arg, 65535) THEN Result(c, -1)
    ELSE Result([c EXCEPT !.port = Strtoul(arg)], 0)

NumberOfBucket(c, arg) ==
    IF ~NumberOk(arg, COUNTER_BUCKET_MAX) THEN Result(c, -1)
    ELSE Result([c EXCEPT !.bucket = Strtoul(arg)], 0)

(* Mutant: the clamp applied to the -v increment only.                   *)
VerboseClampOnIncrement(c, arg) ==
    Result([c EXCEPT !.verbose =
              IF arg # Null THEN ConfigParseValue(arg) ELSE Clamp(@ + 1)], 0)

Verbose(c, arg) ==
    Result([c EXCEPT !.verbose =
              Clamp(IF arg # Null THEN ConfigParseValue(arg) ELSE @ + 1)], 0)

VerboseConsumer(c, arg) ==
    Result([c EXCEPT !.verboseConsumer =
              IF arg # Null THEN ConfigParseValue(arg) ELSE @ + 1], 0)

set_option(c, o, arg, alloc) ==
    CASE o \in StringOpts        -> StringOption(c, o, arg, alloc)
      [] o \in FlagOpts          -> Result([c EXCEPT !.flags = @ \cup {o}], 0)
      [] o = "help"              -> [conf |-> c, ret |-> 0, exit |-> TRUE]
      [] o = "verbose"           -> Verbose(c, arg)
      [] o = "verbose-consumer"  -> VerboseConsumer(c, arg)
      [] o = "agent-tcp-port"    -> AgentTcpPort(c, arg)
      [] o = "event-notifier-error-number-of-bucket" -> NumberOfBucket(c, arg)
      [] o = "config"            -> Result(c, 0)
      [] OTHER                   -> Result(c, -1)

(* Mutant: config_entry_handler() without the has_arg check.             *)
ConfigEntryHandlerNoBoolCheck(c, e, alloc) ==
    CASE e.name \in IgnoredInConfig -> Result(c, 0)
      [] e.name \notin LongNames    -> Result(c, 0)
      [] OTHER                      -> set_option(c, e.name, e.value, alloc)

(* config_entry_handler(): ignored names, unknown names (a warning),      *)
(* booleans given a false or invalid value, then set_option().            *)
config_entry_handler(c, e, alloc) ==
    CASE e.name \in IgnoredInConfig -> Result(c, 0)
      [] e.name \notin LongNames    -> Result(c, 0)
      [] e.name \in NoArgOpts /\ ConfigParseValue(e.value) <= 0
                                    -> Result(c, ConfigParseValue(e.value))
      [] OTHER                      -> set_option(c, e.name, e.value, alloc)

-----------------------------------------------------------------------------
(* The process.                                                           *)

Entries == [name : CfgNames, value : Args]
Options == {[name |-> o, arg |-> IF o \in NoArgOpts \/ o = "?" THEN Null ELSE a] :
                o \in CmdNames, a \in Args}

(* sessiond_config_init(): every field at its default.                    *)
InitConf == [str |-> [o \in StringOpts |-> Default], flags |-> {},
             verbose |-> 0, verboseConsumer |-> 0,
             port |-> Default, bucket |-> Default]

Init ==
    /\ cfg \in SeqOf(Entries, MaxCfg)
    /\ cmd \in SeqOf(Options, MaxCmd)
    /\ setuid \in BOOLEAN
    /\ phase = "scan"
    /\ i = 1
    /\ optind = 1
    /\ ret = 0
    /\ conf = InitConf
    /\ oom = FALSE

(* First getopt_long() pass: '?' ends set_options() with -EINVAL; the     *)
(* --config path it records only chooses which file is read.              *)
ScanOption ==
    /\ phase = "scan" /\ optind <= Len(cmd)
    /\ IF cmd[optind].name = "?"
         THEN phase' = "done" /\ ret' = -EINVAL /\ UNCHANGED optind
         ELSE optind' = optind + 1 /\ UNCHANGED <<phase, ret>>
    /\ UNCHANGED <<cfg, cmd, setuid, i, conf, oom>>

(* getopt_long() returns -1 with optind past the last option.             *)
ScanEnd ==
    /\ phase = "scan" /\ optind > Len(cmd)
    /\ phase' = "config"
    /\ UNCHANGED <<cfg, cmd, setuid, i, optind, ret, conf, oom>>

(* config_get_section_entries() calls the handler for each entry; a       *)
(* handler error makes it return the entry's line, which set_options()    *)
(* turns into -1.                                                         *)
ConfigEntry ==
    /\ phase = "config" /\ i <= Len(cfg)
    /\ \E alloc \in AllocFailures :
         LET r == config_entry_handler(conf, cfg[i], alloc) IN
         /\ conf' = r.conf
         /\ oom' = (oom \/ r.ret = -ENOMEM)
         /\ IF r.ret # 0
              THEN phase' = "done" /\ ret' = -1 /\ UNCHANGED i
              ELSE i' = i + 1 /\ UNCHANGED <<phase, ret>>
    /\ UNCHANGED <<cfg, cmd, setuid, optind>>

(* Mutant: the command line replayed without resetting getopt's state.   *)
ConfigEndNoReset ==
    /\ phase = "config" /\ i > Len(cfg)
    /\ phase' = "cmdline"
    /\ UNCHANGED <<cfg, cmd, setuid, i, optind, ret, conf, oom>>

(* End of the file: optind = orig_optind (1), then the replay loop.       *)
ConfigEnd ==
    /\ phase = "config" /\ i > Len(cfg)
    /\ phase' = "cmdline" /\ optind' = 1
    /\ UNCHANGED <<cfg, cmd, setuid, i, ret, conf, oom>>

(* Second pass: set_option() on each option, stopping at ret < 0.         *)
CmdOption ==
    /\ phase = "cmdline" /\ optind <= Len(cmd)
    /\ \E alloc \in AllocFailures :
         LET r == set_option(conf, cmd[optind].name, cmd[optind].arg, alloc) IN
         /\ conf' = r.conf
         /\ oom' = (oom \/ r.ret = -ENOMEM)
         /\ ret' = r.ret
         /\ CASE r.exit    -> phase' = "exit" /\ UNCHANGED optind
               [] r.ret < 0 -> phase' = "done" /\ UNCHANGED optind
               [] OTHER     -> optind' = optind + 1 /\ UNCHANGED phase
    /\ UNCHANGED <<cfg, cmd, setuid, i>>

CmdEnd ==
    /\ phase = "cmdline" /\ optind > Len(cmd)
    /\ phase' = "done"
    /\ UNCHANGED <<cfg, cmd, setuid, i, optind, ret, conf, oom>>

Next == ScanOption \/ ScanEnd \/ ConfigEntry \/ ConfigEnd \/ CmdOption \/ CmdEnd

Spec == Init /\ [][Next]_vars

-----------------------------------------------------------------------------
(* What option handling promises, stated apart from set_option().         *)

(* The options the file applies: known, not ignored, and for a boolean a  *)
(* true value; then every option of the command line, in order.          *)
CfgAsOptions == [k \in 1..Len(cfg) |-> [name |-> cfg[k].name, arg |-> cfg[k].value]]
Applied ==
    SelectSeq(CfgAsOptions,
              LAMBDA e : e.name \in LongNames \ IgnoredInConfig
                         /\ (e.name \in NoArgOpts => ConfigParseValue(e.arg) > 0))
    \o cmd

(* The argument of the last applied occurrence of o, or Default.          *)
LastArg(o) ==
    LET k == SelectLastInSeq(Applied, LAMBDA e : e.name = o)
    IN IF k = 0 THEN Default ELSE Applied[k].arg

(* A verbosity level: the file's last value, plus one per command-line -v *)
CountOnCmdLine(o) == Len(SelectSeq(cmd, LAMBDA e : e.name = o))
FileLevel(o) ==
    LET k == SelectLastInSeq(CfgAsOptions, LAMBDA e : e.name = o
                                   /\ ConfigParseValue(e.arg) > 0)
    IN IF k = 0 THEN 0 ELSE ConfigParseValue(cfg[k].value)

ExpectedConf ==
    [str |-> [o \in StringOpts |-> IF setuid THEN Default ELSE LastArg(o)],
     flags |-> {f \in FlagOpts : \E k \in DOMAIN Applied : Applied[k].name = f},
     verbose |-> Min({3, Min({3, FileLevel("verbose")}) + CountOnCmdLine("verbose")}),
     verboseConsumer |-> FileLevel("verbose-consumer") + CountOnCmdLine("verbose-consumer"),
     port |-> IF setuid \/ LastArg("agent-tcp-port") = Default THEN Default
              ELSE Strtoul(LastArg("agent-tcp-port")),
     bucket |-> LET a == LastArg("event-notifier-error-number-of-bucket")
                IN IF a = Default THEN Default ELSE Strtoul(a)]

(* The documented ranges: a non-empty string, a port or bucket count in   *)
(* 1..65534 (the port is not read by a setuid binary).                   *)
ValidOption(o, arg) ==
    /\ o \in StringOpts \cup {"agent-tcp-port"} => arg # <<>>
    /\ o = "agent-tcp-port" /\ ~setuid =>
          StartsWithDigit(arg) /\ Strtoul(arg) \in 1..65534
    /\ o = "event-notifier-error-number-of-bucket" =>
          StartsWithDigit(arg) /\ Strtoul(arg) \in 1..65534

ValidEntry(e) ==
    e.name \in LongNames \ IgnoredInConfig =>
        IF e.name \in NoArgOpts THEN ConfigParseValue(e.value) >= 0
        ELSE ValidOption(e.name, e.value)

AllValid ==
    /\ \A k \in DOMAIN cfg : ValidEntry(cfg[k])
    /\ \A k \in DOMAIN cmd : cmd[k].name # "?" /\ ValidOption(cmd[k].name, cmd[k].arg)

-----------------------------------------------------------------------------
(* Properties.                                                            *)

TypeOK ==
    /\ phase \in {"scan", "config", "cmdline", "done", "exit"}
    /\ i \in 1..(MaxCfg + 1)
    /\ optind \in 1..(MaxCmd + 1)
    /\ DOMAIN conf.str = StringOpts
    /\ \A o \in StringOpts : conf.str[o] \in {Default, NoValue} \cup Args
    /\ conf.flags \subseteq FlagOpts
    /\ conf.verbose \in 0..3
    /\ conf.verboseConsumer \in Nat
    /\ conf.port = Default \/ conf.port \in 1..65534
    /\ conf.bucket = Default \/ conf.bucket \in 1..(COUNTER_BUCKET_MAX - 1)

(* When set_options() succeeds (file, then command line, main.c:813-889), *)
(* every field holds what the last applied occurrence of its option gave  *)
(* it: the command line overrides the file, false booleans in the file    *)
(* are skipped, the verbosity adds the -v flags to the file's level and   *)
(* saturates at 3, a setuid binary keeps the default paths and port.      *)
OptionsMatchReference ==
    phase = "done" /\ ret = 0 => conf = ExpectedConf

(* set_options() fails exactly when an input is outside the documented    *)
(* ranges or unknown (an allocation failure aside): every check of        *)
(* set_option() and config_entry_handler() agrees with the spec's ranges. *)
ErrorIffInvalid ==
    phase = "done" /\ ~oom => (ret = 0 <=> AllValid)

=============================================================================
