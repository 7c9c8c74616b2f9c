# TLA+ models of the LTTng session daemon

This directory holds TLA+ models of parts of `lttng-sessiond` and of the event-rule
library it shares with its clients, with the TLC configurations that check them.
Every definition is translated from the C source under `src/`; `PROJECT.json` maps
each definition to the lines it models (`map`), lists the runs, the mutants that
show each property can fail, the findings and the hazards.

## 1. The system

| Part | Source | What it does |
|---|---|---|
| Daemon bring-up and teardown | `src/src/bin/lttng-sessiond/main.c` `main()` | ~40 sequential bring-up steps (signal handler, options, run-as worker, pipes, hash tables, error accounting, kernel tracer, consumer sockets, pid file, then the worker threads), each of which may fail and `goto` a cleanup label; a wait on the thread quit pipe; a fixed teardown order. |
| Signal handling | `sighandler`, `stop_threads` | SIGINT/SIGTERM write the quit pipe. |
| Teardown helpers | `sessiond_cleanup`, `close_consumer_sockets`, `wait_consumer`, `destroy_all_sessions_and_wait`, `unregister_all_triggers` | close pipes and files, hang up on the consumer daemons and reap them with `waitpid()`, destroy every session, unregister every trigger through the notification thread. |
| Options | `set_option`, `set_options`, `config_entry_handler` | config file then command line; ranges for verbose, agent port, error-counter bucket count; setuid refusal of paths. |
| Event-notifier error accounting | `event-notifier-error-accounting.h` (interface only) | a pool of `nb_bucket` error-counter indices, one per registered event-notifier trigger. |
| Tracepoint event rule | `src/src/common/event-rule/tracepoint.c` | setters with domain rules, serialize / create_from_payload, is_equal, hash, filter and exclusion generation. |
| Generic event rule | `src/src/common/event-rule/event-rule.c` | type byte, dispatch on deserialization, validation, refcount. |
| UST field matching | `src/src/bin/lttng-sessiond/ust-field-utils.c` | structural comparison of tracer field descriptions. |
| Error strings | `src/src/common/error.c` | `error_get_str` clamps a code into a table; logging. |

How they interact: `main()` creates the shared handles (quit pipe, channel monitor pipes,
rotation queue, notification handle, error accounting, kernel tracer fds) and passes them to
worker threads. Worker threads poll the quit pipe and return when it is written; the
notification and hash-table-cleanup threads are stopped by their own shutdown command.
The client thread serves commands: creating and destroying sessions, registering triggers
(the notification thread allocates an error-counter index for each) and spawning the
consumer daemons, separate processes that exit when the daemon closes their sockets.
Clients send event
rules serialized; the daemon deserializes them with `create_from_payload`, then generates
the filter bytecode and exclusions it pushes to the tracer.

Hard behaviours: a signal racing the bring-up, any bring-up step failing, teardown steps
that block on another thread, a client still running while teardown destroys sessions,
resources freed while a thread still uses them, untrusted payloads, byte order.

## 2. Modules

### `SessiondLifecycle` (+ `MC_SessiondLifecycle`)

State: `pc` (main's position: `init`, `wait`, one label per teardown step, `exited`,
`crashed`), `step` (index into the bring-up table), `retval`, `exitCode`, `threads`
(each worker: none/running/exited/joined), `res` (each shared handle: none/live/destroyed),
`quitWritten`, `signals`/`signalled`, `failed`, `isRoot`/`noKernel` (chosen in `Init`),
`sessions`, `registered` (triggers holding an error-counter index), `consumers` (each
consumer daemon of the constant `Consumers`: none/running/exited/reaped) and
`consumerSocksClosed`.

Bring-up is three tables of records (`PreThreadSteps`, `ResourceSteps`, `ThreadSteps`):
one record per step of `main()` with the condition it runs under (always, `is_root`,
`is_root && !no_kernel`), the resources or thread it creates, the label a failure jumps
to and the `retval` it sets there. `InitStep` performs a step (or skips it), `InitFail`
takes its failure path: `ignored` for the two calls whose result main() does not check,
`stop_threads_notify` for `rotation_thread_handle_create` whose failure also calls
`stop_threads()`. `config_load_session` may load sessions.

Teardown is one action per step of main() after `stop_threads:`, in code order:
`ShutdownClient`, `DestroyAllSessions`, `UnregisterAllTriggers`, `ShutdownRegApps`,
`ShutdownOrphans`, `SessiondCleanup`, `WaitConsumer`, `ShutdownNotification`, `ErrorAccountingFini`,
`ModprobeRemove`, `ShutdownHtCleanup`, `DestroyHandles`, `ExitOptions`, `Exit`.
`UnregisterAllTriggers` crashes when the notification handle was never created and
cannot proceed while the notification thread is not running (the command is served by it).
`sessiond_cleanup()` is split at its first blocking call: `SessiondCleanup` closes the
pipes and every consumer socket (`CloseConsumerSockets`), and `WaitConsumer` is the three
`wait_consumer()` calls, which block while a consumer runs. It reaps the exited ones and
then runs `cleanup_kernel_tracer()`.

Environment: `Signal` (bounded by `MaxSignals`), `WorkerQuit` (a quit-pipe poller returns),
client commands `CreateSession`, `DestroySession`, `RegisterTrigger` (bounded by
`NbBucket`), `UnregisterTrigger`; the consumer daemons: `SpawnConsumer` (by the client
thread; the kernel consumer only with the kernel tracer), `ConsumerHangup` (exit once the
daemon has closed its sockets) and `ConsumerCrash` (death at any time, a fault the code
must absorb: `waitpid()` still reaps it). A running kernel consumer uses the kernel
tracer's fds and modules (`ConsumerUses`). `Blocked` is main blocked in a wait (and the process
after exit): a self-loop, so deadlock checking stays on and flags only unexpected stops.

`Uses(t)` and `Deps(r)` record which handles a thread touches and which handles a live
handle holds, from the arguments main() passes.

The callees outside `src/` (thread library, notification thread commands, session and
trigger commands, the consumer daemon process) are modelled from the spec and marked `spec_modelled` in the map.

### `SessiondService` (refined by `SessiondLifecycle`)

The daemon as its clients see it, with no threads, pipes or bring-up steps. The state is
`phase` (`running`, `closing` or `exited`), `sessions` and `triggers`. While running, the
daemon creates, loads and destroys sessions and registers and unregisters triggers (at
most `NbBucket` of them). `Close` ends the service. Then `DestroyAll` empties the sessions
and, only after that, `UnregisterAll` empties the triggers. `Exit` happens only when
neither is left. `WF_vars(Closing)` says that a closing daemon always exits.

`SessiondLifecycle` instantiates it as `Service` with `phase <- ServicePhase`, `sessions`
and `triggers <- registered`. `ServicePhase` is `running` while main() is in bring-up,
in the quit-pipe wait or at `stop_threads`. It is `exited` after `Exit`, and `closing` in
every teardown step in between. Each teardown step other than `ShutdownClient`,
`DestroyAllSessions`, `UnregisterAllTriggers` and `Exit` is a stuttering step of the
service. `ServiceSpec` is checked as a `PROPERTY`.

### `UstFieldMatch`

`match_ustctl_field()` and its helpers decide whether two field descriptions sent by
applications are identical. The model represents a field as a record: its name, its
`atype`, and `u`, a function from every member path of the type union (for example
`legacy.basic.integer.size`) to 0 or 1. Members of types other than the field's own are
present and hold arbitrary values. A nested `ustctl_basic_type` has its own `atype` path.
Its values 0 and 1 stand for integer and string.

There is one operator per C function, with one conjunct per `!=` or `strncmp` test, and a
`CASE` per `switch`. `SameLayout` is the reference: the fields have equal names and equal
types, and they agree on every member that the ABI layout of that type uses
(`LayoutPaths`). `Init` picks a pair of fields:
- every type with all members 0, and the sequence and array types with one nested type
  a string;
- each of those with one member, or the name, changed, in both argument orders.

`Compare` is one call. The model has no `TypeOK`: the fields are built by construction
from `Paths`.

### `SessiondOptions` (+ `MC_SessiondOptions`)

State: the inputs `cfg` (configuration file entries), `cmd` (command line) and `setuid`,
chosen in `Init`; `phase`, `i` (the file entry being handled) and `optind` (getopt's global
cursor into the command line), `ret`, `conf` (the fields of
`struct sessiond_config` that options set, and `opt_print_version` as a flag), `oom`
(history: a `strdup()` failed). Actions follow `set_options()`: `ScanOption`/`ScanEnd`
(first getopt pass, `'?'` fails), `ConfigEntry`/`ConfigEnd` (each file entry through
`config_entry_handler`, an error becomes -1; `ConfigEnd` is the reset `optind =
orig_optind` of main.c:860-861), `CmdOption`/`CmdEnd` (the second pass through
`set_option`, stopping at the first negative return, `--help` exits). The first pass
leaves `optind` past the last option, so the replay only happens because of the reset.
`set_option` is an operator with one case per branch of the C function; arguments are
character sequences, so `strtoul(arg, NULL, 0)` (with its octal and hex prefixes),
`isdigit(arg[0])` and the verbosity clamp compute what the code computes.
`config_parse_value` and `sessiond_config_init` are outside `src/` and modelled from
the spec. The properties compare the result with `ExpectedConf`, a declarative
reference (the last applied occurrence of each option wins, the file's false booleans are
skipped, -v adds to the file's level) and with `AllValid` (the documented ranges).

### `EventRuleTracepoint` (+ `MC_EventRuleTracepoint`)

State: `rule` (the client's rule: domain, pattern, filter, log level rule, exclusions),
`status` (last setter result), `sent`, `wire` (the payload), `tampered`, `rx` (result of
`create_from_payload`: ok/error/abort and the rule), `prepared` (internal filter,
exclusions and legacy event generated by the daemon).

The payload is a sequence of segments, one per append of the serializer (type byte,
`tracepoint_comm` header, string, log level rule blob, uint32 length); strings are TLA+
strings so `strlen` is `Len`. `Uint32FromSizeT` models the `&len, sizeof(uint32_t)`
append by what it writes on each byte order. `TracepointCreateFromPayload` follows the
order of the C function: domain check, pattern, filter, log level rule (with its assert),
exclusions through `add_exclusion`, then the setters. The generated filter is an
expression tree (`And`, user filter, `logger_name`, `int_loglevel`) flattened by the
recursive `Conjuncts`. The exclusion getters are modelled as the code has them.
`GetExclusionAtIndex` returns OK for an index at or past the count but leaves the
caller's variable as it was. Every loop over the exclusions (`IsEqual`, and
`CopyExclusions` in `GenerateExclusions`) reads through the getter, so an off-by-one
loop bound copies a stale name. The filter and log level rule getters (`GetFilter`,
`GetLogLevelRule`) return UNSET for a NULL member, and `GenerateAgentFilter`,
`InternalFilter` and `GenerateLttngEvent` branch on that status as the C code does. A rule that `validate()` refuses after deserialization
is returned beside -1, as `lttng_event_rule_create_from_payload` does. Actions: `Create`, the four setters, `Send`, `Tamper` (a hostile
client rewrites the type byte, domain or `log_level_rule_len`), `Receive`, `Prepare`.

## 3. Runs

| Run | Expect | Checks |
|---|---|---|
| `lifecycle_safety` | pass | `TypeOK`, `NoUseAfterDestroy`, `NoSessionAfterDestroyAll`, `NoTriggerAtErrorAccountingFini` with every bring-up step allowed to fail, root and non-root, kernel on/off, one signal, two triggers registered at once, client commands and a kernel consumer interleaved. `NoUseAfterDestroy` includes the kernel tracer staying alive until the kernel consumer is reaped (~2.1M states). |
| `lifecycle_liveness` | pass | `ConsumersReaped`: the daemon exits only after reaping the consumer it spawned, even one that died on its own. `QuitLeadsToExit`: a written quit pipe leads to `exited`, with the failures after the notification thread starts and a UST consumer that must be hung up on before it is waited for. `ServiceSpec`: main() refines `SessiondService` (~380k states). |
| `lifecycle_lost_signal` | violation | `SignalLeadsToExit`: a signal between lines 1391 and 1535 is lost and the daemon waits forever. |
| `lifecycle_exit_status` | violation | `ExitStatusReflectsFailure`: resolve-paths or run-as-worker failure exits 0. |
| `lifecycle_early_failure` | violation | `FailureLeadsToExit`: `write_pidfile` failure crashes in `unregister_all_triggers` (NULL notification handle). |
| `lifecycle_erracct_init` | violation | `TriggersHaveErrorAccounting`: ignored error-accounting init failure. |
| `options_safety` | pass | `TypeOK`, `OptionsMatchReference` (which includes a setuid binary keeping its default paths and port), `ErrorIffInvalid` over every file of one entry and command line of two options, setuid or not, with `strdup()` failures (~210k states). |
| `rule_roundtrip` | pass | `TypeOK`, `RoundTrip`, `AcceptedRuleWellFormed`, `ExclusionsReachTracer`, `AgentFilterSound` on a little-endian 64-bit build with header rewrites that the code rejects (~770k states). The rewrites that abort (a KERNEL_FUNCTION type byte, a `log_level_rule_len` past the rule) are left to `rule_client_assert`, so this run does not check `NoAbortOnClientPayload`. |
| `rule_big_endian` | violation | `RoundTrip` on big-endian 64-bit: exclusion lengths serialize as 0. |
| `rule_client_assert` | violation | `NoAbortOnClientPayload`: a client `log_level_rule_len` that is too large trips `assert` (tracepoint.c:853). A type byte of KERNEL_FUNCTION trips `assert` (event-rule.c:195). The run may report either one. |
| `rule_agent_filter` | violation | `FilterKeepsUserFilter`: agent rule with pattern `*`, a filter and no log level rule loses its filter. |
| `field_match` | pass | `MatchIsLayoutEquality`: for every type, `match_ustctl_field()` answers match exactly when `SameLayout` holds. It reads no member of another type and skips none of its own (6.5k states). |

Each property of a passing run has a mutant in `PROJECT.json`: a plausible bug in the
mapped code (a missing thread shutdown, triggers listed as a non-root uid, the client
thread not shut down, a consumer left out of the waits, `exit(retval)`, a dropped length or domain check, an off-by-one,
a swapped operator, the getopt reset before the replay left out) that TLC
finds violating the property under the run's own configuration.

## 4. Bounds

- Lifecycle: two sessions and two triggers, owned by uid 0 and uid 1000. This makes the
  root listing in `unregister_all_triggers` matter.
  - The safety run has `NbBucket = 2`, so both triggers can be registered at the same
    time, and the pool fills when they are.
  - It allows one signal. That signal can land in every phase: before the quit pipe
    exists, during bring-up, in the wait, and during teardown. A second signal only
    rewrites a pipe already written (`StopThreads`), and the safety run would exceed
    five minutes with both a second signal and a consumer.
  - The safety run spawns the kernel consumer, the one whose order against
    `cleanup_kernel_tracer()` matters. It may be spawned, die, or be hung up on at any
    point of the client thread's life and the teardown.
  - Every failure label of main() is reachable in the safety run (about 2.1M states).
  - The liveness run has one session, one root trigger, `NbBucket = 1`, one signal and
    one UST consumer, so that it finishes in time. The kernel and UST consumers are
    alike for liveness: each exits on the hang-up and is waited for in the same step.
  - The violation runs spawn the UST consumer too.
- Options: arguments empty, `x`, `010` (octal 8), `65534`, `65535`, `on`, `no`; file entries
  for a string option, `verbose`, a flag, the bucket count, an ignored and an unknown name;
  command-line `client-sock`, `verbose`, `verbose-consumer`, `agent-tcp-port`, `help`, and an
  unknown option. Two command-line options are enough for an override, two `-v` on a file level,
  and an error before `--help`; one file entry is enough because the file's entries are
  applied with the same handler in order.
- Event rule: patterns `""`, `"*"`, `"ab"`; filters `""`, `"x"`; exclusion names of length
  3 and 4 with `LTTNG_SYMBOL_NAME_LEN = 4` (one fits, one is exactly at the bound);
  levels -1, 6, 15 (below, inside and above UST's EMERG..DEBUG); up to two exclusions so
  order matters; tamper values that reach each rejection branch.
- Field matching: two names, and member values 0 and 1. All thirteen types are
  covered, each base field against every neighbour that differs in one place, and every
  pair of base fields. A neighbour that differs in one member suffices, because the code
  and the reference are both conjunctions of per-member equalities. A missed member, an
  extra member or a wrong member therefore shows up on one pair. Nested types cover
  integer and string; nested enum and float go through the same
  `match_ustctl_field_raw_basic_type` as the legacy basic types.

## 5. Fairness

`SessiondService` assumes `WF_vars(Closing)`: once main() leaves `stop_threads`,
teardown is main's own sequential code. The refinement checks this against
`WF_vars(Main)` of the lifecycle, in the run with late failures only. With an early
failure, the lifecycle crashes in `unregister_all_triggers` (`lifecycle_early_failure`),
so it does not implement the service there.

`UstFieldMatch` is one call that returns, so its run says `CHECK_DEADLOCK FALSE`.

`SessiondOptions` has no fairness and no liveness property: `set_options()` is a
sequential function that returns, so its runs say `CHECK_DEADLOCK FALSE` for the returned state.


`SessiondLifecycle` assumes `WF_vars(Main)`: main() is a runnable thread that the scheduler keeps running; nothing in
the code forces clients to send commands, signals to arrive or workers to be scheduled
before main needs them, so those actions have no fairness. Teardown joins workers
itself, so liveness does not rely on worker fairness. Each consumer daemon has
`WF_vars(ConsumerHangup(c))`: it is a separate process, and once the daemon has closed
its sockets it keeps being scheduled until it notices and exits (the spec: waitpid on
consumers is allowed to complete). `ConsumerCrash` and `SpawnConsumer` have no fairness.

## 6. Not modelled, and plan

Not modelled, with the reason:
1. `lttng_event_rule_tracepoint_hash`: an XOR fold of external string hashes over the
   same members `is_equal` compares, so `IsEqual => same hash` holds whatever the fold
   does. Its users (the trigger hash tables) are outside the repository.
2. The event-rule refcount (`lttng_event_rule_get`/`put`, event-rule.c:229): the holders
   that share a rule between threads are outside the repository, and a rule that
   `create_from_payload` returns beside -1 is the caller's to put.
3. `error_get_str` and the rest of `error.c`: a clamped table lookup whose one use in
   `main()` is a log message, and logging I/O.
4. Generating the legacy event for a pattern that does not fit in
   `LTTNG_SYMBOL_NAME_LEN` (tracepoint.c:637). The spec projects every rule onto a
   descriptor named by its pattern. The code fails instead. `GenerateLttngEvent` models
   the failure; checking it against the spec would need one more violation run.
5. The error-accounting index pool beyond the interface: only the header is in the
   repository, so the pool is the `registered` set bounded by `NbBucket`.
6. The 17 string-option branches of `set_option` (setuid checks at main.c:379-693) one by one: they are
   identical, so `StringOption` is one operator for all of them. A copy that drops the
   setuid refusal would be a textual divergence that no state of this model can show.

Left out: the consumer daemons' own work and their command protocol (outside the
repository; only their process lifetime is modelled), socket creation, file removal,
permissions and the lock file (pure I/O, and lock-file handling is outside the spec's
scope); logging;
the type declarations in `trace-kernel.h` and `ust-ctl.h`; the unit tests themselves
(their expectations are the properties).
