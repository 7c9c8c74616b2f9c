------------------------- MODULE SessiondLifecycle -------------------------
(***************************************************************************)
(* The session daemon's main() (src/src/bin/lttng-sessiond/main.c): the   *)
(* bring-up sequence, in which any step may fail and jump to a cleanup    *)
(* label, the wait on the thread quit pipe, and the strict teardown that  *)
(* follows the label stop_threads.  The worker threads run concurrently   *)
(* with main: a thread is "running" from its launch until it exits on the *)
(* quit pipe or is joined by lttng_thread_shutdown().  SIGINT and SIGTERM *)
(* may arrive at any time once the handler is installed.  The client      *)
(* thread creates and destroys sessions and registers triggers, each of   *)
(* which holds an event-notifier error-counter index, and spawns the      *)
(* consumer daemons, separate processes that sessiond_cleanup() hangs up  *)
(* on and then reaps with waitpid().                                      *)
(***************************************************************************)
EXTENDS Integers, FiniteSets, Sequences

CONSTANTS
    Sessions,      \* session names a client may create
    Triggers,      \* triggers a client may register
    TriggerOwner,  \* owner uid of each trigger
    NbBucket,      \* event-notifier error counter buckets (--event-notifier-error-number-of-bucket)
    MaxSignals,    \* bound on SIGINT/SIGTERM deliveries
    FailSteps,     \* names of the bring-up steps allowed to fail in this model
    Consumers      \* consumer daemons a client may spawn: "kernel", "ust64", "ust32"

ASSUME NbBucket \in 1..65534
ASSUME MaxSignals \in Nat
ASSUME TriggerOwner \in [Triggers -> Nat]
ASSUME Consumers \subseteq {"kernel", "ust64", "ust32"}

VARIABLES
    pc,           \* main thread: "init", "wait", a teardown label, "exited" or "crashed"
    step,         \* index of the next bring-up step while pc = "init"
    retval,       \* main()'s retval
    exitCode,     \* process exit status once exited
    threads,      \* worker thread -> "none" | "running" | "exited" | "joined"
    res,          \* shared resource -> "none" | "live" | "destroyed"
    quitWritten,  \* the thread quit pipe has been written
    signals,      \* number of SIGINT/SIGTERM delivered
    signalled,    \* a termination signal has been delivered
    failed,       \* a bring-up step failed and aborted the bring-up
    isRoot,       \* is_root
    noKernel,     \* config.no_kernel
    sessions,     \* names of the sessions in the session list
    registered,   \* registered triggers, each holding an error-counter index
    consumers,    \* consumer daemon -> "none" | "running" | "exited" | "reaped"
    consumerSocksClosed  \* close_consumer_sockets() has run

vars == <<pc, step, retval, exitCode, threads, res, quitWritten, signals,
          signalled, failed, isRoot, noKernel, sessions, registered,
          consumers, consumerSocksClosed>>

ConsumerVars == <<consumers, consumerSocksClosed>>

Threads == {"HtCleanup", "Health", "Notification", "Timer", "Rotation",
            "Client", "Dispatch", "RegApps", "ManageApps", "AppNotify",
            "Agent", "Kernel"}

Resources == {"health", "quitPipe", "kernelPipe", "ust32Pipe", "ust64Pipe",
              "rotQueue", "errAcct", "kernelTracer", "kmod", "kernelPollPipe",
              "appsCmdPipe", "notifHandle", "rotHandle"}
(* appsCmdPipe stands for apps_cmd_pipe and apps_cmd_notify_pipe, which   *)
(* are created one after the other and closed together.                   *)

None == "none"

-----------------------------------------------------------------------------
(* The bring-up of main(), one record per step (or run of consecutive     *)
(* steps with the same effect and the same failure label).  cond says     *)
(* when the step runs (root: is_root; kernel: is_root && !no_kernel),     *)
(* res/thr what it creates, label where a failure jumps ("ignored": the   *)
(* return value is not checked) and rv the retval set on that jump.      *)
(***************************************************************************)
S(n, c, r, t, l, v) == [name |-> n, cond |-> c, res |-> r, thr |-> t, label |-> l, rv |-> v]

PreThreadSteps == <<
    S("set_signal_handler", "all", {}, None, "exit_set_signal_handler", -1),
    S("sessiond_config_init", "all", {}, None, "exit_set_signal_handler", -1),
    S("set_options", "all", {}, None, "exit_options", -1),
    S("sessiond_config_resolve_paths", "all", {}, None, "exit_options", 0),
    S("print_version", "all", {}, None, "exit_options", 0),
    S("check_existing_daemon", "all", {}, None, "exit_options", -1),
    S("launch_run_as_worker", "all", {}, None, "exit_options", 0) >>

ResourceSteps == <<
    S("health_app_create", "all", {"health"}, None, "stop_threads", -1),
    S("launch_ht_cleanup_thread", "all", {}, "HtCleanup", "stop_threads", -1),
    S("sessiond_init_thread_quit_pipe", "all", {"quitPipe"}, None, "stop_threads", -1),
    S("kernel_channel_monitor_pipe", "root", {"kernelPipe"}, None, "stop_threads", -1),
    S("ust32_channel_monitor_pipe", "all", {"ust32Pipe"}, None, "stop_threads", -1),
    S("rotation_thread_timer_queue_create", "all", {"rotQueue"}, None, "stop_threads", -1),
    S("ust64_channel_monitor_pipe", "all", {"ust64Pipe"}, None, "stop_threads", -1),
    S("ust_app_ht_alloc", "all", {}, None, "stop_threads", -1),
    S("event_notifier_error_accounting_init", "all", {"errAcct"}, None, "ignored", 0),
    S("agent_app_ht_alloc", "all", {}, None, "stop_threads", -1),
    S("set_consumer_sockets_kernel", "root", {}, None, "stop_threads", -1),
    S("init_kernel_tracer", "kernel", {"kernelTracer", "kmod"}, None, "ignored", 0),
    S("set_consumer_sockets_ust", "all", {}, None, "stop_threads", -1),
    S("kernel_poll_pipe", "kernel", {"kernelPollPipe"}, None, "stop_threads", -1),
    S("apps_cmd_pipes", "all", {"appsCmdPipe"}, None, "stop_threads", -1),
    S("write_pidfile", "all", {}, None, "stop_threads", -1) >>

ThreadSteps == <<
    S("launch_health_management_thread", "all", {}, "Health", "stop_threads", -1),
    S("notification_thread_handle_create", "all", {"notifHandle"}, None, "stop_threads", -1),
    S("launch_notification_thread", "all", {}, "Notification", "stop_threads", -1),
    S("launch_timer_thread", "all", {}, "Timer", "stop_threads", -1),
    S("rotation_thread_handle_create", "all", {"rotHandle"}, None, "stop_threads_notify", -1),
    S("launch_rotation_thread", "all", {}, "Rotation", "stop_threads", -1),
    S("launch_client_thread", "all", {}, "Client", "stop_threads", -1),
    S("set_permissions", "root", {}, None, "stop_threads", -1),
    S("launch_ust_dispatch_thread", "all", {}, "Dispatch", "stop_threads", -1),
    S("launch_application_registration_thread", "all", {}, "RegApps", "stop_threads", -1),
    S("launch_application_management_thread", "all", {}, "ManageApps", "stop_threads", -1),
    S("launch_application_notification_thread", "all", {}, "AppNotify", "stop_threads", -1),
    S("launch_agent_management_thread", "all", {}, "Agent", "stop_threads", -1),
    S("launch_kernel_management_thread", "kernel", {}, "Kernel", "stop_threads", -1),
    S("add_tracer_event_source", "kernel", {}, None, "stop_threads", -1),
    S("config_load_session", "all", {}, None, "stop_threads", -1),
    S("sessiond_signal_parents", "all", {}, None, "none", 0) >>

InitSteps == PreThreadSteps \o ResourceSteps \o ThreadSteps

KernelEnabled == isRoot /\ ~noKernel

Applies(s) == \/ s.cond = "all"
              \/ s.cond = "root" /\ isRoot
              \/ s.cond = "kernel" /\ KernelEnabled

(* Threads whose poll set holds the global quit pipe.  The notification   *)
(* and hash-table cleanup threads are stopped by their own shutdown       *)
(* commands after sessiond_cleanup() has closed that pipe.                *)
QuitPollers == Threads \ {"Notification", "HtCleanup"}

(* What each running thread touches: the handles main() passes it.        *)
Uses(t) ==
    {"health"}
    \cup (IF t \in QuitPollers THEN {"quitPipe"} ELSE {})
    \cup (CASE t = "Notification" ->
                 {"notifHandle", "ust32Pipe", "ust64Pipe", "errAcct"}
                 \cup (IF isRoot THEN {"kernelPipe"} ELSE {})
                 \cup (IF KernelEnabled THEN {"kmod"} ELSE {})
            [] t = "Rotation"   -> {"rotQueue", "rotHandle", "notifHandle"}
            [] t = "Timer"      -> {"rotQueue"}
            [] t = "Client"     -> {"notifHandle", "errAcct"}
            [] t = "Dispatch"   -> {"appsCmdPipe"}
            [] t = "ManageApps" -> {"appsCmdPipe"}
            [] t = "AppNotify"  -> {"appsCmdPipe"}
            [] t = "Kernel"     -> {"kernelPollPipe", "kernelTracer", "errAcct"}
            [] OTHER            -> {})

(* A live resource holds these: the notification handle owns the monitor  *)
(* pipes' read sides, the rotation handle the job queue and notification  *)
(* handle, error accounting the kernel tracer's counter fd, and the kernel *)
(* tracer's fds the modules behind them.                                   *)
Deps(r) ==
    CASE r = "notifHandle" -> {"ust32Pipe", "ust64Pipe"}
                              \cup (IF isRoot THEN {"kernelPipe"} ELSE {})
      [] r = "rotHandle"   -> {"rotQueue", "notifHandle"}
      [] r = "errAcct"     -> IF KernelEnabled THEN {"kmod"} ELSE {}
      [] r = "kernelTracer" -> {"kmod"}
      [] OTHER             -> {}

Terminal == {"exited", "crashed"}

-----------------------------------------------------------------------------
Init ==
    /\ pc = "init"
    /\ step = 1
    /\ retval = 0
    /\ exitCode = 0
    /\ threads = [t \in Threads |-> "none"]
    /\ res = [r \in Resources |-> "none"]
    /\ quitWritten = FALSE
    /\ signals = 0
    /\ signalled = FALSE
    /\ failed = FALSE
    /\ isRoot \in BOOLEAN
    /\ noKernel \in BOOLEAN
    /\ sessions = {}
    /\ registered = {}
    /\ consumers = [c \in Consumers |-> "none"]
    /\ consumerSocksClosed = FALSE

Created(s) ==
    /\ res' = [r \in Resources |-> IF r \in s.res THEN "live" ELSE res[r]]
    /\ threads' = IF s.thr # None THEN [threads EXCEPT ![s.thr] = "running"] ELSE threads

NextStep ==
    IF step = Len(InitSteps) THEN pc' = "wait" /\ step' = step
                             ELSE step' = step + 1 /\ UNCHANGED pc

(* A bring-up step that succeeds, or is skipped because its condition is  *)
(* false.  config_load_session may load any of the saved sessions.        *)
InitStep ==
    /\ pc = "init"
    /\ LET s == InitSteps[step] IN
         /\ IF Applies(s) THEN Created(s) ELSE UNCHANGED <<res, threads>>
         /\ IF s.name = "config_load_session"
              THEN \E loaded \in SUBSET (Sessions \ sessions) :
                      sessions' = sessions \cup loaded
              ELSE UNCHANGED sessions
    /\ NextStep
    /\ UNCHANGED <<retval, exitCode, quitWritten, signals, signalled, failed,
                   isRoot, noKernel, registered>> /\ UNCHANGED ConsumerVars

(* A bring-up step that fails: an ignored failure continues without the   *)
(* resource; any other jumps to its label.  rotation_thread_handle_create *)
(* also calls stop_threads(), which writes the quit pipe.  print_version  *)
(* is the -V exit, taken by the same jump but not a failure.              *)
(* stop_threads(): sessiond_notify_quit_pipe() writes the quit pipe; the  *)
(* write fails, and is only logged, when the pipe does not exist.        *)
StopThreads == quitWritten \/ res["quitPipe"] = "live"

InitFail ==
    /\ pc = "init"
    /\ LET s == InitSteps[step] IN
         /\ Applies(s)
         /\ s.label # "none"
         /\ s.name \in FailSteps
         /\ IF s.label = "ignored"
              THEN NextStep /\ UNCHANGED <<retval, failed>>
              ELSE /\ pc' = IF s.label = "stop_threads_notify" THEN "stop_threads" ELSE s.label
                   /\ retval' = s.rv
                   /\ failed' = (s.name # "print_version")
                   /\ UNCHANGED step
         /\ quitWritten' = IF s.label = "stop_threads_notify" THEN StopThreads ELSE quitWritten
    /\ UNCHANGED <<exitCode, threads, res, signals, signalled, isRoot, noKernel,
                   sessions, registered>> /\ UNCHANGED ConsumerVars

(* sessiond_wait_for_quit_pipe(-1): main blocks until the pipe is written. *)
WaitQuit ==
    /\ pc = "wait"
    /\ quitWritten
    /\ pc' = "stop_threads"
    /\ UNCHANGED <<step, retval, exitCode, threads, res, quitWritten, signals,
                   signalled, failed, isRoot, noKernel, sessions, registered>>
    /\ UNCHANGED ConsumerVars

-----------------------------------------------------------------------------
(* Teardown, in the order of main() after the label stop_threads.          *)
Goto(from, to) == pc = from /\ pc' = to

Join(ts) == [t \in Threads |-> IF t \in ts /\ threads[t] # "none" THEN "joined" ELSE threads[t]]

Destroy(rs) == [r \in Resources |-> IF r \in rs /\ res[r] = "live" THEN "destroyed" ELSE res[r]]

MainUnchanged == UNCHANGED <<step, retval, exitCode, quitWritten, signals,
                              signalled, failed, isRoot, noKernel>>

TeardownUnchanged == MainUnchanged /\ UNCHANGED ConsumerVars

(* Mutants.  The client thread left running through the teardown; the    *)
(* notification thread shut down together with the client thread.        *)
ShutdownClientKeepsClient ==
    /\ Goto("stop_threads", "destroy_sessions")
    /\ UNCHANGED <<threads, res, sessions, registered>> /\ TeardownUnchanged

ShutdownClientWithNotification ==
    /\ Goto("stop_threads", "destroy_sessions")
    /\ threads' = Join({"Client", "Notification"})
    /\ UNCHANGED <<res, sessions, registered>> /\ TeardownUnchanged

(* lttng_thread_shutdown(client_thread): no new command after this.       *)
ShutdownClient ==
    /\ Goto("stop_threads", "destroy_sessions")
    /\ threads' = Join({"Client"})
    /\ UNCHANGED <<res, sessions, registered>> /\ TeardownUnchanged

(* destroy_all_sessions_and_wait(): stop and destroy every session not    *)
(* already destroyed, then wait for the session list to be empty.        *)
DestroyAllSessions ==
    /\ Goto("destroy_sessions", "unregister_triggers")
    /\ sessions' = {}
    /\ UNCHANGED <<threads, res, registered>> /\ TeardownUnchanged

(* The triggers notification_thread_command_list_triggers() returns to    *)
(* the uid it is given: root lists every trigger.                         *)
ListTriggers(uid) == {t \in registered : uid = 0 \/ TriggerOwner[t] = uid}

(* Mutant: the triggers listed with the credentials of a non-root uid.     *)
UnregisterAllTriggersAsUser ==
    /\ pc = "unregister_triggers"
    /\ \/ /\ res["notifHandle"] = "none"
          /\ pc' = "crashed"
          /\ UNCHANGED registered
       \/ /\ res["notifHandle"] = "live"
          /\ threads["Notification"] = "running"
          /\ registered' = registered \ ListTriggers(1000)
          /\ pc' = "shutdown_reg_apps"
    /\ UNCHANGED <<threads, res, sessions>> /\ TeardownUnchanged

(* unregister_all_triggers(): list as root, unregister each through the   *)
(* notification thread.  The command is served by that thread; main()     *)
(* passes notification_thread_handle even when it was never created.      *)
UnregisterAllTriggers ==
    /\ pc = "unregister_triggers"
    /\ \/ /\ res["notifHandle"] = "none"
          /\ pc' = "crashed"
          /\ UNCHANGED registered
       \/ /\ res["notifHandle"] = "live"
          /\ threads["Notification"] = "running"
          /\ registered' = registered \ ListTriggers(0)
          /\ pc' = "shutdown_reg_apps"
    /\ UNCHANGED <<threads, res, sessions>> /\ TeardownUnchanged

ShutdownRegApps ==
    /\ Goto("shutdown_reg_apps", "shutdown_orphans")
    /\ threads' = Join({"RegApps"})
    /\ UNCHANGED <<res, sessions, registered>> /\ TeardownUnchanged

(* lttng_thread_list_shutdown_orphans(): every thread whose handle main() *)
(* did not keep.                                                          *)
Orphans == Threads \ {"Client", "RegApps", "Notification", "HtCleanup"}

ShutdownOrphans ==
    /\ Goto("shutdown_orphans", "cleanup")
    /\ threads' = Join(Orphans)
    /\ UNCHANGED <<res, sessions, registered>> /\ TeardownUnchanged

(* rcu_barrier(); sessiond_cleanup(), up to its first waitpid(): closes  *)
(* the quit pipe and the apps and kernel poll pipes, then every consumer  *)
(* socket (close_consumer_sockets()), on which the consumers see the      *)
(* daemon hang up.                                                        *)
CloseConsumerSockets == consumerSocksClosed' = TRUE

SessiondCleanup ==
    /\ Goto("cleanup", "wait_consumer")
    /\ res' = Destroy({"quitPipe", "appsCmdPipe", "kernelPollPipe"})
    /\ CloseConsumerSockets
    /\ UNCHANGED <<threads, sessions, registered, consumers>> /\ MainUnchanged

(* Mutant: one consumer_data (ust32) left out of the waits. *)
WaitConsumerSkipsUst32 ==
    /\ Goto("wait_consumer", "shutdown_notification")
    /\ \A c \in Consumers \ {"ust32"} : consumers[c] # "running"
    /\ consumers' = [c \in Consumers |->
                        IF consumers[c] = "exited" /\ c # "ust32" THEN "reaped" ELSE consumers[c]]
    /\ res' = IF KernelEnabled THEN Destroy({"kernelTracer"}) ELSE res
    /\ UNCHANGED <<threads, sessions, registered, consumerSocksClosed>> /\ MainUnchanged

(* The rest of sessiond_cleanup(): wait_consumer() on the kernel, ust64   *)
(* and ust32 consumer_data, each a blocking waitpid() on a spawned        *)
(* consumer that resets its pid, then, if is_root && !no_kernel,          *)
(* cleanup_kernel_tracer().                                               *)
WaitConsumer ==
    /\ Goto("wait_consumer", "shutdown_notification")
    /\ \A c \in Consumers : consumers[c] # "running"
    /\ consumers' = [c \in Consumers |->
                        IF consumers[c] = "exited" THEN "reaped" ELSE consumers[c]]
    /\ res' = IF KernelEnabled THEN Destroy({"kernelTracer"}) ELSE res
    /\ UNCHANGED <<threads, sessions, registered, consumerSocksClosed>> /\ MainUnchanged

(* Mutant: the notification thread is never shut down. *)
ShutdownNotificationMissing ==
    /\ Goto("shutdown_notification", "error_accounting_fini")
    /\ UNCHANGED <<threads, res, sessions, registered>> /\ TeardownUnchanged

ShutdownNotification ==
    /\ Goto("shutdown_notification", "error_accounting_fini")
    /\ threads' = Join({"Notification"})
    /\ UNCHANGED <<res, sessions, registered>> /\ TeardownUnchanged

ErrorAccountingFini ==
    /\ Goto("error_accounting_fini", "modprobe_remove")
    /\ res' = Destroy({"errAcct"})
    /\ UNCHANGED <<threads, sessions, registered>> /\ TeardownUnchanged

(* modprobe_remove_lttng_all(), only if is_root && !no_kernel.            *)
ModprobeRemove ==
    /\ Goto("modprobe_remove", "shutdown_ht_cleanup")
    /\ res' = IF KernelEnabled THEN Destroy({"kmod"}) ELSE res
    /\ UNCHANGED <<threads, sessions, registered>> /\ TeardownUnchanged

ShutdownHtCleanup ==
    /\ Goto("shutdown_ht_cleanup", "destroy_handles")
    /\ threads' = Join({"HtCleanup"})
    /\ UNCHANGED <<res, sessions, registered>> /\ TeardownUnchanged

(* Rotation handle, rotation timer queue, notification handle, the three  *)
(* monitor pipes and the health application, in that order.               *)
DestroyHandles ==
    /\ Goto("destroy_handles", "exit_options")
    /\ res' = Destroy({"rotHandle", "rotQueue", "notifHandle", "ust32Pipe",
                       "ust64Pipe", "kernelPipe", "health"})
    /\ UNCHANGED <<threads, sessions, registered>> /\ TeardownUnchanged

(* exit_options: lock file and options cleanup, then exit(retval ? 1 : 0). *)
ExitOptions ==
    /\ Goto("exit_options", "exit_set_signal_handler")
    /\ UNCHANGED <<threads, res, sessions, registered>> /\ TeardownUnchanged

(* Mutant: exit(retval) instead of EXIT_SUCCESS / EXIT_FAILURE. *)
ExitWithRetval ==
    /\ Goto("exit_set_signal_handler", "exited")
    /\ exitCode' = retval
    /\ UNCHANGED <<step, retval, threads, res, quitWritten, signals, signalled,
                   failed, isRoot, noKernel, sessions, registered>>
    /\ UNCHANGED ConsumerVars

Exit ==
    /\ Goto("exit_set_signal_handler", "exited")
    /\ exitCode' = IF retval = 0 THEN 0 ELSE 1
    /\ UNCHANGED <<step, retval, threads, res, quitWritten, signals, signalled,
                   failed, isRoot, noKernel, sessions, registered>>
    /\ UNCHANGED ConsumerVars

Teardown ==
    \/ ShutdownClient \/ DestroyAllSessions \/ UnregisterAllTriggers
    \/ ShutdownRegApps \/ ShutdownOrphans \/ SessiondCleanup \/ WaitConsumer
    \/ ShutdownNotification \/ ErrorAccountingFini \/ ModprobeRemove
    \/ ShutdownHtCleanup \/ DestroyHandles \/ ExitOptions \/ Exit

Main == InitStep \/ InitFail \/ WaitQuit \/ Teardown

-----------------------------------------------------------------------------
(* Environment and worker threads.                                        *)

(* sighandler(): SIGINT/SIGTERM call stop_threads(), which writes the     *)
(* quit pipe; the write fails if the pipe does not exist yet.             *)
HandlerInstalled == ~(pc = "init" /\ step = 1)

Signal ==
    /\ HandlerInstalled
    /\ pc \notin Terminal
    /\ signals < MaxSignals
    /\ signals' = signals + 1
    /\ signalled' = TRUE
    /\ quitWritten' = StopThreads
    /\ UNCHANGED <<pc, step, retval, exitCode, threads, res, failed, isRoot,
                   noKernel, sessions, registered>> /\ UNCHANGED ConsumerVars

(* A worker polling the quit pipe sees it written and returns.            *)
WorkerQuit(t) ==
    /\ t \in QuitPollers
    /\ threads[t] = "running"
    /\ quitWritten
    /\ res["quitPipe"] = "live"
    /\ threads' = [threads EXCEPT ![t] = "exited"]
    /\ UNCHANGED <<pc, step, retval, exitCode, res, quitWritten, signals,
                   signalled, failed, isRoot, noKernel, sessions, registered>>
    /\ UNCHANGED ConsumerVars

ClientUnchanged == UNCHANGED <<pc, step, retval, exitCode, threads, res,
                               quitWritten, signals, signalled, failed,
                               isRoot, noKernel>> /\ UNCHANGED ConsumerVars

(* Client commands, served while the client thread runs.                  *)
CreateSession(s) ==
    /\ threads["Client"] = "running"
    /\ s \notin sessions
    /\ sessions' = sessions \cup {s}
    /\ UNCHANGED registered /\ ClientUnchanged

DestroySession(s) ==
    /\ threads["Client"] = "running"
    /\ s \in sessions
    /\ sessions' = sessions \ {s}
    /\ UNCHANGED registered /\ ClientUnchanged

(* register-trigger: handed to the notification thread, which allocates   *)
(* an error-counter index; with the pool full the command fails.          *)
RegisterTrigger(t) ==
    /\ threads["Client"] = "running"
    /\ threads["Notification"] = "running"
    /\ t \notin registered
    /\ Cardinality(registered) < NbBucket
    /\ registered' = registered \cup {t}
    /\ UNCHANGED sessions /\ ClientUnchanged

UnregisterTrigger(t) ==
    /\ threads["Client"] = "running"
    /\ threads["Notification"] = "running"
    /\ t \in registered
    /\ registered' = registered \ {t}
    /\ UNCHANGED sessions /\ ClientUnchanged

Client ==
    \/ \E s \in Sessions : CreateSession(s) \/ DestroySession(s)
    \/ \E t \in Triggers : RegisterTrigger(t) \/ UnregisterTrigger(t)

(* The consumer daemons.  The client thread spawns one when a session of  *)
(* its domain first needs it (the kernel consumer only with the kernel    *)
(* tracer); a consumer exits when the daemon hangs up on its sockets, and *)
(* may die at any time.  Either way it stays a zombie until waitpid().    *)
ConsumerUses(c) == IF c = "kernel" THEN {"kernelTracer", "kmod"} ELSE {}

SpawnConsumer(c) ==
    /\ threads["Client"] = "running"
    /\ consumers[c] = "none"
    /\ c = "kernel" => KernelEnabled /\ res["kernelTracer"] = "live"
    /\ consumers' = [consumers EXCEPT ![c] = "running"]
    /\ UNCHANGED <<pc, step, retval, exitCode, threads, res, quitWritten, signals,
                   signalled, failed, isRoot, noKernel, sessions, registered,
                   consumerSocksClosed>>

ConsumerHangup(c) ==
    /\ consumers[c] = "running"
    /\ consumerSocksClosed
    /\ consumers' = [consumers EXCEPT ![c] = "exited"]
    /\ UNCHANGED <<pc, step, retval, exitCode, threads, res, quitWritten, signals,
                   signalled, failed, isRoot, noKernel, sessions, registered,
                   consumerSocksClosed>>

ConsumerCrash(c) ==
    /\ consumers[c] = "running"
    /\ consumers' = [consumers EXCEPT ![c] = "exited"]
    /\ UNCHANGED <<pc, step, retval, exitCode, threads, res, quitWritten, signals,
                   signalled, failed, isRoot, noKernel, sessions, registered,
                   consumerSocksClosed>>

Consumer == \E c \in Consumers : SpawnConsumer(c) \/ ConsumerHangup(c) \/ ConsumerCrash(c)

(* main blocked in sessiond_wait_for_quit_pipe(), in a notification       *)
(* command nobody serves or in waitpid() on a running consumer, and the   *)
(* process once it has exited.                                            *)
Blocked ==
    /\ \/ pc = "wait" /\ ~quitWritten
       \/ pc = "unregister_triggers" /\ res["notifHandle"] = "live"
                                     /\ threads["Notification"] # "running"
       \/ pc = "wait_consumer" /\ \E c \in Consumers : consumers[c] = "running"
       \/ pc \in Terminal
    /\ UNCHANGED vars

Next ==
    \/ Main
    \/ Signal
    \/ \E t \in Threads : WorkerQuit(t)
    \/ Client
    \/ Consumer
    \/ Blocked

(* main() is a thread the scheduler keeps running, and a consumer is a    *)
(* process that, once hung up on, keeps running until it exits; clients,  *)
(* signals, worker exits and consumer crashes are not forced.             *)
Spec == Init /\ [][Next]_vars /\ WF_vars(Main)
        /\ \A c \in Consumers : WF_vars(ConsumerHangup(c))

-----------------------------------------------------------------------------
TypeOK ==
    /\ pc \in {"init", "wait", "stop_threads", "destroy_sessions",
               "unregister_triggers", "shutdown_reg_apps", "shutdown_orphans",
               "cleanup", "wait_consumer", "shutdown_notification", "error_accounting_fini",
               "modprobe_remove", "shutdown_ht_cleanup", "destroy_handles",
               "exit_options", "exit_set_signal_handler"} \cup Terminal
    /\ step \in 1..Len(InitSteps)
    /\ retval \in {0, -1}
    /\ exitCode \in {0, 1}
    /\ threads \in [Threads -> {"none", "running", "exited", "joined"}]
    /\ res \in [Resources -> {"none", "live", "destroyed"}]
    /\ quitWritten \in BOOLEAN /\ signalled \in BOOLEAN /\ failed \in BOOLEAN
    /\ signals \in 0..MaxSignals
    /\ sessions \subseteq Sessions
    /\ registered \subseteq Triggers
    /\ consumers \in [Consumers -> {"none", "running", "exited", "reaped"}]
    /\ consumerSocksClosed \in BOOLEAN

(* Teardown never frees what a running thread still uses, nor what a live *)
(* resource still holds: the order of lttng_thread_shutdown(), the orphan *)
(* join, sessiond_cleanup(), error-accounting fini, module unload and the *)
(* handle destruction in main(), on every bring-up failure path.          *)
NoUseAfterDestroy ==
    /\ \A t \in Threads : threads[t] = "running" =>
            \A r \in Uses(t) : res[r] # "destroyed"
    /\ \A c \in Consumers : consumers[c] = "running" =>
            \A r \in ConsumerUses(c) : res[r] # "destroyed"
    /\ \A r \in Resources : res[r] = "live" =>
            \A d \in Deps(r) : res[d] # "destroyed"

(* Once destroy_all_sessions_and_wait() has returned, no session exists   *)
(* again until exit: the client thread was shut down before it.           *)
AfterDestroyAll == {"unregister_triggers", "shutdown_reg_apps", "shutdown_orphans",
                    "cleanup", "wait_consumer", "shutdown_notification", "error_accounting_fini",
                    "modprobe_remove", "shutdown_ht_cleanup", "destroy_handles",
                    "exit_options", "exit_set_signal_handler", "exited"}

NoSessionAfterDestroyAll == pc \in AfterDestroyAll => sessions = {}

(* event_notifier_error_accounting_fini() runs with no trigger still      *)
(* holding an error-counter index (unregister_all_triggers() lists them   *)
(* as root).                                                              *)
NoTriggerAtErrorAccountingFini == res["errAcct"] = "destroyed" => registered = {}

(* The daemon exits having reaped every consumer it spawned: no consumer  *)
(* is left running or a zombie, whatever consumers died on their own      *)
(* (spec §6: consumer waitpid returns on shutdown).                       *)
ConsumersReaped == pc = "exited" => \A c \in Consumers : consumers[c] \in {"none", "reaped"}

(* Every registered trigger's index comes from an initialised error       *)
(* accounting: event_notifier_error_accounting_init() succeeded.          *)
TriggersHaveErrorAccounting == registered # {} => res["errAcct"] = "live"

(* A daemon that reached the wait and whose quit pipe is written exits    *)
(* cleanly.                                                               *)
QuitLeadsToExit == (pc = "wait" /\ quitWritten) ~> (pc = "exited")

(* A SIGINT/SIGTERM makes the daemon exit (spec: shutdown is initiated by *)
(* SIGINT/SIGTERM).                                                       *)
SignalLeadsToExit == signalled ~> (pc = "exited")

(* A failed bring-up still ends in a clean exit, not a crash or a hang.   *)
FailureLeadsToExit == failed ~> (pc = "exited")

(* The refinement mapping: main() runs (serving commands) until the      *)
(* client thread is shut down or the bring-up jumps past stop_threads,    *)
(* then closes until exit.  A crash leaves the daemon closing forever.    *)
ServicePhase ==
    CASE pc = "exited"                          -> "exited"
      [] pc \in {"init", "wait", "stop_threads"} -> "running"
      [] OTHER                                  -> "closing"

Service == INSTANCE SessiondService WITH phase <- ServicePhase, triggers <- registered

(* main() implements the service: commands only while running, every     *)
(* session destroyed before the triggers are unregistered, exit only with *)
(* neither left, and once closing the daemon exits.                      *)
ServiceSpec == Service!Spec

(* The exit status is non-zero exactly when the bring-up failed (spec §6). *)
ExitStatusReflectsFailure == pc = "exited" => (exitCode = 0 <=> ~failed)
=============================================================================
