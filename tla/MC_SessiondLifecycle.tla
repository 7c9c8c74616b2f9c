----------------------- MODULE MC_SessiondLifecycle -----------------------
(* Model-checking instance of SessiondLifecycle: two sessions, two        *)
(* triggers owned by root and by an unprivileged user, one error-counter  *)
(* bucket so that the index pool fills, one termination signal.          *)
EXTENDS SessiondLifecycle

CONSTANTS s1, s2, t1, t2

MCSessions == {s1, s2}
MCTriggers == {t1, t2}
MCTriggerOwner == [t \in MCTriggers |-> IF t = t1 THEN 0 ELSE 1000]

(* One session and one root trigger, for the liveness run.                *)
OneSession == {s1}
OneTrigger == {t1}
OneTriggerOwner == [t \in OneTrigger |-> 0]

(* The kernel consumer, which holds kernel tracer fds, or one of the two  *)
(* identical UST consumers, spawned whatever the uid.                      *)
KernelConsumer == {"kernel"}
UstConsumer == {"ust32"}
MCConsumers == {"kernel", "ust32"}

(* Every step with a failure path may fail. *)
AllFailSteps == {InitSteps[i].name : i \in 1..Len(InitSteps)}

(* Failures after the notification thread runs: the ones whose teardown  *)
(* main() is written for.                                                 *)
LateFailSteps ==
    LET k == CHOOSE i \in 1..Len(InitSteps) : InitSteps[i].name = "launch_notification_thread"
    IN {InitSteps[i].name : i \in k + 1..Len(InitSteps)}
=============================================================================
