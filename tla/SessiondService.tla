-------------------------- MODULE SessiondService --------------------------
(***************************************************************************)
(* What the session daemon promises its clients, without threads, pipes or *)
(* bring-up steps.  While it runs it serves commands: sessions are         *)
(* created, loaded and destroyed, triggers registered (each holding one of *)
(* NbBucket error-counter indices) and unregistered.  Once it closes, it   *)
(* serves nothing more; it destroys every session, then unregisters every  *)
(* trigger, and exits only when neither is left.  Closing is not forced    *)
(* (the daemon may run forever); once closing, exiting is.                 *)
(***************************************************************************)
EXTENDS Naturals, FiniteSets

CONSTANTS Sessions, Triggers, NbBucket

VARIABLES phase,     \* "running", "closing" or "exited"
          sessions,  \* the sessions that exist
          triggers   \* the registered triggers

vars == <<phase, sessions, triggers>>

Init == phase = "running" /\ sessions = {} /\ triggers = {}

Create(s) ==
    /\ phase = "running" /\ s \notin sessions
    /\ sessions' = sessions \cup {s}
    /\ UNCHANGED <<phase, triggers>>

Destroy(s) ==
    /\ phase = "running" /\ s \in sessions
    /\ sessions' = sessions \ {s}
    /\ UNCHANGED <<phase, triggers>>

(* Sessions restored from saved configurations, several at once.        *)
Load(ss) ==
    /\ phase = "running" /\ ss \cap sessions = {}
    /\ sessions' = sessions \cup ss
    /\ UNCHANGED <<phase, triggers>>

Register(t) ==
    /\ phase = "running" /\ t \notin triggers
    /\ Cardinality(triggers) < NbBucket
    /\ triggers' = triggers \cup {t}
    /\ UNCHANGED <<phase, sessions>>

Unregister(t) ==
    /\ phase = "running" /\ t \in triggers
    /\ triggers' = triggers \ {t}
    /\ UNCHANGED <<phase, sessions>>

Close ==
    /\ phase = "running"
    /\ phase' = "closing"
    /\ UNCHANGED <<sessions, triggers>>

DestroyAll ==
    /\ phase = "closing" /\ sessions # {}
    /\ sessions' = {}
    /\ UNCHANGED <<phase, triggers>>

UnregisterAll ==
    /\ phase = "closing" /\ sessions = {} /\ triggers # {}
    /\ triggers' = {}
    /\ UNCHANGED <<phase, sessions>>

Exit ==
    /\ phase = "closing" /\ sessions = {} /\ triggers = {}
    /\ phase' = "exited"
    /\ UNCHANGED <<sessions, triggers>>

Closing == DestroyAll \/ UnregisterAll \/ Exit

Next ==
    \/ \E s \in Sessions : Create(s) \/ Destroy(s)
    \/ \E ss \in SUBSET Sessions : Load(ss)
    \/ \E t \in Triggers : Register(t) \/ Unregister(t)
    \/ Close
    \/ Closing

Spec == Init /\ [][Next]_vars /\ WF_vars(Closing)
=============================================================================
