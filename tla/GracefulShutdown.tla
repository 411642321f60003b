-------------------------- MODULE GracefulShutdown --------------------------
(***************************************************************************)
(* The end of a VM's Firecracker process: kill_process of the adapter with *)
(* graceful_shutdown (src/shutdown.rs) against a child that may exit at    *)
(* any moment, heed SIGTERM or ignore it.  Waiting for and signalling a    *)
(* child of one's own that is not reaped yet does not fail.  What the      *)
(* threads that serve the VM do meanwhile is in the modules that extend    *)
(* this one.                                                               *)
(***************************************************************************)
EXTENDS Naturals

CONSTANTS
    GracePeriod,     \* grace_period, in ticks of the clock
    PollInterval,    \* poll_interval, in ticks
    None

ASSUME ShutdownAssumption == GracePeriod \in Nat /\ PollInterval \in Nat \ {0}

VARIABLES
    child,           \* "running", "exited" (a zombie) or "reaped"
    term, killed,    \* whether SIGTERM, SIGKILL was sent
    stage,           \* where kill_process is
    clock,           \* ticks since SIGTERM, up to GracePeriod
    wake,            \* the tick at which the sleep ends; 0: not asleep
    outcome          \* what graceful_shutdown returned

shutdown == <<child, term, killed, stage, clock, wake, outcome>>

(* "kept": a VM whose end nobody asks for.                                  *)
Stages == {"alive", "kept", "fast_path", "sigterm", "try_wait", "now", "sleep",
           "kill", "wait", "console", "uffd", "gone"}

ShutdownInit ==
    /\ child = "running" /\ term = FALSE /\ killed = FALSE
    /\ stage \in {"alive", "kept"} /\ clock = 0 /\ wake = 0 /\ outcome = "none"

To(s) == stage' = s

(* The child exits: by itself, on SIGTERM, or because of SIGKILL.           *)
ChildExits ==
    /\ child = "running"
    /\ child' = "exited"
    /\ UNCHANGED <<term, killed, stage, clock, wake, outcome>>

BeginKill ==
    /\ stage = "alive"
    /\ To("fast_path") \/ To("kill")
    /\ UNCHANGED <<child, term, killed, clock, wake, outcome>>

Returns(o) == outcome' = o /\ To("console")

(* try_wait reaps an exited child.                                          *)
TryWait(from, found, missing) ==
    /\ stage = from
    /\ \/ child = "exited" /\ child' = "reaped" /\ Returns(found)
       \/ child = "running" /\ To(missing) /\ UNCHANGED <<child, outcome>>
    /\ UNCHANGED <<term, killed, clock, wake>>

(* Mutant: the first poll reaps an exited child and goes on to SIGTERM.     *)
FastPathOn ==
    /\ stage = "fast_path"
    /\ child' = IF child = "exited" THEN "reaped" ELSE child
    /\ To("sigterm")
    /\ UNCHANGED <<term, killed, clock, wake, outcome>>

FastPath == TryWait("fast_path", "AlreadyExited", "sigterm")

Sigterm ==
    /\ stage = "sigterm"
    /\ term' = TRUE /\ To("try_wait")
    /\ UNCHANGED <<child, killed, clock, wake, outcome>>

Poll == TryWait("try_wait", "Graceful", "now")

Earlier(a, b) == IF a < b THEN a ELSE b

(* Mutants: escalates when the next poll would be late; never escalates.    *)
EscalateEarly ==
    /\ stage = "now"
    /\ \/ clock + PollInterval >= GracePeriod /\ To("kill") /\ UNCHANGED wake
       \/ /\ clock + PollInterval < GracePeriod
          /\ wake' = clock + PollInterval /\ To("sleep")
    /\ UNCHANGED <<child, term, killed, clock, outcome>>

SleepAlways ==
    /\ stage = "now"
    /\ wake' = Earlier(clock + PollInterval, GracePeriod) /\ To("sleep")
    /\ UNCHANGED <<child, term, killed, clock, outcome>>

(* Past the deadline escalate, else sleep no longer than what remains.      *)
CheckDeadline ==
    /\ stage = "now"
    /\ \/ clock >= GracePeriod /\ To("kill") /\ UNCHANGED wake
       \/ /\ clock < GracePeriod
          /\ wake' = Earlier(clock + PollInterval, GracePeriod) /\ To("sleep")
    /\ UNCHANGED <<child, term, killed, clock, outcome>>

Tick ==
    /\ term /\ outcome = "none" /\ clock < GracePeriod
    /\ clock' = clock + 1
    /\ UNCHANGED <<child, term, killed, stage, wake, outcome>>

WakeUp ==
    /\ stage = "sleep" /\ clock >= wake
    /\ To("try_wait") /\ wake' = 0
    /\ UNCHANGED <<child, term, killed, clock, outcome>>

Kill ==
    /\ stage = "kill"
    /\ killed' = TRUE /\ To("wait")
    /\ UNCHANGED <<child, term, clock, wake, outcome>>

Wait ==
    /\ stage = "wait" /\ child = "exited"
    /\ child' = "reaped"
    /\ Returns(IF term THEN "Forced" ELSE "none")
    /\ UNCHANGED <<term, killed, clock, wake>>

(* The steps of the thread inside kill_process, up to the child's end.      *)
KillStep ==
    FastPath \/ Sigterm \/ Poll \/ CheckDeadline \/ WakeUp \/ Kill \/ Wait
=============================================================================
