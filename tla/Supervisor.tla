---- MODULE Supervisor ----
(***************************************************************************)
(* The watchdog's bookkeeping: sentinel-service/src/supervisor.rs with     *)
(* sentinel-core/src/backoff.rs, and the bounded channel between the SCM's *)
(* control callback and the service body (windows/scm.rs).  Time is in     *)
(* ticks of the backoff's base; deadlines are kept as what is left of      *)
(* them, start times as the age of the run.  The daily count of relaunches *)
(* is telemetry and left out.                                              *)
(***************************************************************************)
EXTENDS Naturals, Sequences, FiniteSets

CONSTANTS Sessions,    \* the interactive sessions' ids
          BackoffCap,  \* the longest delay, in ticks
          MaxAttempt,  \* bound: attempts counted; the ceiling is reached by then
          HealthyRun,  \* HEALTHY_RUN_MS in ticks
          QueueCap     \* capacity of the event channel

ASSUME SupervisorAssumption ==
    /\ Sessions \subseteq Nat
    /\ {BackoffCap, HealthyRun, QueueCap} \subseteq Nat \ {0}
    /\ MaxAttempt \in Nat
    /\ 2^MaxAttempt >= BackoffCap

\* A fact of arithmetic the proofs use: the provers leave exponentiation uninterpreted.
ASSUME PowersAssumption == \A n \in 0..MaxAttempt : 2^n \in Nat

VARIABLES slots, \* the tracked sessions, each with its agent's state
          queue  \* ServiceEvents not received yet

supervisorVars == <<slots, queue>>

Least(a, b) == IF a < b THEN a ELSE b

Slot == [running : BOOLEAN, wait : 0..BackoffCap, attempt : 0..MaxAttempt, age : 0..HealthyRun]
Event == [kind : {"logon", "logoff"}, session : Sessions]

SupervisorTypeOK ==
    /\ DOMAIN slots \subseteq Sessions /\ slots \in [DOMAIN slots -> Slot]
    /\ queue \in Seq(Event) /\ Len(queue) <= QueueCap

\* Supervisor::new and a fresh channel.
SupervisorFresh ==
    /\ slots = [s \in {} |-> 0] /\ queue = <<>>

-----------------------------------------------------------------------------
\* Backoff.

Ceiling(attempt) == Least(2^attempt, BackoffCap)
NextAttempt(attempt) == Least(attempt + 1, MaxAttempt)

Tracked == DOMAIN slots
Running(s) == s \in Tracked /\ slots[s].running

\* A slot after an unexpected exit; a run that was long enough starts the backoff afresh.
Exited(slot) ==
    LET attempt == IF slot.age >= HealthyRun THEN 0 ELSE slot.attempt
    IN [running |-> FALSE, age |-> 0, wait |-> Ceiling(attempt),
        attempt |-> NextAttempt(attempt)]

Launched(slot) == [slot EXCEPT !.running = TRUE, !.age = 0]

\* A launch that failed goes through on_launched and on_exited.
LaunchFailed(slot) == Exited(Launched(slot))

-----------------------------------------------------------------------------
\* on_logon: a session that is tracked already is left alone.
LoggedOn(s) ==
    [x \in Tracked \cup {s} |->
        IF x \in Tracked THEN slots[x]
        ELSE [running |-> FALSE, wait |-> 0, attempt |-> 0, age |-> 0]]

\* on_logoff.
LoggedOff(s) == [x \in Tracked \ {s} |-> slots[x]]

\* The sessions poll may launch into, and the one it names: the first in the map's order.
DueSessions == {s \in Tracked : ~slots[s].running /\ slots[s].wait = 0}
FirstDue == CHOOSE s \in DueSessions : \A x \in DueSessions : s <= x

\* The clock: deadlines come closer and runs get older.
SupervisorTick ==
    slots' = [s \in Tracked |->
                [slots[s] EXCEPT !.wait = IF @ = 0 THEN 0 ELSE @ - 1,
                                 !.age = IF slots[s].running THEN Least(@ + 1, HealthyRun)
                                         ELSE @]]

\* post: the callback never blocks, an event that does not fit is dropped.
Posted(e) == IF Len(queue) < QueueCap THEN Append(queue, e) ELSE queue
====
