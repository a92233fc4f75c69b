---- MODULE FinalizeDuty ----
(***************************************************************************)
(* What the hand-over to the pipeline promises, without rows, messages or  *)
(* deliveries: a call that has ended is owed a finalize until it is on     *)
(* record, reported as undeliverable or known to be lost, and once the     *)
(* duty is discharged nothing takes it up again.                           *)
(***************************************************************************)
EXTENDS Naturals

CONSTANT Calls

VARIABLES
    ended,     \* calls that have ended
    owed,      \* calls that are owed a finalize
    recorded,  \* calls with a complete record
    reported,  \* calls on the dead-letter subject
    lost       \* calls the last delivery of a message of which died

dutyVars == <<ended, owed, recorded, reported, lost>>

Init == ended = {} /\ owed = {} /\ recorded = {} /\ reported = {} /\ lost = {}

\* A call ends, and is owed from the same step on.
End(c) ==
    /\ c \notin ended
    /\ ended' = ended \cup {c}
    /\ owed' = owed \cup {c}
    /\ UNCHANGED <<recorded, reported, lost>>

\* Only a call that is owed is worked on.
Record(c) ==
    /\ c \in owed
    /\ recorded' = recorded \cup {c}
    /\ UNCHANGED <<ended, owed, reported, lost>>

Report(c) ==
    /\ c \in owed
    /\ reported' = reported \cup {c}
    /\ UNCHANGED <<ended, owed, recorded, lost>>

\* The duty to calls D is discharged, the calls S being lost in the same step.
Discharge(S, D) ==
    /\ S \subseteq owed
    /\ D \subseteq owed \cap (recorded \cup reported \cup lost \cup S)
    /\ lost' = lost \cup S
    /\ owed' = owed \ D
    /\ UNCHANGED <<ended, recorded, reported>>

Next ==
    \/ \E c \in Calls : End(c) \/ Record(c) \/ Report(c)
    \/ \E S, D \in SUBSET Calls : Discharge(S, D)

Spec == Init /\ [][Next]_dutyVars
====
