---- MODULE AudioLedger ----
(***************************************************************************)
(* What the ingest path promises, without spool, network or sessions: the  *)
(* custody of recorded audio.  A segment is in the client's custody from    *)
(* the moment the spool takes it until the server has it in its store or a *)
(* loss event names it; the server stores only audio that was in custody,  *)
(* and keeps it; a call is handed to the pipeline at most once.            *)
(***************************************************************************)
EXTENDS Naturals

CONSTANTS Segments,  \* every segment that can be recorded
          Calls      \* every call

VARIABLES held,     \* in the client's custody
          stored,   \* in the server's store
          written,  \* written off with a loss event
          turned,   \* turned away: the recorder was told that it is not taken
          handed    \* how often a call was handed to the pipeline

ledgerVars == <<held, stored, written, turned, handed>>

Init ==
    /\ held = {} /\ stored = {} /\ written = {} /\ turned = {}
    /\ handed = [c \in Calls |-> 0]

\* Audio that has ever been in custody.
Taken == held \cup stored \cup written

\* A new segment is taken into custody, and the segments of out are written off for it.
Take(s, out) ==
    /\ s \notin Taken \cup turned
    /\ out \subseteq held \cup {s}
    /\ held' = (held \cup {s}) \ out
    /\ written' = written \cup out
    /\ UNCHANGED <<stored, turned, handed>>

\* A new segment is turned away.
TurnAway(s) ==
    /\ s \notin Taken \cup turned
    /\ turned' = turned \cup {s}
    /\ UNCHANGED <<held, stored, written, handed>>

\* Segments reach the server's store; a copy may still be under way of a segment that
\* was written off.
Store(S) ==
    /\ S \subseteq Taken
    /\ stored' = stored \cup S
    /\ UNCHANGED <<held, written, turned, handed>>

\* The client lets go of segments the server has.
Release(S) ==
    /\ S \subseteq held \cap stored
    /\ held' = held \ S
    /\ UNCHANGED <<stored, written, turned, handed>>

\* The client lets go of segments with a loss event.
WriteOff(S) ==
    /\ S \subseteq held
    /\ held' = held \ S
    /\ written' = written \cup S
    /\ UNCHANGED <<stored, turned, handed>>

\* A call goes to the pipeline.
HandOver(c) ==
    /\ handed[c] = 0
    /\ handed' = [handed EXCEPT ![c] = 1]
    /\ UNCHANGED <<held, stored, written, turned>>

Next ==
    \/ \E s \in Segments : TurnAway(s) \/ \E out \in SUBSET Segments : Take(s, out)
    \/ \E S \in SUBSET Segments : Store(S) \/ Release(S) \/ WriteOff(S)
    \/ \E c \in Calls : HandOver(c)

Spec == Init /\ [][Next]_ledgerVars
====
