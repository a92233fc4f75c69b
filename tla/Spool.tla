---- MODULE Spool ----
(***************************************************************************)
(* The agent's on-disk spool (client/sentinel-core/src/spool.rs): the      *)
(* calls, segments and acks tables.  It survives a crash of the agent.     *)
(* The operators are the effects of the spool's methods on its tables; the *)
(* uplink calls them from its own actions.                                 *)
(***************************************************************************)
EXTENDS IngestWire

VARIABLES segs,      \* segments table: unacked audio per stream
          acks,      \* acks table: through_seq per stream, as the mark it covers
          owner,     \* calls.start_json: the user stamped at call.start, NoUser if no row
          endRow,    \* calls whose end_json is recorded
          sealed,    \* calls the server fatally rejected
          produced,  \* history: every segment the encoders handed to push
          lossEvents,\* history: segments a spool_eviction event has accounted for
          refused    \* history: segments push refused because their call is sealed

spoolVars == <<segs, acks, owner, endRow, sealed, produced, lossEvents, refused>>

SpoolTypeOK ==
    /\ segs \in PerStream /\ acks \in PerStream
    /\ owner \in [Calls -> Users \cup {NoUser}]
    /\ endRow \subseteq Calls /\ sealed \subseteq Calls
    /\ produced \in PerStream /\ lossEvents \in PerStream /\ refused \in PerStream

SpoolInit ==
    /\ segs = Nothing /\ acks = Nothing
    /\ owner = [c \in Calls |-> NoUser]
    /\ endRow = {} /\ sealed = {}
    /\ produced = Nothing /\ lossEvents = Nothing /\ refused = Nothing

\* pending_calls: the calls that still hold unacked segments.
PendingCalls == {c \in Calls \ sealed : Holds(c, segs)}

\* begin_call: the call.start frame is stored once and never rewritten.
SpoolBegin(c, u) ==
    /\ owner' = IF owner[c] = NoUser THEN [owner EXCEPT ![c] = u] ELSE owner
    /\ UNCHANGED <<segs, acks, endRow, sealed, produced, lossEvents, refused>>

\* Mutant of SpoolEnd: the call's rows are deleted with its call.end.
EndDeletes(c) ==
    /\ endRow' = endRow \cup {c}
    /\ segs' = NotCall(c, segs)
    /\ UNCHANGED <<acks, owner, sealed, produced, lossEvents, refused>>

\* end_call: records call.end and deletes nothing.
SpoolEnd(c) ==
    /\ endRow' = endRow \cup {c}
    /\ UNCHANGED <<segs, acks, owner, sealed, produced, lossEvents, refused>>

\* push: the row is inserted and the caps evict the rows in out, reported with one
\* spool_eviction event.  enforce_limits picks victims in the order of created_ms,
\* a clock that restarts with the agent, so out is any set of rows.
SpoolPush(x, n, out) ==
    /\ x[1] \notin sealed
    /\ produced' = [produced EXCEPT ![x] = @ \cup {n}]
    /\ segs' = Without([segs EXCEPT ![x] = @ \cup {n}], out)
    /\ lossEvents' = Join(lossEvents, out)
    /\ UNCHANGED <<acks, owner, endRow, sealed, refused>>

\* push on a sealed call returns Err(Sealed): no row and no event.
SpoolRefuse(x, n) ==
    /\ x[1] \in sealed
    /\ produced' = [produced EXCEPT ![x] = @ \cup {n}]
    /\ refused' = [refused EXCEPT ![x] = @ \cup {n}]
    /\ UNCHANGED <<segs, acks, owner, endRow, sealed, lossEvents>>

\* take_pending: the first limit unacked rows of a call in (channel, seq) order.
TakePending(c, limit) ==
    LET row(x, n) == n \in segs[x] /\ n \notin acks[x]
        before(y, m, x, n) == y[2] < x[2] \/ (y = x /\ m < n)
        ahead(x, n) == {p \in StreamsOf(c) \X Seqs :
                            row(p[1], p[2]) /\ before(p[1], p[2], x, n)}
    IN  [x \in Streams |-> {n \in Seqs : /\ x[1] = c /\ row(x, n)
                                         /\ Cardinality(ahead(x, n)) < limit}]

\* Mutant of SpoolAck: the DELETE takes the row after the mark too.
AckDeletesNext(marks) ==
    LET effective == Join(acks, marks)
    IN  /\ acks' = effective
        /\ segs' = [x \in Streams |-> IF marks[x] = {} THEN segs[x]
                                      ELSE {n \in segs[x] : n - 1 \notin effective[x]}]
        /\ UNCHANGED <<owner, endRow, sealed, produced, lossEvents, refused>>

\* ack: the stored mark never moves back, and every row it covers is deleted.
SpoolAck(marks) ==
    LET effective == Join(acks, marks)
    IN  /\ acks' = effective
        /\ segs' = [x \in Streams |-> IF marks[x] = {} THEN segs[x]
                                      ELSE segs[x] \ effective[x]]
        /\ UNCHANGED <<owner, endRow, sealed, produced, lossEvents, refused>>

\* seal: every remaining row of the call is dropped and reported as lost.
SpoolSeal(c) ==
    /\ lossEvents' = Join(lossEvents, OnlyCall(c, segs))
    /\ segs' = NotCall(c, segs)
    /\ sealed' = sealed \cup {c}
    /\ UNCHANGED <<acks, owner, endRow, produced, refused>>
====
