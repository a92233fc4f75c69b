---- MODULE Ingest ----
(***************************************************************************)
(* The ingest path end to end: spool and uplink in the agent, connection   *)
(* slots, sessions and rows in the gateway.  A new connection may be opened *)
(* while the session of the previous one is still working through frames   *)
(* it had received: two sessions then write the same rows.                 *)
(***************************************************************************)
EXTENDS Uplink, IngestSession

vars == <<c2s, s2c, faults, spoolVars, uplinkVars, connVars, sinkVars>>

Init == WireInit /\ SpoolInit /\ UplinkInit /\ SessionInit

\* pump connects and the gateway accepts: a new session under the current token.
Connect(k) ==
    /\ ~open[k]
    /\ Dial(k)
    /\ NewSession(k, user)
    /\ c2s' = [c2s EXCEPT ![k] = <<>>]
    /\ s2c' = [s2c EXCEPT ![k] = <<>>]
    /\ UNCHANGED <<faults, spoolVars, sinkVars>>

\* The client dropped the connection; its session notices, now or after reading on.
SessionLost(k) ==
    /\ open[k] /\ conn # k
    /\ EndSession(k)
    /\ UNCHANGED <<s2c, faults, sinkVars>>

\* The gateway process goes away under an established connection.
GatewayRestart(k) ==
    /\ open[k] /\ conn = k
    /\ Fault("restart")
    /\ EndSession(k)
    /\ UNCHANGED <<s2c, sinkVars>>

\* The client's next read on a connection whose session is gone fails.
ConnectionGone ==
    /\ conn # NoConn
    /\ ~open[conn] /\ s2c[conn] = <<>>
    /\ conn' = NoConn
    /\ UNCHANGED <<c2s, s2c, faults, spoolVars, user, cur, known, started, ended,
                   resumed, sent, awaiting, revoked, connVars, sinkVars>>

\* The idle timeout is longer than everything the client does by itself: it only
\* fires on a connection whose client has nothing left to send, read or wait for.
Idle(k) ==
    /\ conn = k => s2c[k] = <<>> /\ awaiting = {} /\ \A c \in Calls : ~CanSend(c)
    /\ TickIdle(k)

Capture ==
    \/ \E c \in Calls : BeginCall(c)
    \/ \E x \in Streams, n \in Seqs : PushSegment(x, n)
    \/ \E x, y \in Streams, n, m \in Seqs : PushEvicting(x, n, y, m)
    \/ \E x \in Streams, n \in Seqs : PushRefused(x, n)
    \/ EndCall

Pump ==
    \/ \E c \in Calls : SendCall(c)
    \/ \E c \in Calls : ResumeTimeout(c)
    \/ RecvAck
    \/ RecvResume
    \/ RecvFatal
    \/ RecvClose

ClientNext ==
    /\ \/ Capture
       \/ Pump
       \/ \E u \in Users : SignIn(u)
       \/ CrashRestart
       \/ DropConnection
    /\ UNCHANGED <<connVars, sinkVars>>

Handle(k) ==
    \/ CallStartMismatch(k)
    \/ CallStartTooMany(k)
    \/ CallStartFailed(k)
    \/ CallStart(k)
    \/ MediaOrphan(k)
    \/ Media(k)
    \/ MediaFailed(k)
    \/ CallEndUnknown(k)
    \/ CallEndFailed(k)
    \/ CallEnd(k)

GatewayNext ==
    /\ \E k \in Conns :
          \/ Handle(k)
          \/ TickAck(k)
          \/ \E c \in Calls : TickOrphans(k, c)
          \/ Idle(k)
          \/ Revoke(k)
    /\ UNCHANGED <<spoolVars, uplinkVars>>

Next ==
    \/ ClientNext
    \/ GatewayNext
    \/ \E k \in Conns : Connect(k)
    \/ \E k \in Conns : /\ SessionLost(k) \/ GatewayRestart(k)
                        /\ UNCHANGED <<spoolVars, uplinkVars>>
    \/ ConnectionGone

Spec == Init /\ [][Next]_vars

\* What the code keeps doing.  The agent's loop pumps on every tick, and a pump sends
\* for every known call, reads every reply and, when its backoff has run out,
\* dials again; the gateway's select loop serves frames and its one-second ticker.
\* Nothing obliges the user to speak, to hang up, or the environment to fail.
Client(A) == A /\ UNCHANGED <<connVars, sinkVars>>
Gateway(A) == A /\ UNCHANGED <<spoolVars, uplinkVars>>

Fairness ==
    /\ \A c \in Calls : /\ WF_vars(Client(SendCall(c)))
                        /\ WF_vars(Client(ResumeTimeout(c)))
    /\ WF_vars(Client(RecvAck \/ RecvResume \/ RecvFatal \/ RecvClose))
    /\ WF_vars(ConnectionGone)
    /\ WF_vars(\E k \in Conns : Connect(k))
    /\ \A k \in Conns : /\ WF_vars(Gateway(Handle(k)))
                        /\ WF_vars(Gateway(TickAck(k)))
                        /\ \A c \in Calls : WF_vars(Gateway(TickOrphans(k, c)))
                        /\ WF_vars(Gateway(Idle(k)))
                        /\ WF_vars(Gateway(SessionLost(k)))

FairSpec == Spec /\ Fairness

-----------------------------------------------------------------------------
\* Every variable keeps its type.
TypeOK == WireTypeOK /\ SpoolTypeOK /\ UplinkTypeOK /\ SessionTypeOK

\* spool.rs and uplink/mod.rs promise that a segment is deleted only once the server
\* acked it, or with a spool_eviction event: whatever reconnects, crashes, failed
\* writes and overlapping sessions do, every segment the spool took is still on disk,
\* durable in the gateway's store, or accounted for by a loss event.
NoSilentLoss ==
    \A x \in Streams :
        produced[x] \ refused[x] \subseteq segs[x] \cup durable[x] \cup lossEvents[x]

\* What is promised as stored is stored, wherever the promise is: in a session's own
\* state and the watermark rows it shares with others, in a reply still on its way
\* over a connection that may be dead, in the client's ack table, or in the resume
\* point it skips to (ackChannel, OnCallStart, resume.rs plan).
SafeReply(d) == {m \in Reply : \A x \in Streams : m.marks[x] \subseteq d[x]}

PromisedIsDurable ==
    /\ \A k \in Conns : \A x \in Streams : have[k][x] \subseteq durable[x]
    /\ \A x \in Streams : watermark[x] \subseteq durable[x]
    /\ \A k \in Conns : s2c[k] \in Seq(SafeReply(durable))
    /\ \A x \in Streams : acks[x] \subseteq durable[x] /\ resumed[x] \subseteq durable[x]

\* A replayed call.end, on the same connection, a later one or two overlapping
\* ones, hands a call to the pipeline once if it ended and never otherwise
\* (FinishCall's ended_at guard and its single transaction).
EnqueuedOnce == \A c \in Calls : outbox[c] = (IF c \in endedAt THEN 1 ELSE 0)

\* A session only ever opens, stores and finalizes calls of the user whose token
\* authenticated it, and the call row names that user (checkIdentity, EnsureCall).
AttributedToToken ==
    /\ \A k \in Conns : \A c \in sessCalls[k] : peer[k] = owner[c]
    /\ \A c \in Calls : dbUser[c] # NoUser => dbUser[c] = owner[c]

\* Why it holds: only calls with a stored call.start are ever sent, and every frame on
\* its way carries the user stamped in it.
OwnFrame(o) == {f \in Frame : f.t = "start" => o[f.call] # NoUser /\ f.user = o[f.call]}

AttributionInv ==
    /\ \A c \in known : owner[c] # NoUser
    /\ cur # NoCall => owner[cur] # NoUser
    /\ \A x \in Streams : segs[x] # {} => owner[x[1]] # NoUser
    /\ \A k \in Conns : c2s[k] \in Seq(OwnFrame(owner))
    /\ \A k \in Conns : \A c \in sessCalls[k] : owner[c] # NoUser
    /\ AttributedToToken

\* A stored promise never shrinks: not the watermark row (GREATEST, also with two
\* sessions writing it), not the client's ack mark, and no stored segment vanishes.
PromisesKept ==
    [][\A x \in Streams : /\ watermark[x] \subseteq watermark'[x]
                          /\ acks[x] \subseteq acks'[x]
                          /\ durable[x] \subseteq durable'[x]]_vars

\* The ledger's segments, of a per-stream set.
SegmentsOf(f) == {p \in Streams \X Seqs : p[2] \in f[p[1]]}

\* The custody of audio this path implements: rows of the segments table are held, rows
\* and objects of the gateway are stored, spool_eviction events write off.
Ledger == INSTANCE AudioLedger WITH
    Segments <- Streams \X Seqs,
    Calls <- Calls,
    held <- SegmentsOf(segs),
    stored <- SegmentsOf(durable),
    written <- SegmentsOf(lossEvents),
    turned <- SegmentsOf(refused),
    handed <- outbox

\* Spool, uplink, wire and sessions together are an audio ledger: a row leaves the spool
\* only because the gateway has it or with an event, nothing enters the gateway's store
\* that was not recorded, and no step but a first FinishCall hands a call over.
ImplementsLedger == Ledger!Spec

\* Whatever is spooled reaches the gateway's store, or is given up with an event,
\* after any finite number of lost connections, failed writes, restarts and crashes:
\* what sent_through suppresses on one connection is sent again on the next.
EventuallyStored ==
    \A x \in Streams, n \in Seqs :
        (n \in segs[x]) ~> (n \in durable[x] \cup lossEvents[x])

\* A recorded call.end reaches FinishCall, unless the call is sealed or the process
\* that remembers it dies (pending_calls does not list a call whose audio is acked).
EventuallyFinalized ==
    \A c \in Calls : (c \in endRow \cap known) ~> (c \in endedAt \cup sealed \/ c \notin known)

\* contracts/wire.md 3.2: the server "holds finalization until every sequence up to
\* last_seq has arrived": a call handed to the pipeline is stored in full.
FinalizedComplete ==
    \A x \in Streams : x[1] \in endedAt => produced[x] \subseteq durable[x]
====
