---- MODULE IngestSession ----
(***************************************************************************)
(* The gateway's side of WSS /v1/ingest: one Session per connection        *)
(* (server/gateway/internal/ingest/session.go), the select loop that feeds *)
(* it (ws.go) and the DBSink it writes through (sink.go).  A session dies  *)
(* with its connection; the rows it wrote are shared by all sessions.      *)
(*                                                                         *)
(* Which streams are due for an ack depends on timers and counters only,   *)
(* and a failed SetWatermark just leaves a stream out, so a handler acks   *)
(* any subset of the streams that have something new to promise.           *)
(***************************************************************************)
EXTENDS IngestWire

CONSTANT MaxCallsPerConn

ASSUME SessionAssumption == MaxCallsPerConn \in Nat \ {0}

VARIABLES open,      \* [Conns -> BOOLEAN]: the server goroutine of the slot is running
          peer,      \* [Conns -> Users]: user_uid of the bearer token
          sessCalls, \* [Conns -> SUBSET Calls]: keys of Session.calls
          have,      \* [Conns -> PerStream]: 0..through and ahead of every channelState
          acked,     \* [Conns -> PerStream]: channelState.acked, as the mark it covers
          orphans,   \* [Conns -> PerStream]: records that came before their call.start
          dbUser,    \* calls rows: user_uid, NoUser when there is no row
          durable,   \* media_segments rows whose object is stored
          watermark, \* ingest_watermarks, as the mark each row covers
          endedAt,   \* calls whose ended_at is set
          outbox     \* [Calls -> Nat]: finalize messages enqueued for a call

connVars == <<open, peer, sessCalls, have, acked, orphans>>
sinkVars == <<dbUser, durable, watermark, endedAt, outbox>>

SessionTypeOK ==
    /\ open \in [Conns -> BOOLEAN]
    /\ peer \in [Conns -> Users \cup {NoUser}]
    /\ sessCalls \in [Conns -> SUBSET Calls]
    /\ have \in [Conns -> PerStream]
    /\ acked \in [Conns -> PerStream]
    /\ orphans \in [Conns -> PerStream]
    /\ dbUser \in [Calls -> Users \cup {NoUser}]
    /\ durable \in PerStream
    /\ watermark \in PerStream
    /\ endedAt \subseteq Calls
    /\ outbox \in [Calls -> Nat]

SessionInit ==
    /\ open = [k \in Conns |-> FALSE]
    /\ peer = [k \in Conns |-> NoUser]
    /\ sessCalls = [k \in Conns |-> {}]
    /\ have = [k \in Conns |-> Nothing]
    /\ acked = [k \in Conns |-> Nothing]
    /\ orphans = [k \in Conns |-> Nothing]
    /\ dbUser = [c \in Calls |-> NoUser]
    /\ durable = Nothing
    /\ watermark = Nothing
    /\ endedAt = {}
    /\ outbox = [c \in Calls |-> 0]

\* NewSession for an authenticated user: nothing is known until call.start.
NewSession(k, u) ==
    /\ open' = [open EXCEPT ![k] = TRUE]
    /\ peer' = [peer EXCEPT ![k] = u]
    /\ sessCalls' = [sessCalls EXCEPT ![k] = {}]
    /\ have' = [have EXCEPT ![k] = Nothing]
    /\ acked' = [acked EXCEPT ![k] = Nothing]
    /\ orphans' = [orphans EXCEPT ![k] = Nothing]

\* The handler goroutine returns: the session and what it had not read are gone.
EndSession(k) ==
    /\ open' = [open EXCEPT ![k] = FALSE]
    /\ peer' = [peer EXCEPT ![k] = NoUser]
    /\ sessCalls' = [sessCalls EXCEPT ![k] = {}]
    /\ have' = [have EXCEPT ![k] = Nothing]
    /\ acked' = [acked EXCEPT ![k] = Nothing]
    /\ orphans' = [orphans EXCEPT ![k] = Nothing]
    /\ c2s' = [c2s EXCEPT ![k] = <<>>]

\* The frame the session reads next.
Next1(k) == Head(c2s[k])
Reading(k, kind) == open[k] /\ c2s[k] # <<>> /\ Next1(k).t = kind
Pop(k) == c2s' = [c2s EXCEPT ![k] = Tail(@)]
Say(k, rs) == s2c' = [s2c EXCEPT ![k] = @ \o rs]

\* ackChannel's condition over the stored sets h and the last acks base: something new
\* to promise.
Promisable(calls, h, base) ==
    {x \in Streams : x[1] \in calls /\ Prefix(h[x]) # {} /\ Prefix(h[x]) # base[x]}

\* Mutant of Ack: the watermark row is overwritten instead of raised.
AckOverwrites(k, h, due, base, first) ==
    LET marks == [x \in Streams |-> IF x \in due THEN Prefix(h[x]) ELSE {}]
    IN  /\ watermark' = [x \in Streams |-> IF x \in due THEN marks[x] ELSE watermark[x]]
        /\ acked' = [acked EXCEPT ![k] = [x \in Streams |->
                        IF x \in due THEN marks[x] ELSE base[x]]]
        /\ Say(k, IF due = {} THEN first ELSE Append(first, AckReply(marks)))

\* emitDueAcks / flushAcks over the streams of due: the watermark row is written
\* (GREATEST) before the ack is queued, behind the replies in first.
Ack(k, h, due, base, first) ==
    LET marks == [x \in Streams |-> IF x \in due THEN Prefix(h[x]) ELSE {}]
    IN  /\ watermark' = Join(watermark, marks)
        /\ acked' = [acked EXCEPT ![k] = [x \in Streams |->
                        IF x \in due THEN marks[x] ELSE base[x]]]
        /\ Say(k, IF due = {} THEN first ELSE Append(first, AckReply(marks)))

-----------------------------------------------------------------------------
\* OnCallStart, identity check: the frame names a user the token does not.
CallStartMismatch(k) ==
    /\ Reading(k, "start")
    /\ Next1(k).user # peer[k]
    /\ Pop(k) /\ Say(k, <<FatalReply(Next1(k).call)>>)
    /\ UNCHANGED <<connVars, sinkVars, faults>>

\* OnCallStart over the limit: the connection is closed with 4429.
CallStartTooMany(k) ==
    /\ Reading(k, "start")
    /\ Next1(k).user = peer[k]
    /\ Cardinality(sessCalls[k]) >= MaxCallsPerConn
    /\ EndSession(k) /\ Say(k, <<CloseReply("too_many")>>)
    /\ UNCHANGED <<sinkVars, faults>>

\* Mutant of MayOpen: call.start is accepted without comparing its user to the token.
MayOpenAnyone(k) ==
    /\ Reading(k, "start")
    /\ Cardinality(sessCalls[k]) < MaxCallsPerConn

\* OnCallStart past its two checks.
MayOpen(k) ==
    /\ Reading(k, "start")
    /\ Next1(k).user = peer[k]
    /\ Cardinality(sessCalls[k]) < MaxCallsPerConn

\* EnsureCall failed: a non-fatal call.error, and the call stays unknown here.
CallStartFailed(k) ==
    /\ MayOpen(k)
    /\ Fault("ensure")
    /\ Pop(k)
    /\ UNCHANGED <<s2c, connVars, sinkVars>>

\* storeRecord: what is at or below through is dropped, the rest goes to PutSegment.
Stored(recs, h) == [x \in Streams |-> recs[x] \ Prefix(h[x])]

\* A stream of the call with a watermark row, and what a channelState holds beyond through.
Known(c, x) == x[1] = c /\ watermark[x] # {}
Ahead(S) == S \ Prefix(S)

\* OnCallStart: the row is created or found, the watermarks are loaded over what the
\* session had, a known call is answered with resume, and buffered orphans are stored.
CallStart(k) ==
    LET c == Next1(k).call
        mine == OnlyCall(c, orphans[k])
        loaded == [x \in Streams |-> IF Known(c, x) THEN watermark[x] \cup Ahead(have[k][x])
                                     ELSE have[k][x]]
        h == Join(loaded, mine)
        base == [x \in Streams |-> IF Known(c, x) THEN watermark[x] ELSE acked[k][x]]
        resume == IF dbUser[c] = NoUser THEN <<>>
                  ELSE <<ResumeReply(c, [x \in Streams |->
                            IF x[1] = c THEN Prefix(loaded[x]) ELSE {}])>>
    IN  /\ MayOpen(k)
        /\ Pop(k)
        /\ dbUser' = IF dbUser[c] = NoUser THEN [dbUser EXCEPT ![c] = Next1(k).user]
                     ELSE dbUser
        /\ sessCalls' = [sessCalls EXCEPT ![k] = @ \cup {c}]
        /\ orphans' = [orphans EXCEPT ![k] = NotCall(c, @)]
        /\ have' = [have EXCEPT ![k] = h]
        /\ durable' = Join(durable, Stored(mine, loaded))
        /\ \E due \in SUBSET Promisable(sessCalls[k] \cup {c}, h, base) :
              Ack(k, h, due, base, resume)
        /\ UNCHANGED <<open, peer, endedAt, outbox, faults>>

\* dispatch hands the records of a binary message to OnMedia in order, one by one.
Record(k) == {p \in Streams \X Seqs : p[2] \in Next1(k).recs[p[1]]}
First(k, x, n) == \A p \in Record(k) : x[2] < p[1][2] \/ (x = p[1] /\ n <= p[2])
PopRecord(k, x, n) ==
    LET left == [Next1(k).recs EXCEPT ![x] = @ \ {n}]
        rest == IF left = Nothing THEN <<>> ELSE <<MediaFrame(Next1(k).call, left)>>
    IN  c2s' = [c2s EXCEPT ![k] = rest \o Tail(@)]

\* OnMedia for a call this session does not know: the record is buffered.
MediaOrphan(k) ==
    /\ Reading(k, "media")
    /\ Next1(k).call \notin sessCalls[k]
    /\ \E x \in Streams : \E n \in Next1(k).recs[x] :
          /\ First(k, x, n) /\ PopRecord(k, x, n)
          /\ orphans' = [orphans EXCEPT ![k][x] = @ \cup {n}]
    /\ UNCHANGED <<s2c, open, peer, sessCalls, have, acked, sinkVars, faults>>

\* OnMedia: PutSegment is idempotent, advance absorbs what is now contiguous.
Media(k) ==
    /\ Reading(k, "media")
    /\ Next1(k).call \in sessCalls[k]
    /\ \E x \in Streams : \E n \in Next1(k).recs[x] :
          LET h == [have[k] EXCEPT ![x] = @ \cup {n}]
          IN  /\ First(k, x, n) /\ PopRecord(k, x, n)
              /\ durable' = Join(durable, Stored([Nothing EXCEPT ![x] = {n}], have[k]))
              /\ have' = [have EXCEPT ![k] = h]
              /\ \E due \in SUBSET Promisable(sessCalls[k], h, acked[k]) :
                    Ack(k, h, due, acked[k], <<>>)
    /\ UNCHANGED <<open, peer, sessCalls, orphans, dbUser, endedAt, outbox, faults>>

\* PutSegment failed: dispatch drops the rest of the binary message.
MediaFailed(k) ==
    /\ Reading(k, "media")
    /\ Next1(k).call \in sessCalls[k]
    /\ \E x \in Streams : \E n \in Next1(k).recs[x] :
          First(k, x, n) /\ n \notin Prefix(have[k][x])
    /\ Fault("store")
    /\ Pop(k)
    /\ UNCHANGED <<s2c, connVars, sinkVars>>

\* OnCallEnd for a call this session does not know: fatal.
CallEndUnknown(k) ==
    /\ Reading(k, "end")
    /\ Next1(k).call \notin sessCalls[k]
    /\ Pop(k) /\ Say(k, <<FatalReply(Next1(k).call)>>)
    /\ UNCHANGED <<connVars, sinkVars, faults>>

\* FinishCall failed: a non-fatal call.error.
CallEndFailed(k) ==
    /\ Reading(k, "end")
    /\ Next1(k).call \in sessCalls[k]
    /\ Fault("finish")
    /\ Pop(k)
    /\ UNCHANGED <<s2c, connVars, sinkVars>>

\* Mutant of FinishCall: the ended_at IS NULL guard is missing.
FinishAgain(c) ==
    /\ endedAt' = endedAt \cup {c}
    /\ outbox' = [outbox EXCEPT ![c] = @ + 1]

\* FinishCall: ended_at and the outbox row commit together, once per call row.
FinishCall(c) ==
    LET first == dbUser[c] # NoUser /\ c \notin endedAt
    IN  /\ endedAt' = IF first THEN endedAt \cup {c} ELSE endedAt
        /\ outbox' = IF first THEN [outbox EXCEPT ![c] = @ + 1] ELSE outbox

\* OnCallEnd: finish the call, then flush the acks of every stream of the session.
CallEnd(k) ==
    /\ Reading(k, "end")
    /\ Next1(k).call \in sessCalls[k]
    /\ Pop(k)
    /\ FinishCall(Next1(k).call)
    /\ \E due \in SUBSET Promisable(sessCalls[k], have[k], acked[k]) :
          Ack(k, have[k], due, acked[k], <<>>)
    /\ UNCHANGED <<open, peer, sessCalls, have, orphans, dbUser, durable, faults>>

\* Tick runs emitDueAcks, expireOrphans and the idle check in this order.  Each has
\* a timer of its own and may find nothing due, so each is an action: a Tick that
\* does two of them is two steps in a row.
\* Tick, emitDueAcks: the ack interval has passed on some streams.
TickAck(k) ==
    /\ open[k]
    /\ \E due \in (SUBSET Promisable(sessCalls[k], have[k], acked[k])) \ {{}} :
          Ack(k, have[k], due, acked[k], <<>>)
    /\ UNCHANGED <<c2s, open, peer, sessCalls, have, orphans, dbUser, durable,
                   endedAt, outbox, faults>>

\* Tick: no call.start came within OrphanGrace, the buffered records are dropped.
TickOrphans(k, c) ==
    /\ open[k]
    /\ Holds(c, orphans[k])
    /\ orphans' = [orphans EXCEPT ![k] = NotCall(c, @)]
    /\ Say(k, <<FatalReply(c)>>)
    /\ UNCHANGED <<c2s, open, peer, sessCalls, have, acked, sinkVars, faults>>

\* Tick: no frame for IdleTimeout, the connection is closed with 4408.  The Tick,
\* like the ones before it, has emitted every ack that was due first.
TickIdle(k) ==
    /\ open[k]
    /\ c2s[k] = <<>>
    /\ Promisable(sessCalls[k], have[k], acked[k]) = {}
    /\ EndSession(k) /\ Say(k, <<CloseReply("idle")>>)
    /\ UNCHANGED <<sinkVars, faults>>

\* The revocation poll found the device inactive: close with 4403.
Revoke(k) ==
    /\ open[k]
    /\ Fault("revoke")
    /\ EndSession(k) /\ Say(k, <<CloseReply("forbidden")>>)
    /\ UNCHANGED sinkVars
====
