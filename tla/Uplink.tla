---- MODULE Uplink ----
(***************************************************************************)
(* The agent's uplink (client/sentinel-agent/src/uplink): drains the spool *)
(* over one WebSocket connection at a time.  The agent is one thread: a    *)
(* tick runs the capture step, which begins calls, pushes segments and     *)
(* ends calls, and then one pump.  A pump sends for every known call in    *)
(* turn and reads every reply; the sends of two calls touch disjoint       *)
(* state, so an iteration of send_pending for one call is one action here. *)
(***************************************************************************)
EXTENDS Spool

CONSTANT PassLimit     \* SEGMENTS_PER_PASS: rows read from the spool per pass and call

ASSUME UplinkAssumption == PassLimit \in Nat \ {0}

VARIABLES user,     \* the signed-in user: read at call.start and at every connect
          cur,      \* the call being captured, NoCall between calls
          conn,     \* the connection the transport holds, NoConn if none
          known,    \* known_calls
          started,  \* started_this_connection
          ended,    \* ended_this_connection
          resumed,  \* resume_points: per stream the mark the server reported
          sent,     \* sent_through: per stream the mark of what was handed over
          awaiting, \* awaiting_resume
          revoked   \* a 4403 arrived: no more pumping

uplinkVars == <<user, cur, conn, known, started, ended, resumed, sent, awaiting, revoked>>

UplinkTypeOK ==
    /\ user \in Users
    /\ cur \in Calls \cup {NoCall}
    /\ conn \in Conns \cup {NoConn}
    /\ known \subseteq Calls /\ started \subseteq Calls /\ ended \subseteq Calls
    /\ resumed \in PerStream /\ sent \in PerStream
    /\ awaiting \subseteq Calls
    /\ revoked \in BOOLEAN

UplinkInit ==
    /\ user \in Users
    /\ cur = NoCall /\ conn = NoConn
    /\ known = {} /\ started = {} /\ ended = {}
    /\ resumed = Nothing /\ sent = Nothing
    /\ awaiting = {} /\ revoked = FALSE

-----------------------------------------------------------------------------
\* The identity gate lets the pipeline step: never once the device is revoked.
MayCapture == ~revoked

\* The next segment an encoder of the current call produces.  A channel's sequence
\* numbers are consecutive; they start at 0 only if the encoders were restarted when
\* the detector armed, which a session that turns active inside on_session_state skips.
NextSegment(x, n) ==
    /\ MayCapture
    /\ cur # NoCall /\ x[1] = cur
    /\ n \in Seqs \ produced[x]
    /\ produced[x] = {} \/ n - 1 \in produced[x]

\* The capture pipeline confirmed a call: mint the id, store call.start.  A call that was
\* cut short by a block is still current and is replaced without a call.end.
BeginCall(c) ==
    /\ MayCapture
    /\ owner[c] = NoUser
    /\ SpoolBegin(c, user)
    /\ cur' = c
    /\ known' = known \cup {c}
    /\ UNCHANGED <<c2s, s2c, faults, user, conn, started, ended, resumed, sent,
                   awaiting, revoked>>

\* drain_encoders: a finished segment is spooled; nothing is evicted.
PushSegment(x, n) ==
    /\ NextSegment(x, n)
    /\ SpoolPush(x, n, Nothing)
    /\ UNCHANGED <<c2s, s2c, faults, uplinkVars>>

\* The same write with the spool at one of its caps: older rows are evicted.
PushEvicting(x, n, y, m) ==
    /\ NextSegment(x, n)
    /\ m \in segs[y] \/ (y = x /\ m = n)
    /\ Fault("evict")
    /\ SpoolPush(x, n, [Nothing EXCEPT ![y] = {m}])
    /\ UNCHANGED <<c2s, s2c, uplinkVars>>

\* The same write for a sealed call fails, and the tick with it.  In finish_call
\* (the tail of the call) the failure also leaves call.end unrecorded.
PushRefused(x, n) ==
    /\ NextSegment(x, n)
    /\ SpoolRefuse(x, n)
    /\ cur' \in {cur, NoCall}
    /\ UNCHANGED <<c2s, s2c, faults, user, conn, known, started, ended, resumed,
                   sent, awaiting, revoked>>

\* finish_call: call.end is recorded with the last sequence numbers.
EndCall ==
    /\ MayCapture
    /\ cur # NoCall
    /\ SpoolEnd(cur)
    /\ cur' = NoCall
    /\ UNCHANGED <<c2s, s2c, faults, user, conn, known, started, ended, resumed,
                   sent, awaiting, revoked>>

\* Sign-out and sign-in, also while a call is recorded.  Unflushed rows stay in the spool, and an
\* open transport keeps the token it was opened with.
SignIn(u) ==
    /\ u # user
    /\ user' = u
    /\ UNCHANGED <<c2s, s2c, faults, spoolVars, cur, conn, known, started, ended,
                   resumed, sent, awaiting, revoked>>

\* The agent process dies and is relaunched: only the spool survives, and
\* Uplink::new takes its calls from pending_calls.
CrashRestart ==
    /\ Fault("crash")
    /\ cur' = NoCall /\ conn' = NoConn
    /\ known' = PendingCalls
    /\ started' = {} /\ ended' = {} /\ awaiting' = {}
    /\ resumed' = Nothing /\ sent' = Nothing
    /\ revoked' = FALSE
    /\ UNCHANGED <<c2s, s2c, spoolVars, user>>

-----------------------------------------------------------------------------
\* Mutants of Dial: sent_through, or ended_this_connection, survives a reconnect.
DialKeepsSent(k) ==
    /\ conn = NoConn /\ ~revoked
    /\ conn' = k
    /\ started' = {} /\ ended' = {} /\ awaiting' = {}
    /\ resumed' = Nothing
    /\ UNCHANGED <<user, cur, known, sent, revoked>>
DialKeepsEnded(k) ==
    /\ conn = NoConn /\ ~revoked
    /\ conn' = k
    /\ started' = {} /\ awaiting' = {}
    /\ resumed' = Nothing /\ sent' = Nothing
    /\ UNCHANGED <<user, cur, known, ended, revoked>>

\* pump, connect branch, on the client's side.
Dial(k) ==
    /\ conn = NoConn /\ ~revoked
    /\ conn' = k
    /\ started' = {} /\ ended' = {} /\ awaiting' = {}
    /\ resumed' = Nothing /\ sent' = Nothing
    /\ UNCHANGED <<user, cur, known, revoked>>

\* is_replay: the spool holds an ack for the call, so a resume is owed.
Replayed(c) == Holds(c, acks)

\* What this pass may send of a call: pending rows from the resume point on that
\* were not handed to this connection before.
Batch(c) == Without(Without(TakePending(c, PassLimit), resumed), sent)

\* The frames of one iteration of send_pending for call c.
Frames(c) ==
    LET hold == IF c \in started THEN c \in awaiting ELSE Replayed(c)
    IN  (IF c \in started THEN <<>> ELSE <<StartFrame(c, owner[c])>>)
        \o (IF hold \/ Batch(c) = Nothing THEN <<>> ELSE <<MediaFrame(c, Batch(c))>>)
        \o (IF hold \/ c \in ended \/ c \notin endRow THEN <<>> ELSE <<EndFrame(c)>>)

\* A pass has something to send for call c.
CanSend(c) ==
    /\ conn # NoConn /\ ~revoked
    /\ c \in known \cup PendingCalls /\ c \notin sealed
    /\ Frames(c) # <<>>

\* send_pending for one call: call.start once per connection, then media unless the
\* call waits for its resume, then call.end.
SendCall(c) ==
    LET hold == IF c \in started THEN c \in awaiting ELSE Replayed(c)
    IN  /\ CanSend(c)
        /\ c2s' = [c2s EXCEPT ![conn] = @ \o Frames(c)]
        /\ known' = known \cup PendingCalls
        /\ started' = started \cup {c}
        /\ awaiting' = IF hold THEN awaiting \cup {c} ELSE awaiting
        /\ sent' = IF hold THEN sent
                   ELSE Join(sent, [x \in Streams |->
                            {n \in Seqs : \E m \in Batch(c)[x] : n <= m}])
        /\ ended' = IF hold \/ c \notin endRow THEN ended ELSE ended \cup {c}
        /\ UNCHANGED <<s2c, faults, spoolVars, user, cur, conn, resumed, revoked>>

\* RESUME_TIMEOUT_MS passed with no resume: stop waiting.
ResumeTimeout(c) ==
    /\ conn # NoConn /\ c \in awaiting
    /\ awaiting' = awaiting \ {c}
    /\ UNCHANGED <<c2s, s2c, faults, spoolVars, user, cur, conn, known, started,
                   ended, resumed, sent, revoked>>

-----------------------------------------------------------------------------
\* read_incoming takes the next reply of the connection.
Incoming == Head(s2c[conn])
Receiving(kind) ==
    /\ conn # NoConn /\ ~revoked
    /\ s2c[conn] # <<>> /\ Incoming.t \in kind
    /\ s2c' = [s2c EXCEPT ![conn] = Tail(@)]

\* handle_control, Ack.
RecvAck ==
    /\ Receiving({"ack"})
    /\ SpoolAck(Incoming.marks)
    /\ UNCHANGED <<c2s, faults, uplinkVars>>

\* handle_control, Resume: the resume point is the higher of our mark and theirs.
RecvResume ==
    /\ Receiving({"resume"})
    /\ awaiting' = awaiting \ {Incoming.call}
    /\ resumed' = [x \in Streams |-> IF x[1] = Incoming.call
                                     THEN acks[x] \cup Incoming.marks[x]
                                     ELSE resumed[x]]
    /\ UNCHANGED <<c2s, faults, spoolVars, user, cur, conn, known, started, ended,
                   sent, revoked>>

\* handle_control, fatal CallError: seal the call.
RecvFatal ==
    /\ Receiving({"fatal"})
    /\ SpoolSeal(Incoming.call)
    /\ known' = known \ {Incoming.call}
    /\ UNCHANGED <<c2s, faults, user, cur, conn, started, ended, resumed, sent,
                   awaiting, revoked>>

\* read_incoming, Closed: drop the connection; 4403 is terminal.
RecvClose ==
    /\ Receiving(CloseCodes)
    /\ conn' = NoConn
    /\ revoked' = (Incoming.t = "forbidden")
    /\ UNCHANGED <<c2s, faults, spoolVars, user, cur, known, started, ended,
                   resumed, sent, awaiting>>

\* A send or a receive failed: drop_connection.
DropConnection ==
    /\ conn # NoConn
    /\ Fault("drop")
    /\ conn' = NoConn
    /\ UNCHANGED <<c2s, s2c, spoolVars, user, cur, known, started, ended, resumed,
                   sent, awaiting, revoked>>
====
