---- MODULE IngestProofs ----
(***************************************************************************)
(* Theorems about Ingest for every number of calls, channels, segments,    *)
(* users, connections and failures.                                        *)
(***************************************************************************)
EXTENDS Ingest, SequenceTheorems, TLAPS

-----------------------------------------------------------------------------
(* Facts about per-stream sets.                                            *)

\* The operators on per-stream sets stay within their type.
LEMMA PerStreamClosed ==
    ASSUME NEW f \in PerStream, NEW g \in PerStream, NEW c \in Calls
    PROVE  /\ Nothing \in PerStream
           /\ Join(f, g) \in PerStream
           /\ Without(f, g) \in PerStream
           /\ OnlyCall(c, f) \in PerStream
           /\ NotCall(c, f) \in PerStream
  BY DEF PerStream, Nothing, Join, Without, OnlyCall, NotCall

\* A single stream may be given any other set of segments.
LEMMA PerStreamExcept ==
    ASSUME NEW f \in PerStream, NEW x \in Streams, NEW S \in SUBSET Seqs
    PROVE  [f EXCEPT ![x] = S] \in PerStream
  BY DEF PerStream

\* A mark covers only what is stored.
LEMMA PrefixStored == ASSUME NEW S PROVE Prefix(S) \subseteq S
  BY DEF Prefix

\* The marks of one ack, for the streams of due.
LEMMA MarksType ==
    ASSUME NEW h \in PerStream, NEW due
    PROVE  [x \in Streams |-> IF x \in due THEN Prefix(h[x]) ELSE {}] \in PerStream
  BY PrefixStored DEF PerStream

-----------------------------------------------------------------------------
(* Messages.                                                               *)

\* The client's frames are frames.
LEMMA FrameTypes ==
    ASSUME NEW c \in Calls, NEW u \in Users \cup {NoUser}, NEW r \in PerStream
    PROVE  /\ StartFrame(c, u) \in Frame
           /\ MediaFrame(c, r) \in Frame
           /\ EndFrame(c) \in Frame
  <1>1. Nothing \in PerStream
    BY DEF PerStream, Nothing
  <1> QED
    BY <1>1 DEF Frame, StartFrame, MediaFrame, EndFrame

\* The server's replies are replies.
LEMMA ReplyTypes ==
    ASSUME NEW c \in Calls, NEW m \in PerStream, NEW code \in CloseCodes
    PROVE  /\ ResumeReply(c, m) \in Reply
           /\ AckReply(m) \in Reply
           /\ FatalReply(c) \in Reply
           /\ CloseReply(code) \in Reply
  <1>1. Nothing \in PerStream
    BY DEF PerStream, Nothing
  <1> QED
    BY <1>1 DEF Reply, ResumeReply, AckReply, FatalReply, CloseReply, CloseCodes

-----------------------------------------------------------------------------
(* Steps that only pass messages.                                          *)

\* Reading a frame keeps the queues well typed.
LEMMA PopType ==
    ASSUME WireTypeOK, NEW k \in Conns, c2s[k] # <<>>, Pop(k)
    PROVE  c2s' \in [Conns -> Seq(Frame)]
  <1>1. Tail(c2s[k]) \in Seq(Frame)
    BY HeadTailProperties DEF WireTypeOK
  <1> QED
    BY <1>1 DEF WireTypeOK, Pop

\* The frame a session reads is a frame.
LEMMA HeadType ==
    ASSUME WireTypeOK, NEW k \in Conns, c2s[k] # <<>>
    PROVE  Next1(k) \in Frame
  BY HeadTailProperties DEF WireTypeOK, Next1

\* Queueing replies keeps the queues well typed.
LEMMA SayType ==
    ASSUME WireTypeOK, NEW k \in Conns, NEW rs \in Seq(Reply), Say(k, rs)
    PROVE  s2c' \in [Conns -> Seq(Reply)]
  <1>1. s2c[k] \o rs \in Seq(Reply)
    BY ConcatProperties DEF WireTypeOK
  <1> QED
    BY <1>1 DEF WireTypeOK, Say

\* The budget of failures stays a number.
LEMMA FaultType ==
    ASSUME WireTypeOK, NEW kind, Fault(kind)
    PROVE  faults' \in Nat
  BY DEF WireTypeOK, Fault

\* A session that ends leaves well-typed state behind.
LEMMA EndSessionType ==
    ASSUME WireTypeOK, SessionTypeOK, NEW k \in Conns, EndSession(k)
    PROVE  /\ c2s' \in [Conns -> Seq(Frame)]
           /\ open' \in [Conns -> BOOLEAN]
           /\ peer' \in [Conns -> Users \cup {NoUser}]
           /\ sessCalls' \in [Conns -> SUBSET Calls]
           /\ have' \in [Conns -> PerStream]
           /\ acked' \in [Conns -> PerStream]
           /\ orphans' \in [Conns -> PerStream]
  <1>1. Nothing \in PerStream
    BY DEF PerStream, Nothing
  <1> QED
    BY <1>1 DEF WireTypeOK, SessionTypeOK, EndSession

\* Acknowledging keeps the types.
LEMMA AckType ==
    ASSUME WireTypeOK, SessionTypeOK, NEW k \in Conns, NEW h \in PerStream,
           NEW due, NEW base \in PerStream, NEW first \in Seq(Reply),
           Ack(k, h, due, base, first)
    PROVE  /\ watermark' \in PerStream
           /\ acked' \in [Conns -> PerStream]
           /\ s2c' \in [Conns -> Seq(Reply)]
  <1> DEFINE marks == [x \in Streams |-> IF x \in due THEN Prefix(h[x]) ELSE {}]
             now == [x \in Streams |-> IF x \in due THEN marks[x] ELSE base[x]]
             rs == IF due = {} THEN first ELSE Append(first, AckReply(marks))
  <1>1. marks \in PerStream
    BY MarksType
  <1>2. now \in PerStream
    BY <1>1 DEF PerStream
  <1>3. AckReply(marks) \in Reply
    BY <1>1 DEF AckReply, Reply
  <1>4. rs \in Seq(Reply)
    BY <1>3, AppendProperties
  <1>5. /\ watermark' = Join(watermark, marks)
        /\ acked' = [acked EXCEPT ![k] = now]
        /\ Say(k, rs)
    BY DEF Ack
  <1>6. Join(watermark, marks) \in PerStream
    BY <1>1 DEF SessionTypeOK, PerStream, Join
  <1> HIDE DEF marks, now, rs
  <1> QED
    BY <1>2, <1>4, <1>5, <1>6, SayType DEF SessionTypeOK

-----------------------------------------------------------------------------
(* Type correctness.                                                       *)

\* The initial states are well typed.
LEMMA TypeInit == Init => TypeOK
  <1>1. Nothing \in PerStream
    BY DEF PerStream, Nothing
  <1>2. \A S : <<>> \in Seq(S)
    BY EmptySeq
  <1>3. WireInit => WireTypeOK
    BY <1>2 DEF WireInit, WireTypeOK
  <1>4. SpoolInit => SpoolTypeOK
    BY <1>1 DEF SpoolInit, SpoolTypeOK
  <1>5. UplinkInit => UplinkTypeOK
    BY <1>1 DEF UplinkInit, UplinkTypeOK
  <1>6. SessionInit => SessionTypeOK
    BY <1>1 DEF SessionInit, SessionTypeOK
  <1> QED
    BY <1>3, <1>4, <1>5, <1>6 DEF Init, TypeOK

\* Every step of the capture pipeline keeps the types.
LEMMA CaptureType ==
    ASSUME TypeOK, Capture
    PROVE  WireTypeOK' /\ SpoolTypeOK' /\ UplinkTypeOK'
  <1> USE DEF TypeOK
  <1>0. Nothing \in PerStream
    BY DEF PerStream, Nothing
  <1>1. ASSUME NEW x \in Streams, NEW n \in Seqs, NEW out \in PerStream,
               SpoolPush(x, n, out)
        PROVE  SpoolTypeOK'
    <2> DEFINE pushed == [segs EXCEPT ![x] = @ \cup {n}]
    <2>1. pushed \in PerStream /\ [produced EXCEPT ![x] = @ \cup {n}] \in PerStream
      BY DEF SpoolTypeOK, PerStream
    <2>2. Without(pushed, out) \in PerStream /\ Join(lossEvents, out) \in PerStream
      BY <2>1 DEF SpoolTypeOK, PerStream, Without, Join
    <2> HIDE DEF pushed
    <2>3. segs' = Without(pushed, out)
      BY <1>1 DEF SpoolPush, pushed
    <2> QED
      BY <1>1, <2>1, <2>2, <2>3 DEF SpoolPush, SpoolTypeOK
  <1>2. ASSUME NEW c \in Calls, BeginCall(c)
        PROVE  WireTypeOK' /\ SpoolTypeOK' /\ UplinkTypeOK'
    BY <1>2 DEF BeginCall, SpoolBegin, WireTypeOK, SpoolTypeOK, UplinkTypeOK
  <1>3. ASSUME NEW x \in Streams, NEW n \in Seqs, PushSegment(x, n)
        PROVE  WireTypeOK' /\ SpoolTypeOK' /\ UplinkTypeOK'
    BY <1>0, <1>1, <1>3 DEF PushSegment, WireTypeOK, UplinkTypeOK, uplinkVars
  <1>4. ASSUME NEW x \in Streams, NEW y \in Streams, NEW n \in Seqs, NEW m \in Seqs,
               PushEvicting(x, n, y, m)
        PROVE  WireTypeOK' /\ SpoolTypeOK' /\ UplinkTypeOK'
    <2>1. [Nothing EXCEPT ![y] = {m}] \in PerStream
      BY DEF PerStream, Nothing
    <2> QED
      BY <1>1, <1>4, <2>1
         DEF PushEvicting, Fault, WireTypeOK, UplinkTypeOK, uplinkVars
  <1>5. ASSUME NEW x \in Streams, NEW n \in Seqs, PushRefused(x, n)
        PROVE  WireTypeOK' /\ SpoolTypeOK' /\ UplinkTypeOK'
    <2>1. /\ [produced EXCEPT ![x] = @ \cup {n}] \in PerStream
          /\ [refused EXCEPT ![x] = @ \cup {n}] \in PerStream
      BY DEF SpoolTypeOK, PerStream
    <2> QED
      BY <1>5, <2>1 DEF PushRefused, SpoolRefuse, WireTypeOK, SpoolTypeOK, UplinkTypeOK
  <1>6. ASSUME EndCall
        PROVE  WireTypeOK' /\ SpoolTypeOK' /\ UplinkTypeOK'
    BY <1>6 DEF EndCall, SpoolEnd, WireTypeOK, SpoolTypeOK, UplinkTypeOK
  <1> QED
    BY <1>2, <1>3, <1>4, <1>5, <1>6 DEF Capture

\* What a pass may send of a call are segments.
LEMMA BatchType ==
    ASSUME TypeOK, NEW c \in Calls
    PROVE  Batch(c) \in PerStream
  BY DEF TypeOK, SpoolTypeOK, UplinkTypeOK, PerStream, Batch, TakePending, Without

\* A pass sends frames.
LEMMA FramesType ==
    ASSUME TypeOK, NEW c \in Calls
    PROVE  Frames(c) \in Seq(Frame)
  <1> DEFINE hold == IF c \in started THEN c \in awaiting ELSE Replayed(c)
             f1 == IF c \in started THEN <<>> ELSE <<StartFrame(c, owner[c])>>
             f2 == IF hold \/ Batch(c) = Nothing THEN <<>> ELSE <<MediaFrame(c, Batch(c))>>
             f3 == IF hold \/ c \in ended \/ c \notin endRow THEN <<>> ELSE <<EndFrame(c)>>
  <1>1. owner[c] \in Users \cup {NoUser}
    BY DEF TypeOK, SpoolTypeOK
  <1>2. f1 \in Seq(Frame) /\ f2 \in Seq(Frame) /\ f3 \in Seq(Frame)
    BY <1>1, BatchType, FrameTypes
  <1>3. Frames(c) = f1 \o f2 \o f3
    BY DEF Frames
  <1> HIDE DEF f1, f2, f3
  <1> QED
    BY <1>2, <1>3, ConcatProperties

\* The reply the client reads is a reply, and the rest of the queue stays one.
LEMMA IncomingType ==
    ASSUME TypeOK, NEW kind, Receiving(kind)
    PROVE  /\ Incoming \in Reply
           /\ s2c' \in [Conns -> Seq(Reply)]
  <1>1. conn \in Conns /\ s2c[conn] \in Seq(Reply) /\ s2c[conn] # <<>>
    BY DEF TypeOK, WireTypeOK, UplinkTypeOK, Receiving
  <1>2. Head(s2c[conn]) \in Reply /\ Tail(s2c[conn]) \in Seq(Reply)
    BY <1>1, HeadTailProperties
  <1> QED
    BY <1>1, <1>2 DEF Receiving, Incoming, TypeOK, WireTypeOK

\* Every step of a pump keeps the types.
LEMMA PumpType ==
    ASSUME TypeOK, Pump
    PROVE  WireTypeOK' /\ SpoolTypeOK' /\ UplinkTypeOK'
  <1> USE DEF TypeOK
  <1>1. ASSUME NEW c \in Calls, SendCall(c)
        PROVE  WireTypeOK' /\ SpoolTypeOK' /\ UplinkTypeOK'
    <2>1. conn \in Conns
      BY <1>1 DEF SendCall, CanSend, UplinkTypeOK
    <2>2. c2s[conn] \o Frames(c) \in Seq(Frame)
      BY <2>1, FramesType, ConcatProperties DEF WireTypeOK
    <2>3. c2s' \in [Conns -> Seq(Frame)]
      BY <1>1, <2>1, <2>2 DEF SendCall, WireTypeOK
    <2>4. known' \subseteq Calls
      BY <1>1 DEF SendCall, UplinkTypeOK, PendingCalls
    <2>5. sent' \in PerStream
      <3>1. Join(sent, [x \in Streams |-> {n \in Seqs : \E m \in Batch(c)[x] : n <= m}])
               \in PerStream
        BY DEF UplinkTypeOK, PerStream, Join
      <3> QED
        BY <1>1, <3>1 DEF SendCall, UplinkTypeOK
    <2> QED
      BY <1>1, <2>3, <2>4, <2>5
         DEF SendCall, WireTypeOK, SpoolTypeOK, UplinkTypeOK, spoolVars
  <1>2. ASSUME NEW c \in Calls, ResumeTimeout(c)
        PROVE  WireTypeOK' /\ SpoolTypeOK' /\ UplinkTypeOK'
    BY <1>2 DEF ResumeTimeout, WireTypeOK, SpoolTypeOK, UplinkTypeOK, spoolVars
  <1>3. ASSUME RecvAck
        PROVE  WireTypeOK' /\ SpoolTypeOK' /\ UplinkTypeOK'
    <2>1. Incoming.marks \in PerStream /\ s2c' \in [Conns -> Seq(Reply)]
      BY <1>3, IncomingType DEF RecvAck, Reply
    <2>2. acks' \in PerStream
      BY <1>3, <2>1 DEF RecvAck, SpoolAck, SpoolTypeOK, PerStream, Join
    <2>3. segs' \in PerStream
      BY <1>3, <2>1 DEF RecvAck, SpoolAck, SpoolTypeOK, PerStream, Join
    <2> QED
      BY <1>3, <2>1, <2>2, <2>3
         DEF RecvAck, SpoolAck, WireTypeOK, SpoolTypeOK, UplinkTypeOK, uplinkVars
  <1>4. ASSUME RecvResume
        PROVE  WireTypeOK' /\ SpoolTypeOK' /\ UplinkTypeOK'
    <2>1. Incoming.marks \in PerStream /\ s2c' \in [Conns -> Seq(Reply)]
      BY <1>4, IncomingType DEF RecvResume, Reply
    <2>2. resumed' \in PerStream
      BY <1>4, <2>1 DEF RecvResume, SpoolTypeOK, UplinkTypeOK, PerStream
    <2> QED
      BY <1>4, <2>1, <2>2
         DEF RecvResume, WireTypeOK, SpoolTypeOK, UplinkTypeOK, spoolVars
  <1>5. ASSUME RecvFatal
        PROVE  WireTypeOK' /\ SpoolTypeOK' /\ UplinkTypeOK'
    <2>1. Incoming.call \in Calls /\ s2c' \in [Conns -> Seq(Reply)]
      BY <1>5, IncomingType DEF RecvFatal, Receiving, Reply, CloseCodes
    <2>2. OnlyCall(Incoming.call, segs) \in PerStream /\ NotCall(Incoming.call, segs) \in PerStream
      BY <2>1, PerStreamClosed DEF SpoolTypeOK
    <2>3. Join(lossEvents, OnlyCall(Incoming.call, segs)) \in PerStream
      BY <2>1, <2>2, PerStreamClosed DEF SpoolTypeOK
    <2> QED
      BY <1>5, <2>1, <2>2, <2>3
         DEF RecvFatal, WireTypeOK, SpoolTypeOK, UplinkTypeOK, SpoolSeal
  <1>6. ASSUME RecvClose
        PROVE  WireTypeOK' /\ SpoolTypeOK' /\ UplinkTypeOK'
    BY <1>6, IncomingType
       DEF RecvClose, WireTypeOK, SpoolTypeOK, UplinkTypeOK, spoolVars
  <1> QED
    BY <1>1, <1>2, <1>3, <1>4, <1>5, <1>6 DEF Pump

\* A record is taken off a binary message that stays a binary message.
LEMMA PopRecordType ==
    ASSUME WireTypeOK, NEW k \in Conns, c2s[k] # <<>>,
           NEW x \in Streams, NEW n, PopRecord(k, x, n)
    PROVE  c2s' \in [Conns -> Seq(Frame)]
  <1> DEFINE left == [Next1(k).recs EXCEPT ![x] = @ \ {n}]
             rest == IF left = Nothing THEN <<>> ELSE <<MediaFrame(Next1(k).call, left)>>
  <1>1. Next1(k) \in Frame /\ Tail(c2s[k]) \in Seq(Frame)
    BY HeadTailProperties DEF WireTypeOK, Next1
  <1>2. left \in PerStream /\ Next1(k).call \in Calls
    BY <1>1 DEF Frame, PerStream
  <1>3. MediaFrame(Next1(k).call, left) \in Frame
    BY <1>2 DEF MediaFrame, Frame
  <1>4. rest \in Seq(Frame)
    BY <1>3
  <1>5. c2s' = [c2s EXCEPT ![k] = rest \o Tail(c2s[k])]
    BY DEF PopRecord, WireTypeOK
  <1> HIDE DEF rest
  <1>6. rest \o Tail(c2s[k]) \in Seq(Frame)
    BY <1>1, <1>4, ConcatProperties
  <1> QED
    BY <1>5, <1>6 DEF WireTypeOK

\* Every frame handler keeps the types.
LEMMA HandleType ==
    ASSUME TypeOK, NEW k \in Conns, Handle(k)
    PROVE  WireTypeOK' /\ SessionTypeOK'
  <1> USE DEF TypeOK
  <1>0. c2s[k] # <<>> /\ Next1(k) \in Frame
    <2>1. c2s[k] # <<>>
      BY DEF Handle, CallStartMismatch, CallStartTooMany, CallStartFailed, MayOpen,
             CallStart, MediaOrphan, Media, MediaFailed, CallEndUnknown,
             CallEndFailed, CallEnd, Reading
    <2> QED
      BY <2>1, HeadType
  <1>1. Next1(k).call \in Calls /\ Next1(k).user \in Users \cup {NoUser}
        /\ Next1(k).recs \in PerStream
    BY <1>0 DEF Frame
  <1>2. ASSUME Pop(k), UNCHANGED <<s2c, connVars, sinkVars>>, faults' \in Nat
        PROVE  WireTypeOK' /\ SessionTypeOK'
    BY <1>0, <1>2, PopType DEF WireTypeOK, SessionTypeOK, connVars, sinkVars
  <1>3. ASSUME Pop(k), Say(k, <<FatalReply(Next1(k).call)>>),
               UNCHANGED <<connVars, sinkVars, faults>>
        PROVE  WireTypeOK' /\ SessionTypeOK'
    <2>1. <<FatalReply(Next1(k).call)>> \in Seq(Reply)
      BY <1>1 DEF FatalReply, Reply, PerStream, Nothing
    <2> QED
      BY <1>0, <1>3, <2>1, PopType, SayType
         DEF WireTypeOK, SessionTypeOK, connVars, sinkVars
  <1>4. CASE CallStartMismatch(k)
    BY <1>3, <1>4 DEF CallStartMismatch
  <1>5. CASE CallStartTooMany(k)
    <2>1. <<CloseReply("too_many")>> \in Seq(Reply)
      BY DEF CloseReply, CloseCodes, Reply, PerStream, Nothing
    <2> QED
      BY <1>5, <2>1, EndSessionType, SayType
         DEF CallStartTooMany, WireTypeOK, SessionTypeOK, sinkVars
  <1>6. CASE CallStartFailed(k)
    BY <1>2, <1>6, FaultType DEF CallStartFailed
  <1>7. CASE CallStart(k)
    <2> DEFINE c == Next1(k).call
               mine == OnlyCall(c, orphans[k])
               loaded == [x \in Streams |-> IF Known(c, x) THEN watermark[x] \cup Ahead(have[k][x])
                                            ELSE have[k][x]]
               h == Join(loaded, mine)
               base == [x \in Streams |-> IF Known(c, x) THEN watermark[x] ELSE acked[k][x]]
               rm == [x \in Streams |-> IF x[1] = c THEN Prefix(loaded[x]) ELSE {}]
               resume == IF dbUser[c] = NoUser THEN <<>> ELSE <<ResumeReply(c, rm)>>
    <2>1. mine \in PerStream
      BY <1>1, PerStreamClosed DEF SessionTypeOK
    <2>2. loaded \in PerStream /\ base \in PerStream
      BY <1>1 DEF SessionTypeOK, PerStream, Ahead
    <2>3. h \in PerStream
      BY <1>1, <2>1, <2>2, PerStreamClosed
    <2>4. rm \in PerStream
      BY <2>2, PrefixStored DEF PerStream
    <2>5. resume \in Seq(Reply)
      <3> HIDE DEF rm
      <3>1. ResumeReply(c, rm) \in Reply
        BY <1>1, <2>4 DEF ResumeReply, Reply
      <3> QED
        BY <3>1
    <2>6. Join(durable, Stored(mine, loaded)) \in PerStream
      BY <2>1, <2>2 DEF SessionTypeOK, PerStream, Stored, Join
    <2>7. NotCall(c, orphans[k]) \in PerStream
      BY <1>1, PerStreamClosed DEF SessionTypeOK
    <2> HIDE DEF mine, loaded, h, base, rm, resume
    <2>8. PICK due : Ack(k, h, due, base, resume)
      BY <1>7 DEF CallStart, mine, loaded, h, base, rm, resume
    <2>9. watermark' \in PerStream /\ acked' \in [Conns -> PerStream]
          /\ s2c' \in [Conns -> Seq(Reply)]
      BY <2>2, <2>3, <2>5, <2>8, AckType
    <2>10. /\ Pop(k)
           /\ dbUser' = IF dbUser[c] = NoUser THEN [dbUser EXCEPT ![c] = Next1(k).user]
                        ELSE dbUser
           /\ sessCalls' = [sessCalls EXCEPT ![k] = @ \cup {c}]
           /\ orphans' = [orphans EXCEPT ![k] = NotCall(c, @)]
           /\ have' = [have EXCEPT ![k] = h]
           /\ durable' = Join(durable, Stored(mine, loaded))
           /\ UNCHANGED <<open, peer, endedAt, outbox, faults>>
      BY <1>7 DEF CallStart, mine, loaded, h
    <2>11. dbUser' \in [Calls -> Users \cup {NoUser}]
           /\ sessCalls' \in [Conns -> SUBSET Calls]
           /\ orphans' \in [Conns -> PerStream]
           /\ have' \in [Conns -> PerStream]
      BY <1>1, <2>3, <2>7, <2>10 DEF SessionTypeOK
    <2> QED
      BY <1>0, <2>6, <2>9, <2>10, <2>11, PopType DEF WireTypeOK, SessionTypeOK
  <1>8. CASE MediaOrphan(k)
    <2>1. PICK x \in Streams, n \in Seqs :
             PopRecord(k, x, n) /\ orphans' = [orphans EXCEPT ![k][x] = @ \cup {n}]
      BY <1>1, <1>8 DEF MediaOrphan, PerStream
    <2>3. orphans' \in [Conns -> PerStream]
      BY <2>1 DEF SessionTypeOK, PerStream
    <2> QED
      BY <1>0, <1>8, <2>1, <2>3, PopRecordType
         DEF MediaOrphan, WireTypeOK, SessionTypeOK, sinkVars
  <1>9. CASE Media(k)
    <2>1. PICK x \in Streams, n \in Seqs :
             LET h == [have[k] EXCEPT ![x] = @ \cup {n}]
             IN  /\ PopRecord(k, x, n)
                 /\ durable' = Join(durable, Stored([Nothing EXCEPT ![x] = {n}], have[k]))
                 /\ have' = [have EXCEPT ![k] = h]
                 /\ \E due \in SUBSET Promisable(sessCalls[k], h, acked[k]) :
                       Ack(k, h, due, acked[k], <<>>)
      BY <1>1, <1>9 DEF Media, PerStream
    <2> DEFINE h == [have[k] EXCEPT ![x] = @ \cup {n}]
    <2>3. h \in PerStream
      BY DEF SessionTypeOK, PerStream
    <2>4. Join(durable, Stored([Nothing EXCEPT ![x] = {n}], have[k])) \in PerStream
      BY DEF SessionTypeOK, PerStream, Join, Stored, Nothing
    <2>5. PICK due : Ack(k, h, due, acked[k], <<>>)
      BY <2>1
    <2> HIDE DEF h
    <2>6. acked[k] \in PerStream /\ <<>> \in Seq(Reply)
      BY DEF SessionTypeOK
    <2>7. watermark' \in PerStream /\ acked' \in [Conns -> PerStream]
          /\ s2c' \in [Conns -> Seq(Reply)]
      BY <2>3, <2>5, <2>6, AckType
    <2>8. have' \in [Conns -> PerStream]
      BY <2>1, <2>3 DEF SessionTypeOK, h
    <2> QED
      BY <1>0, <1>9, <2>1, <2>4, <2>7, <2>8, PopRecordType
         DEF Media, WireTypeOK, SessionTypeOK
  <1>10. CASE MediaFailed(k)
    BY <1>2, <1>10, FaultType DEF MediaFailed
  <1>11. CASE CallEndUnknown(k)
    BY <1>3, <1>11 DEF CallEndUnknown
  <1>12. CASE CallEndFailed(k)
    BY <1>2, <1>12, FaultType DEF CallEndFailed
  <1>13. CASE CallEnd(k)
    <2>1. PICK due : Ack(k, have[k], due, acked[k], <<>>)
      BY <1>13 DEF CallEnd
    <2>2. have[k] \in PerStream /\ acked[k] \in PerStream /\ <<>> \in Seq(Reply)
      BY DEF SessionTypeOK
    <2>3. watermark' \in PerStream /\ acked' \in [Conns -> PerStream]
          /\ s2c' \in [Conns -> Seq(Reply)]
      BY <2>1, <2>2, AckType
    <2>4. endedAt' \subseteq Calls /\ outbox' \in [Calls -> Nat]
      BY <1>1, <1>13 DEF CallEnd, FinishCall, SessionTypeOK
    <2> QED
      BY <1>0, <1>13, <2>3, <2>4, PopType DEF CallEnd, WireTypeOK, SessionTypeOK
  <1> QED
    BY <1>4, <1>5, <1>6, <1>7, <1>8, <1>9, <1>10, <1>11, <1>12, <1>13 DEF Handle

\* Every step of the session's ticker and of the revocation poll keeps the types.
LEMMA TickType ==
    ASSUME TypeOK, NEW k \in Conns,
           TickAck(k) \/ (\E c \in Calls : TickOrphans(k, c)) \/ TickIdle(k) \/ Revoke(k)
    PROVE  WireTypeOK' /\ SessionTypeOK'
  <1> USE DEF TypeOK
  <1>1. CASE TickAck(k)
    <2>1. PICK due : Ack(k, have[k], due, acked[k], <<>>)
      BY <1>1 DEF TickAck
    <2>2. have[k] \in PerStream /\ acked[k] \in PerStream /\ <<>> \in Seq(Reply)
      BY DEF SessionTypeOK
    <2>3. watermark' \in PerStream /\ acked' \in [Conns -> PerStream]
          /\ s2c' \in [Conns -> Seq(Reply)]
      BY <2>1, <2>2, AckType
    <2> QED
      BY <1>1, <2>3 DEF TickAck, WireTypeOK, SessionTypeOK
  <1>2. ASSUME NEW c \in Calls, TickOrphans(k, c)
        PROVE  WireTypeOK' /\ SessionTypeOK'
    <2>1. <<FatalReply(c)>> \in Seq(Reply)
      BY DEF FatalReply, Reply, PerStream, Nothing
    <2>2. NotCall(c, orphans[k]) \in PerStream
      BY PerStreamClosed DEF SessionTypeOK
    <2>3. s2c' \in [Conns -> Seq(Reply)]
      BY <1>2, <2>1, SayType DEF TickOrphans
    <2>4. orphans' \in [Conns -> PerStream]
      BY <1>2, <2>2 DEF TickOrphans, SessionTypeOK
    <2> QED
      BY <1>2, <2>3, <2>4 DEF TickOrphans, WireTypeOK, SessionTypeOK, sinkVars
  <1>3. ASSUME NEW code \in CloseCodes, EndSession(k), Say(k, <<CloseReply(code)>>),
               UNCHANGED sinkVars, faults' \in Nat
        PROVE  WireTypeOK' /\ SessionTypeOK'
    <2>1. <<CloseReply(code)>> \in Seq(Reply)
      BY <1>3 DEF CloseReply, Reply, PerStream, Nothing
    <2> QED
      BY <1>3, <2>1, EndSessionType, SayType DEF WireTypeOK, SessionTypeOK, sinkVars
  <1>4. CASE TickIdle(k)
    BY <1>3, <1>4 DEF TickIdle, CloseCodes, WireTypeOK
  <1>5. CASE Revoke(k)
    BY <1>3, <1>5, FaultType DEF Revoke, CloseCodes
  <1> QED
    BY <1>1, <1>2, <1>4, <1>5

\* Every step keeps the types.
LEMMA TypeStep == TypeOK /\ [Next]_vars => TypeOK'
  <1> SUFFICES ASSUME TypeOK, [Next]_vars PROVE TypeOK'
    OBVIOUS
  <1> USE DEF TypeOK
  <1>1. CASE ClientNext
    <2>1. SessionTypeOK'
      BY <1>1 DEF ClientNext, SessionTypeOK, connVars, sinkVars
    <2>2. CASE Capture
      BY <2>1, <2>2, CaptureType
    <2>3. CASE Pump
      BY <2>1, <2>3, PumpType
    <2>4. ASSUME NEW u \in Users, SignIn(u) PROVE TypeOK'
      BY <2>1, <2>4 DEF SignIn, WireTypeOK, SpoolTypeOK, UplinkTypeOK, spoolVars
    <2>5. CASE CrashRestart
      <3>1. Nothing \in PerStream
        BY DEF PerStream, Nothing
      <3>2. PendingCalls \subseteq Calls
        BY DEF PendingCalls
      <3>3. WireTypeOK' /\ SpoolTypeOK'
        BY <2>5 DEF CrashRestart, Fault, WireTypeOK, SpoolTypeOK, spoolVars
      <3>4. UplinkTypeOK'
        BY <2>5, <3>1, <3>2 DEF CrashRestart, UplinkTypeOK
      <3> QED
        BY <2>1, <3>3, <3>4
    <2>6. CASE DropConnection
      BY <2>1, <2>6 DEF DropConnection, Fault, WireTypeOK, SpoolTypeOK, UplinkTypeOK,
         spoolVars
    <2> QED
      BY <1>1, <2>2, <2>3, <2>4, <2>5, <2>6 DEF ClientNext
  <1>2. CASE GatewayNext
    <2>1. SpoolTypeOK' /\ UplinkTypeOK'
      BY <1>2 DEF GatewayNext, SpoolTypeOK, UplinkTypeOK, spoolVars, uplinkVars
    <2>2. WireTypeOK' /\ SessionTypeOK'
      BY <1>2, HandleType, TickType DEF GatewayNext, Idle
    <2> QED
      BY <2>1, <2>2
  <1>3. ASSUME NEW k \in Conns, Connect(k) PROVE TypeOK'
    <2>1. Nothing \in PerStream
      BY DEF PerStream, Nothing
    <2>2. WireTypeOK' /\ SpoolTypeOK'
      BY <1>3 DEF Connect, WireTypeOK, SpoolTypeOK, spoolVars
    <2>3. UplinkTypeOK'
      BY <1>3, <2>1 DEF Connect, Dial, UplinkTypeOK
    <2>4. SessionTypeOK'
      BY <1>3, <2>1 DEF Connect, NewSession, UplinkTypeOK, SessionTypeOK, sinkVars
    <2> QED
      BY <2>2, <2>3, <2>4
  <1>4. ASSUME NEW k \in Conns, SessionLost(k) \/ GatewayRestart(k),
               UNCHANGED <<spoolVars, uplinkVars>>
        PROVE  TypeOK'
    <2>1. EndSession(k) /\ UNCHANGED <<s2c, sinkVars>> /\ faults' \in Nat
      BY <1>4 DEF SessionLost, GatewayRestart, Fault, WireTypeOK
    <2> QED
      BY <1>4, <2>1, EndSessionType DEF WireTypeOK, SpoolTypeOK, UplinkTypeOK,
         SessionTypeOK, spoolVars, uplinkVars, sinkVars
  <1>5. CASE ConnectionGone
    BY <1>5 DEF ConnectionGone, WireTypeOK, SpoolTypeOK, UplinkTypeOK, SessionTypeOK,
       spoolVars, connVars, sinkVars
  <1>6. CASE UNCHANGED vars
    BY <1>6 DEF vars, WireTypeOK, SpoolTypeOK, UplinkTypeOK, SessionTypeOK,
       spoolVars, uplinkVars, connVars, sinkVars
  <1> QED
    BY <1>1, <1>2, <1>3, <1>4, <1>5, <1>6 DEF Next

\* Type correctness of the whole ingest path: in particular a fatal error always names
\* a call, so sealing never touches a row that is not there.
THEOREM TypeCorrect == Spec => []TypeOK
  <1>1. Init => TypeOK
    BY TypeInit
  <1>2. TypeOK /\ [Next]_vars => TypeOK'
    BY TypeStep
  <1> QED
    BY <1>1, <1>2, PTL DEF Spec

-----------------------------------------------------------------------------
(* What is promised is stored, and nothing is lost silently.               *)

\* The rows only grow; stated as a hypothesis of the lemmas below.
Grows == \A x \in Streams : durable[x] \subseteq durable'[x]

\* A reply that was safe to send stays safe.
LEMMA SafeReplyMono ==
    ASSUME Grows
    PROVE  \A s : s \in Seq(SafeReply(durable)) => s \in Seq(SafeReply(durable'))
  <1>1. SafeReply(durable) \subseteq SafeReply(durable')
    BY DEF Grows, SafeReply
  <1> QED
    BY <1>1, SeqMonotonic

\* Queueing replies that promise only stored segments keeps every queue safe.
LEMMA SaySafe ==
    ASSUME TypeOK, PromisedIsDurable, Grows, NEW k \in Conns,
           NEW rs \in Seq(SafeReply(durable')), Say(k, rs)
    PROVE  \A j \in Conns : s2c'[j] \in Seq(SafeReply(durable'))
  <1>1. \A j \in Conns : s2c[j] \in Seq(SafeReply(durable'))
    BY SafeReplyMono DEF PromisedIsDurable
  <1>2. s2c[k] \o rs \in Seq(SafeReply(durable'))
    BY <1>1, ConcatProperties
  <1> QED
    BY <1>1, <1>2 DEF Say, TypeOK, WireTypeOK

\* An ack over stored segments promises only stored segments.
LEMMA AckSafe ==
    ASSUME TypeOK, PromisedIsDurable, Grows, NEW k \in Conns, NEW h \in PerStream,
           \A x \in Streams : h[x] \subseteq durable'[x], NEW due, NEW base,
           NEW first \in Seq(SafeReply(durable')), Ack(k, h, due, base, first)
    PROVE  /\ \A x \in Streams : watermark'[x] \subseteq durable'[x]
           /\ \A j \in Conns : s2c'[j] \in Seq(SafeReply(durable'))
  <1> DEFINE marks == [x \in Streams |-> IF x \in due THEN Prefix(h[x]) ELSE {}]
             rs == IF due = {} THEN first ELSE Append(first, AckReply(marks))
  <1>1. marks \in PerStream
    BY MarksType
  <1>2. \A x \in Streams : marks[x] \subseteq durable'[x]
    BY PrefixStored
  <1>3. watermark' = Join(watermark, marks) /\ Say(k, rs)
    BY DEF Ack
  <1> HIDE DEF marks
  <1>4. AckReply(marks) \in SafeReply(durable')
    BY <1>1, <1>2 DEF AckReply, Reply, SafeReply
  <1>5. rs \in Seq(SafeReply(durable'))
    BY <1>4, AppendProperties
  <1>6. \A x \in Streams : watermark'[x] \subseteq durable'[x]
    BY <1>2, <1>3 DEF Join, Grows, PromisedIsDurable
  <1> QED
    BY <1>3, <1>5, <1>6, SaySafe

\* A reply that promises nothing is safe.
LEMMA EmptyReplySafe ==
    ASSUME NEW d, NEW c \in Calls, NEW code \in CloseCodes
    PROVE  /\ <<FatalReply(c)>> \in Seq(SafeReply(d))
           /\ <<CloseReply(code)>> \in Seq(SafeReply(d))
           /\ <<>> \in Seq(SafeReply(d))
  <1>1. FatalReply(c) \in SafeReply(d) /\ CloseReply(code) \in SafeReply(d)
    BY DEF FatalReply, CloseReply, Reply, SafeReply, PerStream, Nothing
  <1> QED
    BY <1>1

\* The frame handlers keep every promise.
LEMMA HandleSafe ==
    ASSUME TypeOK, PromisedIsDurable, NEW k \in Conns, Handle(k)
    PROVE  /\ Grows
           /\ \A j \in Conns : \A x \in Streams : have'[j][x] \subseteq durable'[x]
           /\ \A x \in Streams : watermark'[x] \subseteq durable'[x]
           /\ \A j \in Conns : s2c'[j] \in Seq(SafeReply(durable'))
  <1> USE DEF TypeOK
  <1>0. Next1(k) \in Frame
    <2>1. c2s[k] # <<>>
      BY DEF Handle, CallStartMismatch, CallStartTooMany, CallStartFailed, MayOpen,
             CallStart, MediaOrphan, Media, MediaFailed, CallEndUnknown,
             CallEndFailed, CallEnd, Reading
    <2> QED
      BY <2>1, HeadType
  <1>1. Next1(k).call \in Calls /\ Next1(k).recs \in PerStream
    BY <1>0 DEF Frame
  <1>2. CASE UNCHANGED <<s2c, have, sinkVars>>
    BY <1>2 DEF Grows, PromisedIsDurable, sinkVars
  <1>3. CASE Say(k, <<FatalReply(Next1(k).call)>>) /\ UNCHANGED <<have, sinkVars>>
    <2>1. Grows /\ durable' = durable
      BY <1>3 DEF Grows, sinkVars
    <2>2. <<FatalReply(Next1(k).call)>> \in Seq(SafeReply(durable'))
      BY <1>1, EmptyReplySafe DEF CloseCodes
    <2>3. \A j \in Conns : s2c'[j] \in Seq(SafeReply(durable'))
      BY <1>3, <2>1, <2>2, SaySafe
    <2> QED
      BY <1>3, <2>1, <2>3 DEF PromisedIsDurable, sinkVars
  <1>4. CASE CallStartMismatch(k) \/ CallEndUnknown(k)
    BY <1>3, <1>4 DEF CallStartMismatch, CallEndUnknown, connVars
  <1>5. CASE CallStartTooMany(k)
    <2>1. Grows /\ durable' = durable /\ watermark' = watermark
      BY <1>5 DEF CallStartTooMany, Grows, sinkVars
    <2>2. <<CloseReply("too_many")>> \in Seq(SafeReply(durable'))
      BY <1>1, EmptyReplySafe DEF CloseCodes
    <2>3. \A j \in Conns : s2c'[j] \in Seq(SafeReply(durable'))
      BY <1>5, <2>1, <2>2, SaySafe DEF CallStartTooMany
    <2>4. \A j \in Conns : \A x \in Streams : have'[j][x] \subseteq durable'[x]
      BY <1>5, <2>1 DEF CallStartTooMany, EndSession, Nothing, PromisedIsDurable,
         SessionTypeOK
    <2> QED
      BY <2>1, <2>3, <2>4 DEF PromisedIsDurable
  <1>6. CASE CallStartFailed(k) \/ MediaFailed(k) \/ CallEndFailed(k)
    BY <1>2, <1>6 DEF CallStartFailed, MediaFailed, CallEndFailed, connVars
  <1>7. CASE CallStart(k)
    <2> DEFINE c == Next1(k).call
               mine == OnlyCall(c, orphans[k])
               loaded == [x \in Streams |-> IF Known(c, x) THEN watermark[x] \cup Ahead(have[k][x])
                                            ELSE have[k][x]]
               h == Join(loaded, mine)
               base == [x \in Streams |-> IF Known(c, x) THEN watermark[x] ELSE acked[k][x]]
               rm == [x \in Streams |-> IF x[1] = c THEN Prefix(loaded[x]) ELSE {}]
               resume == IF dbUser[c] = NoUser THEN <<>> ELSE <<ResumeReply(c, rm)>>
    <2>1. mine \in PerStream
      BY <1>1, PerStreamClosed DEF SessionTypeOK
    <2>2. loaded \in PerStream
      BY <1>1 DEF SessionTypeOK, PerStream, Ahead
    <2>3. h \in PerStream
      BY <1>1, <2>1, <2>2, PerStreamClosed
    <2>4. \A x \in Streams : loaded[x] \subseteq durable[x]
      BY DEF Ahead, PromisedIsDurable
    <2>5. durable' = Join(durable, Stored(mine, loaded))
      BY <1>7 DEF CallStart
    <2>6. Grows
      BY <2>5 DEF Grows, Join
    <2>7. \A x \in Streams : h[x] \subseteq durable'[x]
      <3> HIDE DEF mine, loaded
      <3>1. SUFFICES ASSUME NEW x \in Streams
                     PROVE  loaded[x] \cup mine[x] \subseteq durable'[x]
        BY DEF Join
      <3>2. durable'[x] = durable[x] \cup (mine[x] \ Prefix(loaded[x]))
        BY <2>5 DEF Join, Stored
      <3> QED
        BY <2>4, <3>2, PrefixStored
    <2>8. rm \in PerStream
      BY <2>2, PrefixStored DEF PerStream
    <2>9. \A x \in Streams : rm[x] \subseteq durable'[x]
      <3> HIDE DEF loaded
      <3> QED
        BY <2>4, <2>6, PrefixStored DEF Grows
    <2>10. resume \in Seq(SafeReply(durable'))
      <3> HIDE DEF rm
      <3>1. ResumeReply(c, rm) \in SafeReply(durable')
        BY <1>1, <2>8, <2>9 DEF ResumeReply, Reply, SafeReply
      <3> QED
        BY <3>1
    <2> HIDE DEF mine, loaded, h, base, rm, resume
    <2>11. PICK due : Ack(k, h, due, base, resume)
      BY <1>7 DEF CallStart, mine, loaded, h, base, rm, resume
    <2>12. /\ \A x \in Streams : watermark'[x] \subseteq durable'[x]
           /\ \A j \in Conns : s2c'[j] \in Seq(SafeReply(durable'))
      BY <2>3, <2>6, <2>7, <2>10, <2>11, AckSafe
    <2>13. have' = [have EXCEPT ![k] = h]
      BY <1>7 DEF CallStart, mine, loaded, h
    <2>14. \A j \in Conns : \A x \in Streams : have'[j][x] \subseteq durable'[x]
      BY <2>6, <2>7, <2>13 DEF Grows, PromisedIsDurable, SessionTypeOK
    <2> QED
      BY <2>6, <2>12, <2>14
  <1>8. CASE MediaOrphan(k)
    BY <1>2, <1>8 DEF MediaOrphan
  <1>9. CASE Media(k)
    <2>1. PICK x \in Streams, n \in Seqs :
             LET h == [have[k] EXCEPT ![x] = @ \cup {n}]
             IN  /\ durable' = Join(durable, Stored([Nothing EXCEPT ![x] = {n}], have[k]))
                 /\ have' = [have EXCEPT ![k] = h]
                 /\ \E due \in SUBSET Promisable(sessCalls[k], h, acked[k]) :
                       Ack(k, h, due, acked[k], <<>>)
      BY <1>1, <1>9 DEF Media, PerStream
    <2> DEFINE h == [have[k] EXCEPT ![x] = @ \cup {n}]
    <2>2. h \in PerStream
      BY DEF SessionTypeOK, PerStream
    <2>3. Grows
      BY <2>1 DEF Grows, Join
    <2>4. ASSUME NEW y \in Streams PROVE h[y] \subseteq durable'[y]
      <3>1. durable'[y] = durable[y] \cup ([Nothing EXCEPT ![x] = {n}][y] \ Prefix(have[k][y]))
        BY <2>1 DEF Join, Stored
      <3>2. have[k][y] \subseteq durable[y] /\ Prefix(have[k][y]) \subseteq have[k][y]
        BY PrefixStored DEF PromisedIsDurable
      <3>3. CASE y = x
        <4>1. [Nothing EXCEPT ![x] = {n}][y] = {n} /\ h[y] = have[k][y] \cup {n}
          BY <3>3 DEF Nothing, SessionTypeOK, PerStream
        <4> QED
          BY <3>1, <3>2, <4>1
      <3>4. CASE y # x
        <4>1. h[y] = have[k][y]
          BY <3>4 DEF SessionTypeOK, PerStream
        <4> QED
          BY <3>1, <3>2, <4>1
      <3> QED
        BY <3>3, <3>4
    <2>5. PICK due : Ack(k, h, due, acked[k], <<>>)
      BY <2>1
    <2>6. have' = [have EXCEPT ![k] = h]
      BY <2>1
    <2> HIDE DEF h
    <2>7. <<>> \in Seq(SafeReply(durable'))
      BY EmptySeq
    <2>8. /\ \A y \in Streams : watermark'[y] \subseteq durable'[y]
          /\ \A j \in Conns : s2c'[j] \in Seq(SafeReply(durable'))
      BY <2>2, <2>3, <2>4, <2>5, <2>7, AckSafe
    <2>9. \A j \in Conns : \A y \in Streams : have'[j][y] \subseteq durable'[y]
      BY <2>3, <2>4, <2>6 DEF Grows, PromisedIsDurable, SessionTypeOK
    <2> QED
      BY <2>3, <2>8, <2>9
  <1>10. CASE CallEnd(k)
    <2>1. PICK due : Ack(k, have[k], due, acked[k], <<>>)
      BY <1>10 DEF CallEnd
    <2>2. durable' = durable /\ have' = have /\ Grows
      BY <1>10 DEF CallEnd, Grows
    <2>3. <<>> \in Seq(SafeReply(durable')) /\ have[k] \in PerStream
      BY EmptySeq DEF SessionTypeOK
    <2>4. \A x \in Streams : have[k][x] \subseteq durable'[x]
      BY <2>2 DEF PromisedIsDurable
    <2>5. /\ \A y \in Streams : watermark'[y] \subseteq durable'[y]
          /\ \A j \in Conns : s2c'[j] \in Seq(SafeReply(durable'))
      BY <2>1, <2>2, <2>3, <2>4, AckSafe
    <2> QED
      BY <2>2, <2>5 DEF PromisedIsDurable
  <1> QED
    BY <1>4, <1>5, <1>6, <1>7, <1>8, <1>9, <1>10 DEF Handle

\* So do the session's ticker and the revocation poll.
LEMMA TickSafe ==
    ASSUME TypeOK, PromisedIsDurable, NEW k \in Conns,
           TickAck(k) \/ (\E c \in Calls : TickOrphans(k, c)) \/ TickIdle(k) \/ Revoke(k)
    PROVE  /\ Grows
           /\ \A j \in Conns : \A x \in Streams : have'[j][x] \subseteq durable'[x]
           /\ \A x \in Streams : watermark'[x] \subseteq durable'[x]
           /\ \A j \in Conns : s2c'[j] \in Seq(SafeReply(durable'))
  <1> USE DEF TypeOK
  <1>1. durable' = durable /\ Grows
    BY DEF TickAck, TickOrphans, TickIdle, Revoke, Grows, sinkVars
  <1>2. CASE TickAck(k)
    <2>1. PICK due : Ack(k, have[k], due, acked[k], <<>>)
      BY <1>2 DEF TickAck
    <2>2. <<>> \in Seq(SafeReply(durable')) /\ have[k] \in PerStream
      BY EmptySeq DEF SessionTypeOK
    <2>3. \A x \in Streams : have[k][x] \subseteq durable'[x]
      BY <1>1 DEF PromisedIsDurable
    <2>4. /\ \A y \in Streams : watermark'[y] \subseteq durable'[y]
          /\ \A j \in Conns : s2c'[j] \in Seq(SafeReply(durable'))
      BY <1>1, <2>1, <2>2, <2>3, AckSafe
    <2> QED
      BY <1>1, <1>2, <2>4 DEF TickAck, PromisedIsDurable
  <1>3. ASSUME NEW c \in Calls, TickOrphans(k, c)
        PROVE  /\ \A j \in Conns : \A x \in Streams : have'[j][x] \subseteq durable'[x]
               /\ \A x \in Streams : watermark'[x] \subseteq durable'[x]
               /\ \A j \in Conns : s2c'[j] \in Seq(SafeReply(durable'))
    <2>1. <<FatalReply(c)>> \in Seq(SafeReply(durable'))
      BY EmptyReplySafe DEF CloseCodes
    <2>2. \A j \in Conns : s2c'[j] \in Seq(SafeReply(durable'))
      BY <1>1, <1>3, <2>1, SaySafe DEF TickOrphans
    <2> QED
      BY <1>1, <1>3, <2>2 DEF TickOrphans, PromisedIsDurable, sinkVars
  <1>4. CASE TickIdle(k) \/ Revoke(k)
    <2>1. PICK code \in CloseCodes : EndSession(k) /\ Say(k, <<CloseReply(code)>>)
      BY <1>4 DEF TickIdle, Revoke, CloseCodes
    <2>2. <<CloseReply(code)>> \in Seq(SafeReply(durable'))
      <3>1. CloseReply(code) \in SafeReply(durable')
        BY <2>1 DEF CloseReply, Reply, SafeReply, PerStream, Nothing
      <3> QED
        BY <3>1
    <2>3. \A j \in Conns : s2c'[j] \in Seq(SafeReply(durable'))
      BY <1>1, <2>1, <2>2, SaySafe
    <2>4. \A j \in Conns : \A x \in Streams : have'[j][x] \subseteq durable'[x]
      BY <1>1, <2>1 DEF EndSession, Nothing, PromisedIsDurable, SessionTypeOK
    <2>5. watermark' = watermark
      BY <1>4 DEF TickIdle, Revoke, sinkVars
    <2> QED
      BY <1>1, <2>3, <2>4, <2>5 DEF PromisedIsDurable
  <1> QED
    BY <1>1, <1>2, <1>3, <1>4

\* The client believes only what it was told.
LEMMA ClientSafe ==
    ASSUME TypeOK, PromisedIsDurable, ClientNext
    PROVE  PromisedIsDurable'
  <1> USE DEF TypeOK
  <1>1. UNCHANGED <<have, watermark, durable>>
    BY DEF ClientNext, connVars, sinkVars
  <1>2. ASSUME UNCHANGED <<s2c, acks>>, resumed' = resumed \/ resumed' = Nothing
        PROVE  PromisedIsDurable'
    BY <1>1, <1>2 DEF PromisedIsDurable, Nothing
  <1>3. ASSUME NEW kind, Receiving(kind)
        PROVE  /\ \A j \in Conns : s2c'[j] \in Seq(SafeReply(durable))
               /\ \A x \in Streams : Incoming.marks[x] \subseteq durable[x]
    <2>1. conn \in Conns /\ s2c[conn] # <<>>
      BY <1>3 DEF Receiving, UplinkTypeOK
    <2>2. s2c[conn] \in Seq(SafeReply(durable))
      BY <2>1 DEF PromisedIsDurable
    <2>3. Head(s2c[conn]) \in SafeReply(durable)
          /\ Tail(s2c[conn]) \in Seq(SafeReply(durable))
      BY <2>1, <2>2, HeadTailProperties
    <2>4. \A j \in Conns : s2c'[j] \in Seq(SafeReply(durable))
      BY <1>3, <2>1, <2>3 DEF Receiving, WireTypeOK, PromisedIsDurable
    <2> QED
      BY <2>3, <2>4 DEF Incoming, SafeReply
  <1>4. CASE Capture
    BY <1>2, <1>4, ZenonT(40) DEF Capture, BeginCall, PushSegment, PushEvicting, PushRefused, EndCall,
       SpoolBegin, SpoolPush, SpoolRefuse, SpoolEnd, uplinkVars
  <1>5. ASSUME NEW c \in Calls, SendCall(c) \/ ResumeTimeout(c)
        PROVE  PromisedIsDurable'
    BY <1>2, <1>5 DEF SendCall, ResumeTimeout, spoolVars
  <1>6. CASE RecvAck
    <2>1. \A x \in Streams : acks'[x] \subseteq durable[x]
      BY <1>3, <1>6 DEF RecvAck, SpoolAck, Join, PromisedIsDurable
    <2> QED
      BY <1>1, <1>3, <1>6, <2>1 DEF RecvAck, uplinkVars, PromisedIsDurable
  <1>7. CASE RecvResume
    <2>1. \A x \in Streams : resumed'[x] \subseteq durable[x]
      BY <1>3, <1>7 DEF RecvResume, PromisedIsDurable
    <2> QED
      BY <1>1, <1>3, <1>7, <2>1 DEF RecvResume, spoolVars, PromisedIsDurable
  <1>8. CASE RecvFatal \/ RecvClose
    <2>1. acks' = acks /\ resumed' = resumed
      BY <1>8 DEF RecvFatal, RecvClose, SpoolSeal, spoolVars
    <2>2. \A j \in Conns : s2c'[j] \in Seq(SafeReply(durable))
      BY <1>3, <1>8 DEF RecvFatal, RecvClose
    <2> QED
      BY <1>1, <2>1, <2>2 DEF PromisedIsDurable
  <1>9. ASSUME NEW u \in Users, SignIn(u) PROVE PromisedIsDurable'
    BY <1>2, <1>9 DEF SignIn, spoolVars
  <1>10. CASE CrashRestart \/ DropConnection
    BY <1>2, <1>10 DEF CrashRestart, DropConnection, spoolVars
  <1> QED
    BY <1>4, <1>5, <1>6, <1>7, <1>8, <1>9, <1>10 DEF ClientNext, Pump

\* Every step keeps every promise.
LEMMA PromisedStep ==
    TypeOK /\ PromisedIsDurable /\ [Next]_vars => PromisedIsDurable' /\ Grows
  <1> SUFFICES ASSUME TypeOK, PromisedIsDurable, [Next]_vars
               PROVE  PromisedIsDurable' /\ Grows
    OBVIOUS
  <1>1. CASE ClientNext
    BY <1>1, ClientSafe DEF ClientNext, Grows, sinkVars
  <1>2. CASE GatewayNext
    <2>1. acks' = acks /\ resumed' = resumed
      BY <1>2 DEF GatewayNext, spoolVars, uplinkVars
    <2>2. /\ Grows
          /\ \A j \in Conns : \A x \in Streams : have'[j][x] \subseteq durable'[x]
          /\ \A x \in Streams : watermark'[x] \subseteq durable'[x]
          /\ \A j \in Conns : s2c'[j] \in Seq(SafeReply(durable'))
      BY <1>2, HandleSafe, TickSafe DEF GatewayNext, Idle
    <2> QED
      BY <2>1, <2>2 DEF PromisedIsDurable, Grows
  <1>3. ASSUME NEW k \in Conns, Connect(k) PROVE PromisedIsDurable' /\ Grows
    <2>1. durable' = durable /\ watermark' = watermark /\ acks' = acks
          /\ resumed' = Nothing
      BY <1>3 DEF Connect, Dial, spoolVars, sinkVars
    <2>2. \A j \in Conns : \A x \in Streams : have'[j][x] \subseteq durable[x]
      BY <1>3 DEF Connect, NewSession, Nothing, PromisedIsDurable, TypeOK, SessionTypeOK
    <2>3. \A j \in Conns : s2c'[j] \in Seq(SafeReply(durable))
      BY <1>3, EmptySeq DEF Connect, PromisedIsDurable, TypeOK, WireTypeOK
    <2> QED
      BY <2>1, <2>2, <2>3 DEF PromisedIsDurable, Grows, Nothing
  <1>4. ASSUME NEW k \in Conns, SessionLost(k) \/ GatewayRestart(k),
               UNCHANGED <<spoolVars, uplinkVars>>
        PROVE  PromisedIsDurable' /\ Grows
    <2>1. EndSession(k) /\ UNCHANGED <<s2c, durable, watermark, acks, resumed>>
      BY <1>4 DEF SessionLost, GatewayRestart, spoolVars, uplinkVars, sinkVars
    <2>2. \A j \in Conns : \A x \in Streams : have'[j][x] \subseteq durable[x]
      BY <2>1 DEF EndSession, Nothing, PromisedIsDurable, TypeOK, SessionTypeOK
    <2> QED
      BY <2>1, <2>2 DEF PromisedIsDurable, Grows
  <1>5. CASE ConnectionGone \/ UNCHANGED vars
    BY <1>5 DEF ConnectionGone, vars, PromisedIsDurable, Grows,
       spoolVars, uplinkVars, connVars, sinkVars
  <1> QED
    BY <1>1, <1>2, <1>3, <1>4, <1>5 DEF Next

\* Every promise of durability is backed by a stored row: the session's marks, the
\* watermark rows, replies in flight on live and dead connections, the client's ack
\* table and its resume points.
THEOREM PromisesBacked == Spec => []PromisedIsDurable
  <1>1. Init => PromisedIsDurable
    BY EmptySeq DEF Init, WireInit, SpoolInit, UplinkInit, SessionInit, Nothing,
       PromisedIsDurable
  <1>2. TypeOK /\ PromisedIsDurable /\ [Next]_vars => PromisedIsDurable'
    BY PromisedStep
  <1> QED
    BY <1>1, <1>2, TypeCorrect, PTL DEF Spec

\* A step that does not touch the spool's rows keeps the account.
LEMMA LossStep ==
    TypeOK /\ PromisedIsDurable /\ NoSilentLoss /\ [Next]_vars => NoSilentLoss'
  <1> SUFFICES ASSUME TypeOK, PromisedIsDurable, NoSilentLoss, [Next]_vars
               PROVE  NoSilentLoss'
    OBVIOUS
  <1> USE DEF TypeOK
  <1>0. Grows
    BY PromisedStep
  <1>1. ASSUME UNCHANGED <<segs, produced, lossEvents, refused>> PROVE NoSilentLoss'
    BY <1>0, <1>1 DEF NoSilentLoss, Grows
  <1>2. ASSUME NEW x \in Streams, NEW n \in Seqs, NEW out \in PerStream,
               SpoolPush(x, n, out)
        PROVE  NoSilentLoss'
    <2>1. SUFFICES ASSUME NEW y \in Streams
                   PROVE  produced'[y] \ refused'[y]
                             \subseteq segs'[y] \cup durable'[y] \cup lossEvents'[y]
      BY DEF NoSilentLoss
    <2> DEFINE new == IF y = x THEN {n} ELSE {}
    <2>2. produced'[y] = produced[y] \cup new /\ refused'[y] = refused[y]
      BY <1>2 DEF SpoolPush, SpoolTypeOK, PerStream
    <2>3. segs'[y] = (segs[y] \cup new) \ out[y] /\ lossEvents'[y] = lossEvents[y] \cup out[y]
      BY <1>2 DEF SpoolPush, SpoolTypeOK, PerStream, Without, Join
    <2>4. produced[y] \ refused[y] \subseteq segs[y] \cup durable'[y] \cup lossEvents[y]
      BY <1>0 DEF NoSilentLoss, Grows
    <2> HIDE DEF new
    <2> QED
      BY <2>2, <2>3, <2>4
  <1>3. CASE Capture
    <2>1. ASSUME NEW x \in Streams, NEW n \in Seqs, PushSegment(x, n)
          PROVE  NoSilentLoss'
      BY <1>2, <2>1 DEF PushSegment, PerStream, Nothing
    <2>2. ASSUME NEW x \in Streams, NEW y \in Streams, NEW n \in Seqs, NEW m \in Seqs,
                 PushEvicting(x, n, y, m)
          PROVE  NoSilentLoss'
      <3>1. [Nothing EXCEPT ![y] = {m}] \in PerStream
        BY DEF PerStream, Nothing
      <3> QED
        BY <1>2, <2>2, <3>1 DEF PushEvicting
    <2>3. ASSUME NEW x \in Streams, NEW n \in Seqs, PushRefused(x, n)
          PROVE  NoSilentLoss'
      BY <1>0, <2>3 DEF PushRefused, SpoolRefuse, NoSilentLoss, Grows, SpoolTypeOK,
         PerStream
    <2>4. ASSUME (\E c \in Calls : BeginCall(c)) \/ EndCall PROVE NoSilentLoss'
      BY <1>1, <2>4 DEF BeginCall, EndCall, SpoolBegin, SpoolEnd
    <2> QED
      BY <1>3, <2>1, <2>2, <2>3, <2>4 DEF Capture
  <1>4. CASE RecvAck
    \* the rows an ack deletes are below marks that are stored
    <2>1. ASSUME NEW x \in Streams
          PROVE  segs[x] \subseteq segs'[x] \cup durable'[x]
      <3>1. acks'[x] \subseteq durable'[x]
        BY PromisedStep DEF PromisedIsDurable
      <3>2. segs'[x] = segs[x] \/ segs'[x] = segs[x] \ acks'[x]
        BY <1>4 DEF RecvAck, SpoolAck
      <3> QED
        BY <3>1, <3>2
    <2> QED
      BY <1>0, <1>4, <2>1 DEF RecvAck, SpoolAck, NoSilentLoss, Grows
  <1>5. CASE RecvFatal
    \* the rows a seal deletes are in its event
    <2>1. ASSUME NEW x \in Streams
          PROVE  segs[x] \cup lossEvents[x] \subseteq segs'[x] \cup lossEvents'[x]
      BY <1>5 DEF RecvFatal, SpoolSeal, Join, OnlyCall, NotCall
    <2> QED
      BY <1>0, <1>5, <2>1 DEF RecvFatal, SpoolSeal, NoSilentLoss, Grows
  <1>6. CASE UNCHANGED spoolVars
    BY <1>1, <1>6 DEF spoolVars
  <1>7. [Next]_vars => Capture \/ RecvAck \/ RecvFatal \/ UNCHANGED spoolVars
    BY DEF Next, ClientNext, Pump, SendCall, ResumeTimeout, RecvResume, RecvClose, SignIn,
       CrashRestart, DropConnection, GatewayNext, Connect, ConnectionGone, vars, spoolVars
  <1> QED
    BY <1>3, <1>4, <1>5, <1>6, <1>7

\* No silent loss: whatever fails, disconnects, restarts or overlaps, every segment the
\* spool took is on disk, stored by the gateway, or named in a loss event.  It rests
\* on PromisesBacked: an ack deletes rows, so every mark in flight must be stored.
THEOREM NothingLostSilently == Spec => []NoSilentLoss
  <1>1. Init => NoSilentLoss
    BY DEF Init, SpoolInit, Nothing, NoSilentLoss
  <1>2. TypeOK /\ PromisedIsDurable /\ NoSilentLoss /\ [Next]_vars => NoSilentLoss'
    BY LossStep
  <1> QED
    BY <1>1, <1>2, TypeCorrect, PromisesBacked, PTL DEF Spec

-----------------------------------------------------------------------------
(* Hand-over to the pipeline and monotonicity.                             *)

\* Ended calls, and no others, have exactly one finalize message, with any number of
\* sessions replaying call.end.
THEOREM HandedOverOnce == Spec => []EnqueuedOnce
  <1>1. Init => EnqueuedOnce
    BY DEF Init, SessionInit, EnqueuedOnce
  <1>2. ASSUME TypeOK, EnqueuedOnce, [Next]_vars PROVE EnqueuedOnce'
    <2>1. ASSUME NEW k \in Conns, CallEnd(k) PROVE EnqueuedOnce'
      <3>1. Next1(k) \in Frame
        BY <1>2, <2>1, HeadType DEF CallEnd, Reading, TypeOK
      <3>2. Next1(k).call \in Calls
        BY <3>1 DEF Frame
      <3> QED
        BY <1>2, <2>1, <3>2 DEF CallEnd, FinishCall, EnqueuedOnce, TypeOK, SessionTypeOK
    <2>2. ASSUME UNCHANGED <<endedAt, outbox>> PROVE EnqueuedOnce'
      BY <1>2, <2>2 DEF EnqueuedOnce
    <2>3. (\E k \in Conns : CallEnd(k)) \/ UNCHANGED <<endedAt, outbox>>
      BY <1>2, ZenonT(40) DEF Next, ClientNext, GatewayNext, Handle, CallStartMismatch,
         CallStartTooMany, CallStartFailed, CallStart, MediaOrphan, Media, MediaFailed,
         CallEndUnknown, CallEndFailed, TickAck, TickOrphans, Idle, TickIdle, Revoke,
         Connect, SessionLost, GatewayRestart, ConnectionGone, vars, sinkVars
    <2> QED
      BY <2>1, <2>2, <2>3
  <1> QED
    BY <1>1, <1>2, TypeCorrect, PTL DEF Spec

\* No step of the gateway shrinks a watermark or loses a stored segment.
LEMMA WatermarkStep ==
    ASSUME TypeOK, [Next]_vars
    PROVE  \A x \in Streams : watermark[x] \subseteq watermark'[x]
  <1>1. ASSUME NEW k, NEW h, NEW due, NEW base, NEW first, Ack(k, h, due, base, first)
        PROVE  \A x \in Streams : watermark[x] \subseteq watermark'[x]
    BY <1>1 DEF Ack, Join
  <1>2. ASSUME NEW k \in Conns, CallStart(k) \/ Media(k) \/ CallEnd(k) \/ TickAck(k)
        PROVE  \A x \in Streams : watermark[x] \subseteq watermark'[x]
    <2>1. \E h, due, base, first : Ack(k, h, due, base, first)
      BY <1>2 DEF CallStart, Media, CallEnd, TickAck
    <2> QED
      BY <1>1, <2>1
  <1>3. (\E k \in Conns : CallStart(k) \/ Media(k) \/ CallEnd(k) \/ TickAck(k))
        \/ UNCHANGED watermark
    BY DEF Next, ClientNext, GatewayNext, Handle, CallStartMismatch, CallStartTooMany,
       CallStartFailed, MediaOrphan, MediaFailed, CallEndUnknown, CallEndFailed,
       TickOrphans, Idle, TickIdle, Revoke, Connect, SessionLost, GatewayRestart,
       ConnectionGone, vars, sinkVars
  <1> QED
    BY <1>2, <1>3

\* No step of the client shrinks its ack marks.
LEMMA AcksStep ==
    ASSUME TypeOK, [Next]_vars
    PROVE  \A x \in Streams : acks[x] \subseteq acks'[x]
  <1>1. RecvAck \/ UNCHANGED acks
    BY DEF Next, ClientNext, Capture, BeginCall, PushSegment, PushEvicting, PushRefused,
       EndCall, SpoolBegin, SpoolPush, SpoolRefuse, SpoolEnd, Pump, SendCall,
       ResumeTimeout, RecvResume, RecvFatal, SpoolSeal, RecvClose, SignIn,
       CrashRestart, DropConnection, GatewayNext, Connect, ConnectionGone, vars, spoolVars
  <1> QED
    BY <1>1 DEF RecvAck, SpoolAck, Join

\* No promise is ever taken back: watermark rows, client marks and stored segments only
\* grow, in every step of every session, whichever order their writes arrive in.
THEOREM PromisesNeverShrink == Spec => PromisesKept
  <1>1. TypeOK /\ PromisedIsDurable /\ [Next]_vars =>
          [\A x \in Streams : /\ watermark[x] \subseteq watermark'[x]
                              /\ acks[x] \subseteq acks'[x]
                              /\ durable[x] \subseteq durable'[x]]_vars
    BY WatermarkStep, AcksStep, PromisedStep DEF Grows
  <1> QED
    BY <1>1, TypeCorrect, PromisesBacked, PTL DEF Spec, PromisesKept

-----------------------------------------------------------------------------
(* Attribution.                                                            *)

\* The frames of a pass carry the stamped user.
LEMMA FramesOwn ==
    ASSUME TypeOK, AttributionInv, NEW c \in Calls, CanSend(c)
    PROVE  Frames(c) \in Seq(OwnFrame(owner))
  <1> DEFINE hold == IF c \in started THEN c \in awaiting ELSE Replayed(c)
             f1 == IF c \in started THEN <<>> ELSE <<StartFrame(c, owner[c])>>
             f2 == IF hold \/ Batch(c) = Nothing THEN <<>> ELSE <<MediaFrame(c, Batch(c))>>
             f3 == IF hold \/ c \in ended \/ c \notin endRow THEN <<>> ELSE <<EndFrame(c)>>
  <1>1. owner[c] # NoUser
    <2>1. CASE c \in known
      BY <2>1 DEF AttributionInv
    <2>2. CASE c \in PendingCalls
      <3>1. PICK x \in StreamsOf(c) : segs[x] # {}
        BY <2>2 DEF PendingCalls, Holds
      <3> QED
        BY <3>1 DEF AttributionInv, StreamsOf
    <2> QED
      BY <2>1, <2>2 DEF CanSend
  <1>2. owner[c] \in Users \cup {NoUser}
    BY DEF TypeOK, SpoolTypeOK
  <1>3. /\ StartFrame(c, owner[c]) \in OwnFrame(owner)
        /\ MediaFrame(c, Batch(c)) \in OwnFrame(owner)
        /\ EndFrame(c) \in OwnFrame(owner)
    <2>1. /\ StartFrame(c, owner[c]) \in Frame
          /\ MediaFrame(c, Batch(c)) \in Frame
          /\ EndFrame(c) \in Frame
      BY <1>2, BatchType, FrameTypes
    <2> QED
      BY <1>1, <2>1 DEF OwnFrame, StartFrame, MediaFrame, EndFrame
  <1>4. f1 \in Seq(OwnFrame(owner)) /\ f2 \in Seq(OwnFrame(owner))
        /\ f3 \in Seq(OwnFrame(owner))
    BY <1>3
  <1>5. Frames(c) = f1 \o f2 \o f3
    BY DEF Frames
  <1> HIDE DEF f1, f2, f3
  <1> QED
    BY <1>4, <1>5, ConcatProperties

\* The client stamps a call once, and sends nothing it has not stamped.
LEMMA ClientAttribution ==
    ASSUME TypeOK, AttributionInv, ClientNext
    PROVE  AttributionInv'
  <1> USE DEF TypeOK
  <1>0. UNCHANGED <<sessCalls, peer, dbUser>>
    BY DEF ClientNext, connVars, sinkVars
  <1>1. ASSUME UNCHANGED <<c2s, owner>>, known' \subseteq known \cup PendingCalls,
               cur' = cur \/ cur' = NoCall,
               \A x \in Streams : segs'[x] \subseteq segs[x]
        PROVE  AttributionInv'
    <2>1. \A c \in PendingCalls : owner[c] # NoUser
      BY DEF PendingCalls, Holds, StreamsOf, AttributionInv
    <2> QED
      BY <1>0, <1>1, <2>1 DEF AttributionInv, AttributedToToken
  <1>2. ASSUME NEW c \in Calls, BeginCall(c) PROVE AttributionInv'
    <2>1. /\ owner' = [owner EXCEPT ![c] = user] /\ owner[c] = NoUser
          /\ user \in Users /\ known' = known \cup {c} /\ cur' = c
          /\ UNCHANGED <<c2s, segs>>
      BY <1>2 DEF BeginCall, SpoolBegin, UplinkTypeOK
    <2>2. \A d \in Calls : owner[d] # NoUser => owner'[d] = owner[d]
      BY <2>1 DEF SpoolTypeOK
    <2>3. owner'[c] # NoUser
      BY <2>1, WireAssumption DEF SpoolTypeOK
    <2>4. OwnFrame(owner) \subseteq OwnFrame(owner')
      BY <2>2 DEF OwnFrame, Frame
    <2>5. \A k \in Conns : c2s'[k] \in Seq(OwnFrame(owner'))
      BY <2>1, <2>4, SeqMonotonic DEF AttributionInv
    <2>6. AttributedToToken'
      BY <1>0, <2>2 DEF AttributionInv, AttributedToToken, SessionTypeOK
    <2>7. \A k \in Conns : \A d \in sessCalls[k] : owner'[d] # NoUser
      BY <2>2 DEF AttributionInv, SessionTypeOK
    <2>8. \A d \in known' : owner'[d] # NoUser
      BY <2>1, <2>2, <2>3 DEF AttributionInv, UplinkTypeOK
    <2>9. \A x \in Streams : segs'[x] # {} => owner'[x[1]] # NoUser
      BY <2>1, <2>2 DEF AttributionInv, Streams
    <2> QED
      BY <1>0, <2>1, <2>3, <2>5, <2>6, <2>7, <2>8, <2>9 DEF AttributionInv
  <1>3. ASSUME NEW x \in Streams, NEW n \in Seqs, NEW out \in PerStream,
               NextSegment(x, n), SpoolPush(x, n, out), UNCHANGED <<c2s, uplinkVars>>
        PROVE  AttributionInv'
    <2>1. owner[x[1]] # NoUser
      BY <1>3 DEF NextSegment, AttributionInv
    <2>2. \A y \in Streams : segs'[y] # {} => owner[y[1]] # NoUser
      BY <1>3, <2>1 DEF SpoolPush, Without, SpoolTypeOK, PerStream, AttributionInv
    <2> QED
      BY <1>0, <1>3, <2>2 DEF SpoolPush, uplinkVars, AttributionInv, AttributedToToken
  <1>4. CASE Capture
    <2>1. ASSUME NEW x \in Streams, NEW n \in Seqs, PushSegment(x, n)
          PROVE  AttributionInv'
      BY <1>3, <2>1 DEF PushSegment, PerStream, Nothing
    <2>2. ASSUME NEW x \in Streams, NEW y \in Streams, NEW n \in Seqs, NEW m \in Seqs,
                 PushEvicting(x, n, y, m)
          PROVE  AttributionInv'
      <3>1. [Nothing EXCEPT ![y] = {m}] \in PerStream
        BY DEF PerStream, Nothing
      <3> QED
        BY <1>3, <2>2, <3>1 DEF PushEvicting
    <2>3. ASSUME NEW x \in Streams, NEW n \in Seqs, PushRefused(x, n)
          PROVE  AttributionInv'
      BY <1>1, <2>3 DEF PushRefused, SpoolRefuse
    <2>4. CASE EndCall
      BY <1>1, <2>4 DEF EndCall, SpoolEnd
    <2> QED
      BY <1>2, <1>4, <2>1, <2>2, <2>3, <2>4 DEF Capture
  <1>5. ASSUME NEW c \in Calls, SendCall(c) PROVE AttributionInv'
    <2>1. conn \in Conns /\ CanSend(c)
      BY <1>5 DEF SendCall, CanSend, UplinkTypeOK
    <2>2. c2s[conn] \o Frames(c) \in Seq(OwnFrame(owner))
      BY <2>1, FramesOwn, ConcatProperties DEF AttributionInv
    <2>3. \A k \in Conns : c2s'[k] \in Seq(OwnFrame(owner))
      BY <1>5, <2>1, <2>2 DEF SendCall, WireTypeOK, AttributionInv
    <2>4. \A d \in PendingCalls : owner[d] # NoUser
      BY DEF PendingCalls, Holds, StreamsOf, AttributionInv
    <2> QED
      BY <1>0, <1>5, <2>3, <2>4
         DEF SendCall, spoolVars, AttributionInv, AttributedToToken
  <1>6. ASSUME NEW c \in Calls, ResumeTimeout(c) PROVE AttributionInv'
    BY <1>1, <1>6 DEF ResumeTimeout, spoolVars
  <1>7. CASE RecvAck
    BY <1>1, <1>7 DEF RecvAck, SpoolAck, uplinkVars
  <1>8. CASE RecvResume \/ RecvClose
    BY <1>1, <1>8 DEF RecvResume, RecvClose, spoolVars
  <1>9. CASE RecvFatal
    BY <1>1, <1>9 DEF RecvFatal, SpoolSeal, NotCall
  <1>10. ASSUME NEW u \in Users, SignIn(u) PROVE AttributionInv'
    BY <1>1, <1>10 DEF SignIn, spoolVars
  <1>11. CASE CrashRestart \/ DropConnection
    BY <1>1, <1>11 DEF CrashRestart, DropConnection, spoolVars
  <1> QED
    BY <1>4, <1>5, <1>6, <1>7, <1>8, <1>9, <1>10, <1>11 DEF ClientNext, Pump

\* A session opens a call only for the user of its token.
LEMMA GatewayAttribution ==
    ASSUME TypeOK, AttributionInv, UNCHANGED <<known, cur, segs, owner>>, NEW k \in Conns,
           \/ Handle(k)
           \/ TickAck(k) \/ (\E c \in Calls : TickOrphans(k, c))
           \/ TickIdle(k) \/ Revoke(k) \/ SessionLost(k) \/ GatewayRestart(k)
    PROVE  AttributionInv'
  <1> USE DEF TypeOK
  <1>1. ASSUME NEW s \in Seq(OwnFrame(owner)), c2s' = [c2s EXCEPT ![k] = s]
        PROVE  \A j \in Conns : c2s'[j] \in Seq(OwnFrame(owner))
    BY <1>1 DEF WireTypeOK, AttributionInv
  <1>2. ASSUME c2s[k] # <<>>
        PROVE  Tail(c2s[k]) \in Seq(OwnFrame(owner)) /\ Next1(k) \in OwnFrame(owner)
    BY <1>2, HeadTailProperties DEF AttributionInv, Next1
  <1>3. ASSUME \A j \in Conns : c2s'[j] \in Seq(OwnFrame(owner)),
               UNCHANGED <<sessCalls, peer, dbUser>>
        PROVE  AttributionInv'
    BY <1>3 DEF AttributionInv, AttributedToToken
  <1>4. ASSUME EndSession(k), UNCHANGED sinkVars PROVE AttributionInv'
    <2>1. <<>> \in Seq(OwnFrame(owner))
      BY EmptySeq
    <2>2. \A j \in Conns : c2s'[j] \in Seq(OwnFrame(owner))
      BY <1>1, <1>4, <2>1 DEF EndSession
    <2>3. \A j \in Conns : \A c \in sessCalls'[j] : peer'[j] = peer[j] /\ c \in sessCalls[j]
      BY <1>4 DEF EndSession, SessionTypeOK
    <2> QED
      BY <1>4, <2>2, <2>3 DEF sinkVars, AttributionInv, AttributedToToken
  <1>5. ASSUME c2s[k] # <<>>, Pop(k), UNCHANGED <<sessCalls, peer, dbUser>>
        PROVE  AttributionInv'
    BY <1>1, <1>2, <1>3, <1>5 DEF Pop
  <1>6. ASSUME NEW x \in Streams, NEW n \in Seqs, c2s[k] # <<>>, PopRecord(k, x, n),
               UNCHANGED <<sessCalls, peer, dbUser>>
        PROVE  AttributionInv'
    <2> DEFINE left == [Next1(k).recs EXCEPT ![x] = @ \ {n}]
               rest == IF left = Nothing THEN <<>> ELSE <<MediaFrame(Next1(k).call, left)>>
    <2>1. Next1(k) \in Frame
      BY <1>6, HeadType
    <2>2. left \in PerStream /\ Next1(k).call \in Calls
      BY <2>1 DEF Frame, PerStream
    <2>3. MediaFrame(Next1(k).call, left) \in OwnFrame(owner)
      BY <2>2 DEF MediaFrame, Frame, OwnFrame
    <2>4. rest \in Seq(OwnFrame(owner))
      BY <2>3
    <2>5. c2s' = [c2s EXCEPT ![k] = rest \o Tail(c2s[k])]
      BY <1>6 DEF PopRecord, WireTypeOK
    <2> HIDE DEF rest
    <2>6. rest \o Tail(c2s[k]) \in Seq(OwnFrame(owner))
      BY <1>2, <1>6, <2>4, ConcatProperties
    <2> QED
      BY <1>1, <1>3, <1>6, <2>5, <2>6
  <1>7. CASE CallStart(k)
    <2> DEFINE c == Next1(k).call
    <2>1. /\ c2s[k] # <<>> /\ Pop(k) /\ Next1(k).t = "start" /\ Next1(k).user = peer[k]
          /\ dbUser' = IF dbUser[c] = NoUser THEN [dbUser EXCEPT ![c] = Next1(k).user]
                       ELSE dbUser
          /\ sessCalls' = [sessCalls EXCEPT ![k] = @ \cup {c}]
          /\ peer' = peer
      BY <1>7 DEF CallStart, MayOpen, Reading
    <2>2. Next1(k) \in Frame /\ owner[c] # NoUser /\ Next1(k).user = owner[c]
      BY <1>2, <2>1 DEF OwnFrame
    <2>3. c \in Calls
      BY <2>2 DEF Frame
    <2>4. \A j \in Conns : c2s'[j] \in Seq(OwnFrame(owner))
      BY <1>1, <1>2, <2>1 DEF Pop
    <2>5. \A j \in Conns : \A d \in sessCalls'[j] : owner[d] # NoUser /\ peer[j] = owner[d]
      BY <2>1, <2>2, <2>3, ZenonT(40) DEF SessionTypeOK, AttributionInv, AttributedToToken
    <2>6. \A d \in Calls : dbUser'[d] # NoUser => dbUser'[d] = owner[d]
      BY <2>1, <2>2, <2>3 DEF SessionTypeOK, AttributionInv, AttributedToToken
    <2> QED
      BY <2>1, <2>4, <2>5, <2>6 DEF AttributionInv, AttributedToToken
  <1>8. CASE MediaOrphan(k) \/ Media(k)
    <2>1. c2s[k] # <<>> /\ UNCHANGED <<sessCalls, peer, dbUser>>
      BY <1>8 DEF MediaOrphan, Media, Reading, sinkVars
    <2>2. Next1(k).recs \in PerStream
      BY <2>1, HeadType DEF Frame
    <2>3. PICK x \in Streams, n \in Seqs : PopRecord(k, x, n)
      BY <1>8, <2>2 DEF MediaOrphan, Media, PerStream
    <2> QED
      BY <1>6, <2>1, <2>3
  <1>9. CASE CallStartMismatch(k) \/ CallStartFailed(k) \/ MediaFailed(k)
             \/ CallEndUnknown(k) \/ CallEndFailed(k) \/ CallEnd(k)
    BY <1>5, <1>9 DEF CallStartMismatch, CallStartFailed, MayOpen, MediaFailed,
       CallEndUnknown, CallEndFailed, CallEnd, Reading, connVars, sinkVars
  <1>10. CASE CallStartTooMany(k) \/ TickIdle(k) \/ Revoke(k) \/ SessionLost(k)
              \/ GatewayRestart(k)
    BY <1>4, <1>10 DEF CallStartTooMany, TickIdle, Revoke, SessionLost, GatewayRestart
  <1>11. ASSUME TickAck(k) \/ (\E c \in Calls : TickOrphans(k, c)) PROVE AttributionInv'
    <2>1. UNCHANGED <<c2s, sessCalls, peer, dbUser>>
      BY <1>11 DEF TickAck, TickOrphans, sinkVars
    <2> QED
      BY <1>3, <2>1 DEF AttributionInv
  <1> QED
    BY <1>7, <1>8, <1>9, <1>10, <1>11 DEF Handle

\* Every step keeps the attribution of calls.
LEMMA AttributionStep == TypeOK /\ AttributionInv /\ [Next]_vars => AttributionInv'
  <1> SUFFICES ASSUME TypeOK, AttributionInv, [Next]_vars PROVE AttributionInv'
    OBVIOUS
  <1>1. CASE ClientNext
    BY <1>1, ClientAttribution
  <1>2. CASE GatewayNext
    BY <1>2, GatewayAttribution DEF GatewayNext, Idle, spoolVars, uplinkVars
  <1>3. ASSUME NEW k \in Conns, Connect(k) PROVE AttributionInv'
    <2>1. /\ c2s' = [c2s EXCEPT ![k] = <<>>]
          /\ peer' = [peer EXCEPT ![k] = user] /\ sessCalls' = [sessCalls EXCEPT ![k] = {}]
          /\ UNCHANGED <<known, cur, segs, owner, dbUser>>
      BY <1>3 DEF Connect, Dial, NewSession, spoolVars, sinkVars
    <2>2. \A j \in Conns : c2s'[j] \in Seq(OwnFrame(owner))
      BY <2>1, EmptySeq DEF AttributionInv, TypeOK, WireTypeOK
    <2>3. \A j \in Conns : \A c \in sessCalls'[j] : peer'[j] = peer[j] /\ c \in sessCalls[j]
      BY <2>1 DEF TypeOK, SessionTypeOK
    <2> QED
      BY <2>1, <2>2, <2>3 DEF AttributionInv, AttributedToToken
  <1>4. ASSUME NEW k \in Conns, SessionLost(k) \/ GatewayRestart(k),
               UNCHANGED <<spoolVars, uplinkVars>>
        PROVE  AttributionInv'
    BY <1>4, GatewayAttribution DEF spoolVars, uplinkVars
  <1>5. CASE ConnectionGone \/ UNCHANGED vars
    BY <1>5 DEF ConnectionGone, vars, AttributionInv, AttributedToToken,
       spoolVars, uplinkVars, connVars, sinkVars
  <1> QED
    BY <1>1, <1>2, <1>3, <1>4, <1>5 DEF Next

\* No call is ever opened, stored or finalized under a user other than the one stamped
\* in its call.start, whoever signs in on the desktop in between.
THEOREM Attributed == Spec => []AttributedToToken
  <1>1. Init => AttributionInv
    BY EmptySeq DEF Init, WireInit, SpoolInit, UplinkInit, SessionInit, Nothing,
       AttributionInv, AttributedToToken
  <1>2. TypeOK /\ AttributionInv /\ [Next]_vars => AttributionInv'
    BY AttributionStep
  <1>3. AttributionInv => AttributedToToken
    BY DEF AttributionInv
  <1> QED
    BY <1>1, <1>2, <1>3, TypeCorrect, PTL DEF Spec
====
