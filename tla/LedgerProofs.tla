---- MODULE LedgerProofs ----
(***************************************************************************)
(* Ingest implements AudioLedger, for every number of calls, channels,     *)
(* segments, users, connections and failures.                              *)
(*                                                                         *)
(* The mapping is the one of ImplementsLedger.  The ledger's guards ask    *)
(* for more than the types: what the gateway stores must have been in the  *)
(* client's custody, so no frame on its way and no buffered record may     *)
(* carry a segment the spool never took; and a segment is taken once, so   *)
(* whatever was taken or turned away must have been produced.              *)
(***************************************************************************)
EXTENDS IngestProofs

\* Audio that has been in custody, per stream.
Custody == [x \in Streams |-> segs[x] \cup durable[x] \cup lossEvents[x]]

\* The frames whose records are all of t.
CarriedFrame(t) == {f \in Frame : \A x \in Streams : f.recs[x] \subseteq t[x]}

CustodyInv ==
    /\ \A x \in Streams : Custody[x] \cup refused[x] \subseteq produced[x]
    /\ \A k \in Conns : c2s[k] \in Seq(CarriedFrame(Custody))
    /\ \A k \in Conns : \A x \in Streams : orphans[k][x] \subseteq Custody[x]

\* What was in custody stays accounted for.
CustodyGrows == \A x \in Streams : Custody[x] \subseteq Custody'[x]

-----------------------------------------------------------------------------
(* Custody.                                                                *)

\* The segments one push adds and evicts.
LEMMA PushMoves ==
    ASSUME TypeOK, NEW x \in Streams, NEW n \in Seqs, NEW out \in PerStream,
           SpoolPush(x, n, out)
    PROVE  \A y \in Streams :
              /\ segs'[y] = (segs[y] \cup (IF y = x THEN {n} ELSE {})) \ out[y]
              /\ lossEvents'[y] = lossEvents[y] \cup out[y]
              /\ produced'[y] = produced[y] \cup (IF y = x THEN {n} ELSE {})
              /\ refused'[y] = refused[y]
  BY DEF SpoolPush, TypeOK, SpoolTypeOK, PerStream, Without, Join

\* The rows an ack deletes are below marks that are stored.
LEMMA AckMoves ==
    ASSUME TypeOK, PromisedIsDurable, RecvAck, UNCHANGED durable
    PROVE  /\ UNCHANGED <<lossEvents, produced, refused, c2s>>
           /\ \A x \in Streams : segs'[x] \subseteq segs[x]
                                 /\ segs[x] \subseteq segs'[x] \cup durable[x]
  <1>1. conn \in Conns /\ s2c[conn] # <<>> /\ s2c[conn] \in Seq(SafeReply(durable))
    BY DEF RecvAck, Receiving, TypeOK, UplinkTypeOK, PromisedIsDurable
  <1>2. Incoming \in SafeReply(durable)
    BY <1>1, HeadTailProperties DEF Incoming
  <1>3. \A x \in Streams : Incoming.marks[x] \subseteq durable[x]
    BY <1>2 DEF SafeReply
  <1>4. \A x \in Streams : acks[x] \cup Incoming.marks[x] \subseteq durable[x]
    BY <1>3 DEF PromisedIsDurable
  <1>5. \A x \in Streams : segs'[x] = segs[x] \/ segs'[x] = segs[x] \ (acks[x] \cup Incoming.marks[x])
    BY DEF RecvAck, SpoolAck, Join
  <1> QED
    BY <1>4, <1>5 DEF RecvAck, SpoolAck

\* The rows a seal deletes are in its event.
LEMMA SealMoves ==
    ASSUME TypeOK, RecvFatal
    PROVE  /\ UNCHANGED <<produced, refused, c2s>>
           /\ \A x \in Streams : segs'[x] \subseteq segs[x]
                /\ lossEvents'[x] = lossEvents[x] \cup (segs[x] \ segs'[x])
  BY DEF RecvFatal, SpoolSeal, Join, OnlyCall, NotCall, TypeOK, SpoolTypeOK, PerStream

\* Frames that carried what was in custody still do.
LEMMA CarriedMono ==
    ASSUME CustodyGrows
    PROVE  \A s : s \in Seq(CarriedFrame(Custody)) => s \in Seq(CarriedFrame(Custody'))
  <1>1. CarriedFrame(Custody) \subseteq CarriedFrame(Custody')
    BY DEF CustodyGrows, CarriedFrame
  <1> QED
    BY <1>1, SeqMonotonic

\* Steps that neither send nor buffer.
LEMMA CustodyRests ==
    ASSUME CustodyInv, CustodyGrows, UNCHANGED <<c2s, orphans>>,
           \A x \in Streams : Custody'[x] \cup refused'[x] \subseteq produced'[x]
    PROVE  CustodyInv'
  <1>1. \A k \in Conns : c2s'[k] \in Seq(CarriedFrame(Custody'))
    BY CarriedMono DEF CustodyInv
  <1>2. \A k \in Conns : \A x \in Streams : orphans'[k][x] \subseteq Custody'[x]
    BY DEF CustodyInv, CustodyGrows
  <1> QED
    BY <1>1, <1>2 DEF CustodyInv

\* The frames of a pass carry rows of the spool.
LEMMA FramesCarried ==
    ASSUME TypeOK, NEW c \in Calls
    PROVE  Frames(c) \in Seq(CarriedFrame(Custody))
  <1> DEFINE hold == IF c \in started THEN c \in awaiting ELSE Replayed(c)
             f1 == IF c \in started THEN <<>> ELSE <<StartFrame(c, owner[c])>>
             f2 == IF hold \/ Batch(c) = Nothing THEN <<>> ELSE <<MediaFrame(c, Batch(c))>>
             f3 == IF hold \/ c \in ended \/ c \notin endRow THEN <<>> ELSE <<EndFrame(c)>>
  <1>1. owner[c] \in Users \cup {NoUser}
    BY DEF TypeOK, SpoolTypeOK
  <1>2. \A x \in Streams : Batch(c)[x] \subseteq segs[x]
    BY DEF Batch, TakePending, Without
  <1>3. \A x \in Streams : Batch(c)[x] \subseteq Custody[x] /\ Nothing[x] \subseteq Custody[x]
    BY <1>2 DEF Custody, Nothing
  <1>4. /\ StartFrame(c, owner[c]) \in CarriedFrame(Custody)
        /\ MediaFrame(c, Batch(c)) \in CarriedFrame(Custody)
        /\ EndFrame(c) \in CarriedFrame(Custody)
    <2>1. /\ StartFrame(c, owner[c]) \in Frame
          /\ MediaFrame(c, Batch(c)) \in Frame
          /\ EndFrame(c) \in Frame
      BY <1>1, BatchType, FrameTypes
    <2> QED
      BY <1>3, <2>1 DEF CarriedFrame, StartFrame, MediaFrame, EndFrame
  <1>5. f1 \in Seq(CarriedFrame(Custody)) /\ f2 \in Seq(CarriedFrame(Custody))
        /\ f3 \in Seq(CarriedFrame(Custody))
    BY <1>4
  <1>6. Frames(c) = f1 \o f2 \o f3
    BY DEF Frames
  <1> HIDE DEF f1, f2, f3
  <1> QED
    BY <1>5, <1>6, ConcatProperties

-----------------------------------------------------------------------------
(* The client's steps.                                                     *)

\* The capture side's steps (push, eviction, restart) keep custody.
LEMMA CaptureCustody ==
    ASSUME TypeOK, CustodyInv, Capture, UNCHANGED <<connVars, sinkVars>>
    PROVE  CustodyInv'
  <1>0. UNCHANGED <<durable, orphans>>
    BY DEF connVars, sinkVars
  <1>1. ASSUME NEW x \in Streams, NEW n \in Seqs, NEW out \in PerStream, UNCHANGED c2s,
               SpoolPush(x, n, out),
               \A y \in Streams : out[y] \subseteq segs[y] \cup (IF y = x THEN {n} ELSE {})
        PROVE  CustodyInv'
    <2>1. CustodyGrows /\ \A y \in Streams : Custody'[y] \cup refused'[y] \subseteq produced'[y]
      BY <1>0, <1>1, PushMoves DEF Custody, CustodyGrows, CustodyInv
    <2> QED
      BY <1>0, <1>1, <2>1, CustodyRests
  <1>2. ASSUME NEW x \in Streams, NEW n \in Seqs, PushSegment(x, n) PROVE CustodyInv'
    BY <1>1, <1>2 DEF PushSegment, PerStream, Nothing
  <1>3. ASSUME NEW x \in Streams, NEW y \in Streams, NEW n \in Seqs, NEW m \in Seqs,
               PushEvicting(x, n, y, m)
        PROVE  CustodyInv'
    <2>1. [Nothing EXCEPT ![y] = {m}] \in PerStream
      BY DEF PerStream, Nothing
    <2>2. \A z \in Streams : [Nothing EXCEPT ![y] = {m}][z]
                                 \subseteq segs[z] \cup (IF z = x THEN {n} ELSE {})
      BY <1>3 DEF PushEvicting, Nothing
    <2> QED
      BY <1>1, <1>3, <2>1, <2>2 DEF PushEvicting
  <1>4. ASSUME NEW x \in Streams, NEW n \in Seqs, PushRefused(x, n) PROVE CustodyInv'
    <2>1. UNCHANGED <<segs, lossEvents, c2s>> /\ \A y \in Streams :
             /\ produced[y] \subseteq produced'[y]
             /\ refused'[y] \subseteq refused[y] \cup produced'[y]
      BY <1>4 DEF PushRefused, SpoolRefuse, TypeOK, SpoolTypeOK, PerStream
    <2>2. Custody' = Custody
      BY <1>0, <2>1 DEF Custody
    <2> QED
      BY <1>0, <2>1, <2>2, CustodyRests DEF CustodyGrows, CustodyInv
  <1>5. ASSUME (\E c \in Calls : BeginCall(c)) \/ EndCall PROVE CustodyInv'
    <2>1. UNCHANGED <<segs, lossEvents, produced, refused, c2s>>
      BY <1>5 DEF BeginCall, EndCall, SpoolBegin, SpoolEnd
    <2>2. Custody' = Custody
      BY <1>0, <2>1 DEF Custody
    <2> QED
      BY <1>0, <2>1, <2>2, CustodyRests DEF CustodyGrows, CustodyInv
  <1> QED
    BY <1>2, <1>3, <1>4, <1>5 DEF Capture

\* Sending takes rows of the spool; an ack and a seal move rows.
LEMMA PumpCustody ==
    ASSUME TypeOK, PromisedIsDurable, CustodyInv, Pump, UNCHANGED <<connVars, sinkVars>>
    PROVE  CustodyInv'
  <1>0. UNCHANGED <<durable, orphans>>
    BY DEF connVars, sinkVars
  <1>1. ASSUME NEW c \in Calls, SendCall(c) PROVE CustodyInv'
    <2>1. conn \in Conns
      BY <1>1 DEF SendCall, CanSend, TypeOK, UplinkTypeOK
    <2>2. UNCHANGED <<segs, lossEvents, produced, refused>>
          /\ c2s' = [c2s EXCEPT ![conn] = @ \o Frames(c)]
      BY <1>1 DEF SendCall, spoolVars
    <2>3. Custody' = Custody
      BY <1>0, <2>2 DEF Custody
    <2>4. c2s[conn] \o Frames(c) \in Seq(CarriedFrame(Custody))
      BY <2>1, FramesCarried, ConcatProperties DEF CustodyInv
    <2>5. \A k \in Conns : c2s'[k] \in Seq(CarriedFrame(Custody))
      BY <2>1, <2>2, <2>4 DEF TypeOK, WireTypeOK, CustodyInv
    <2> QED
      BY <1>0, <2>2, <2>3, <2>5 DEF CustodyInv
  <1>2. CASE RecvAck
    <2>1. CustodyGrows /\ \A y \in Streams : Custody'[y] \cup refused'[y] \subseteq produced'[y]
      BY <1>0, <1>2, AckMoves DEF Custody, CustodyGrows, CustodyInv
    <2> QED
      BY <1>0, <1>2, <2>1, AckMoves, CustodyRests
  <1>3. CASE RecvFatal
    <2>1. CustodyGrows /\ \A y \in Streams : Custody'[y] \cup refused'[y] \subseteq produced'[y]
      BY <1>0, <1>3, SealMoves DEF Custody, CustodyGrows, CustodyInv
    <2> QED
      BY <1>0, <1>3, <2>1, SealMoves, CustodyRests
  <1>4. ASSUME (\E c \in Calls : ResumeTimeout(c)) \/ RecvResume \/ RecvClose PROVE CustodyInv'
    <2>1. UNCHANGED <<segs, lossEvents, produced, refused, c2s>>
      BY <1>4 DEF ResumeTimeout, RecvResume, RecvClose, spoolVars
    <2>2. Custody' = Custody
      BY <1>0, <2>1 DEF Custody
    <2> QED
      BY <1>0, <2>1, <2>2, CustodyRests DEF CustodyGrows, CustodyInv
  <1> QED
    BY <1>1, <1>2, <1>3, <1>4 DEF Pump

-----------------------------------------------------------------------------
(* The gateway's steps: it stores what a frame or a buffer carried.        *)

\* The gateway's steps keep custody: they store what they take off the wire or out of a buffer.
LEMMA GatewayCustody ==
    ASSUME TypeOK, CustodyInv, UNCHANGED spoolVars, NEW k \in Conns,
           \/ Handle(k)
           \/ TickAck(k) \/ (\E c \in Calls : TickOrphans(k, c))
           \/ TickIdle(k) \/ Revoke(k) \/ SessionLost(k) \/ GatewayRestart(k)
    PROVE  /\ CustodyInv' /\ Custody' = Custody
           /\ \A x \in Streams : durable[x] \subseteq durable'[x] /\ durable'[x] \subseteq Custody[x]
  <1> DEFINE Goal == /\ CustodyInv' /\ Custody' = Custody
                     /\ \A x \in Streams : /\ durable[x] \subseteq durable'[x]
                                           /\ durable'[x] \subseteq Custody[x]
             Sound(q) == q \in Seq(CarriedFrame(Custody))
  <1>0. UNCHANGED <<segs, lossEvents, produced, refused>>
    BY DEF spoolVars
  <1>1. ASSUME \A j \in Conns : Sound(c2s'[j]),
               \A j \in Conns : \A x \in Streams : orphans'[j][x] \subseteq Custody[x],
               \A x \in Streams : /\ durable[x] \subseteq durable'[x]
                                  /\ durable'[x] \subseteq Custody[x]
        PROVE  Goal
    <2>1. Custody' = Custody
      <3>1. \A x \in Streams : segs'[x] \cup durable'[x] \cup lossEvents'[x]
                                 = segs[x] \cup durable[x] \cup lossEvents[x]
        BY <1>0, <1>1 DEF Custody
      <3> QED
        BY <3>1 DEF Custody
    <2>2. CustodyInv'
      BY <1>0, <1>1, <2>1 DEF CustodyInv
    <2> QED
      BY <1>1, <2>1, <2>2
  <1>2. \A x \in Streams : durable[x] \subseteq Custody[x]
    BY DEF Custody
  <1>3. ASSUME \A j \in Conns : Sound(c2s'[j]),
               \A j \in Conns : \A x \in Streams : orphans'[j][x] \subseteq orphans[j][x],
               UNCHANGED durable
        PROVE  Goal
    BY <1>1, <1>2, <1>3 DEF CustodyInv
  <1>4. ASSUME NEW q, Sound(q), c2s' = [c2s EXCEPT ![k] = q]
        PROVE  \A j \in Conns : Sound(c2s'[j])
    BY <1>4 DEF TypeOK, WireTypeOK, CustodyInv
  <1>5. ASSUME c2s[k] # <<>>
        PROVE  Sound(Tail(c2s[k])) /\ Next1(k) \in CarriedFrame(Custody)
    BY <1>5, HeadTailProperties DEF CustodyInv, Next1
  <1>6. ASSUME c2s[k] # <<>>, Pop(k) PROVE \A j \in Conns : Sound(c2s'[j])
    BY <1>4, <1>5, <1>6 DEF Pop
  <1>7. ASSUME NEW x \in Streams, NEW n, c2s[k] # <<>>, PopRecord(k, x, n)
        PROVE  \A j \in Conns : Sound(c2s'[j])
    <2> DEFINE left == [Next1(k).recs EXCEPT ![x] = @ \ {n}]
               rest == IF left = Nothing THEN <<>> ELSE <<MediaFrame(Next1(k).call, left)>>
    <2>1. Next1(k) \in Frame /\ \A y \in Streams : Next1(k).recs[y] \subseteq Custody[y]
      BY <1>5, <1>7 DEF CarriedFrame
    <2>2. left \in PerStream /\ Next1(k).call \in Calls
      BY <2>1 DEF Frame, PerStream
    <2>3. \A y \in Streams : left[y] \subseteq Custody[y]
      BY <2>1 DEF Frame, PerStream
    <2> HIDE DEF left
    <2>4. MediaFrame(Next1(k).call, left) \in CarriedFrame(Custody)
      BY <2>2, <2>3 DEF MediaFrame, Frame, CarriedFrame
    <2>5. Sound(rest)
      BY <2>4
    <2>6. c2s' = [c2s EXCEPT ![k] = rest \o Tail(c2s[k])]
      BY <1>7 DEF PopRecord, TypeOK, WireTypeOK, left
    <2> HIDE DEF rest
    <2>7. Sound(rest \o Tail(c2s[k]))
      BY <1>5, <1>7, <2>5, ConcatProperties
    <2> QED
      BY <1>4, <2>6, <2>7
  <1>8. ASSUME EndSession(k), UNCHANGED durable PROVE Goal
    <2>1. Sound(<<>>)
      BY EmptySeq
    <2>2. \A j \in Conns : Sound(c2s'[j])
      BY <1>4, <1>8, <2>1 DEF EndSession
    <2>3. \A j \in Conns : \A x \in Streams : orphans'[j][x] \subseteq orphans[j][x]
      BY <1>8 DEF EndSession, Nothing, TypeOK, SessionTypeOK
    <2> QED
      BY <1>3, <1>8, <2>2, <2>3
  <1>9. CASE CallStart(k)
    <2> DEFINE c == Next1(k).call
               mine == OnlyCall(c, orphans[k])
               loaded == [x \in Streams |-> IF Known(c, x) THEN watermark[x] \cup Ahead(have[k][x])
                                            ELSE have[k][x]]
    <2>1. /\ c2s[k] # <<>> /\ Pop(k) /\ durable' = Join(durable, Stored(mine, loaded))
          /\ orphans' = [orphans EXCEPT ![k] = NotCall(c, @)]
      BY <1>9 DEF CallStart, MayOpen, Reading
    <2>2. \A x \in Streams : /\ durable[x] \subseteq durable'[x]
                             /\ durable'[x] \subseteq durable[x] \cup orphans[k][x]
      BY <2>1 DEF Join, Stored, OnlyCall
    <2>3. \A j \in Conns : \A x \in Streams : orphans'[j][x] \subseteq orphans[j][x]
      BY <2>1 DEF NotCall, TypeOK, SessionTypeOK
    <2>4. \A x \in Streams : durable'[x] \subseteq Custody[x]
      BY <1>2, <2>2 DEF CustodyInv
    <2> QED
      BY <1>1, <1>6, <2>1, <2>2, <2>3, <2>4 DEF CustodyInv
  <1>10. CASE MediaOrphan(k)
    <2>1. c2s[k] # <<>> /\ UNCHANGED durable
      BY <1>10 DEF MediaOrphan, Reading, sinkVars
    <2>0. PICK x \in Streams : \E n \in Next1(k).recs[x] :
             PopRecord(k, x, n) /\ orphans' = [orphans EXCEPT ![k][x] = @ \cup {n}]
      BY <1>10 DEF MediaOrphan
    <2>2. PICK n \in Next1(k).recs[x] :
             PopRecord(k, x, n) /\ orphans' = [orphans EXCEPT ![k][x] = @ \cup {n}]
      BY <2>0
    <2>3. n \in Custody[x]
      BY <1>5, <2>1, <2>2 DEF CarriedFrame
    <2>4. \A j \in Conns : \A y \in Streams : orphans'[j][y] \subseteq Custody[y]
      BY <2>2, <2>3 DEF CustodyInv, TypeOK, SessionTypeOK, PerStream
    <2> QED
      BY <1>1, <1>2, <1>7, <2>1, <2>2, <2>4
  <1>11. CASE Media(k)
    <2>1. c2s[k] # <<>> /\ UNCHANGED orphans
      BY <1>11 DEF Media, Reading
    <2>0. PICK x \in Streams : \E n \in Next1(k).recs[x] :
             /\ PopRecord(k, x, n)
             /\ durable' = Join(durable, Stored([Nothing EXCEPT ![x] = {n}], have[k]))
      BY <1>11 DEF Media
    <2>2. PICK n \in Next1(k).recs[x] :
             /\ PopRecord(k, x, n)
             /\ durable' = Join(durable, Stored([Nothing EXCEPT ![x] = {n}], have[k]))
      BY <2>0
    <2>3. n \in Custody[x]
      BY <1>5, <2>1, <2>2 DEF CarriedFrame
    <2>4. \A y \in Streams : /\ durable[y] \subseteq durable'[y]
                             /\ durable'[y] \subseteq durable[y] \cup (IF y = x THEN {n} ELSE {})
      BY <2>2 DEF Join, Stored, Nothing
    <2>5. \A y \in Streams : durable'[y] \subseteq Custody[y]
      BY <1>2, <2>3, <2>4
    <2> QED
      BY <1>1, <1>7, <2>1, <2>2, <2>4, <2>5 DEF CustodyInv
  <1>12. CASE CallStartMismatch(k) \/ CallStartFailed(k) \/ MediaFailed(k)
              \/ CallEndUnknown(k) \/ CallEndFailed(k) \/ CallEnd(k)
    <2>1. c2s[k] # <<>> /\ Pop(k) /\ UNCHANGED <<orphans, durable>>
      BY <1>12 DEF CallStartMismatch, CallStartFailed, MayOpen, MediaFailed, CallEndUnknown,
         CallEndFailed, CallEnd, Reading, connVars, sinkVars
    <2> QED
      BY <1>3, <1>6, <2>1
  <1>13. CASE CallStartTooMany(k) \/ TickIdle(k) \/ Revoke(k) \/ SessionLost(k)
              \/ GatewayRestart(k)
    BY <1>8, <1>13 DEF CallStartTooMany, TickIdle, Revoke, SessionLost, GatewayRestart, sinkVars
  <1>14. CASE TickAck(k)
    BY <1>3, <1>14 DEF TickAck, CustodyInv
  <1>15. ASSUME NEW c \in Calls, TickOrphans(k, c) PROVE Goal
    <2>1. UNCHANGED <<c2s, durable>> /\ orphans' = [orphans EXCEPT ![k] = NotCall(c, @)]
      BY <1>15 DEF TickOrphans, sinkVars
    <2>2. \A j \in Conns : \A x \in Streams : orphans'[j][x] \subseteq orphans[j][x]
      BY <2>1 DEF NotCall, TypeOK, SessionTypeOK
    <2> QED
      BY <1>3, <2>1, <2>2 DEF CustodyInv
  <1> QED
    BY <1>9, <1>10, <1>11, <1>12, <1>13, <1>14, <1>15 DEF Handle

\* Every step of the ingest path keeps custody.
LEMMA CustodyStep ==
    TypeOK /\ PromisedIsDurable /\ CustodyInv /\ [Next]_vars => CustodyInv'
  <1> SUFFICES ASSUME TypeOK, PromisedIsDurable, CustodyInv, [Next]_vars PROVE CustodyInv'
    OBVIOUS
  <1>0. ASSUME UNCHANGED <<segs, durable, lossEvents, produced, refused, c2s, orphans>>
        PROVE  CustodyInv'
    BY <1>0 DEF CustodyInv, Custody
  <1>1. CASE ClientNext
    <2>1. CASE Capture
      BY <1>1, <2>1, CaptureCustody DEF ClientNext
    <2>2. CASE Pump
      BY <1>1, <2>2, PumpCustody DEF ClientNext
    <2>3. CASE (\E u \in Users : SignIn(u)) \/ CrashRestart \/ DropConnection
      BY <1>0, <1>1, <2>3 DEF ClientNext, SignIn, CrashRestart, DropConnection, spoolVars,
         connVars, sinkVars
    <2> QED
      BY <1>1, <2>1, <2>2, <2>3 DEF ClientNext
  <1>2. CASE GatewayNext
    BY <1>2, GatewayCustody DEF GatewayNext, Idle
  <1>3. ASSUME NEW k \in Conns, Connect(k) PROVE CustodyInv'
    <2>1. /\ c2s' = [c2s EXCEPT ![k] = <<>>] /\ orphans' = [orphans EXCEPT ![k] = Nothing]
          /\ UNCHANGED <<segs, durable, lossEvents, produced, refused>>
      BY <1>3 DEF Connect, NewSession, spoolVars, sinkVars
    <2>2. Custody' = Custody
      BY <2>1 DEF Custody
    <2>3. \A j \in Conns : c2s'[j] \in Seq(CarriedFrame(Custody))
      BY <2>1, EmptySeq DEF CustodyInv, TypeOK, WireTypeOK
    <2>4. \A j \in Conns : \A x \in Streams : orphans'[j][x] \subseteq Custody[x]
      BY <2>1 DEF CustodyInv, TypeOK, SessionTypeOK, Nothing
    <2> QED
      BY <2>1, <2>2, <2>3, <2>4 DEF CustodyInv
  <1>4. ASSUME NEW k \in Conns, SessionLost(k) \/ GatewayRestart(k),
               UNCHANGED <<spoolVars, uplinkVars>>
        PROVE  CustodyInv'
    BY <1>4, GatewayCustody
  <1>5. CASE ConnectionGone \/ UNCHANGED vars
    BY <1>0, <1>5 DEF ConnectionGone, vars, spoolVars, connVars, sinkVars
  <1> QED
    BY <1>1, <1>2, <1>3, <1>4, <1>5 DEF Next

\* Custody holds in every reachable state.
LEMMA CustodyKept == Spec => []CustodyInv
  <1>1. Init => CustodyInv
    BY EmptySeq DEF Init, WireInit, SpoolInit, SessionInit, Nothing, Custody, CustodyInv
  <1>2. TypeOK /\ PromisedIsDurable /\ CustodyInv /\ [Next]_vars => CustodyInv'
    BY CustodyStep
  <1> QED
    BY <1>1, <1>2, TypeCorrect, PromisesBacked, PTL DEF Spec

-----------------------------------------------------------------------------
(* The refinement: every step is a step of the ledger or leaves it alone.  *)

Segs == Streams \X Seqs

\* The ledger's sets hold segments.
LEMMA SegmentsOfSubset == ASSUME NEW f PROVE SegmentsOf(f) \subseteq Segs
  BY DEF SegmentsOf, Segs

\* The ledger's view of what moves on the client.
LEMMA PushIsTake ==
    ASSUME TypeOK, CustodyInv, NEW x \in Streams, NEW n \in Seqs, NEW out \in PerStream,
           n \notin produced[x], SpoolPush(x, n, out), UNCHANGED <<durable, outbox>>,
           \A y \in Streams : out[y] \subseteq segs[y] \cup (IF y = x THEN {n} ELSE {})
    PROVE  Ledger!Take(<<x, n>>, SegmentsOf(out))
  <1>0. \A y \in Streams : /\ segs'[y] = (segs[y] \cup (IF y = x THEN {n} ELSE {})) \ out[y]
                           /\ lossEvents'[y] = lossEvents[y] \cup out[y]
                           /\ refused'[y] = refused[y]
    BY PushMoves
  <1>1. <<x, n>> \notin Ledger!Taken \cup SegmentsOf(refused)
    BY DEF Ledger!Taken, SegmentsOf, CustodyInv, Custody
  <1>2. SegmentsOf(out) \subseteq SegmentsOf(segs) \cup {<<x, n>>}
    BY DEF SegmentsOf
  <1>3. SegmentsOf(segs)' = (SegmentsOf(segs) \cup {<<x, n>>}) \ SegmentsOf(out)
    BY <1>0 DEF SegmentsOf
  <1>4. SegmentsOf(lossEvents)' = SegmentsOf(lossEvents) \cup SegmentsOf(out)
    BY <1>0 DEF SegmentsOf
  <1>5. SegmentsOf(refused)' = SegmentsOf(refused) /\ SegmentsOf(durable)' = SegmentsOf(durable)
    BY <1>0 DEF SegmentsOf
  <1> QED
    BY <1>1, <1>2, <1>3, <1>4, <1>5 DEF Ledger!Take

\* A step of the capture takes a segment, turns one away, or leaves the ledger alone.
LEMMA CaptureRefines ==
    ASSUME TypeOK, CustodyInv, Capture, UNCHANGED sinkVars
    PROVE  Ledger!Next \/ UNCHANGED Ledger!ledgerVars
  <1>0. UNCHANGED <<durable, outbox>>
    BY DEF sinkVars
  <1>1. ASSUME NEW x \in Streams, NEW n \in Seqs, NEW out, Ledger!Take(<<x, n>>, SegmentsOf(out))
        PROVE  Ledger!Next
    <2>1. <<x, n>> \in Segs /\ SegmentsOf(out) \in SUBSET Segs
      BY SegmentsOfSubset DEF Segs
    <2> QED
      BY <1>1, <2>1 DEF Ledger!Next, Segs
  <1>2. ASSUME NEW x \in Streams, NEW n \in Seqs, PushSegment(x, n) PROVE Ledger!Next
    <2>1. n \notin produced[x] /\ SpoolPush(x, n, Nothing) /\ Nothing \in PerStream
      BY <1>2 DEF PushSegment, NextSegment, PerStream, Nothing
    <2>2. \A y \in Streams : Nothing[y] \subseteq segs[y] \cup (IF y = x THEN {n} ELSE {})
      BY DEF Nothing
    <2> QED
      BY <1>0, <1>1, <2>1, <2>2, PushIsTake
  <1>3. ASSUME NEW x \in Streams, NEW y \in Streams, NEW n \in Seqs, NEW m \in Seqs,
               PushEvicting(x, n, y, m)
        PROVE  Ledger!Next
    <2> DEFINE out == [Nothing EXCEPT ![y] = {m}]
    <2>1. n \notin produced[x] /\ SpoolPush(x, n, out) /\ out \in PerStream
      BY <1>3 DEF PushEvicting, NextSegment, PerStream, Nothing
    <2>2. \A z \in Streams : out[z] \subseteq segs[z] \cup (IF z = x THEN {n} ELSE {})
      BY <1>3 DEF PushEvicting, Nothing
    <2> HIDE DEF out
    <2> QED
      BY <1>0, <1>1, <2>1, <2>2, PushIsTake
  <1>4. ASSUME NEW x \in Streams, NEW n \in Seqs, PushRefused(x, n) PROVE Ledger!Next
    <2>1. /\ n \notin produced[x] /\ UNCHANGED <<segs, lossEvents>>
          /\ \A y \in Streams : refused'[y] = refused[y] \cup (IF y = x THEN {n} ELSE {})
      BY <1>4 DEF PushRefused, NextSegment, SpoolRefuse, TypeOK, SpoolTypeOK, PerStream
    <2>2. <<x, n>> \notin Ledger!Taken \cup SegmentsOf(refused)
      BY <2>1 DEF Ledger!Taken, SegmentsOf, CustodyInv, Custody
    <2>3. SegmentsOf(refused)' = SegmentsOf(refused) \cup {<<x, n>>}
      BY <2>1 DEF SegmentsOf
    <2>4. /\ SegmentsOf(segs)' = SegmentsOf(segs)
          /\ SegmentsOf(lossEvents)' = SegmentsOf(lossEvents)
          /\ SegmentsOf(durable)' = SegmentsOf(durable)
      BY <1>0, <2>1 DEF SegmentsOf
    <2>5. Ledger!TurnAway(<<x, n>>)
      BY <1>0, <2>2, <2>3, <2>4 DEF Ledger!TurnAway
    <2>6. <<x, n>> \in Segs
      BY DEF Segs
    <2> QED
      BY <2>5, <2>6 DEF Ledger!Next, Segs
  <1>5. ASSUME (\E c \in Calls : BeginCall(c)) \/ EndCall PROVE UNCHANGED Ledger!ledgerVars
    <2>1. UNCHANGED <<segs, lossEvents, refused>>
      BY <1>5 DEF BeginCall, EndCall, SpoolBegin, SpoolEnd
    <2> QED
      BY <1>0, <2>1 DEF Ledger!ledgerVars, SegmentsOf
  <1> QED
    BY <1>2, <1>3, <1>4, <1>5 DEF Capture

\* An ack releases what is stored, and a fatal error writes off what is left.
LEMMA PumpRefines ==
    ASSUME TypeOK, PromisedIsDurable, Pump, UNCHANGED sinkVars
    PROVE  Ledger!Next \/ UNCHANGED Ledger!ledgerVars
  <1>0. UNCHANGED <<durable, outbox>>
    BY DEF sinkVars
  <1> DEFINE S == SegmentsOf(segs) \ SegmentsOf(segs)'
  <1>1. S \in SUBSET Segs
    BY SegmentsOfSubset
  <1>2. CASE RecvAck
    <2>1. /\ UNCHANGED <<lossEvents, refused>>
          /\ \A x \in Streams : segs'[x] \subseteq segs[x]
                                /\ segs[x] \subseteq segs'[x] \cup durable[x]
      BY <1>0, <1>2, AckMoves
    <2>2. S \subseteq SegmentsOf(segs) \cap SegmentsOf(durable)
          /\ SegmentsOf(segs)' = SegmentsOf(segs) \ S
      BY <2>1 DEF SegmentsOf
    <2>3. /\ SegmentsOf(refused)' = SegmentsOf(refused)
          /\ SegmentsOf(lossEvents)' = SegmentsOf(lossEvents)
          /\ SegmentsOf(durable)' = SegmentsOf(durable)
      BY <1>0, <2>1 DEF SegmentsOf
    <2> HIDE DEF S
    <2>4. Ledger!Release(S)
      BY <1>0, <2>2, <2>3 DEF Ledger!Release
    <2> QED
      BY <1>1, <2>4 DEF Ledger!Next, Segs
  <1>3. CASE RecvFatal
    <2>1. /\ UNCHANGED refused
          /\ \A x \in Streams : segs'[x] \subseteq segs[x]
                /\ lossEvents'[x] = lossEvents[x] \cup (segs[x] \ segs'[x])
      BY <1>3, SealMoves
    <2>2. S \subseteq SegmentsOf(segs) /\ SegmentsOf(segs)' = SegmentsOf(segs) \ S
          /\ SegmentsOf(lossEvents)' = SegmentsOf(lossEvents) \cup S
      BY <2>1 DEF SegmentsOf
    <2>3. /\ SegmentsOf(refused)' = SegmentsOf(refused)
          /\ SegmentsOf(durable)' = SegmentsOf(durable)
      BY <1>0, <2>1 DEF SegmentsOf
    <2> HIDE DEF S
    <2>4. Ledger!WriteOff(S)
      BY <1>0, <2>2, <2>3 DEF Ledger!WriteOff
    <2> QED
      BY <1>1, <2>4 DEF Ledger!Next, Segs
  <1>4. ASSUME \/ \E c \in Calls : SendCall(c) \/ ResumeTimeout(c)
               \/ RecvResume \/ RecvClose
        PROVE  UNCHANGED Ledger!ledgerVars
    <2>1. UNCHANGED <<segs, lossEvents, refused>>
      BY <1>4 DEF SendCall, ResumeTimeout, RecvResume, RecvClose, spoolVars
    <2> QED
      BY <1>0, <2>1 DEF Ledger!ledgerVars, SegmentsOf
  <1> QED
    BY <1>2, <1>3, <1>4 DEF Pump

\* The gateway stores what was in custody, and hands a call over when its row ends.
LEMMA GatewayRefines ==
    ASSUME TypeOK, CustodyInv, EnqueuedOnce, UNCHANGED spoolVars, NEW k \in Conns,
           \/ Handle(k)
           \/ TickAck(k) \/ (\E c \in Calls : TickOrphans(k, c))
           \/ TickIdle(k) \/ Revoke(k) \/ SessionLost(k) \/ GatewayRestart(k)
    PROVE  Ledger!Next \/ UNCHANGED Ledger!ledgerVars
  <1>0. /\ SegmentsOf(segs)' = SegmentsOf(segs)
        /\ SegmentsOf(lossEvents)' = SegmentsOf(lossEvents)
        /\ SegmentsOf(refused)' = SegmentsOf(refused)
    BY DEF spoolVars, SegmentsOf
  <1>1. CASE CallEnd(k)
    <2> DEFINE c == Next1(k).call
    <2>1. c \in Calls
      <3>1. Next1(k) \in Frame
        BY <1>1, HeadType DEF CallEnd, Reading, TypeOK
      <3> QED
        BY <3>1 DEF Frame
    <2>2. SegmentsOf(durable)' = SegmentsOf(durable)
      BY <1>1 DEF CallEnd, SegmentsOf
    <2>3. FinishCall(c)
      BY <1>1 DEF CallEnd
    <2> HIDE DEF c
    <2>4. outbox' = outbox \/ (outbox[c] = 0 /\ outbox' = [outbox EXCEPT ![c] = 1])
      <3>1. CASE dbUser[c] # NoUser /\ c \notin endedAt
        <4>1. outbox[c] = 0
          BY <2>1, <3>1 DEF EnqueuedOnce
        <4>2. outbox' = [outbox EXCEPT ![c] = outbox[c] + 1]
          BY <2>3, <3>1 DEF FinishCall
        <4>3. outbox[c] + 1 = 1
          BY <4>1
        <4> QED
          BY <4>1, <4>2, <4>3
      <3>2. CASE ~(dbUser[c] # NoUser /\ c \notin endedAt)
        BY <2>3, <3>2 DEF FinishCall
      <3> QED
        BY <3>1, <3>2
    <2>5. CASE outbox' = outbox
      BY <1>0, <2>2, <2>5 DEF Ledger!ledgerVars
    <2>6. CASE outbox[c] = 0 /\ outbox' = [outbox EXCEPT ![c] = 1]
      <3>1. Ledger!HandOver(c)
        BY <1>0, <2>2, <2>6 DEF Ledger!HandOver
      <3> QED
        BY <2>1, <3>1 DEF Ledger!Next
    <2> QED
      BY <2>4, <2>5, <2>6
  <1>2. CASE UNCHANGED outbox
    <2> DEFINE S == SegmentsOf(durable')
    <2>1. \A x \in Streams : /\ durable[x] \subseteq durable'[x]
                             /\ durable'[x] \subseteq segs[x] \cup durable[x] \cup lossEvents[x]
      BY GatewayCustody DEF Custody
    <2>2. S \subseteq Ledger!Taken
      BY <2>1 DEF SegmentsOf, Ledger!Taken
    <2>3. SegmentsOf(durable)' = SegmentsOf(durable) \cup S
      BY <2>1 DEF SegmentsOf
    <2>4. S \in SUBSET Segs
      BY SegmentsOfSubset
    <2> HIDE DEF S
    <2>5. Ledger!Store(S)
      BY <1>0, <1>2, <2>2, <2>3 DEF Ledger!Store
    <2> QED
      BY <2>4, <2>5 DEF Ledger!Next, Segs
  <1>3. CallEnd(k) \/ UNCHANGED outbox
    BY DEF Handle, CallStartMismatch, CallStartTooMany, CallStartFailed, CallStart, MediaOrphan,
       Media, MediaFailed, CallEndUnknown, CallEndFailed, TickAck, TickOrphans, TickIdle, Revoke,
       SessionLost, GatewayRestart, sinkVars
  <1> QED
    BY <1>1, <1>2, <1>3

\* Every step of the ingest path is a ledger step or leaves the ledger alone.
LEMMA LedgerStep ==
    TypeOK /\ PromisedIsDurable /\ EnqueuedOnce /\ CustodyInv /\ [Next]_vars
      => [Ledger!Next]_(Ledger!ledgerVars)
  <1> SUFFICES ASSUME TypeOK, PromisedIsDurable, EnqueuedOnce, CustodyInv, [Next]_vars
               PROVE  Ledger!Next \/ UNCHANGED Ledger!ledgerVars
    OBVIOUS
  <1>0. ASSUME UNCHANGED <<segs, durable, lossEvents, refused, outbox>>
        PROVE  UNCHANGED Ledger!ledgerVars
    BY <1>0 DEF Ledger!ledgerVars, SegmentsOf
  <1>1. CASE ClientNext
    <2>1. CASE Capture
      BY <1>1, <2>1, CaptureRefines DEF ClientNext
    <2>2. CASE Pump
      BY <1>1, <2>2, PumpRefines DEF ClientNext
    <2>3. CASE (\E u \in Users : SignIn(u)) \/ CrashRestart \/ DropConnection
      <3>1. UNCHANGED <<segs, durable, lossEvents, refused, outbox>>
        BY <1>1, <2>3 DEF ClientNext, SignIn, CrashRestart, DropConnection, spoolVars, sinkVars
      <3> QED
        BY <1>0, <3>1
    <2> QED
      BY <1>1, <2>1, <2>2, <2>3 DEF ClientNext
  <1>2. CASE GatewayNext
    BY <1>2, GatewayRefines DEF GatewayNext, Idle
  <1>3. ASSUME NEW k \in Conns, SessionLost(k) \/ GatewayRestart(k),
               UNCHANGED <<spoolVars, uplinkVars>>
        PROVE  Ledger!Next \/ UNCHANGED Ledger!ledgerVars
    BY <1>3, GatewayRefines
  <1>4. CASE (\E k \in Conns : Connect(k)) \/ ConnectionGone \/ UNCHANGED vars
    <2>1. UNCHANGED <<segs, durable, lossEvents, refused, outbox>>
      BY <1>4 DEF Connect, ConnectionGone, vars, spoolVars, sinkVars
    <2> QED
      BY <1>0, <2>1
  <1> QED
    BY <1>1, <1>2, <1>3, <1>4 DEF Next

\* Spool, uplink, wire and sessions together are an audio ledger, whatever number of calls,
\* connections and failures: a row leaves the spool only because the gateway has it or with
\* an event, nothing enters the gateway's store that was not recorded, and no step but a
\* first FinishCall hands a call over (spool.rs, uplink/mod.rs, session.go, sink.go).
THEOREM IngestIsLedger == Spec => ImplementsLedger
  <1>1. Init => Ledger!Init
    BY DEF Init, SpoolInit, SessionInit, Nothing, SegmentsOf, Ledger!Init
  <1>2. TypeOK /\ PromisedIsDurable /\ EnqueuedOnce /\ CustodyInv /\ [Next]_vars
          => [Ledger!Next]_(Ledger!ledgerVars)
    BY LedgerStep
  <1> QED
    BY <1>1, <1>2, TypeCorrect, PromisesBacked, HandedOverOnce, CustodyKept, PTL
       DEF Spec, ImplementsLedger, Ledger!Spec
====
