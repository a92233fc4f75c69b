---- MODULE RecordProofs ----
(***************************************************************************)
(* The record of a call, for every set of calls and users, every VAD       *)
(* policy and every length of segment: its last_seq names the highest      *)
(* number spooled, it holds what was heard since the detector armed, and   *)
(* its numbers have no gap.  All three rest on the order in which the      *)
(* encoders number segments while the detector is in one arm and one call. *)
(***************************************************************************)
EXTENDS CaptureProofs, FiniteSetTheorems

\* last is the highest number of S, -1 if there is none.
Top(S, last) == IF S = {} THEN last = -1 ELSE last \in S /\ \A n \in S : n <= last

\* A call is in progress and its record was opened.  An old record that was never closed
\* is excluded: the encoders restart under it and its numbers are no longer in order.
Recording == Talking(det) /\ cur # NoCall /\ "begin" \notin failed

\* What is spooled of the current call comes before what is ready and what is encoded.
InOrder(ch) ==
    /\ Top(spooled[<<cur, ch>>], lastSeq[ch])
    /\ \A n \in spooled[<<cur, ch>>] : n < enc[ch].next /\ \A m \in ready[ch] : n < m

\* Who has a record: a call is current or ended only once its call.start is stored, and
\* only then has it segments.
OwnInv ==
    /\ \A c \in ended : owner[c] # NoUser
    /\ cur # NoCall => owner[cur] # NoUser /\ cur \notin ended
    /\ \A x \in Streams : owner[x[1]] = NoUser => spooled[x] = {}

RecordInv ==
    /\ OwnInv
    /\ Recording => \A ch \in Channels : InOrder(ch)
    /\ LastSeqIsHighest

-----------------------------------------------------------------------------
(* Batches.                                                                *)

\* A batch above what is spooled carries the highest number on.
LEMMA TopAfter ==
    ASSUME NEW S \in SUBSET Nat, NEW last, Top(S, last),
           NEW B \in SUBSET Nat, NEW top \in Nat, \A m \in B : m <= top,
           \A n \in S, m \in B : n < m
    PROVE  Top(S \cup B, IF B = {} THEN last ELSE Highest(B))
<1>1. CASE B = {}
  BY <1>1 DEF Top
<1>2. CASE B # {}
  <2>1. Highest(B) \in B /\ \A m \in B : m <= Highest(B)
    BY <1>2, HighestIn
  <2> DEFINE h == Highest(B)
  <2>2. h \in B /\ h \in Nat /\ \A m \in B : m <= h
    BY <2>1
  <2> HIDE DEF h
  <2>3. \A n \in S \cup B : n <= h
    BY <2>2
  <2>4. Top(S \cup B, h)
    BY <2>2, <2>3 DEF Top
  <2> QED
    BY <1>2, <2>4 DEF h
<1> QED
  BY <1>1, <1>2

\* Reading keeps the order: what it finishes has the next number.
LEMMA ReadInOrder ==
    ASSUME IInv, NEW R \in SUBSET Channels, NEW ch \in Channels, InOrder(ch),
           spooled[<<cur, ch>>] \in SUBSET Nat
    PROVE  /\ \A n \in spooled[<<cur, ch>>], m \in Held(R)[ch] : n < m
           /\ \A n \in spooled[<<cur, ch>>], m \in LastBatch(R)[ch] : n < m
           /\ \A n \in spooled[<<cur, ch>>] : n < Encoded(R)[ch].next
<1>1. enc[ch] \in Encoder /\ ready[ch] \in SUBSET Nat /\ enc[ch].next \in Nat
  BY DEF IInv, TypeOK, Encoder
<1>2. Encoded(R)[ch].next \in Nat /\ Encoded(R)[ch].next >= enc[ch].next
  BY <1>1 DEF Encoded, Encoder
<1>3. Held(R)[ch] \subseteq ready[ch] \cup {enc[ch].next}
  BY DEF Held, Finished
<1>4. LastBatch(R)[ch] \subseteq Held(R)[ch] \cup {Encoded(R)[ch].next}
  BY DEF LastBatch
<1>5. \A n \in spooled[<<cur, ch>>] : n < enc[ch].next /\ n < Encoded(R)[ch].next
  BY <1>1, <1>2 DEF InOrder
<1>6. \A n \in spooled[<<cur, ch>>], m \in Held(R)[ch] : n < m
  BY <1>3, <1>5 DEF InOrder
<1> QED
  BY <1>4, <1>5, <1>6

\* Spooling part of a batch onto the current call, and last_seq after it.
LEMMA PushInOrder ==
    ASSUME IInv, cur \in Calls, NEW ch \in Channels, InOrder(ch),
           NEW R \in SUBSET Channels, NEW batch \in [Channels -> SUBSET Nat],
           batch[ch] \subseteq LastBatch(R)[ch],
           Push(cur, batch), lastSeq' = LastAfter(lastSeq, batch)
    PROVE  /\ spooled'[<<cur, ch>>] = spooled[<<cur, ch>>] \cup batch[ch]
           /\ Top(spooled'[<<cur, ch>>], lastSeq'[ch])
<1>1. <<cur, ch>> \in Streams /\ <<cur, ch>>[1] = cur /\ <<cur, ch>>[2] = ch
  BY DEF Streams
<1>2. spooled[<<cur, ch>>] \in SUBSET Nat /\ batch[ch] \in SUBSET Nat
  BY <1>1 DEF IInv, TypeOK
<1>3. spooled'[<<cur, ch>>] = spooled[<<cur, ch>>] \cup batch[ch]
  BY <1>1 DEF Push
<1>4. lastSeq'[ch] = IF batch[ch] = {} THEN lastSeq[ch] ELSE Highest(batch[ch])
  BY DEF LastAfter
<1>5. \A n \in spooled[<<cur, ch>>], m \in batch[ch] : n < m
  BY <1>2, ReadInOrder
<1>6. /\ \A m \in batch[ch] : m <= Encoded(R)[ch].next
      /\ Encoded(R)[ch].next \in Nat
  BY FlushTypes, ReadTypes DEF IInv, CaptureInv, Encoder
<1>7. Top(spooled[<<cur, ch>>], lastSeq[ch])
  BY DEF InOrder
<1> QED
  BY <1>2, <1>3, <1>4, <1>5, <1>6, <1>7, TopAfter

\* The same onto a call just begun, which has nothing spooled yet.
LEMMA FirstInOrder ==
    ASSUME IInv, NEW c \in Calls, NEW ch \in Channels, spooled[<<c, ch>>] = {},
           NEW R \in SUBSET Channels, NEW batch \in [Channels -> SUBSET Nat],
           batch[ch] \subseteq Held(R)[ch],
           Push(c, batch), lastSeq' = LastAfter(NoLast, batch)
    PROVE  /\ spooled'[<<c, ch>>] = batch[ch]
           /\ Top(batch[ch], lastSeq'[ch])
<1>1. <<c, ch>> \in Streams /\ <<c, ch>>[1] = c /\ <<c, ch>>[2] = ch
  BY DEF Streams
<1>2. spooled'[<<c, ch>>] = {} \cup batch[ch]
  BY <1>1 DEF Push
<1>3. lastSeq'[ch] = IF batch[ch] = {} THEN -1 ELSE Highest(batch[ch])
  BY DEF LastAfter, NoLast
<1>4. /\ \A m \in batch[ch] : m <= Encoded(R)[ch].next
      /\ Encoded(R)[ch].next \in Nat
  BY ReadTypes DEF IInv, CaptureInv, Encoder
<1>5. Top({}, -1)
  BY DEF Top
<1>6. Top({} \cup batch[ch], lastSeq'[ch])
  BY <1>3, <1>4, <1>5, TopAfter
<1> QED
  BY <1>2, <1>6

-----------------------------------------------------------------------------
(* The books.                                                              *)

\* Steps that write no record keep the invariant, if no call begins in them and what they
\* encode comes after what is spooled.
LEMMA RecordRests ==
    ASSUME RecordInv, UNCHANGED <<cur, lastSeq, bookVars>>, failed \subseteq failed',
           Talking(det') => Talking(det),
           Recording => \A ch \in Channels : \A n \in spooled[<<cur, ch>>] :
                            n < enc'[ch].next /\ \A m \in ready'[ch] : n < m
    PROVE  RecordInv'
<1>1. OwnInv'
  BY DEF RecordInv, OwnInv, bookVars
<1>2. Recording' => \A ch \in Channels : InOrder(ch)'
  BY DEF RecordInv, Recording, InOrder, bookVars
<1>3. LastSeqIsHighest'
  BY DEF RecordInv, LastSeqIsHighest, bookVars
<1> QED
  BY <1>1, <1>2, <1>3 DEF RecordInv

\* A push onto a call without call.end leaves what the stored call.ends name.
LEMMA OthersKept ==
    ASSUME RecordInv, NEW c, c \notin ended, NEW batch, Push(c, batch),
           UNCHANGED <<ended, endSeq>>, failed \subseteq failed'
    PROVE  LastSeqIsHighest'
<1> SUFFICES ASSUME NEW x \in Streams, x[1] \in ended, "begin" \notin failed
             PROVE  Top(spooled'[x], endSeq'[x])
  BY DEF LastSeqIsHighest, Top
<1>1. spooled'[x] = spooled[x] /\ endSeq'[x] = endSeq[x]
  BY DEF Push
<1> QED
  BY <1>1 DEF RecordInv, LastSeqIsHighest, Top

\* A push onto a call that has, or is given, its call.start keeps who has a record.
LEMMA OwnersKept ==
    ASSUME IInv, RecordInv, NEW c \in Calls, NEW batch, Push(c, batch),
           owner'[c] # NoUser, \A x \in Calls \ {c} : owner'[x] = owner[x],
           cur' = NoCall \/ (cur' = c /\ c \notin ended'),
           ended' \subseteq ended \cup {c}
    PROVE  OwnInv'
<1>1. \A x \in ended' : owner'[x] # NoUser
  BY DEF RecordInv, OwnInv, IInv, TypeOK
<1>2. \A x \in Streams : owner'[x[1]] = NoUser => spooled'[x] = {}
  <2> SUFFICES ASSUME NEW x \in Streams, owner'[x[1]] = NoUser PROVE spooled'[x] = {}
    OBVIOUS
  <2>1. x[1] \in Calls /\ x[1] # c
    BY DEF Streams
  <2> QED
    BY <2>1 DEF Push, RecordInv, OwnInv
<1> QED
  BY <1>1, <1>2 DEF OwnInv

\* What a step may do to the detector, as far as the records go.
LEMMA StepTalks ==
    ASSUME IInv, NEW far \in BOOLEAN, NEW near \in BOOLEAN, NEW R, NEW ts,
           Stepping(R, Observed(far, near), ts)
    PROVE  /\ Observed(far, near).t \in ts
           /\ Talking(det') => \/ Talking(det) /\ Observed(far, near).t \in {"none", "WrapStarted"}
                               \/ det.st = "Armed" /\ Observed(far, near).t = "CallStarted"
           /\ Observed(far, near).t = "CallEnded" => Talking(det)
BY StepSees DEF IInv, Stepping, Seen, Talking

-----------------------------------------------------------------------------
(* The steps.                                                              *)

\* The steps between ticks and the ticks that read nothing lead into no call.
LEMMA BetweenTicks ==
    ASSUME IInv,
           \/ \E active \in BOOLEAN : OnSessionState(active)
           \/ \E u \in Users : OnSignedIn(u)
           \/ SignOut \/ StandingLost \/ TickBlocked \/ TickNothingRead
           \/ UNCHANGED vars
    PROVE  /\ UNCHANGED <<enc, ready, cur, lastSeq, bookVars, failed>>
           /\ Talking(det') => Talking(det)
<1> USE DEF IInv
<1>1. ASSUME NEW active \in BOOLEAN, OnSessionState(active)
      PROVE  Talking(det') => Talking(det)
  BY <1>1, SessionKeeps
<1>2. ASSUME NEW u \in Users, OnSignedIn(u)
      PROVE  Talking(det') => Talking(det)
  BY <1>2, UserChangedFields DEF OnSignedIn, TypeOK, Talking
<1>3. CASE SignOut
  BY <1>3, BlockFields DEF SignOut, TypeOK, Talking
<1>4. CASE TickBlocked
  BY <1>4, BlockFields DEF TickBlocked, TypeOK, Talking
<1>5. CASE TickNothingRead
  BY <1>5, UnblockFields DEF TickNothingRead, TypeOK, Talking
<1>6. ASSUME StandingLost \/ UNCHANGED vars
      PROVE  Talking(det') => Talking(det)
  <2>1. det' = det
    BY <1>6 DEF StandingLost, vars, pipeVars
  <2> QED
    BY <2>1 DEF Talking
<1>7. Talking(det') => Talking(det)
  BY <1>1, <1>2, <1>3, <1>4, <1>5, <1>6
<1>8. UNCHANGED <<enc, ready, cur, lastSeq, bookVars, failed>>
  <2>1. CASE StandingLost \/ UNCHANGED vars
    BY <2>1 DEF StandingLost, vars, pipeVars, histVars
  <2> QED
    BY <2>1 DEF OnSessionState, OnSignedIn, SignOut, TickBlocked, TickNothingRead
<1> QED
  BY <1>7, <1>8

\* A tick whose reads fail on some channels keeps the record.
LEMMA ReadFailsRecord ==
    ASSUME IInv, RecordInv, NEW R \in SUBSET Channels, TickReadFails(R)
    PROVE  RecordInv'
<1>1. Talking(det') => Talking(det)
  BY UnblockFields DEF TickReadFails, IInv, TypeOK, Talking
<1>2. failed \subseteq failed'
  BY DEF TickReadFails, Fail
<1>3. Recording => \A ch \in Channels : \A n \in spooled[<<cur, ch>>] :
                       n < enc'[ch].next /\ \A m \in ready'[ch] : n < m
  <2> SUFFICES ASSUME Recording, NEW ch \in Channels
               PROVE  \A n \in spooled[<<cur, ch>>] :
                         n < enc'[ch].next /\ \A m \in ready'[ch] : n < m
    OBVIOUS
  <2>1. InOrder(ch)
    BY DEF RecordInv
  <2>2. spooled[<<cur, ch>>] \in SUBSET Nat
    BY DEF IInv, TypeOK, Recording, Streams
  <2> QED
    BY <2>1, <2>2, ReadInOrder DEF TickReadFails
<1> QED
  BY <1>1, <1>2, <1>3, RecordRests DEF TickReadFails

\* A step that spools onto the current call, whole batches or a part.
LEMMA PushRecord ==
    ASSUME IInv, RecordInv, NEW R \in SUBSET Channels, cur # NoCall,
           NEW batch \in [Channels -> SUBSET Nat],
           \A ch \in Channels : batch[ch] \subseteq Held(R)[ch] /\ ready'[ch] \subseteq Held(R)[ch],
           \A ch \in Channels : \A n \in batch[ch], m \in ready'[ch] : n < m,
           Push(cur, batch), lastSeq' = LastAfter(lastSeq, batch), enc' = Encoded(R),
           UNCHANGED <<cur, owner, ended, endSeq>>, failed \subseteq failed',
           Talking(det') => Talking(det)
    PROVE  RecordInv'
<1>1. cur \in Calls /\ cur \notin ended /\ owner[cur] # NoUser
  BY DEF IInv, TypeOK, RecordInv, OwnInv
<1>2. LastSeqIsHighest'
  BY <1>1, OthersKept
<1>3. OwnInv'
  BY <1>1, OwnersKept
<1>4. ASSUME Recording', NEW ch \in Channels PROVE InOrder(ch)'
  <2>1. InOrder(ch)
    BY <1>4 DEF RecordInv, Recording
  <2>2. batch[ch] \subseteq LastBatch(R)[ch]
    BY DEF LastBatch
  <2>3. /\ spooled'[<<cur, ch>>] = spooled[<<cur, ch>>] \cup batch[ch]
        /\ Top(spooled'[<<cur, ch>>], lastSeq'[ch])
    BY <1>1, <2>1, <2>2, PushInOrder
  <2>4. spooled[<<cur, ch>>] \in SUBSET Nat
    BY <1>1 DEF IInv, TypeOK, Streams
  <2>5. /\ \A n \in spooled[<<cur, ch>>], m \in Held(R)[ch] : n < m
        /\ \A n \in spooled[<<cur, ch>>] : n < Encoded(R)[ch].next
    BY <2>1, <2>4, ReadInOrder
  <2>6. \A n \in Held(R)[ch] : n < Encoded(R)[ch].next
    BY ReadTypes DEF IInv, CaptureInv
  <2> QED
    BY <2>3, <2>5, <2>6 DEF InOrder
<1> QED
  BY <1>2, <1>3, <1>4 DEF RecordInv

\* A step that begins call c and spools its pre-roll, or a part.
LEMMA StartRecord ==
    ASSUME IInv, RecordInv, NEW R \in SUBSET Channels, NEW c \in Calls, owner[c] = NoUser,
           NEW batch \in [Channels -> SUBSET Nat],
           \A ch \in Channels : batch[ch] \subseteq Held(R)[ch] /\ ready'[ch] \subseteq Held(R)[ch],
           \A ch \in Channels : \A n \in batch[ch], m \in ready'[ch] : n < m,
           owner' = [owner EXCEPT ![c] = det.user], cur' = c,
           Push(c, batch), lastSeq' = LastAfter(NoLast, batch), enc' = Encoded(R),
           UNCHANGED <<ended, endSeq>>, failed \subseteq failed'
    PROVE  RecordInv'
<1>1. c \notin ended
  BY DEF RecordInv, OwnInv
<1>2. LastSeqIsHighest'
  BY <1>1, OthersKept
<1>3. owner'[c] # NoUser /\ \A x \in Calls \ {c} : owner'[x] = owner[x]
  BY CaptureAssumption DEF IInv, TypeOK, DetectorState
<1>4. OwnInv'
  BY <1>1, <1>3, OwnersKept
<1>5. ASSUME NEW ch \in Channels PROVE InOrder(ch)'
  <2>1. spooled[<<c, ch>>] = {}
    BY DEF RecordInv, OwnInv, Streams
  <2>2. /\ spooled'[<<c, ch>>] = batch[ch]
        /\ Top(batch[ch], lastSeq'[ch])
    BY <2>1, FirstInOrder
  <2>3. \A n \in Held(R)[ch] : n < Encoded(R)[ch].next
    BY ReadTypes DEF IInv, CaptureInv
  <2> QED
    BY <2>2, <2>3 DEF InOrder
<1> QED
  BY <1>2, <1>4, <1>5 DEF RecordInv

\* A step that spools the last batch, or a part, and closes the call without its call.end.
LEMMA CloseRecord ==
    ASSUME IInv, RecordInv, cur # NoCall, cur' = NoCall, NEW batch, Push(cur, batch),
           UNCHANGED <<owner, ended, endSeq>>, failed \subseteq failed'
    PROVE  RecordInv'
<1>1. cur \in Calls /\ cur \notin ended /\ owner[cur] # NoUser
  BY DEF IInv, TypeOK, RecordInv, OwnInv
<1>2. LastSeqIsHighest'
  BY <1>1, OthersKept
<1>3. OwnInv'
  BY <1>1, OwnersKept
<1> QED
  BY <1>2, <1>3 DEF RecordInv, Recording

\* finish_call: the call.end names what its last batch left.
LEMMA EndRecord ==
    ASSUME IInv, RecordInv, Talking(det), NEW R \in SUBSET Channels, NEW o, StepEnd(R, o)
    PROVE  RecordInv'
<1>1. CASE cur = NoCall
  <2>1. UNCHANGED <<cur, owner, spooled, ended, endSeq, failed>>
    BY <1>1 DEF StepEnd
  <2> QED
    BY <1>1, <2>1 DEF RecordInv, OwnInv, Recording, LastSeqIsHighest
<1>2. CASE cur # NoCall
  <2>1. cur \in Calls /\ cur \notin ended /\ owner[cur] # NoUser
    BY <1>2 DEF IInv, TypeOK, RecordInv, OwnInv
  <2>2. /\ Push(cur, LastBatch(R)) /\ lastSeq' = LastAfter(lastSeq, LastBatch(R))
        /\ endSeq' = [x \in Streams |-> IF x[1] = cur THEN lastSeq'[x[2]] ELSE endSeq[x]]
        /\ ended' = ended \cup {cur}
        /\ cur' = NoCall /\ UNCHANGED <<owner, failed>>
    BY <1>2 DEF StepEnd
  <2>3. OwnInv'
    BY <2>1, <2>2, OwnersKept
  <2>4. ASSUME NEW x \in Streams, x[1] \in ended', "begin" \notin failed'
        PROVE  Top(spooled'[x], endSeq'[x])
    <3>1. CASE x[1] # cur
      <4>1. spooled'[x] = spooled[x] /\ endSeq'[x] = endSeq[x] /\ x[1] \in ended
        BY <2>2, <2>4, <3>1 DEF Push
      <4> QED
        BY <2>2, <2>4, <4>1 DEF RecordInv, LastSeqIsHighest, Top
    <3>2. CASE x[1] = cur
      <4>1. x = <<cur, x[2]>> /\ x[2] \in Channels
        BY <3>2 DEF Streams
      <4>2. InOrder(x[2])
        BY <1>2, <2>2, <2>4, <4>1 DEF RecordInv, Recording
      <4>3. LastBatch(R) \in [Channels -> SUBSET Nat]
        BY FlushTypes DEF IInv, CaptureInv
      <4>4. Top(spooled'[<<cur, x[2]>>], lastSeq'[x[2]])
        BY <2>1, <2>2, <4>1, <4>2, <4>3, PushInOrder
      <4>5. endSeq'[x] = lastSeq'[x[2]]
        BY <2>2, <3>2
      <4> QED
        BY <4>1, <4>4, <4>5
    <3> QED
      BY <3>1, <3>2
  <2>5. LastSeqIsHighest'
    BY <2>4 DEF LastSeqIsHighest, Top
  <2> QED
    BY <2>2, <2>3, <2>5 DEF RecordInv, Recording
<1> QED
  BY <1>1, <1>2

\* The steps of the pipeline.
LEMMA StepRecord ==
    ASSUME IInv, RecordInv, Step
    PROVE  RecordInv'
<1>1. PICK R \in SUBSET Channels, far \in BOOLEAN, near \in BOOLEAN :
             StepWith(R, Observed(far, near))
  BY DEF Step
<1> DEFINE o == Observed(far, near)
           t == o.t
<1>2. ASSUME NEW ts, Stepping(R, o, ts)
      PROVE  /\ t \in ts
             /\ Talking(det') => \/ Talking(det) /\ t \in {"none", "WrapStarted"}
                                 \/ det.st = "Armed" /\ t = "CallStarted"
             /\ t = "CallEnded" => Talking(det)
  BY <1>2, StepTalks
<1>3. StepWith(R, o)
  BY <1>1
<1> HIDE DEF o, t
<1>4. /\ Held(R) \in [Channels -> SUBSET Nat]
      /\ LastBatch(R) \in [Channels -> SUBSET Nat]
      /\ \A ch \in Channels : Held(R)[ch] \subseteq LastBatch(R)[ch]
      /\ Encoded(R) \in [Channels -> Encoder]
      /\ \A ch \in Channels : \A n \in Held(R)[ch] : n < Encoded(R)[ch].next
  <2>1. /\ Held(R) \in [Channels -> SUBSET Nat] /\ LastBatch(R) \in [Channels -> SUBSET Nat]
        /\ Encoded(R) \in [Channels -> Encoder]
        /\ \A ch \in Channels : \A n \in Held(R)[ch] : n < Encoded(R)[ch].next
    BY ReadTypes, FlushTypes DEF IInv, CaptureInv
  <2>2. \A ch \in Channels : Held(R)[ch] \subseteq LastBatch(R)[ch]
    BY DEF LastBatch
  <2> QED
    BY <2>1, <2>2
<1>5. \A ch \in Channels : None[ch] = {}
  BY DEF None
<1>6. CASE StepOn(R, o)
  <2>1. /\ enc' = Encoded(R) /\ UNCHANGED <<cur, owner, ended, endSeq, failed>>
        /\ Talking(det') => Talking(det)
    BY <1>2, <1>6 DEF StepOn
  <2>2. CASE cur # NoCall
    BY <1>4, <1>5, <1>6, <2>1, <2>2, PushRecord DEF StepOn
  <2>3. CASE cur = NoCall
    BY <1>6, <2>1, <2>3, RecordRests DEF StepOn, Recording, bookVars
  <2> QED
    BY <2>2, <2>3
<1>7. CASE StepRestart(R, o)
  <2>1. ~Talking(det') /\ UNCHANGED <<cur, lastSeq, bookVars, failed>>
    BY <1>2, <1>7 DEF StepRestart
  <2> QED
    BY <2>1 DEF RecordInv, OwnInv, Recording, LastSeqIsHighest, bookVars
<1>8. ASSUME NEW c \in Calls, StepStart(R, o, c) PROVE RecordInv'
  BY <1>4, <1>5, <1>8, StartRecord DEF StepStart
<1>9. CASE StepEnd(R, o)
  <2>1. Talking(det)
    BY <1>2, <1>9 DEF StepEnd
  <2> QED
    BY <1>9, <2>1, EndRecord
<1>10. CASE StepStartFails(R, o)
  <2>1. "begin" \in failed' /\ failed \subseteq failed' /\ UNCHANGED <<cur, lastSeq, bookVars>>
    BY <1>10 DEF StepStartFails, Fail
  <2> QED
    BY <2>1 DEF RecordInv, OwnInv, Recording, LastSeqIsHighest, bookVars
<1>11. CASE EndFails(R, o)
  BY <1>11, CloseRecord DEF EndFails, Fail
<1>12. ASSUME NEW ch \in Channels, NEW n \in 0..MaxSeq, DrainFails(R, o, ch, n) PROVE RecordInv'
  <2>1. Talking(det') => Talking(det)
    BY <1>2, <1>12 DEF DrainFails
  <2>2. /\ Before(Held(R), ch, n) \in [Channels -> SUBSET Nat]
        /\ \A x \in Channels : Before(Held(R), ch, n)[x] \subseteq Held(R)[x]
        /\ \A x \in Channels : NotReached(R, ch)[x] \subseteq Held(R)[x]
    BY <1>4, BeforeTypes, NotReachedTypes
  <2>3. \A x \in Channels : Before(Held(R), ch, n)[x] = {} \/ NotReached(R, ch)[x] = {}
    BY DEF Before, NotReached
  <2> QED
    BY <1>12, <2>1, <2>2, <2>3, PushRecord DEF DrainFails, Fail
<1>13. ASSUME NEW c \in Calls, NEW ch \in Channels, NEW n \in 0..MaxSeq,
              PrerollFails(R, o, c, ch, n)
       PROVE  RecordInv'
  <2>2. /\ Before(Held(R), ch, n) \in [Channels -> SUBSET Nat]
        /\ \A x \in Channels : Before(Held(R), ch, n)[x] \subseteq Held(R)[x]
        /\ \A x \in Channels : NotReached(R, ch)[x] \subseteq Held(R)[x]
    BY <1>4, BeforeTypes, NotReachedTypes
  <2>3. \A x \in Channels : Before(Held(R), ch, n)[x] = {} \/ NotReached(R, ch)[x] = {}
    BY DEF Before, NotReached
  <2> QED
    BY <1>13, <2>2, <2>3, StartRecord DEF PrerollFails, Fail
<1>14. ASSUME NEW ch \in Channels, NEW n \in 0..MaxSeq, FinishFails(R, o, ch, n) PROVE RecordInv'
  BY <1>14, CloseRecord DEF FinishFails, Fail
<1> QED
  BY <1>3, <1>6, <1>7, <1>8, <1>9, <1>10, <1>11, <1>12, <1>13, <1>14 DEF StepWith

\* The invariant of the records is inductive, given the capture side's own.
LEMMA NextRecord == IInv /\ RecordInv /\ [Next]_vars => RecordInv'
<1> SUFFICES ASSUME IInv, RecordInv, [Next]_vars PROVE RecordInv'
  OBVIOUS
<1>1. ASSUME NEW R \in SUBSET Channels, TickReadFails(R) PROVE RecordInv'
  BY <1>1, ReadFailsRecord
<1>2. CASE Step
  BY <1>2, StepRecord
<1>3. CASE ~(Step \/ \E R \in SUBSET Channels : TickReadFails(R))
  <2>1. /\ UNCHANGED <<enc, ready, cur, lastSeq, bookVars, failed>>
        /\ Talking(det') => Talking(det)
    BY <1>3, BetweenTicks DEF Next
  <2> QED
    BY <2>1, RecordRests DEF RecordInv, InOrder
<1> QED
  BY <1>1, <1>2, <1>3

\* Before the first call nothing is recorded.
LEMMA InitRecord == Init => RecordInv
<1> SUFFICES ASSUME Init PROVE RecordInv
  OBVIOUS
<1>1. \A x \in Streams : spooled[x] = {}
  BY DEF Init
<1> QED
  BY <1>1 DEF Init, RecordInv, OwnInv, Recording, LastSeqIsHighest

\* The last_seq of a stored call.end names the highest number spooled for its stream
\* (pipeline.rs finish_call), through failed reads, failed writes, holds, blocks and calls
\* that were never closed.
THEOREM LastSeqNamesHighest == Spec => []LastSeqIsHighest
<1>1. RecordInv => LastSeqIsHighest
  BY DEF RecordInv
<1> QED
  BY InitIInv, NextIInv, InitRecord, NextRecord, <1>1, PTL DEF Spec

-----------------------------------------------------------------------------
(***************************************************************************)
(* The opening words.  While the detector is armed, what was finished      *)
(* since it armed is still in the pre-roll.  The cap of the pre-roll could *)
(* only drop it if more segments had been finished since, and each of them *)
(* takes SegLen steps of an arm that lasts less than ArmedTimeout.         *)
(***************************************************************************)

\* A failed read may have fed the encoder a frame that the detector's clock does not know.
Slip == IF "read" \in failed THEN 1 ELSE 0

\* Segment n of a channel was finished while the clock of this arm ran.
WithinArm(ch, n) ==
    /\ n < enc[ch].next
    /\ (enc[ch].next - n) * SegLen + enc[ch].part <= det.age + SegLen + Slip

ArmInv ==
    det.st = "Armed" =>
        /\ det.age < ArmedTimeout
        /\ \A ch \in Channels : \A n \in since[ch] : WithinArm(ch, n)
        /\ cur = NoCall => \A ch \in Channels : since[ch] \subseteq ready[ch]

OpeningInv == RecordInv /\ ArmInv /\ OpeningWordsKept

\* Arithmetic on products, which the solvers do not do by themselves.
LEMMA OneMore ==
    ASSUME NEW k \in Nat, NEW s \in Nat
    PROVE  k * s \in Nat /\ (k + 1) * s = k * s + s
OBVIOUS

\* Fewer segments in a product of the same length are fewer segments.
LEMMA FewerTimes ==
    ASSUME NEW k \in Nat, NEW m \in Nat, NEW s \in Nat, k * s < m * s
    PROVE  k < m
<1> SUFFICES ASSUME k >= m PROVE FALSE
  OBVIOUS
<1> DEFINE j == k - m
<1>1. j \in Nat /\ k = m + j
  OBVIOUS
<1> HIDE DEF j
<1>2. (m + j) * s = m * s + j * s
  BY <1>1
<1>3. j * s \in Nat /\ m * s \in Nat
  BY <1>1
<1> QED
  BY <1>1, <1>2, <1>3

\* An arm that an evaluation leaves armed took no transition and has not timed out.
LEMMA ArmNotOver ==
    ASSUME NEW d \in DetectorState, d.st = "Armed", Evaluate(d).d.st = "Armed"
    PROVE  Evaluate(d).t = "none" /\ d.age < ArmedTimeout
<1> DEFINE started == [Goto(d, "InCall") EXCEPT !.silence = 0]
           discarded == [Goto(d, "Idle") EXCEPT !.exhausted = TRUE]
<1>1. started.st = "InCall" /\ discarded.st = "Idle" /\ Goto(d, "Idle").st = "Idle"
  BY GotoFields DEF CallState, DetectorState
<1> HIDE DEF started, discarded
<1>2. \/ Evaluate(d) = Taken(started, "CallStarted")
      \/ Evaluate(d) = Taken(Goto(d, "Idle"), "ArmDiscarded")
      \/ Evaluate(d) = Taken(discarded, "ArmDiscarded")
      \/ ~(d.age >= ArmedTimeout) /\ Evaluate(d) = Taken(d, "none")
  BY DEF Evaluate, EvalArmed, Stay, started, discarded
<1>3. ~(d.age >= ArmedTimeout) /\ Evaluate(d).t = "none"
  BY <1>1, <1>2, Answer
<1> QED
  BY <1>3, VadAssumption DEF DetectorState

\* A step leaves the detector armed in one of two ways: it has just armed, or it was
\* armed, and the arm is one step older and not over.
LEMMA StepArms ==
    ASSUME IInv, NEW far \in BOOLEAN, NEW near \in BOOLEAN, Observed(far, near).d.st = "Armed"
    PROVE  \/ det.st # "Armed" /\ Observed(far, near).d.age = 0
           \/ /\ det.st = "Armed" /\ Observed(far, near).t = "none"
              /\ Observed(far, near).d.age = Later(det.age, AgeCap)
              /\ Observed(far, near).d.age < ArmedTimeout
<1> USE VadAssumption, Caps
<1> DEFINE voiced == far /\ ~Foreign(far)
           d0 == Unblock(det).d
           d1 == Clocked(d0, voiced)
           e1 == Heard(far).d
           d2 == IF near THEN [e1 EXCEPT !.silence = 0] ELSE e1
           e2 == Judged(far, near).d
<1>1. voiced \in BOOLEAN
  BY DEF Foreign
<1>2. /\ d0 \in DetectorState /\ det \in DetectorState
      /\ det.st # "Blocked" => d0 = det
      /\ det.st = "Blocked" => d0.st = "Idle"
  BY UnblockFields DEF IInv, TypeOK
<1>3. Heard(far) = Evaluate(d1)
  BY DEF Heard, FarVoice, Clocked
<1>4. d1 \in DetectorState /\ d1.st = d0.st /\ d1.age = Later(d0.age, AgeCap)
  BY <1>1, <1>2, ClockedFields
<1> HIDE DEF d1, d0, voiced
<1>5. Evaluated(d1, e1, Heard(far).t)
  BY <1>3, <1>4, EvaluateDoes
<1>6. e1 \in DetectorState
  BY <1>5 DEF Evaluated
<1> HIDE DEF e1
<1>7. d2 \in DetectorState /\ d2.st = e1.st /\ d2.age = e1.age
  BY <1>6, SetFields DEF DetectorState
<1>8. Judged(far, near) = Evaluate(d2)
  BY DEF Judged, NearVoice, e1
<1> HIDE DEF d2
<1>9. Evaluated(d2, e2, Judged(far, near).t)
  BY <1>7, <1>8, EvaluateDoes
<1>10. Heard(far).t # "none" => Judged(far, near).t = "none"
  BY StepSees DEF IInv
<1>11. e2.st = "Armed" /\ Observed(far, near).d = e2 /\ Observed(far, near).t = Kept(far, near)
  BY DEF Observed
<1> HIDE DEF e2
<1>12. CASE d2.st # "Armed"
  <2>1. Judged(far, near).t = "Armed" /\ e2.age = 0 /\ Heard(far).t = "none"
    BY <1>9, <1>10, <1>11, <1>12 DEF Evaluated, Quiet
  <2>2. d1.st # "Armed"
    BY <2>1, <1>5, <1>7, <1>12 DEF Evaluated
  <2> QED
    BY <2>1, <2>2, <1>2, <1>4, <1>11
<1>13. CASE d2.st = "Armed"
  <2>1. e2 = d2 /\ Judged(far, near).t = "none"
    BY <1>7, <1>8, <1>9, <1>11, <1>13, ArmNotOver DEF Evaluated, e2
  <2>2. CASE d1.st # "Armed"
    <3>1. e1.age = 0
      BY <1>5, <1>7, <1>13, <2>2 DEF Evaluated, Quiet
    <3> QED
      BY <1>2, <1>4, <1>7, <1>11, <2>1, <2>2, <3>1
  <2>3. CASE d1.st = "Armed"
    <3>1. Heard(far).t = "none" /\ d1.age < ArmedTimeout
      BY <1>3, <1>4, <1>7, <1>13, <2>3, ArmNotOver DEF e1
    <3>2. e1 = d1
      BY <1>5, <2>3, <3>1 DEF Evaluated
    <3> QED
      BY <1>2, <1>4, <1>7, <1>11, <2>1, <2>3, <3>1, <3>2 DEF Kept
  <2> QED
    BY <2>2, <2>3
<1> QED
  BY <1>12, <1>13

-----------------------------------------------------------------------------
(* What the history of an arm becomes.                                     *)

\* since only grows by what was finished, and starts over when the detector arms.
LEMMA SinceGrows ==
    ASSUME TypeOK, NEW voice, NEW finished \in [Channels -> SUBSET Nat],
           Remember(voice, finished)
    PROVE  /\ \A ch \in Channels : since'[ch] \subseteq since[ch] \cup finished[ch]
           /\ det'.st = "Armed" /\ det.st # "Armed" => \A ch \in Channels : since'[ch] = {}
BY DEF Remember, None, TypeOK, Engaged

\* An arm that has just begun has nothing to keep.
LEMMA JustArmed ==
    ASSUME det'.st = "Armed" => det'.age = 0 /\ \A ch \in Channels : since'[ch] = {}
    PROVE  ArmInv'
BY VadAssumption DEF ArmInv

\* Reading a frame is a step of the arm's clock, or the slip of a failed read.
LEMMA ReadInArm ==
    ASSUME IInv, ArmInv, det.st = "Armed", NEW R \in SUBSET Channels, enc' = Encoded(R),
           \A ch \in Channels : since'[ch] \subseteq since[ch] \cup Finished(R)[ch],
           det'.age \in Nat, det'.age + Slip' >= det.age + Slip + 1,
           NEW ch \in Channels, NEW n \in since'[ch]
    PROVE  WithinArm(ch, n)'
<1>1. /\ enc[ch].next \in Nat /\ enc[ch].part \in Nat /\ enc[ch] \in Encoder
      /\ SegLen \in Nat \ {0} /\ det.age \in Nat /\ Slip \in Nat /\ Slip' \in Nat
  BY CaptureAssumption DEF IInv, TypeOK, Encoder, DetectorState, Slip
<1>2. enc'[ch] = Encoded(R)[ch]
  OBVIOUS
<1>3. CASE n \in Finished(R)[ch]
  <2>1. n = enc[ch].next /\ enc'[ch] = [next |-> enc[ch].next + 1, part |-> 0]
    BY <1>2, <1>3 DEF Finished, Encoded
  <2>2. enc'[ch].next = n + 1 /\ enc'[ch].part = 0
    BY <2>1
  <2>3. (enc'[ch].next - n) * SegLen = SegLen
    <3>1. enc'[ch].next - n = 1
      BY <1>1, <2>1, <2>2
    <3> QED
      BY <1>1, <3>1
  <2> QED
    BY <1>1, <2>1, <2>2, <2>3 DEF WithinArm
<1>4. CASE n \in since[ch]
  <2>1. /\ n < enc[ch].next /\ n \in Nat
        /\ (enc[ch].next - n) * SegLen + enc[ch].part <= det.age + SegLen + Slip
    BY <1>4 DEF ArmInv, WithinArm, IInv, TypeOK
  <2> DEFINE k == enc[ch].next - n
  <2>2. k \in Nat /\ k * SegLen \in Nat /\ (k + 1) * SegLen = k * SegLen + SegLen
    BY <1>1, <2>1, OneMore
  <2>3. k * SegLen + enc[ch].part <= det.age + SegLen + Slip
    BY <2>1
  <2>4. CASE Finishes(ch, R)
    <3>1. enc'[ch].next = enc[ch].next + 1 /\ enc'[ch].part = 0 /\ enc[ch].part + 1 >= SegLen
      BY <1>2, <2>4 DEF Encoded, Finishes
    <3>2. enc'[ch].next - n = k + 1
      BY <1>1, <2>1, <3>1
    <3> HIDE DEF k
    <3>3. (k + 1) * SegLen + 0 <= det'.age + SegLen + Slip'
      BY <1>1, <2>2, <2>3, <3>1
    <3>4. n < enc'[ch].next
      BY <1>1, <2>1, <3>1
    <3> QED
      BY <3>1, <3>2, <3>3, <3>4 DEF WithinArm
  <2>5. CASE ~Finishes(ch, R)
    <3>1. enc'[ch].next = enc[ch].next /\ enc'[ch].part <= enc[ch].part + 1
          /\ enc'[ch].part \in Nat
      BY <1>1, <1>2, <2>5 DEF Encoded, Encoder
    <3>2. enc'[ch].next - n = k
      BY <3>1
    <3> HIDE DEF k
    <3>3. k * SegLen + enc'[ch].part <= det'.age + SegLen + Slip'
      BY <1>1, <2>2, <2>3, <3>1
    <3> QED
      BY <2>1, <3>1, <3>2, <3>3 DEF WithinArm
  <2> QED
    BY <2>4, <2>5
<1> QED
  BY <1>3, <1>4

\* bound_preroll spares what was finished within the arm: fewer than PrerollMax numbers
\* have been used since.
LEMMA CapSpares ==
    ASSUME IInv, NEW R \in SUBSET Channels, enc' = Encoded(R),
           det'.st = "Armed", det'.age \in Nat, det'.age < ArmedTimeout,
           NEW ch \in Channels, NEW n \in Held(R)[ch], WithinArm(ch, n)'
    PROVE  n \in Bounded(Held(R), det')[ch]
<1> DEFINE next == Encoded(R)[ch].next
           newer == {m \in Held(R)[ch] : m > n}
           k == next - 1 - n
<1>1. /\ Held(R)[ch] \in SUBSET Nat /\ n \in Nat /\ next \in Nat
      /\ \A m \in Held(R)[ch] : m < next
      /\ Encoded(R)[ch].part \in Nat
  BY ReadTypes DEF IInv, CaptureInv, Encoder
<1>2. /\ n < next
      /\ (next - n) * SegLen + Encoded(R)[ch].part <= det'.age + SegLen + Slip'
  BY DEF WithinArm
<1>3. /\ SegLen \in Nat \ {0} /\ PrerollMax \in Nat /\ ArmedTimeout \in Nat
      /\ ArmedTimeout < PrerollMax * SegLen
  BY VadAssumption, CaptureAssumption, PrerollAssumption
<1>4. Slip' \in {0, 1}
  BY DEF Slip
<1> HIDE DEF next
<1>5. k \in Nat /\ next - n = k + 1
  BY <1>1, <1>2
<1>6. k < PrerollMax
  <2> HIDE DEF k
  <2>1. k * SegLen \in Nat /\ (k + 1) * SegLen = k * SegLen + SegLen
    BY <1>3, <1>5, OneMore
  <2>2. (k + 1) * SegLen + Encoded(R)[ch].part <= det'.age + SegLen + Slip'
    BY <1>2, <1>5
  <2>3. k * SegLen <= ArmedTimeout
    BY <2>1, <2>2, <1>1, <1>3, <1>4
  <2>4. PrerollMax * SegLen \in Nat
    BY <1>3
  <2>5. k * SegLen < PrerollMax * SegLen
    BY <2>1, <2>3, <2>4, <1>3
  <2> QED
    BY <2>5, <1>3, <1>5, FewerTimes
<1>7. Cardinality(newer) < PrerollMax
  <2>1. newer \subseteq (n + 1)..(next - 1)
    BY <1>1
  <2>2. /\ IsFiniteSet((n + 1)..(next - 1))
        /\ Cardinality((n + 1)..(next - 1)) =
              IF n + 1 > next - 1 THEN 0 ELSE (next - 1) - (n + 1) + 1
    <3>1. n + 1 \in Int /\ next - 1 \in Int
      BY <1>1
    <3> QED
      BY <3>1, FS_Interval
  <2>3. Cardinality(newer) <= Cardinality((n + 1)..(next - 1)) /\ IsFiniteSet(newer)
    BY <2>1, <2>2, FS_Subset
  <2>4. Cardinality((n + 1)..(next - 1)) <= k
    BY <1>1, <1>2, <2>2
  <2>5. Cardinality(newer) \in Nat /\ Cardinality((n + 1)..(next - 1)) \in Nat
    BY <2>2, <2>3, FS_CardinalityType
  <2> HIDE DEF newer, k
  <2> QED
    BY <2>3, <2>4, <2>5, <1>3, <1>5, <1>6
<1> QED
  BY <1>7 DEF Bounded

\* What the steps between ticks do to an arm: none of them moves its clock.
LEMMA ArmRests ==
    ASSUME IInv,
           \/ \E active \in BOOLEAN : OnSessionState(active)
           \/ \E u \in Users : OnSignedIn(u)
           \/ SignOut \/ StandingLost \/ TickBlocked \/ TickNothingRead
           \/ UNCHANGED vars
    PROVE  /\ \A ch \in Channels : since'[ch] \subseteq since[ch]
           /\ det'.st = "Armed" =>
                 \/ det.st = "Armed" /\ det'.age = det.age
                 \/ det'.age = 0 /\ \A ch \in Channels : since'[ch] = {}
<1> USE DEF IInv
<1>1. ASSUME Remember(FALSE, None)
      PROVE  /\ \A ch \in Channels : since'[ch] \subseteq since[ch]
             /\ det'.st = "Armed" /\ det.st # "Armed" => \A ch \in Channels : since'[ch] = {}
  BY <1>1, SinceGrows, NoneType DEF None
<1>2. ASSUME Remember(FALSE, None),
             det'.st = "Armed" => det'.age = IF det.st = "Armed" THEN det.age ELSE 0
      PROVE  /\ \A ch \in Channels : since'[ch] \subseteq since[ch]
             /\ det'.st = "Armed" =>
                   \/ det.st = "Armed" /\ det'.age = det.age
                   \/ det'.age = 0 /\ \A ch \in Channels : since'[ch] = {}
  BY <1>1, <1>2
<1>3. det \in DetectorState
  BY DEF TypeOK
<1>4. ASSUME NEW active \in BOOLEAN, OnSessionState(active)
      PROVE  det'.st = "Armed" => det'.age = IF det.st = "Armed" THEN det.age ELSE 0
  <2> DEFINE d1 == [det EXCEPT !.active = active, !.exhausted = @ /\ active]
  <2>1. d1 \in DetectorState /\ d1.st = det.st /\ d1.age = det.age
    BY <1>3 DEF DetectorState
  <2>2. det' = Evaluate(d1).d
    BY <1>4 DEF OnSessionState, SessionState
  <2> HIDE DEF d1
  <2>3. Evaluated(d1, det', Evaluate(d1).t)
    BY <2>1, <2>2, EvaluateDoes
  <2> QED
    BY <2>1, <2>3 DEF Evaluated, Quiet
<1>5. ASSUME NEW u \in Users, OnSignedIn(u)
      PROVE  det'.st = "Armed" => det'.age = IF det.st = "Armed" THEN det.age ELSE 0
  BY <1>3, <1>5, UserChangedFields DEF OnSignedIn
<1>6. SignOut \/ TickBlocked => det'.st # "Armed"
  BY <1>3, BlockFields DEF SignOut, TickBlocked
<1>7. TickNothingRead => det'.st = "Idle" \/ det' = det
  BY <1>3, UnblockFields DEF TickNothingRead
<1>8. CASE StandingLost \/ UNCHANGED vars
  <2>1. det' = det /\ since' = since
    BY <1>8 DEF StandingLost, vars, pipeVars, histVars
  <2> QED
    BY <2>1
<1> QED
  BY <1>2, <1>4, <1>5, <1>6, <1>7, <1>8
     DEF OnSessionState, OnSignedIn, SignOut, TickBlocked, TickNothingRead

-----------------------------------------------------------------------------
(* The steps, once more, for the opening words.                            *)

\* A step in which the call goes on keeps its opening words if it loses no segment.
LEMMA WordsRest ==
    ASSUME OpeningWordsKept, UNCHANGED <<cur, owner, ended>>, failed \subseteq failed',
           Talking(det') => Talking(det),
           cur # NoCall => \A ch \in Channels :
               since[ch] \subseteq spooled[<<cur, ch>>] \cup ready[ch]
               => since'[ch] \subseteq spooled'[<<cur, ch>>] \cup ready'[ch]
    PROVE  OpeningWordsKept'
BY DEF OpeningWordsKept

\* The steps between ticks and the ticks that read nothing.
LEMMA OpeningRests ==
    ASSUME IInv, OpeningInv,
           \/ \E active \in BOOLEAN : OnSessionState(active)
           \/ \E u \in Users : OnSignedIn(u)
           \/ SignOut \/ StandingLost \/ TickBlocked \/ TickNothingRead
           \/ UNCHANGED vars
    PROVE  ArmInv' /\ OpeningWordsKept'
<1>1. /\ UNCHANGED <<enc, ready, cur, lastSeq, bookVars, failed>>
      /\ Talking(det') => Talking(det)
  BY BetweenTicks
<1>2. /\ \A ch \in Channels : since'[ch] \subseteq since[ch]
      /\ det'.st = "Armed" =>
            \/ det.st = "Armed" /\ det'.age = det.age
            \/ det'.age = 0 /\ \A ch \in Channels : since'[ch] = {}
  BY ArmRests
<1>3. OpeningWordsKept'
  BY <1>1, <1>2, WordsRest DEF OpeningInv, bookVars
<1>4. CASE det'.st = "Armed" /\ det.st = "Armed" /\ det'.age = det.age
  BY <1>1, <1>2, <1>3, <1>4 DEF OpeningInv, ArmInv, WithinArm, Slip
<1>5. CASE ~(det'.st = "Armed" /\ det.st = "Armed" /\ det'.age = det.age)
  BY <1>2, <1>3, <1>5, JustArmed
<1> QED
  BY <1>3, <1>4, <1>5

\* A failing read: what was finished of the far channel is ready.
LEMMA ReadFailsOpening ==
    ASSUME IInv, OpeningInv, NEW R \in SUBSET Channels, TickReadFails(R)
    PROVE  ArmInv' /\ OpeningWordsKept'
<1>1. Finished(R) \in [Channels -> SUBSET Nat]
  BY ReadTypes DEF IInv, CaptureInv
<1>2. /\ \A ch \in Channels : since'[ch] \subseteq since[ch] \cup Finished(R)[ch]
      /\ det'.st = "Armed" /\ det.st # "Armed" => \A ch \in Channels : since'[ch] = {}
  BY <1>1, SinceGrows DEF TickReadFails, IInv
<1>3. /\ det' \in DetectorState
      /\ det' = det \/ det'.st = "Idle"
  BY UnblockFields DEF TickReadFails, IInv, TypeOK
<1>4. /\ ready' = Held(R) /\ enc' = Encoded(R) /\ failed = {} /\ failed' = {"read"}
      /\ UNCHANGED <<cur, owner, ended, spooled>>
  BY DEF TickReadFails, Fail, bookVars
<1>5. OpeningWordsKept'
  <2>1. Talking(det') => Talking(det)
    BY <1>3 DEF Talking
  <2>2. \A ch \in Channels : since[ch] \subseteq spooled[<<cur, ch>>] \cup ready[ch]
                  => since'[ch] \subseteq spooled'[<<cur, ch>>] \cup ready'[ch]
    BY <1>2, <1>4 DEF Held
  <2> QED
    BY <1>4, <2>1, <2>2, WordsRest DEF OpeningInv
<1>6. CASE det'.st = "Armed"
  <2>1. det' = det /\ det.st = "Armed"
    BY <1>3, <1>6
  <2>2. Slip = 0 /\ Slip' = 1 /\ det.age \in Nat
    BY <1>4 DEF Slip, IInv, TypeOK, DetectorState
  <2>3. det'.age \in Nat /\ det'.age + Slip' >= det.age + Slip + 1
    BY <2>1, <2>2
  <2>4. ASSUME NEW ch \in Channels, NEW n \in since'[ch] PROVE WithinArm(ch, n)'
    BY <1>2, <1>4, <2>1, <2>3, <2>4, ReadInArm DEF OpeningInv
  <2>5. cur' = NoCall => \A ch \in Channels : since'[ch] \subseteq ready'[ch]
    BY <1>2, <1>4, <2>1 DEF OpeningInv, ArmInv, Held
  <2>6. det'.age < ArmedTimeout
    BY <2>1 DEF OpeningInv, ArmInv
  <2> QED
    BY <1>5, <2>4, <2>5, <2>6 DEF ArmInv
<1> QED
  BY <1>5, <1>6 DEF ArmInv

\* The steps of the pipeline.
LEMMA StepOpening ==
    ASSUME IInv, OpeningInv, Step
    PROVE  ArmInv' /\ OpeningWordsKept'
<1>1. PICK R \in SUBSET Channels, far \in BOOLEAN, near \in BOOLEAN :
             StepWith(R, Observed(far, near))
  BY DEF Step
<1> DEFINE o == Observed(far, near)
           t == o.t
<1>2. /\ Finished(R) \in [Channels -> SUBSET Nat]
      /\ Held(R) \in [Channels -> SUBSET Nat]
      /\ \A ch \in Channels : Held(R)[ch] = ready[ch] \cup Finished(R)[ch]
  BY ReadTypes DEF IInv, CaptureInv, Held
<1>3. ASSUME NEW ts, Stepping(R, o, ts)
      PROVE  /\ t \in ts
             /\ Talking(det') => \/ Talking(det) /\ t \in {"none", "WrapStarted"}
                                 \/ det.st = "Armed" /\ t = "CallStarted"
  BY <1>3, StepTalks
<1>4. ASSUME NEW ts, Stepping(R, o, ts)
      PROVE  \A ch \in Channels : since'[ch] \subseteq since[ch] \cup Finished(R)[ch]
  BY <1>2, <1>4, SinceGrows DEF IInv, Stepping
<1>5. ASSUME NEW ts, Stepping(R, o, ts), ~(det.st = "Armed" /\ det'.st = "Armed")
      PROVE  ArmInv'
  <2>1. Remember(o.voice, Finished(R)) /\ det' = o.d
    BY <1>5 DEF Stepping
  <2>2. det'.st = "Armed" => \A ch \in Channels : since'[ch] = {}
    BY <1>2, <1>5, <2>1, SinceGrows DEF IInv
  <2>3. det'.st = "Armed" => det'.age = 0
    BY <1>5, <2>1, StepArms
  <2> QED
    BY <2>2, <2>3, JustArmed
<1>6. ASSUME NEW ts, Stepping(R, o, ts), det.st = "Armed", det'.st = "Armed"
      PROVE  /\ t = "none" /\ det'.age \in Nat
             /\ det'.age = det.age + 1 /\ det'.age < ArmedTimeout
  <2>1. det' = o.d
    BY <1>6 DEF Stepping
  <2>2. t = "none" /\ det'.age = Later(det.age, AgeCap) /\ det'.age < ArmedTimeout
    BY <1>6, <2>1, StepArms
  <2>3. det.age \in Nat /\ det.age < ArmedTimeout
    BY <1>6 DEF OpeningInv, ArmInv, IInv, TypeOK, DetectorState
  <2>4. AgeCap \in Nat /\ AgeCap >= ArmedTimeout /\ ArmedTimeout \in Nat
    BY VadAssumption DEF AgeCap, Larger
  <2> QED
    BY <2>2, <2>3, <2>4 DEF Later
<1>7. StepWith(R, o)
  BY <1>1
<1> HIDE DEF o, t
<1>8. ASSUME NEW ts, Stepping(R, o, ts), det.st = "Armed", det'.st = "Armed",
             enc' = Encoded(R), failed' = failed \/ "read" \notin failed,
             cur' = cur /\ (cur = NoCall => ready' = Bounded(Held(R), det'))
      PROVE  ArmInv'
  <2>1. det'.age \in Nat /\ det'.age = det.age + 1 /\ det'.age < ArmedTimeout
    BY <1>6, <1>8
  <2>2. det.age \in Nat /\ Slip \in {0, 1} /\ Slip' \in {0, 1} /\ Slip' >= Slip
    BY <1>8 DEF Slip, IInv, TypeOK, DetectorState
  <2>3. det'.age + Slip' >= det.age + Slip + 1
    BY <2>1, <2>2
  <2>4. \A ch \in Channels : since'[ch] \subseteq since[ch] \cup Finished(R)[ch]
    BY <1>4, <1>8
  <2>5. ASSUME NEW ch \in Channels, NEW n \in since'[ch] PROVE WithinArm(ch, n)'
    BY <1>8, <2>1, <2>3, <2>4, <2>5, ReadInArm DEF OpeningInv
  <2>6. ASSUME cur' = NoCall, NEW ch \in Channels, NEW n \in since'[ch] PROVE n \in ready'[ch]
    <3>1. n \in Held(R)[ch]
      BY <1>2, <1>8, <2>4, <2>6 DEF OpeningInv, ArmInv
    <3>2. WithinArm(ch, n)'
      BY <2>5, <2>6
    <3>3. n \in Bounded(Held(R), det')[ch]
      BY <1>8, <2>1, <3>1, <3>2, CapSpares
    <3> QED
      BY <1>8, <2>6, <3>3
  <2> QED
    BY <2>1, <2>5, <2>6 DEF ArmInv
<1>9. CASE StepOn(R, o)
  <2>1. Stepping(R, o, {"none", "WrapStarted"})
    BY <1>9 DEF StepOn
  <2>2. ArmInv'
    BY <1>5, <1>8, <1>9, <2>1 DEF StepOn
  <2>3. Talking(det') => Talking(det)
    BY <1>3, <2>1
  <2>4. ASSUME cur # NoCall, NEW ch \in Channels,
               since[ch] \subseteq spooled[<<cur, ch>>] \cup ready[ch]
        PROVE  since'[ch] \subseteq spooled'[<<cur, ch>>]
    <3>1. <<cur, ch>> \in Streams
      BY <2>4 DEF Streams, IInv, TypeOK
    <3>2. spooled'[<<cur, ch>>] = spooled[<<cur, ch>>] \cup Held(R)[ch]
      BY <1>9, <2>4, <3>1 DEF StepOn, Push
    <3> QED
      BY <1>2, <1>4, <2>1, <2>4, <3>2
  <2>5. OpeningWordsKept'
    BY <1>9, <2>3, <2>4, WordsRest DEF StepOn, OpeningInv
  <2> QED
    BY <2>2, <2>5
<1>10. CASE StepRestart(R, o)
  <2>1. Stepping(R, o, {"Armed", "ArmDiscarded"})
    BY <1>10 DEF StepRestart
  <2> QED
    BY <1>3, <1>5, <1>6, <2>1 DEF OpeningWordsKept
<1>11. ASSUME NEW c \in Calls, StepStart(R, o, c) PROVE ArmInv' /\ OpeningWordsKept'
  <2>1. Stepping(R, o, {"CallStarted"})
    BY <1>11 DEF StepStart
  <2>2. ArmInv'
    BY <1>3, <1>5, <1>6, <2>1
  <2>3. ASSUME Talking(det'), \A x \in Calls \ {c} : owner'[x] # NoUser => x \in ended',
               NEW ch \in Channels
        PROVE  since'[ch] \subseteq spooled'[<<c, ch>>]
    <3>1. cur = NoCall
      <4>1. cur # NoCall => cur \in Calls /\ owner[cur] # NoUser /\ cur \notin ended
        BY DEF OpeningInv, RecordInv, OwnInv, IInv, TypeOK
      <4>2. cur # NoCall => cur # c /\ owner'[cur] = owner[cur]
        BY <1>11, <4>1 DEF StepStart, IInv, TypeOK
      <4> QED
        BY <1>11, <2>3, <4>1, <4>2 DEF StepStart
    <3>2. det.st = "Armed"
      BY <1>3, <2>1, <2>3
    <3>3. since[ch] \subseteq ready[ch]
      BY <3>1, <3>2 DEF OpeningInv, ArmInv
    <3>4. Held(R)[ch] \subseteq spooled'[<<c, ch>>]
      <4>1. <<c, ch>> \in Streams
        BY DEF Streams
      <4> QED
        BY <1>11, <4>1 DEF StepStart, Push
    <3> QED
      BY <1>2, <1>4, <2>1, <3>3, <3>4
  <2>4. cur' = c
    BY <1>11 DEF StepStart
  <2> QED
    BY <2>2, <2>3, <2>4 DEF OpeningWordsKept
<1>12. CASE StepEnd(R, o)
  <2>1. Stepping(R, o, {"CallEnded"}) /\ cur' = NoCall
    BY <1>12 DEF StepEnd
  <2> QED
    BY <1>3, <1>5, <1>6, <2>1 DEF OpeningWordsKept
<1>13. CASE StepStartFails(R, o)
  <2>1. Stepping(R, o, {"CallStarted"}) /\ "begin" \in failed'
    BY <1>13 DEF StepStartFails, Fail
  <2> QED
    BY <1>3, <1>5, <1>6, <2>1 DEF OpeningWordsKept
<1>14. CASE EndFails(R, o)
  <2>1. Stepping(R, o, {"CallEnded"}) /\ cur' = NoCall
    BY <1>14 DEF EndFails
  <2> QED
    BY <1>3, <1>5, <1>6, <2>1 DEF OpeningWordsKept
<1>15. ASSUME NEW ch \in Channels, NEW n \in 0..MaxSeq, DrainFails(R, o, ch, n)
       PROVE  ArmInv' /\ OpeningWordsKept'
  <2>1. /\ Stepping(R, o, {"none", "WrapStarted"}) /\ "push" \in failed' /\ failed = {}
        /\ enc' = Encoded(R) /\ cur' = cur /\ cur # NoCall
    BY <1>15 DEF DrainFails, Fail
  <2>2. ArmInv'
    BY <1>5, <1>8, <2>1
  <2> QED
    BY <2>1, <2>2 DEF OpeningWordsKept
<1>16. ASSUME NEW c \in Calls, NEW ch \in Channels, NEW n \in 0..MaxSeq,
              PrerollFails(R, o, c, ch, n)
       PROVE  ArmInv' /\ OpeningWordsKept'
  <2>1. Stepping(R, o, {"CallStarted"}) /\ "push" \in failed'
    BY <1>16 DEF PrerollFails, Fail
  <2> QED
    BY <1>3, <1>5, <1>6, <2>1 DEF OpeningWordsKept
<1>17. ASSUME NEW ch \in Channels, NEW n \in 0..MaxSeq, FinishFails(R, o, ch, n)
       PROVE  ArmInv' /\ OpeningWordsKept'
  <2>1. Stepping(R, o, {"CallEnded"}) /\ cur' = NoCall
    BY <1>17 DEF FinishFails
  <2> QED
    BY <1>3, <1>5, <1>6, <2>1 DEF OpeningWordsKept
<1> QED
  BY <1>7, <1>9, <1>10, <1>11, <1>12, <1>13, <1>14, <1>15, <1>16, <1>17 DEF StepWith

\* The opening words, with the records, are inductive.
LEMMA NextOpening == IInv /\ OpeningInv /\ [Next]_vars => OpeningInv'
<1> SUFFICES ASSUME IInv, OpeningInv, [Next]_vars PROVE OpeningInv'
  OBVIOUS
<1>1. RecordInv'
  BY NextRecord DEF OpeningInv
<1>2. ArmInv' /\ OpeningWordsKept'
  BY OpeningRests, ReadFailsOpening, StepOpening DEF Next
<1> QED
  BY <1>1, <1>2 DEF OpeningInv

\* Before the first call nothing is armed.
LEMMA InitOpening == Init => OpeningInv
BY InitRecord DEF Init, OpeningInv, ArmInv, OpeningWordsKept

\* Whatever was finished since the detector armed is in the record of its call, or ready
\* for it (pipeline.rs bound_preroll), for every segment length and pre-roll that last
\* longer than an arm: the cap never drops the opening words.
THEOREM OpeningIsKept == Spec => []OpeningWordsKept
<1>1. OpeningInv => OpeningWordsKept
  BY DEF OpeningInv
<1> QED
  BY InitIInv, NextIInv, InitOpening, NextOpening, <1>1, PTL DEF Spec

-----------------------------------------------------------------------------
(* The numbers of a record.                                                *)

\* From any number of S on, S has them all, up to the next one.
Reaches(S, next) == \A n \in S, k \in Nat : n <= k /\ k < next => k \in S

GapInv ==
    failed \cap {"begin", "push"} = {} =>
        /\ \A ch \in Channels : Reaches(ready[ch], enc[ch].next)
        /\ Talking(det) /\ cur # NoCall =>
              \A ch \in Channels : Reaches(spooled[<<cur, ch>>] \cup ready[ch], enc[ch].next)
        /\ \A x \in Streams : x[1] \in ended =>
              \A n, m \in spooled[x] : n..m \subseteq spooled[x]

\* A set of numbers below the next that reaches it has no gap.
LEMMA ReachesIsFull ==
    ASSUME NEW S \in SUBSET Nat, NEW next \in Nat, Reaches(S, next), \A n \in S : n < next
    PROVE  \A n, m \in S : n..m \subseteq S
<1> SUFFICES ASSUME NEW n \in S, NEW m \in S, NEW k \in n..m PROVE k \in S
  OBVIOUS
<1>1. n \in Nat /\ m \in Nat /\ m < next /\ k \in Nat /\ n <= k /\ k <= m
  OBVIOUS
<1> QED
  BY <1>1 DEF Reaches

\* Reading, and flushing the partial segment, reach as far as the encoder does then.
LEMMA ReadReaches ==
    ASSUME IInv, NEW R \in SUBSET Channels, NEW ch \in Channels, NEW S \in SUBSET Nat,
           Reaches(S \cup ready[ch], enc[ch].next)
    PROVE  /\ Reaches(S \cup Held(R)[ch], Encoded(R)[ch].next)
           /\ Reaches(S \cup LastBatch(R)[ch], Flushed(R, Channels)[ch].next)
           /\ \A n \in LastBatch(R)[ch] : n < Flushed(R, Channels)[ch].next
           /\ Flushed(R, Channels)[ch].next \in Nat
           /\ Flushed(R, Channels)[ch].next >= Encoded(R)[ch].next
<1> DEFINE e == enc[ch].next
           f == Encoded(R)[ch].next
           g == Flushed(R, Channels)[ch].next
           H == Held(R)[ch]
           L == LastBatch(R)[ch]
<1>1. /\ e \in Nat /\ f \in Nat /\ ready[ch] \in SUBSET Nat /\ H \in SUBSET Nat
      /\ \A n \in H : n < f
  <2>1. enc[ch] \in Encoder /\ ready[ch] \in SUBSET Nat
    BY DEF IInv, TypeOK
  <2>2. Encoded(R)[ch] \in Encoder /\ Held(R)[ch] \in SUBSET Nat
    BY ReadTypes DEF IInv, CaptureInv
  <2>3. \A n \in H : n < f
    BY ReadTypes DEF IInv, CaptureInv
  <2> QED
    BY <2>1, <2>2, <2>3 DEF Encoder
<1>2. \/ f = e /\ H = ready[ch]
      \/ f = e + 1 /\ H = ready[ch] \cup {e}
  <2>1. CASE Finishes(ch, R)
    BY <2>1 DEF Encoded, Held, Finished
  <2>2. CASE ~Finishes(ch, R)
    <3>1. enc[ch] \in Encoder
      BY DEF IInv, TypeOK
    <3> QED
      BY <2>2, <3>1 DEF Encoded, Held, Finished, Encoder
  <2> QED
    BY <2>1, <2>2
<1>3. \/ g = f /\ L = H
      \/ g = f + 1 /\ L = H \cup {f}
  BY DEF Flushed, LastBatch
<1>4. Reaches(S \cup ready[ch], e)
  OBVIOUS
<1> HIDE DEF e, f, g, H, L
<1>5. ASSUME NEW A \in SUBSET Nat, NEW a \in Nat, Reaches(A, a)
      PROVE  Reaches(A \cup {a}, a + 1)
  <2> SUFFICES ASSUME NEW n \in A \cup {a}, NEW k \in Nat, n <= k, k < a + 1
               PROVE  k \in A \cup {a}
    BY DEF Reaches
  <2>1. CASE k = a
    BY <2>1
  <2>2. CASE k # a
    <3>1. n \in Nat /\ a \in Nat
      BY <1>5
    <3>2. k < a /\ n # a
      BY <2>2, <3>1
    <3> QED
      BY <1>5, <3>2 DEF Reaches
  <2> QED
    BY <2>1, <2>2
<1>6. Reaches(S \cup H, f)
  <2>1. CASE f = e /\ H = ready[ch]
    BY <1>4, <2>1
  <2>2. CASE f = e + 1 /\ H = ready[ch] \cup {e}
    <3>1. Reaches((S \cup ready[ch]) \cup {e}, e + 1)
      BY <1>1, <1>4, <1>5
    <3>2. (S \cup ready[ch]) \cup {e} = S \cup H
      BY <2>2
    <3> QED
      BY <2>2, <3>1, <3>2
  <2> QED
    BY <1>2, <2>1, <2>2
<1>7. Reaches(S \cup L, g)
  <2>1. CASE g = f /\ L = H
    BY <1>6, <2>1
  <2>2. CASE g = f + 1 /\ L = H \cup {f}
    <3>1. Reaches((S \cup H) \cup {f}, f + 1)
      BY <1>1, <1>6, <1>5
    <3>2. (S \cup H) \cup {f} = S \cup L
      BY <2>2
    <3> QED
      BY <2>2, <3>1, <3>2
  <2> QED
    BY <1>3, <2>1, <2>2
<1>8. g \in Nat /\ g >= f /\ \A n \in L : n < g
  <2>1. \A n \in H : n \in Nat /\ n < f /\ f \in Nat
    BY <1>1
  <2>2. CASE g = f /\ L = H
    BY <1>1, <2>1, <2>2
  <2>3. CASE g = f + 1 /\ L = H \cup {f}
    <3>1. f + 1 \in Nat /\ f < f + 1 /\ \A n \in H : n < f + 1
      BY <1>1, <2>1
    <3> QED
      BY <1>1, <2>3, <3>1
  <2> QED
    BY <1>3, <2>2, <2>3
<1> QED
  BY <1>6, <1>7, <1>8 DEF f, g, H, L

\* bound_preroll drops the oldest: what it keeps still reaches the encoder.
LEMMA BoundedReaches ==
    ASSUME NEW held, NEW d, NEW ch \in Channels, held[ch] \in SUBSET Nat, NEW next \in Nat,
           Reaches(held[ch], next), \A n \in held[ch] : n < next
    PROVE  Reaches(Bounded(held, d)[ch], next)
<1>1. CASE d.st # "Armed"
  BY <1>1 DEF Bounded, Reaches
<1>2. CASE d.st = "Armed"
  <2> DEFINE newer(n) == {m \in held[ch] : m > n}
  <2>1. Bounded(held, d)[ch] = {n \in held[ch] : Cardinality(newer(n)) < PrerollMax}
    BY <1>2 DEF Bounded
  <2> SUFFICES ASSUME NEW n \in held[ch], Cardinality(newer(n)) < PrerollMax,
                      NEW k \in Nat, n <= k, k < next
               PROVE  k \in held[ch] /\ Cardinality(newer(k)) < PrerollMax
    BY <2>1 DEF Reaches
  <2>2. k \in held[ch]
    BY DEF Reaches
  <2>3. newer(k) \subseteq newer(n) /\ newer(n) \subseteq 0..next
    OBVIOUS
  <2>4. IsFiniteSet(0..next)
    <3>1. 0 \in Int /\ next \in Int
      OBVIOUS
    <3> QED
      BY <3>1, FS_Interval
  <2> HIDE DEF newer
  <2>5. IsFiniteSet(newer(n))
    BY <2>3, <2>4, FS_Subset
  <2>6. IsFiniteSet(newer(k)) /\ Cardinality(newer(k)) <= Cardinality(newer(n))
    BY <2>3, <2>5, FS_Subset
  <2>7. Cardinality(newer(n)) \in Nat /\ Cardinality(newer(k)) \in Nat /\ PrerollMax \in Nat
    BY <2>5, <2>6, FS_CardinalityType, CaptureAssumption
  <2>8. Cardinality(newer(k)) < PrerollMax
    BY <2>6, <2>7
  <2> QED
    BY <2>2, <2>8
<1> QED
  BY <1>1, <1>2

\* Steps that write no record, lead into no call and keep what is ready in reach.
LEMMA GapRests ==
    ASSUME GapInv, UNCHANGED <<cur, bookVars>>, failed \subseteq failed',
           Talking(det') => Talking(det),
           failed \cap {"begin", "push"} = {} =>
              \A ch \in Channels :
                /\ Reaches(ready'[ch], enc'[ch].next)
                /\ Talking(det) /\ cur # NoCall =>
                      Reaches(spooled[<<cur, ch>>] \cup ready'[ch], enc'[ch].next)
    PROVE  GapInv'
BY DEF GapInv, bookVars

\* The steps of the pipeline.
LEMMA StepGap ==
    ASSUME IInv, RecordInv, GapInv, Step
    PROVE  GapInv'
<1> SUFFICES ASSUME failed' \cap {"begin", "push"} = {}
             PROVE  GapInv'
  BY DEF GapInv
<1>1. PICK R \in SUBSET Channels, far \in BOOLEAN, near \in BOOLEAN :
             StepWith(R, Observed(far, near))
  BY DEF Step
<1> DEFINE o == Observed(far, near)
           t == o.t
<1>2. ASSUME NEW ts, Stepping(R, o, ts)
      PROVE  /\ t \in ts
             /\ Talking(det') => \/ Talking(det) /\ t \in {"none", "WrapStarted"}
                                 \/ det.st = "Armed" /\ t = "CallStarted"
             /\ t = "CallEnded" => Talking(det)
  BY <1>2, StepTalks
<1>3. StepWith(R, o)
  BY <1>1
<1> HIDE DEF o, t
<1>4. failed \subseteq failed' /\ failed \cap {"begin", "push"} = {}
  BY <1>3 DEF StepWith, StepOn, StepRestart, StepStart, StepEnd, StepStartFails, EndFails,
     DrainFails, PrerollFails, FinishFails, Fail
<1>5. \A ch \in Channels : Reaches(ready[ch], enc[ch].next)
  BY <1>4 DEF GapInv
<1>6. /\ \A ch \in Channels : None[ch] = {} /\ \A k \in Nat : Reaches(None[ch], k)
      /\ \A ch \in Channels : Fresh[ch].next = 0
      /\ \A ch \in Channels, c \in Calls : <<c, ch>> \in Streams /\ spooled[<<c, ch>>] \in SUBSET Nat
  BY DEF None, Fresh, Reaches, IInv, TypeOK, Streams
<1>7. ASSUME NEW ch \in Channels
      PROVE  /\ Held(R)[ch] \in SUBSET Nat /\ Encoded(R)[ch].next \in Nat
             /\ LastBatch(R)[ch] \in SUBSET Nat
             /\ \A n \in Held(R)[ch] : n < Encoded(R)[ch].next
             /\ Reaches(Held(R)[ch], Encoded(R)[ch].next)
             /\ Flushed(R, Channels)[ch].next \in Nat
  <2>1. /\ Held(R) \in [Channels -> SUBSET Nat] /\ LastBatch(R) \in [Channels -> SUBSET Nat]
        /\ Encoded(R) \in [Channels -> Encoder]
        /\ \A n \in Held(R)[ch] : n < Encoded(R)[ch].next
    BY ReadTypes, FlushTypes DEF IInv, CaptureInv
  <2>2. Reaches({} \cup ready[ch], enc[ch].next)
    BY <1>5
  <2>3. Reaches({} \cup Held(R)[ch], Encoded(R)[ch].next) /\ Flushed(R, Channels)[ch].next \in Nat
    BY <2>2, ReadReaches
  <2> QED
    BY <2>1, <2>3 DEF Encoder
<1>8. ASSUME cur # NoCall, Talking(det), NEW ch \in Channels
      PROVE  /\ Reaches(spooled[<<cur, ch>>] \cup Held(R)[ch], Encoded(R)[ch].next)
             /\ Reaches(spooled[<<cur, ch>>] \cup LastBatch(R)[ch], Flushed(R, Channels)[ch].next)
             /\ \A n \in spooled[<<cur, ch>>] \cup LastBatch(R)[ch] :
                    n < Flushed(R, Channels)[ch].next
  <2>1. cur \in Calls /\ spooled[<<cur, ch>>] \in SUBSET Nat
    BY <1>6, <1>8 DEF IInv, TypeOK
  <2>2. Reaches(spooled[<<cur, ch>>] \cup ready[ch], enc[ch].next)
    BY <1>4, <1>8 DEF GapInv
  <2>3. InOrder(ch)
    BY <1>4, <1>8 DEF RecordInv, Recording
  <2>4. \A n \in spooled[<<cur, ch>>] : n < Encoded(R)[ch].next
    BY <2>1, <2>3, ReadInOrder
  <2>5. /\ \A n \in LastBatch(R)[ch] : n < Flushed(R, Channels)[ch].next
        /\ Flushed(R, Channels)[ch].next >= Encoded(R)[ch].next
        /\ Flushed(R, Channels)[ch].next \in Nat
    BY <2>1, <2>2, ReadReaches
  <2>6. \A n \in spooled[<<cur, ch>>] : n < Flushed(R, Channels)[ch].next
    BY <1>7, <2>1, <2>4, <2>5
  <2> QED
    BY <2>1, <2>2, <2>5, <2>6, ReadReaches
<1>9. ASSUME NEW c \in Calls, NEW batch, Push(c, batch)
      PROVE  /\ \A ch \in Channels : spooled'[<<c, ch>>] = spooled[<<c, ch>>] \cup batch[ch]
             /\ \A x \in Streams : x[1] # c => spooled'[x] = spooled[x]
  BY <1>6, <1>9 DEF Push
<1>10. cur # NoCall => cur \in Calls /\ cur \notin ended
  BY DEF IInv, TypeOK, RecordInv, OwnInv
<1>11. \A x \in Streams : x[1] \in ended => \A n, m \in spooled[x] : n..m \subseteq spooled[x]
  BY <1>4 DEF GapInv
<1>12. CASE StepOn(R, o)
  <2>1. /\ enc' = Encoded(R) /\ UNCHANGED <<cur, owner, ended, endSeq, failed>>
        /\ Talking(det') => Talking(det)
    BY <1>2, <1>12 DEF StepOn
  <2>2. CASE cur # NoCall
    <3>1. Push(cur, Held(R)) /\ ready' = None
      BY <1>12, <2>2 DEF StepOn
    <3>2. \A ch \in Channels : Reaches(ready'[ch], enc'[ch].next)
      BY <1>6, <1>7, <2>1, <3>1
    <3>3. ASSUME Talking(det'), NEW ch \in Channels
          PROVE  Reaches(spooled'[<<cur, ch>>] \cup ready'[ch], enc'[ch].next)
      <4>1. spooled'[<<cur, ch>>] \cup ready'[ch] = spooled[<<cur, ch>>] \cup Held(R)[ch]
        BY <1>6, <1>9, <1>10, <2>2, <3>1
      <4> QED
        BY <1>8, <2>1, <2>2, <3>3, <4>1
    <3>4. \A x \in Streams : x[1] \in ended => spooled'[x] = spooled[x]
      BY <1>9, <1>10, <2>2, <3>1
    <3> QED
      BY <1>11, <2>1, <3>2, <3>3, <3>4 DEF GapInv
  <2>3. CASE cur = NoCall
    <3>1. ready' = Bounded(Held(R), det') /\ spooled' = spooled
      BY <1>12, <2>3 DEF StepOn
    <3>2. \A ch \in Channels : Reaches(ready'[ch], enc'[ch].next)
      BY <1>7, <2>1, <3>1, BoundedReaches
    <3> QED
      BY <1>11, <2>1, <2>3, <3>1, <3>2 DEF GapInv
  <2> QED
    BY <2>2, <2>3
<1>13. CASE StepRestart(R, o)
  <2>1. ~Talking(det') /\ ready' = None /\ enc' = Fresh /\ UNCHANGED <<spooled, ended>>
    BY <1>2, <1>13 DEF StepRestart, bookVars
  <2>2. \A ch \in Channels : Reaches(ready'[ch], enc'[ch].next)
    BY <1>6, <2>1
  <2> QED
    BY <1>11, <2>1, <2>2 DEF GapInv
<1>14. ASSUME NEW c \in Calls, StepStart(R, o, c) PROVE GapInv'
  <2>1. /\ owner[c] = NoUser /\ cur' = c /\ Push(c, Held(R)) /\ enc' = Encoded(R)
        /\ ready' = None /\ ended' = ended
    BY <1>14 DEF StepStart
  <2>2. c \notin ended /\ \A ch \in Channels : spooled[<<c, ch>>] = {}
    BY <1>6, <2>1 DEF RecordInv, OwnInv, Streams
  <2>3. \A ch \in Channels : /\ Reaches(ready'[ch], enc'[ch].next)
                             /\ spooled'[<<c, ch>>] \cup ready'[ch] = Held(R)[ch]
    BY <1>6, <1>7, <1>9, <2>1, <2>2
  <2>4. \A x \in Streams : x[1] \in ended => spooled'[x] = spooled[x]
    BY <1>9, <2>1, <2>2
  <2> QED
    BY <1>7, <1>11, <2>1, <2>3, <2>4 DEF GapInv
<1>15. CASE StepEnd(R, o)
  <2>1. Talking(det) /\ ready' = None /\ cur' = NoCall
    BY <1>2, <1>15 DEF StepEnd
  <2>2. CASE cur = NoCall
    <3>1. enc' = Encoded(R) /\ UNCHANGED <<spooled, ended>>
      BY <1>15, <2>2 DEF StepEnd
    <3>2. \A ch \in Channels : Reaches(ready'[ch], enc'[ch].next)
      BY <1>6, <1>7, <2>1, <3>1
    <3> QED
      BY <1>11, <2>1, <3>1, <3>2 DEF GapInv
  <2>3. CASE cur # NoCall
    <3>1. Push(cur, LastBatch(R)) /\ ended' = ended \cup {cur} /\ enc' = Flushed(R, Channels)
      BY <1>15, <2>3 DEF StepEnd
    <3>2. \A ch \in Channels : Reaches(ready'[ch], enc'[ch].next)
      BY <1>6, <1>7, <2>1, <3>1
    <3>3. ASSUME NEW x \in Streams, x[1] \in ended'
          PROVE  \A n, m \in spooled'[x] : n..m \subseteq spooled'[x]
      <4>1. CASE x[1] # cur
        BY <1>9, <1>10, <1>11, <2>3, <3>1, <3>3, <4>1
      <4>2. CASE x[1] = cur
        <5>1. x = <<cur, x[2]>> /\ x[2] \in Channels
          BY <4>2 DEF Streams
        <5>2. spooled'[x] = spooled[<<cur, x[2]>>] \cup LastBatch(R)[x[2]]
          BY <1>9, <1>10, <2>3, <3>1, <5>1
        <5>3. spooled[<<cur, x[2]>>] \cup LastBatch(R)[x[2]] \in SUBSET Nat
          BY <1>6, <1>7, <1>10, <2>3, <5>1
        <5>4. /\ Reaches(spooled'[x], Flushed(R, Channels)[x[2]].next)
              /\ \A n \in spooled'[x] : n < Flushed(R, Channels)[x[2]].next
              /\ Flushed(R, Channels)[x[2]].next \in Nat
          BY <1>7, <1>8, <2>1, <2>3, <5>1, <5>2
        <5> QED
          BY <5>2, <5>3, <5>4, ReachesIsFull
      <4> QED
        BY <4>1, <4>2
    <3> QED
      BY <2>1, <3>2, <3>3 DEF GapInv
  <2> QED
    BY <2>2, <2>3
<1>16. CASE EndFails(R, o)
  <2>1. /\ cur # NoCall /\ Push(cur, LastBatch(R)) /\ enc' = Flushed(R, Channels)
        /\ ready' = None /\ cur' = NoCall /\ ended' = ended
    BY <1>16 DEF EndFails
  <2>2. \A ch \in Channels : Reaches(ready'[ch], enc'[ch].next)
    BY <1>6, <1>7, <2>1
  <2>3. \A x \in Streams : x[1] \in ended => spooled'[x] = spooled[x]
    BY <1>9, <1>10, <2>1
  <2> QED
    BY <1>11, <2>1, <2>2, <2>3 DEF GapInv
<1>17. /\ ~StepStartFails(R, o)
       /\ \A ch \in Channels, n \in 0..MaxSeq :
             /\ ~DrainFails(R, o, ch, n) /\ ~FinishFails(R, o, ch, n)
             /\ \A c \in Calls : ~PrerollFails(R, o, c, ch, n)
  BY DEF StepStartFails, DrainFails, PrerollFails, FinishFails, Fail
<1> QED
  BY <1>3, <1>12, <1>13, <1>14, <1>15, <1>16, <1>17 DEF StepWith

\* The numbers stay in reach, given the order in which they are spooled.
LEMMA NextGap == IInv /\ RecordInv /\ GapInv /\ [Next]_vars => GapInv'
<1> SUFFICES ASSUME IInv, RecordInv, GapInv, [Next]_vars PROVE GapInv'
  OBVIOUS
<1>1. ASSUME NEW R \in SUBSET Channels, TickReadFails(R) PROVE GapInv'
  <2>1. /\ Talking(det') => Talking(det)
        /\ failed \subseteq failed' /\ UNCHANGED <<cur, bookVars>>
        /\ enc' = Encoded(R) /\ ready' = Held(R)
    BY <1>1, UnblockFields DEF TickReadFails, Fail, IInv, TypeOK, Talking
  <2>2. ASSUME failed \cap {"begin", "push"} = {}, NEW ch \in Channels
        PROVE  /\ Reaches(Held(R)[ch], Encoded(R)[ch].next)
               /\ Talking(det) /\ cur # NoCall =>
                     Reaches(spooled[<<cur, ch>>] \cup Held(R)[ch], Encoded(R)[ch].next)
    <3>1. Reaches({} \cup ready[ch], enc[ch].next)
      BY <2>2 DEF GapInv
    <3>2. Reaches({} \cup Held(R)[ch], Encoded(R)[ch].next)
      BY <3>1, ReadReaches
    <3>3. ASSUME Talking(det), cur # NoCall
          PROVE  Reaches(spooled[<<cur, ch>>] \cup Held(R)[ch], Encoded(R)[ch].next)
      <4>1. spooled[<<cur, ch>>] \in SUBSET Nat
        BY <3>3 DEF IInv, TypeOK, Streams
      <4>2. Reaches(spooled[<<cur, ch>>] \cup ready[ch], enc[ch].next)
        BY <2>2, <3>3 DEF GapInv
      <4> QED
        BY <4>1, <4>2, ReadReaches
    <3> QED
      BY <3>2, <3>3
  <2> QED
    BY <2>1, <2>2, GapRests
<1>2. CASE Step
  BY <1>2, StepGap
<1>3. CASE ~(Step \/ \E R \in SUBSET Channels : TickReadFails(R))
  <2>1. /\ UNCHANGED <<enc, ready, cur, lastSeq, bookVars, failed>>
        /\ Talking(det') => Talking(det)
    BY <1>3, BetweenTicks DEF Next
  <2> QED
    BY <2>1, GapRests DEF GapInv
<1> QED
  BY <1>1, <1>2, <1>3

\* The invariants of the record say that its numbers have no gap.
LEMMA GapSays ==
    ASSUME IInv, RecordInv, GapInv
    PROVE  NumbersConsecutive
<1> SUFFICES ASSUME failed \cap {"begin", "push"} = {}, NEW x \in Streams,
                    x[1] = cur, Talking(det)
             PROVE  \A n, m \in spooled[x] : n..m \subseteq spooled[x]
  BY DEF NumbersConsecutive, GapInv
<1>1. x = <<cur, x[2]>> /\ x[2] \in Channels /\ cur \in Calls
  BY DEF Streams
<1> DEFINE S == spooled[x]
           T == ready[x[2]]
           next == enc[x[2]].next
<1>2. S \in SUBSET Nat /\ T \in SUBSET Nat /\ next \in Nat
  BY <1>1 DEF IInv, TypeOK, Encoder
<1>3. cur # NoCall
  BY <1>1, CaptureAssumption
<1>4. Reaches(S \cup T, next)
  BY <1>1, <1>3 DEF GapInv
<1>5. /\ \A n \in S : n < next /\ \A m \in T : n < m
  BY <1>1, <1>3 DEF RecordInv, Recording, InOrder
<1> HIDE DEF S, T, next
<1>6. ASSUME NEW n \in S, NEW m \in S, NEW k \in n..m PROVE k \in S
  <2>1. n \in Nat /\ m \in Nat /\ m < next /\ k \in Nat /\ n <= k /\ k <= m
    BY <1>2, <1>5
  <2>2. k \in S \cup T
    BY <1>2, <1>4, <2>1 DEF Reaches
  <2>3. k \notin T
    BY <1>2, <1>5, <2>1
  <2> QED
    BY <2>2, <2>3
<1> QED
  BY <1>6 DEF S

\* The segments of a call are numbered without a gap, while it is in progress and once it has
\* ended, for every segment length and pre-roll, through holds, blocks, failed reads and calls
\* never closed (pipeline.rs drain_encoders, bound_preroll, finish_call; encode.rs).
THEOREM NumbersHaveNoGap == Spec => []NumbersConsecutive
<1>1. Init => GapInv
  BY DEF Init, GapInv, Fresh, None, Reaches, Talking
<1>2. IInv /\ RecordInv /\ GapInv => NumbersConsecutive
  BY GapSays
<1> QED
  BY <1>1, <1>2, InitRecord, NextRecord, NextGap, InitIInv, NextIInv, PTL DEF Spec
====
