---- MODULE DeliveryProofs ----
(***************************************************************************)
(* Theorems about Delivery, for every number of calls, replicas, consumer  *)
(* processes, deliveries and failures.                                     *)
(***************************************************************************)
EXTENDS Delivery, TLAPS

\* What no step takes back: messages keep their call, and the record only grows.
Grows ==
    /\ \A i \in DOMAIN stream :
          i \in DOMAIN stream' /\ stream'[i].call = stream[i].call
    /\ \A c \in Calls : transcript[c] \subseteq transcript'[c]
    /\ ruled \subseteq ruled' /\ done \subseteq done' /\ dlq \subseteq dlq'
    /\ unreported \subseteq unreported' /\ handled \subseteq handled'

----------------------------------------------------------------------------
\* Store either leaves the stream alone or appends a ready message.
LEMMA StoreStep ==
    ASSUME DeliveryTypeOK, NEW m \in Subjects, Store(m)
    PROVE  /\ stream' \in Seq(Messages)
           /\ \A i \in DOMAIN stream : i \in DOMAIN stream' /\ stream'[i] = stream[i]
           /\ \A i \in DOMAIN stream' : i \notin DOMAIN stream =>
                 stream'[i] = [call |-> m, deliveries |-> 0, state |-> "ready"]
           /\ Copies(m)' # {}
  <1>1. stream \in Seq(Messages)
    BY DEF DeliveryTypeOK, OutboxTypeOK
  <1>2. CASE Copies(m) # {} /\ UNCHANGED stream
    BY <1>1, <1>2 DEF Copies
  <1>3. CASE stream' = Append(stream, [call |-> m, deliveries |-> 0, state |-> "ready"])
    <2> DEFINE e == [call |-> m, deliveries |-> 0, state |-> "ready"]
    <2>1. e \in Messages
      BY OutboxAssumption DEF Messages, MessageStates
    <2>2. /\ stream' \in Seq(Messages)
          /\ Len(stream') = Len(stream) + 1
          /\ \A i \in 1..Len(stream) : stream'[i] = stream[i]
          /\ stream'[Len(stream) + 1] = e
      BY <1>1, <1>3, <2>1
    <2>3. DOMAIN stream = 1..Len(stream) /\ DOMAIN stream' = 1..(Len(stream) + 1)
          /\ Len(stream) \in Nat
      BY <1>1, <2>2
    <2>4. Len(stream) + 1 \in Copies(m)'
      BY <2>2, <2>3 DEF Copies
    <2> QED
      BY <2>2, <2>3, <2>4
  <1> QED
    BY <1>2, <1>3 DEF Store

\* Rewriting one message, or all of them, keeps the stream a sequence of its length.
LEMMA RewriteStep ==
    ASSUME DeliveryTypeOK,
           NEW f, f = [i \in DOMAIN stream |-> f[i]],
           \A i \in DOMAIN stream : f[i] \in Messages
    PROVE  f \in Seq(Messages) /\ DOMAIN f = DOMAIN stream
  <1>1. stream \in Seq(Messages) /\ Len(stream) \in Nat /\ DOMAIN stream = 1..Len(stream)
    BY DEF DeliveryTypeOK, OutboxTypeOK
  <1>2. f \in [1..Len(stream) -> Messages]
    BY <1>1
  <1> QED
    BY <1>1, <1>2

\* The messages of a stream and what becomes of a message when it is returned or acked.
LEMMA MessageFacts ==
    ASSUME DeliveryTypeOK, NEW i \in DOMAIN stream
    PROVE  /\ stream[i] \in Messages
           /\ stream[i].call \in Subjects
           /\ stream[i].deliveries \in 0..MaxDeliver
           /\ stream[i].state \in MessageStates
           /\ Returned(stream[i]) \in Messages
           /\ Returned(stream[i]).call = stream[i].call
           /\ Returned(stream[i]).deliveries = stream[i].deliveries
           /\ Returned(stream[i]).state =
                 IF stream[i].deliveries < MaxDeliver THEN "ready" ELSE "dropped"
           /\ Acked(stream[i]) \in Messages
           /\ Acked(stream[i]).call = stream[i].call
           /\ Acked(stream[i]).deliveries = stream[i].deliveries
           /\ Acked(stream[i]).state =
                 IF stream[i].state \in {"ready", "out"} THEN "acked" ELSE stream[i].state
  <1>1. stream[i] \in Messages
    BY DEF DeliveryTypeOK, OutboxTypeOK
  <1> QED
    BY <1>1 DEF Messages, MessageStates, Returned, Acked

----------------------------------------------------------------------------
\* Every action keeps the types and takes nothing back.
LEMMA OutboxStep ==
    ASSUME DeliveryTypeOK, OutboxNext, UNCHANGED <<recordVars, tasks, dlq, historyVars>>
    PROVE  DeliveryTypeOK' /\ Grows
  <1> USE DEF DeliveryTypeOK
  <1>0. RecordTypeOK'
    BY DEF RecordTypeOK, recordVars, resultVars
  <1>1. SUFFICES /\ OutboxTypeOK'
                 /\ \A i \in DOMAIN stream :
                       i \in DOMAIN stream' /\ stream'[i].call = stream[i].call
    BY <1>0 DEF Grows, recordVars, resultVars, historyVars
  <1>2. ASSUME NEW g \in Gateways, Claim(g) PROVE OutboxTypeOK' /\ stream' = stream
    <2>1. PICK S \in SUBSET {c \in Calls : row[c] = "due"} :
             /\ row' = [c \in Calls |-> IF c \in S THEN "waiting" ELSE row[c]]
             /\ held' = [held EXCEPT ![g] = S]
      BY <1>2 DEF Claim
    <2>2. UNCHANGED <<sending, stream, faults>>
      BY <1>2 DEF Claim
    <2> QED
      BY <2>1, <2>2 DEF OutboxTypeOK, RowStates
  <1>3. ASSUME NEW g \in Gateways,
               MarkPublished(g) \/ MarkFails(g) \/ GatewayStops(g)
        PROVE  OutboxTypeOK' /\ stream' = stream
    <2>1. CASE MarkPublished(g)
      BY <2>1 DEF MarkPublished, OutboxTypeOK, RowStates
    <2>2. CASE MarkFails(g)
      BY <2>2, OutboxAssumption DEF MarkFails, Fault, OutboxTypeOK
    <2>3. CASE GatewayStops(g)
      BY <2>3, OutboxAssumption DEF GatewayStops, Fault, OutboxTypeOK
    <2> QED
      BY <1>3, <2>1, <2>2, <2>3
  <1>4. ASSUME NEW g \in Gateways, NEW c \in Calls, Publish(g, c)
        PROVE  OutboxTypeOK' /\ Store(c)
    <2>1. Store(c) /\ c \in Subjects
      BY <1>4 DEF Publish, Subjects
    <2>2. stream' \in Seq(Messages)
      BY <2>1, StoreStep
    <2> QED
      BY <1>4, <2>1, <2>2 DEF Publish, OutboxTypeOK
  <1>5. ASSUME NEW g \in Gateways, NEW c \in Calls, PublishFails(g, c)
        PROVE  OutboxTypeOK' /\ (Store(c) \/ stream' = stream)
    <2>1. (Store(c) \/ stream' = stream) /\ c \in Subjects
      BY <1>5 DEF PublishFails, Subjects
    <2>2. stream' \in Seq(Messages)
      BY <2>1, StoreStep DEF OutboxTypeOK
    <2> QED
      BY <1>5, <2>1, <2>2, OutboxAssumption DEF PublishFails, Fault, OutboxTypeOK
  <1>6. ASSUME NEW c \in Calls, BackoffEnds(c) PROVE OutboxTypeOK' /\ stream' = stream
    BY <1>6 DEF BackoffEnds, OutboxTypeOK, RowStates
  <1>7. ASSUME NEW m \in Strays, StrayArrives(m) PROVE OutboxTypeOK' /\ Store(m)
    <2>1. Store(m) /\ m \in Subjects
      BY <1>7 DEF StrayArrives, Subjects
    <2>2. stream' \in Seq(Messages)
      BY <2>1, StoreStep
    <2> QED
      BY <1>7, <2>1, <2>2 DEF StrayArrives, OutboxTypeOK, outboxVars
  <1>8. ASSUME NEW m \in Subjects, Store(m)
        PROVE  \A i \in DOMAIN stream :
                  i \in DOMAIN stream' /\ stream'[i].call = stream[i].call
    BY <1>8, StoreStep
  <1> QED
    BY <1>2, <1>3, <1>4, <1>5, <1>6, <1>7, <1>8 DEF OutboxNext, Subjects

\* The part of TypeOK that only human and finalize steps touch.
LEMMA HumanStep ==
    ASSUME DeliveryTypeOK, HumanNext,
           UNCHANGED <<outboxVars, stream, faults, tasks, dlq, historyVars>>
    PROVE  DeliveryTypeOK' /\ Grows
  <1> USE DEF DeliveryTypeOK
  <1>1. OutboxTypeOK'
    BY DEF OutboxTypeOK, outboxVars
  <1>2. SUFFICES RecordTypeOK' /\ transcript' = transcript /\ ruled' = ruled
                 /\ done' = done /\ handled \subseteq handled'
    BY <1>1, <1>2 DEF Grows, historyVars
  <1>3. ASSUME Act PROVE acts' \in 0..MaxActs
    <2>1. acts \in 0..MaxActs /\ MaxActs \in Nat
      BY RecordAssumption DEF RecordTypeOK
    <2>2. acts < MaxActs /\ acts' = acts + 1
      BY <1>3 DEF Act
    <2> QED
      BY ONLY <2>1, <2>2
  <1>4. ASSUME NEW c \in Calls, ConfirmCall(c)
        PROVE  RecordTypeOK' /\ transcript' = transcript /\ ruled' = ruled
               /\ done' = done /\ handled \subseteq handled'
    <2>1. Corrected(ptp[c]) \in Promises
      BY DEF RecordTypeOK, Promises, Corrected
    <2>2. ptp' = [ptp EXCEPT ![c] = Corrected(ptp[c])]
      BY <1>4 DEF ConfirmCall, RecordTypeOK
    <2>3. ptp' \in [Calls -> Promises]
      BY <2>1, <2>2 DEF RecordTypeOK
    <2> QED
      BY <1>3, <1>4, <2>3 DEF ConfirmCall, RecordTypeOK
  <1>5. ASSUME NEW c \in Calls, NEW k \in Keys, RespondToFlag(c, k)
        PROVE  RecordTypeOK' /\ transcript' = transcript /\ ruled' = ruled
               /\ done' = done /\ handled \subseteq handled'
    <2>1. Answered(flags[c][k]) \in FlagRows
      BY DEF RecordTypeOK, FlagRows, Answered
    <2>2. flags' = [flags EXCEPT ![c][k] = Answered(flags[c][k])]
      BY <1>5 DEF RespondToFlag, RecordTypeOK
    <2>3. flags' \in [Calls -> [Keys -> FlagRows]]
      BY <2>1, <2>2 DEF RecordTypeOK
    <2> QED
      BY <1>3, <1>5, <2>3 DEF RespondToFlag, RecordTypeOK
  <1>6. ASSUME NEW c \in Calls, NEW k \in Keys, NEW s \in Decisions,
               NEW b \in BOOLEAN, UpdateFlag(c, k, s, b)
        PROVE  RecordTypeOK' /\ transcript' = transcript /\ ruled' = ruled
               /\ done' = done /\ handled \subseteq handled'
    <2>1. Reviewed(flags[c][k], s, b) \in FlagRows
      <3>1. flags[c][k] \in FlagRows /\ s \in Statuses \cup {""}
        BY RecordAssumption DEF RecordTypeOK
      <3>2. /\ flags[c][k].status \in Statuses \cup {"none"}
            /\ flags[c][k].trail \in BOOLEAN /\ flags[c][k].answered \in BOOLEAN
        BY <3>1 DEF FlagRows
      <3>3. (IF s = "" THEN flags[c][k].status ELSE s) \in Statuses \cup {"none"}
        BY <3>1, <3>2
      <3>4. (flags[c][k].trail \/ b) \in BOOLEAN
        BY <3>2, Zenon
      <3> QED
        BY <3>2, <3>3, <3>4, Zenon DEF FlagRows, Reviewed
    <2>2. flags' = [flags EXCEPT ![c][k] = Reviewed(flags[c][k], s, b)]
      BY <1>6 DEF UpdateFlag, RecordTypeOK
    <2>3. flags' \in [Calls -> [Keys -> FlagRows]]
      BY <2>1, <2>2 DEF RecordTypeOK
    <2>4. /\ Act /\ handled' = handled \cup {<<c, k>>}
          /\ UNCHANGED <<status, transcript, analysed, ptp, ruled, done>>
      BY <1>6 DEF UpdateFlag
    <2> QED
      BY <1>3, <2>3, <2>4 DEF RecordTypeOK
  <1> QED
    BY <1>4, <1>5, <1>6 DEF HumanNext

\* A delivery that moves on keeps its process, message and number.
SameDelivery(t, u) == u \in Tasks /\ u.msg = t.msg /\ u.n = t.n

MovesTo(t, pc) == \E w : SameDelivery(t, w) /\ w.pc = pc /\ Becomes(t, w)
Moves(t) == \E w : SameDelivery(t, w) /\ Becomes(t, w)

LEMMA MoveFacts ==
    ASSUME DeliveryTypeOK, NEW t \in tasks, NEW w, SameDelivery(t, w), Becomes(t, w)
    PROVE  /\ tasks' \in SUBSET Tasks
           /\ \A u \in tasks' : u \in tasks \/ u = w
           /\ \A u \in tasks : \E v \in tasks' : v.msg = u.msg /\ v.n = u.n
           /\ \A u \in tasks' : u.msg \in DOMAIN stream
  BY DEF DeliveryTypeOK, SameDelivery, Becomes

LEMMA GotoFacts ==
    ASSUME DeliveryTypeOK, NEW t \in tasks, NEW pc \in Steps, Goto(t, pc)
    PROVE  MovesTo(t, pc)
  <1> DEFINE w == [t EXCEPT !.pc = pc, !.found = {}, !.stale = {}]
  <1>1. t \in Tasks
    BY DEF DeliveryTypeOK
  <1>2. w \in Tasks /\ w.msg = t.msg /\ w.n = t.n /\ w.pc = pc
    BY <1>1 DEF Tasks
  <1>3. Becomes(t, w)
    BY DEF Goto
  <1> QED
    BY <1>2, <1>3 DEF SameDelivery, MovesTo

\* Review opens the transaction of save_findings.
LEMMA ReviewMoves ==
    ASSUME DeliveryTypeOK, NEW t \in tasks, NEW found \in Findings, Review(t, found)
    PROVE  \E w : /\ SameDelivery(t, w) /\ Becomes(t, w) /\ w.pc = "saving"
                  /\ w.found = found /\ w.stale = Stale(CallOf(t), found)
  <1> DEFINE w == [t EXCEPT !.pc = "saving", !.found = found,
                            !.stale = Stale(CallOf(t), found)]
  <1>1. t \in Tasks
    BY DEF DeliveryTypeOK
  <1>2. found \in SUBSET Keys /\ Stale(CallOf(t), found) \in SUBSET Keys
    BY DEF Findings, Stale
  <1>3. /\ w \in Tasks /\ w.msg = t.msg /\ w.n = t.n /\ w.pc = "saving"
        /\ w.found = found /\ w.stale = Stale(CallOf(t), found)
    BY <1>1, <1>2 DEF Tasks, Steps, Handling
  <1>4. Becomes(t, w)
    BY DEF Review
  <1> QED
    BY <1>3, <1>4 DEF SameDelivery

\* The call of a delivery past its first step is a call, by the progress it has made.
LEMMA CallFacts ==
    ASSUME DeliveryTypeOK, NEW t \in tasks
    PROVE  t.msg \in DOMAIN stream /\ CallOf(t) \in Subjects /\ t.n \in 1..MaxDeliver
  <1>1. t \in Tasks /\ t.msg \in DOMAIN stream
    BY DEF DeliveryTypeOK
  <1> QED
    BY <1>1, MessageFacts DEF Tasks, CallOf

\* A step of a delivery that writes to the record: the types of what it wrote, given
\* that the stream, the outbox and the human columns stay as they are.
LEMMA RecordStep ==
    ASSUME DeliveryTypeOK, NEW t \in tasks, Moves(t),
           UNCHANGED <<outboxVars, stream, handled, acts, unreported>>,
           overlapped' \in SUBSET Calls, crossed' \in SUBSET (Nat \X (1..MaxDeliver)),
           faults' \in 0..MaxFaults,
           status' \in [Calls -> CallStatuses],
           transcript' \in [Calls -> SUBSET Channels],
           \A c \in Calls : transcript[c] \subseteq transcript'[c],
           analysed' \in SUBSET Calls,
           ptp' \in [Calls -> Promises],
           flags' \in [Calls -> [Keys -> FlagRows]],
           ruled' \in SUBSET Calls, ruled \subseteq ruled',
           done' \in SUBSET Calls, done \subseteq done',
           dlq' \in SUBSET Subjects, dlq \subseteq dlq'
    PROVE  DeliveryTypeOK' /\ Grows
  <1>1. OutboxTypeOK'
    BY DEF DeliveryTypeOK, OutboxTypeOK, outboxVars
  <1>2. RecordTypeOK'
    BY DEF DeliveryTypeOK, RecordTypeOK
  <1>3. tasks' \in SUBSET Tasks /\ \A u \in tasks' : u.msg \in DOMAIN stream
    BY MoveFacts DEF Moves
  <1>4. DeliveryTypeOK'
    BY <1>1, <1>2, <1>3 DEF DeliveryTypeOK
  <1> QED
    BY <1>4 DEF Grows

LEMMA ExtractedType ==
    ASSUME NEW p \in Promises, NEW a \in Amounts \cup {NoAmount}
    PROVE  Extracted(p, a) \in Promises
  BY DEF Promises, Extracted, NoPromise

LEMMA ReconciledType ==
    ASSUME NEW f \in FlagRows, NEW b \in BOOLEAN, NEW d \in BOOLEAN
    PROVE  Reconciled(f, b, d) \in FlagRows
  <1>1. NoFlag \in FlagRows /\ FreshFlag \in FlagRows
    BY DEF NoFlag, FreshFlag, FlagRows, Statuses
  <1> QED
    BY <1>1 DEF Reconciled

\* Every step of a handler keeps the types and takes nothing back.
LEMMA WorkStep ==
    ASSUME DeliveryTypeOK, TaskProgress, NEW t \in tasks, Work(t) \/ Raises(t) \/ AnswerLost(t)
    PROVE  DeliveryTypeOK' /\ Grows
  <1>0. /\ t \in Tasks /\ t.msg \in DOMAIN stream /\ CallOf(t) \in Subjects
        /\ AfterFailure(t) \in Steps
    BY CallFacts DEF DeliveryTypeOK, AfterFailure, Steps, Handling
  <1>1. t.pc \in Handling \ {"start"} => CallOf(t) \in Calls
    BY DEF TaskProgress, Progress
  <1> DEFINE Typed == /\ faults \in 0..MaxFaults
                      /\ status \in [Calls -> CallStatuses]
                      /\ transcript \in [Calls -> SUBSET Channels]
                      /\ analysed \in SUBSET Calls
                      /\ ptp \in [Calls -> Promises]
                      /\ flags \in [Calls -> [Keys -> FlagRows]]
                      /\ ruled \in SUBSET Calls
                      /\ done \in SUBSET Calls
                      /\ dlq \in SUBSET Subjects
                      /\ overlapped \in SUBSET Calls
                      /\ crossed \in SUBSET (Nat \X (1..MaxDeliver))
  <1>2. Typed
    BY DEF DeliveryTypeOK, OutboxTypeOK, RecordTypeOK
  <1>3. ASSUME Fault PROVE faults' \in 0..MaxFaults
    <2>1. MaxFaults \in Nat /\ faults < MaxFaults /\ faults' = faults + 1
      BY <1>3, OutboxAssumption DEF Fault
    <2> QED
      BY ONLY <1>2, <2>1
  <1>move. ASSUME NEW pc \in Steps, Goto(t, pc) PROVE Moves(t)
    BY <1>move, GotoFacts DEF Moves, MovesTo
  <1>4. ASSUME Unprocessable(t) \/ NoAnalysis(t) PROVE DeliveryTypeOK' /\ Grows
    <2>1. Goto(t, "dlq") \/ Goto(t, "findings")
      BY <1>4 DEF Unprocessable, NoAnalysis
    <2>2. UNCHANGED <<outboxVars, stream, recordVars, dlq, historyVars>>
      BY <1>4 DEF Unprocessable, NoAnalysis
    <2>3. faults' \in 0..MaxFaults
      BY <1>2, <1>3, <1>4 DEF Unprocessable, NoAnalysis
    <2> QED
      BY <1>2, <2>1, <2>2, <2>3, <1>move, RecordStep
         DEF Steps, Handling, recordVars, resultVars, historyVars
  <1>5. ASSUME NEW heard \in SUBSET Channels, Transcribe(t, heard)
        PROVE  DeliveryTypeOK' /\ Grows
    <2>1. /\ CallOf(t) \in Calls /\ Goto(t, "analyzing")
          /\ transcript' = [transcript EXCEPT ![CallOf(t)] = transcript[CallOf(t)] \cup heard]
      BY <1>2, <1>5 DEF Transcribe, SaveTranscript
    <2>2. UNCHANGED <<outboxVars, stream, faults, status, analysed, ptp, flags, ruled,
                      done, handled, acts, dlq, historyVars>>
      BY <1>5 DEF Transcribe
    <2>3. /\ transcript' \in [Calls -> SUBSET Channels]
          /\ \A c \in Calls : transcript[c] \subseteq transcript'[c]
      BY <1>2, <2>1
    <2> QED
      BY <1>2, <2>1, <2>2, <2>3, <1>move, RecordStep DEF Steps, Handling, historyVars
  <1>6. ASSUME NothingHeard(t) \/ MarkAnalyzing(t) PROVE DeliveryTypeOK' /\ Grows
    <2>1. CallOf(t) \in Calls
      BY <1>1, <1>6 DEF NothingHeard, MarkAnalyzing, Handling
    <2>2. \E pc \in Steps : Goto(t, pc)
      BY <1>0, <1>6 DEF NothingHeard, MarkAnalyzing, Steps, Handling
    <2>3. status' \in [Calls -> CallStatuses]
      BY <1>2, <1>6, <2>1 DEF NothingHeard, MarkAnalyzing, SetStatus, CallStatuses
    <2>4. UNCHANGED <<outboxVars, stream, faults, resultVars, handled, acts, dlq, historyVars>>
      BY <1>6 DEF NothingHeard, MarkAnalyzing
    <2> QED
      BY <1>2, <2>2, <2>3, <2>4, <1>move, RecordStep DEF resultVars, historyVars
  <1>7. ASSUME NEW a \in Amounts \cup {NoAmount}, Analyse(t, a)
        PROVE  DeliveryTypeOK' /\ Grows
    <2>1. CallOf(t) \in Calls /\ Goto(t, "findings")
      BY <1>1, <1>7 DEF Analyse, Handling
    <2>2. Extracted(ptp[CallOf(t)], a) \in Promises
      BY <1>2, <2>1, ExtractedType
    <2>3. ptp' \in [Calls -> Promises] /\ analysed' \in SUBSET Calls
      BY <1>2, <1>7, <2>1, <2>2 DEF Analyse, SaveAnalysis
    <2>4. UNCHANGED <<outboxVars, stream, faults, status, transcript, flags, ruled, done,
                      handled, acts, dlq, historyVars>>
      BY <1>7 DEF Analyse
    <2> QED
      BY <1>2, <2>1, <2>3, <2>4, <1>move, RecordStep DEF Steps, Handling, historyVars
  <1>8. ASSUME NEW found \in Findings, Review(t, found)
        PROVE  DeliveryTypeOK' /\ Grows
    <2>1. CallOf(t) \in Calls
      BY <1>1, <1>8 DEF Review, Handling
    <2>3. Moves(t)
      BY <1>8, ReviewMoves DEF Moves
    <2>4. overlapped' \in SUBSET Calls /\ crossed' \in SUBSET (Nat \X (1..MaxDeliver))
      <3>1. \A u \in tasks : Name(u) \in Nat \X (1..MaxDeliver)
        BY DEF DeliveryTypeOK, Tasks, Name
      <3>2. {Name(u) : u \in Rivals(t) \cup {t}} \subseteq Nat \X (1..MaxDeliver)
        BY <3>1 DEF Rivals
      <3> QED
        BY <1>2, <1>8, <2>1, <3>2 DEF Review
    <2>5. UNCHANGED <<outboxVars, stream, faults, recordVars, dlq, unreported>>
      BY <1>8 DEF Review
    <2> QED
      BY <1>2, <2>3, <2>4, <2>5, RecordStep DEF recordVars, resultVars
  <1>15. ASSUME CommitFindings(t)
         PROVE  DeliveryTypeOK' /\ Grows
    <2>1. CallOf(t) \in Calls /\ Goto(t, "complete")
      BY <1>1, <1>15 DEF CommitFindings, Handling
    <2>2. [k \in Keys |-> Reconciled(flags[CallOf(t)][k], k \in t.found, k \in t.stale)]
             \in [Keys -> FlagRows]
      <3>1. ASSUME NEW k \in Keys
            PROVE  Reconciled(flags[CallOf(t)][k], k \in t.found, k \in t.stale) \in FlagRows
        <4>1. flags[CallOf(t)][k] \in FlagRows
          BY <1>2, <2>1
        <4>2. (k \in t.found) \in BOOLEAN /\ (k \in t.stale) \in BOOLEAN
          OBVIOUS
        <4> QED
          BY <4>1, <4>2, ReconciledType, Zenon
      <3> QED
        BY <3>1
    <2>3. flags' \in [Calls -> [Keys -> FlagRows]]
          /\ ruled' \in SUBSET Calls /\ ruled \subseteq ruled'
      BY <1>2, <1>15, <2>1, <2>2 DEF CommitFindings, SaveFindings
    <2>4. /\ UNCHANGED <<outboxVars, stream, faults, status, transcript, analysed, ptp, done,
                         handled, acts, dlq, unreported, crossed>>
          /\ overlapped' \in SUBSET Calls
      BY <1>2, <1>15 DEF CommitFindings
    <2> QED
      BY <1>2, <2>1, <2>3, <2>4, <1>move, RecordStep DEF Steps, Handling
  <1>9. ASSUME Complete(t) PROVE DeliveryTypeOK' /\ Grows
    <2>1. CallOf(t) \in Calls /\ Goto(t, "ack")
      BY <1>1, <1>9 DEF Complete, Handling
    <2>2. status' \in [Calls -> CallStatuses]
          /\ done' \in SUBSET Calls /\ done \subseteq done'
      BY <1>2, <1>9, <2>1 DEF Complete, SetStatus, CallStatuses
    <2>3. UNCHANGED <<outboxVars, stream, faults, transcript, analysed, ptp, flags, ruled,
                      handled, acts, dlq, historyVars>>
      BY <1>9 DEF Complete
    <2> QED
      BY <1>2, <2>1, <2>2, <2>3, <1>move, RecordStep DEF Steps, Handling, historyVars
  <1>10. ASSUME Raises(t) PROVE DeliveryTypeOK' /\ Grows
    <2>1. Goto(t, AfterFailure(t)) /\ Fault
          /\ UNCHANGED <<outboxVars, stream, recordVars, dlq, historyVars>>
      BY <1>10 DEF Raises
    <2> QED
      BY <1>0, <1>2, <1>3, <2>1, <1>move, RecordStep DEF recordVars, resultVars, historyVars
  <1>11. ASSUME DeadLetter(t) PROVE DeliveryTypeOK' /\ Grows
    <2>1. Goto(t, "ack") /\ dlq' \in SUBSET Subjects /\ dlq \subseteq dlq'
      BY <1>0, <1>2, <1>11 DEF DeadLetter
    <2>2. UNCHANGED <<outboxVars, stream, faults, recordVars, historyVars>>
      BY <1>11 DEF DeadLetter
    <2> QED
      BY <1>2, <2>1, <2>2, <1>move, RecordStep
         DEF Steps, Handling, recordVars, resultVars, historyVars
  <1>12. ASSUME Finish(t), UNCHANGED <<outboxVars, recordVars, dlq, historyVars>>,
                faults' \in 0..MaxFaults, stream' \in Seq(Messages), DOMAIN stream' = DOMAIN stream,
                \A i \in DOMAIN stream : stream'[i].call = stream[i].call
         PROVE  DeliveryTypeOK' /\ Grows
    <2>1. OutboxTypeOK' /\ RecordTypeOK'
      BY <1>12 DEF DeliveryTypeOK, OutboxTypeOK, RecordTypeOK, outboxVars, recordVars, resultVars
    <2> QED
      BY <1>12, <2>1 DEF DeliveryTypeOK, Finish, Grows, recordVars, resultVars, historyVars
  <1>13. ASSUME Ack(t) \/ Nak(t) PROVE DeliveryTypeOK' /\ Grows
    <2>1. \E v \in {Acked(stream[t.msg]), Returned(stream[t.msg]), stream[t.msg]} :
             stream' = [stream EXCEPT ![t.msg] = v]
      BY <1>13 DEF Ack, Nak
    <2>2. stream' \in Seq(Messages) /\ DOMAIN stream' = DOMAIN stream
          /\ \A i \in DOMAIN stream : stream'[i].call = stream[i].call
      <3>1. stream' = [i \in DOMAIN stream |-> stream'[i]]
        BY <2>1 DEF DeliveryTypeOK, OutboxTypeOK
      <3>2. \A i \in DOMAIN stream : stream'[i] \in Messages /\ stream'[i].call = stream[i].call
        BY <1>0, <2>1, MessageFacts
      <3> QED
        BY <3>1, <3>2, RewriteStep
    <2> QED
      BY <1>2, <1>12, <1>13, <2>2 DEF Ack, Nak
  <1>14. ASSUME AnswerLost(t) PROVE DeliveryTypeOK' /\ Grows
    <2>1. Finish(t) /\ Fault /\ UNCHANGED <<outboxVars, stream, recordVars, dlq, historyVars>>
      BY <1>14 DEF AnswerLost
    <2>2. stream' \in Seq(Messages)
      BY <2>1 DEF DeliveryTypeOK, OutboxTypeOK
    <2> QED
      BY <1>3, <1>12, <2>1, <2>2
  <1> QED
    BY <1>4, <1>5, <1>6, <1>7, <1>8, <1>9, <1>10, <1>11, <1>13, <1>14,
       <1>15 DEF Work

\* The steps of the gateway, the broker and the processes themselves.
LEMMA FetchFacts ==
    ASSUME DeliveryTypeOK, DeliveriesCounted, NEW p \in Procs, Fetch(p)
    PROVE  \E S \in SUBSET {i \in DOMAIN stream : stream[i].state = "ready"} :
              /\ stream' \in Seq(Messages) /\ DOMAIN stream' = DOMAIN stream
              /\ \A i \in DOMAIN stream \ S : stream'[i] = stream[i]
              /\ \A i \in S : /\ stream'[i].call = stream[i].call
                             /\ stream'[i].deliveries = stream[i].deliveries + 1
                             /\ stream'[i].state = "out"
              /\ \A i \in S : \E u \in tasks' : u.msg = i /\ u.n = stream'[i].deliveries
              /\ tasks \subseteq tasks' /\ tasks' \in SUBSET Tasks
              /\ \A u \in tasks' \ tasks : u.pc = "start" /\ u.msg \in S
  <1>1. PICK S \in SUBSET {i \in DOMAIN stream : stream[i].state = "ready"} :
          /\ stream' = [i \in DOMAIN stream |->
                          IF i \in S
                          THEN [stream[i] EXCEPT !.deliveries = stream[i].deliveries + 1,
                                                 !.state = "out"]
                          ELSE stream[i]]
          /\ tasks' = tasks \cup
                {[proc |-> p, msg |-> i, n |-> stream[i].deliveries + 1, pc |-> "start",
                  found |-> {}, stale |-> {}] : i \in S}
    BY DEF Fetch
  <1>2. \A i \in DOMAIN stream : stream[i] \in Messages /\ i \in Nat
    BY MessageFacts DEF DeliveryTypeOK, OutboxTypeOK
  <1>3. \A i \in S : stream[i].deliveries + 1 \in 1..MaxDeliver
    <2> SUFFICES ASSUME NEW i \in S PROVE stream[i].deliveries + 1 \in 1..MaxDeliver
      OBVIOUS
    <2>1. stream[i].deliveries \in 0..MaxDeliver /\ stream[i].deliveries < MaxDeliver
      BY <1>1, MessageFacts DEF DeliveriesCounted, Counted
    <2> QED
      BY <2>1, OutboxAssumption
  <1>4. \A i \in S : /\ stream'[i] \in Messages
                     /\ stream'[i].call = stream[i].call
                     /\ stream'[i].deliveries = stream[i].deliveries + 1
                     /\ stream'[i].state = "out"
    <2> SUFFICES ASSUME NEW i \in S
                 PROVE  /\ stream'[i] \in Messages
                        /\ stream'[i].call = stream[i].call
                        /\ stream'[i].deliveries = stream[i].deliveries + 1
                        /\ stream'[i].state = "out"
      OBVIOUS
    <2>1. stream'[i] = [stream[i] EXCEPT !.deliveries = stream[i].deliveries + 1,
                                         !.state = "out"]
      BY <1>1
    <2> DEFINE n == stream[i].deliveries + 1
    <2>2. stream[i] \in Messages /\ n \in 0..MaxDeliver
      <3>1. stream[i] \in Messages
        BY <1>1, <1>2
      <3>2. n \in 1..MaxDeliver
        BY <1>3
      <3>3. n \in 0..MaxDeliver
        BY ONLY <3>2
      <3> QED
        BY <3>1, <3>3
    <2>3. stream'[i] = [stream[i] EXCEPT !.deliveries = n, !.state = "out"]
      BY <2>1
    <2>4. "out" \in MessageStates
      BY DEF MessageStates
    <2>5. /\ stream'[i] \in Messages
          /\ stream'[i].call = stream[i].call
          /\ stream'[i].deliveries = n
          /\ stream'[i].state = "out"
      <3> HIDE DEF n
      <3> QED
        BY <2>2, <2>3, <2>4 DEF Messages
    <2> QED
      BY <2>5
  <1>5. \A i \in DOMAIN stream \ S : stream'[i] = stream[i]
    BY <1>1
  <1>6. stream' \in Seq(Messages) /\ DOMAIN stream' = DOMAIN stream
    <2>1. stream' = [i \in DOMAIN stream |-> stream'[i]]
      BY <1>1
    <2>2. \A i \in DOMAIN stream : stream'[i] \in Messages
      BY <1>2, <1>4, <1>5
    <2> QED
      BY <2>1, <2>2, RewriteStep
  <1>7. \A u \in tasks' : \/ u \in tasks
                          \/ \E i \in S : u = [proc |-> p, msg |-> i,
                                 n |-> stream[i].deliveries + 1, pc |-> "start",
                                 found |-> {}, stale |-> {}]
    BY <1>1
  <1>8. ASSUME NEW i \in S
        PROVE  /\ [proc |-> p, msg |-> i, n |-> stream[i].deliveries + 1, pc |-> "start",
                   found |-> {}, stale |-> {}] \in Tasks
               /\ [proc |-> p, msg |-> i, n |-> stream[i].deliveries + 1, pc |-> "start",
                   found |-> {}, stale |-> {}] \in tasks'
    BY <1>1, <1>2, <1>3 DEF Tasks, Steps, Handling
  <1>9. tasks \subseteq tasks' /\ tasks' \in SUBSET Tasks
    BY <1>1, <1>7, <1>8 DEF DeliveryTypeOK
  <1>10. \A u \in tasks' \ tasks : u.pc = "start" /\ u.msg \in S
    BY <1>7
  <1>11. \A i \in S : \E u \in tasks' : u.msg = i /\ u.n = stream'[i].deliveries
    BY <1>4, <1>8
  <1> QED
    BY <1>1, <1>4, <1>5, <1>6, <1>9, <1>10, <1>11

LEMMA ProcessStep ==
    ASSUME DeliveryTypeOK, DeliveriesCounted,
           \/ \E c \in Calls : FinishCall(c)
           \/ \E p \in Procs : Fetch(p) \/ ProcessDies(p)
           \/ \E i \in DOMAIN stream : AckWaitExpires(i)
    PROVE  DeliveryTypeOK' /\ Grows
  <1>1. ASSUME NEW c \in Calls, FinishCall(c) PROVE DeliveryTypeOK' /\ Grows
    <2>1. OutboxTypeOK'
      BY <1>1 DEF FinishCall, DeliveryTypeOK, OutboxTypeOK, RowStates
    <2>2. RecordTypeOK'
      BY <1>1 DEF FinishCall, SetStatus, DeliveryTypeOK, RecordTypeOK, CallStatuses, resultVars
    <2> QED
      BY <1>1, <2>1, <2>2 DEF FinishCall, DeliveryTypeOK, Grows, resultVars, historyVars
  <1>2. ASSUME UNCHANGED <<outboxVars, recordVars, dlq>>
        PROVE  RecordTypeOK' /\ row' = row /\ held' = held /\ sending' = sending
               /\ transcript' = transcript /\ ruled' = ruled /\ done' = done
               /\ handled' = handled /\ dlq' = dlq
    BY <1>2 DEF DeliveryTypeOK, RecordTypeOK, outboxVars, recordVars, resultVars
  <1>3. ASSUME NEW p \in Procs, Fetch(p) PROVE DeliveryTypeOK' /\ Grows
    <2>1. UNCHANGED <<outboxVars, faults, recordVars, dlq, historyVars>>
      BY <1>3 DEF Fetch
    <2>2. /\ stream' \in Seq(Messages) /\ DOMAIN stream' = DOMAIN stream
          /\ \A i \in DOMAIN stream : stream'[i].call = stream[i].call
          /\ tasks' \in SUBSET Tasks /\ \A u \in tasks' : u.msg \in DOMAIN stream
      BY <1>3, FetchFacts DEF DeliveryTypeOK
    <2>3. OutboxTypeOK'
      BY <1>2, <2>1, <2>2 DEF DeliveryTypeOK, OutboxTypeOK
    <2> QED
      BY <1>2, <2>1, <2>2, <2>3 DEF DeliveryTypeOK, Grows, historyVars
  <1>4. ASSUME NEW p \in Procs, ProcessDies(p) PROVE DeliveryTypeOK' /\ Grows
    <2>1. /\ UNCHANGED <<outboxVars, stream, recordVars, dlq, overlapped, crossed>> /\ Fault
          /\ tasks' \subseteq tasks
          /\ unreported' = unreported \cup
                {t.msg : t \in {u \in {w \in tasks : w.proc = p} :
                                    u.n = MaxDeliver /\ u.pc # "ack"}}
      BY <1>4 DEF ProcessDies
    <2>2. unreported \subseteq unreported' /\ unreported' \subseteq DOMAIN stream
      BY <2>1 DEF DeliveryTypeOK
    <2>3. faults' \in 0..MaxFaults
      <3>1. faults \in 0..MaxFaults /\ MaxFaults \in Nat
        BY OutboxAssumption DEF DeliveryTypeOK, OutboxTypeOK
      <3>2. faults < MaxFaults /\ faults' = faults + 1
        BY <2>1 DEF Fault
      <3> QED
        BY ONLY <3>1, <3>2
    <2>4. OutboxTypeOK'
      BY <1>2, <2>1, <2>3 DEF DeliveryTypeOK, OutboxTypeOK
    <2> QED
      BY <1>2, <2>1, <2>2, <2>4 DEF DeliveryTypeOK, Grows, historyVars
  <1>5. ASSUME NEW i \in DOMAIN stream, AckWaitExpires(i) PROVE DeliveryTypeOK' /\ Grows
    <2>1. /\ UNCHANGED <<outboxVars, faults, recordVars, tasks, dlq, historyVars>>
          /\ stream' = [stream EXCEPT ![i] = Returned(stream[i])]
      BY <1>5 DEF AckWaitExpires
    <2>2. \A j \in DOMAIN stream : stream'[j] \in Messages /\ stream'[j].call = stream[j].call
      BY <2>1, MessageFacts
    <2>3. stream' \in Seq(Messages) /\ DOMAIN stream' = DOMAIN stream
      BY <2>1, <2>2, RewriteStep
    <2>4. OutboxTypeOK'
      BY <1>2, <2>1, <2>3 DEF DeliveryTypeOK, OutboxTypeOK
    <2> QED
      BY <1>2, <2>1, <2>2, <2>3, <2>4 DEF DeliveryTypeOK, Grows, historyVars
  <1> QED
    BY <1>1, <1>3, <1>4, <1>5

\* Type correctness is inductive together with what deliveries have counted and done.
LEMMA TypeStep ==
    ASSUME DeliveryTypeOK, TaskProgress, DeliveriesCounted, [Next]_vars
    PROVE  DeliveryTypeOK' /\ Grows
  <1>1. CASE UNCHANGED vars
    BY <1>1 DEF vars, outboxVars, recordVars, resultVars, DeliveryTypeOK, OutboxTypeOK,
                RecordTypeOK, Grows, historyVars
  <1>2. CASE Next
    BY <1>2, OutboxStep, HumanStep, ProcessStep, WorkStep DEF Next
  <1> QED
    BY <1>1, <1>2

----------------------------------------------------------------------------
\* Only the drainers and other publishers add messages.
LEMMA SameMessages ==
    ASSUME DeliveryTypeOK, DeliveriesCounted,
           \/ \E c \in Calls : FinishCall(c)
           \/ HumanNext /\ UNCHANGED <<outboxVars, stream, faults, tasks, dlq, historyVars>>
           \/ \E p \in Procs : Fetch(p) \/ ProcessDies(p)
           \/ \E i \in DOMAIN stream : AckWaitExpires(i)
           \/ \E t \in tasks : Work(t) \/ Raises(t) \/ AnswerLost(t)
    PROVE  DOMAIN stream' = DOMAIN stream
  <1>1. ASSUME NEW p \in Procs, Fetch(p) PROVE DOMAIN stream' = DOMAIN stream
    BY <1>1, FetchFacts
  <1>2. ASSUME NEW t \in tasks, Work(t) \/ Raises(t) \/ AnswerLost(t)
        PROVE  DOMAIN stream' = DOMAIN stream
    <2>1. CASE Ack(t) \/ Nak(t)
      BY <2>1 DEF Ack, Nak, DeliveryTypeOK, OutboxTypeOK
    <2>2. CASE ~(Ack(t) \/ Nak(t))
      BY <1>2, <2>2 DEF Work, Unprocessable, Transcribe, NothingHeard, MarkAnalyzing, Analyse,
           NoAnalysis, Review, CommitFindings, Complete, DeadLetter, Raises, AnswerLost
    <2> QED
      BY <2>1, <2>2
  <1>3. ASSUME NEW i \in DOMAIN stream, AckWaitExpires(i) PROVE DOMAIN stream' = DOMAIN stream
    BY <1>3 DEF AckWaitExpires, DeliveryTypeOK, OutboxTypeOK
  <1> QED
    BY <1>1, <1>2, <1>3 DEF FinishCall, ProcessDies

\* Outside the outbox, RowsOwed can only be disturbed by a call's status.
LEMMA RowsKept ==
    ASSUME RowsOwed, Grows, UNCHANGED outboxVars, DOMAIN stream' = DOMAIN stream,
           \A c \in Calls : status'[c] # "ingesting" =>
                               status[c] # "ingesting" \/ Copies(c) # {}
    PROVE  RowsOwed'
  <1>1. \A m : Copies(m)' = Copies(m)
    BY DEF Copies, Grows
  <1>2. row' = row /\ held' = held /\ sending' = sending
    BY DEF outboxVars
  <1> QED
    BY <1>1, <1>2 DEF RowsOwed

LEMMA RowsStep ==
    ASSUME DeliveryInv, [Next]_vars
    PROVE  RowsOwed'
  <1>0. DeliveryTypeOK /\ RowsOwed /\ Grows
    BY TypeStep DEF DeliveryInv
  <1>1. CASE UNCHANGED vars
    BY <1>0, <1>1, RowsKept DEF vars, recordVars, outboxVars
  <1>2. ASSUME NEW c \in Calls, FinishCall(c) PROVE RowsOwed'
    <2>1. /\ row' = [row EXCEPT ![c] = "due"] /\ status' = [status EXCEPT ![c] = "transcribing"]
          /\ held' = held /\ sending' = sending /\ stream' = stream
      BY <1>2 DEF FinishCall, SetStatus
    <2>2. \A m : Copies(m)' = Copies(m)
      BY <2>1 DEF Copies
    <2>3. row \in [Calls -> RowStates] /\ status \in [Calls -> CallStatuses]
          /\ held \in [Gateways -> SUBSET Calls]
      BY <1>0 DEF DeliveryTypeOK, OutboxTypeOK, RecordTypeOK
    <2> QED
      BY <1>0, <2>1, <2>2, <2>3 DEF RowsOwed
  <1>3. ASSUME OutboxNext, UNCHANGED <<recordVars, tasks, dlq, historyVars>> PROVE RowsOwed'
    <2>0. /\ status' = status /\ row \in [Calls -> RowStates]
          /\ held \in [Gateways -> SUBSET Calls] /\ sending \in [Gateways -> Calls \cup {NoCall}]
      BY <1>0, <1>3 DEF recordVars, DeliveryTypeOK, OutboxTypeOK
    <2>1. ASSUME stream' = stream PROVE \A m : Copies(m)' = Copies(m)
      BY <2>1 DEF Copies
    <2>2. ASSUME NEW m \in Subjects, Store(m)
          PROVE  /\ Copies(m)' # {}
                 /\ \A k : Copies(k) # {} => Copies(k)' # {}
                 /\ \A k : k # m /\ Copies(k)' # {} => Copies(k) # {}
      BY <1>0, <2>2, StoreStep DEF Copies
    <2>3. ASSUME NEW g \in Gateways, Claim(g) PROVE RowsOwed'
      <3>1. PICK S \in SUBSET {c \in Calls : row[c] = "due"} :
               /\ row' = [c \in Calls |-> IF c \in S THEN "waiting" ELSE row[c]]
               /\ held' = [held EXCEPT ![g] = S]
        BY <2>3 DEF Claim
      <3>2. sending' = sending /\ stream' = stream
        BY <2>3 DEF Claim
      <3> QED
        BY <1>0, <2>0, <2>1, <3>1, <3>2 DEF RowsOwed
    <2>4. ASSUME NEW g \in Gateways, MarkPublished(g) PROVE RowsOwed'
      BY <1>0, <2>0, <2>1, <2>4 DEF MarkPublished, RowsOwed
    <2>5. ASSUME NEW g \in Gateways, MarkFails(g) \/ GatewayStops(g) PROVE RowsOwed'
      BY <1>0, <2>0, <2>1, <2>5 DEF MarkFails, GatewayStops, RowsOwed
    <2>6. ASSUME NEW g \in Gateways, NEW c \in Calls, Publish(g, c) PROVE RowsOwed'
      BY <1>0, <2>0, <2>2, <2>6 DEF Publish, RowsOwed, Subjects
    <2>7. ASSUME NEW g \in Gateways, NEW c \in Calls, PublishFails(g, c) PROVE RowsOwed'
      <3>1. /\ c \in held[g] /\ held' = [held EXCEPT ![g] = held[g] \ {c}]
            /\ row' = row /\ sending' = sending
        BY <2>7 DEF PublishFails
      <3>2. CASE Store(c)
        BY <1>0, <2>0, <2>2, <3>1, <3>2 DEF RowsOwed, Subjects
      <3>3. CASE stream' = stream
        BY <1>0, <2>0, <2>1, <3>1, <3>3 DEF RowsOwed
      <3> QED
        BY <2>7, <3>2, <3>3 DEF PublishFails
    <2>8. ASSUME NEW c \in Calls, BackoffEnds(c) PROVE RowsOwed'
      BY <1>0, <2>0, <2>1, <2>8 DEF BackoffEnds, RowsOwed
    <2>9. ASSUME NEW m \in Strays, StrayArrives(m) PROVE RowsOwed'
      <3>1. m \in Subjects /\ m \notin Calls /\ Store(m)
            /\ row' = row /\ held' = held /\ sending' = sending
        BY <2>9, OutboxAssumption DEF StrayArrives, outboxVars, Subjects
      <3> QED
        BY <1>0, <2>0, <2>2, <3>1 DEF RowsOwed
    <2> QED
      BY <1>3, <2>3, <2>4, <2>5, <2>6, <2>7, <2>8, <2>9 DEF OutboxNext
  <1>4. ASSUME HumanNext, UNCHANGED <<outboxVars, stream, faults, tasks, dlq, historyVars>>
        PROVE  RowsOwed'
    <2>1. status' = status
      BY <1>4 DEF HumanNext, ConfirmCall, RespondToFlag, UpdateFlag
    <2> QED
      BY <1>0, <1>4, <2>1, RowsKept
  <1>5. ASSUME NEW p \in Procs, Fetch(p) \/ ProcessDies(p) PROVE RowsOwed'
    <2>1. UNCHANGED outboxVars /\ status' = status
      BY <1>5 DEF Fetch, ProcessDies, recordVars
    <2> QED
      BY <1>0, <1>5, <2>1, SameMessages, RowsKept DEF DeliveryInv
  <1>6. ASSUME NEW i \in DOMAIN stream, AckWaitExpires(i) PROVE RowsOwed'
    <2>1. UNCHANGED outboxVars /\ status' = status
      BY <1>6 DEF AckWaitExpires, recordVars
    <2> QED
      BY <1>0, <1>6, <2>1, SameMessages, RowsKept DEF DeliveryInv
  <1>7. ASSUME NEW t \in tasks, Work(t) \/ Raises(t) \/ AnswerLost(t) PROVE RowsOwed'
    <2>1. UNCHANGED outboxVars
      BY <1>7 DEF Work, Unprocessable, Transcribe, NothingHeard, MarkAnalyzing, Analyse,
           NoAnalysis, Review, CommitFindings, Complete, DeadLetter, Raises, AnswerLost, Ack, Nak
    <2>2. status' = status \/ \E s : status' = [status EXCEPT ![CallOf(t)] = s]
      BY <1>7 DEF Work, Unprocessable, Transcribe, NothingHeard, MarkAnalyzing, Analyse,
           NoAnalysis, Review, CommitFindings, Complete, DeadLetter, Raises, AnswerLost, Ack, Nak, SetStatus,
           recordVars
    <2>3. Copies(CallOf(t)) # {}
      BY <1>0, CallFacts DEF Copies, CallOf
    <2>4. \A c \in Calls : status'[c] # "ingesting" =>
                                status[c] # "ingesting" \/ Copies(c) # {}
      BY <1>0, <2>2, <2>3 DEF DeliveryTypeOK, RecordTypeOK
    <2> QED
      BY <1>0, <1>7, <2>1, <2>4, SameMessages, RowsKept DEF DeliveryInv
  <1> QED
    BY <1>1, <1>2, <1>3, <1>4, <1>5, <1>6, <1>7 DEF Next

----------------------------------------------------------------------------
\* A delivery that does not move keeps what it has made durable.
LEMMA ProgressStays ==
    ASSUME DeliveryTypeOK, Grows, NEW t \in tasks, Progress(t)
    PROVE  Progress(t)'
  <1>1. t.msg \in DOMAIN stream /\ CallOf(t)' = CallOf(t)
    BY CallFacts DEF Grows, CallOf
  <1>2. Settled(CallOf(t)) => Settled(CallOf(t))'
    BY <1>1 DEF Settled, Grows, DeliveryTypeOK, RecordTypeOK
  <1>3. CallOf(t) \in Calls /\ transcript[CallOf(t)] # {} => transcript'[CallOf(t)] # {}
    BY DEF Grows
  <1>4. CallOf(t) \in ruled => CallOf(t) \in ruled'
    BY DEF Grows
  <1>5. (t.pc \in Handling \ {"start"}
            => CallOf(t)' \in Calls /\ transcript'[CallOf(t)'] # {})
    BY <1>1, <1>3 DEF Progress
  <1>6. t.pc = "complete" => CallOf(t)' \in ruled'
    BY <1>1, <1>4 DEF Progress
  <1>7. t.pc = "ack" => Settled(CallOf(t))'
    BY <1>1, <1>2 DEF Progress
  <1> QED
    BY <1>5, <1>6, <1>7 DEF Progress

\* What a delivery that moves must have made durable by this very step.
LEMMA ProgressMoves ==
    ASSUME DeliveryTypeOK, TaskProgress, Grows, DOMAIN stream' = DOMAIN stream,
           NEW t \in tasks, NEW pc \in Steps, MovesTo(t, pc),
           pc \in Handling \ {"start"} =>
               CallOf(t) \in Calls /\ transcript'[CallOf(t)] # {},
           pc = "complete" => CallOf(t) \in ruled',
           pc = "ack" => \/ CallOf(t) \in dlq'
                         \/ /\ CallOf(t) \in done' /\ CallOf(t) \in ruled'
                            /\ transcript'[CallOf(t)] # {},
           pc = "nak" => t.n < MaxDeliver
    PROVE  TaskProgress'
  <1> SUFFICES ASSUME NEW u \in tasks' PROVE Progress(u)'
    BY DEF TaskProgress
  <1>0. PICK w : SameDelivery(t, w) /\ w.pc = pc /\ Becomes(t, w)
    BY DEF MovesTo
  <1>1. CASE u \in tasks
    BY <1>1, ProgressStays DEF TaskProgress
  <1>2. CASE u = w
    <2>0. u.msg = t.msg /\ u.n = t.n /\ u.pc = pc
      BY <1>0, <1>2 DEF SameDelivery
    <2>1. CallOf(u)' = CallOf(t)
      BY <2>0, CallFacts DEF CallOf, Grows
    <2>2. pc = "ack" => Settled(CallOf(u))'
      BY <2>1 DEF Settled
    <2> QED
      BY <2>0, <2>1, <2>2 DEF Progress
  <1> QED
    BY <1>0, <1>1, <1>2, MoveFacts

\* TaskProgress: every step of a delivery leaves the record its next step relies on.
LEMMA ProgressStep ==
    ASSUME DeliveryInv, [Next]_vars
    PROVE  TaskProgress'
  <1>0. DeliveryTypeOK /\ TaskProgress /\ DeliveriesCounted /\ Grows
    BY TypeStep DEF DeliveryInv
  <1>1. ASSUME tasks' \subseteq tasks PROVE TaskProgress'
    BY <1>0, <1>1, ProgressStays DEF TaskProgress
  <1>2. ASSUME NEW p \in Procs, Fetch(p) PROVE TaskProgress'
    <2> SUFFICES ASSUME NEW u \in tasks' PROVE Progress(u)'
      BY DEF TaskProgress
    <2>1. CASE u \in tasks
      BY <1>0, <2>1, ProgressStays DEF TaskProgress
    <2>2. CASE u \notin tasks
      <3>1. u.pc = "start"
        BY <1>0, <1>2, <2>2, FetchFacts
      <3> QED
        BY <3>1 DEF Progress, Handling
    <2> QED
      BY <2>1, <2>2
  <1>3. ASSUME NEW t \in tasks, Work(t) \/ Raises(t) \/ AnswerLost(t) PROVE TaskProgress'
    <2>0. DOMAIN stream' = DOMAIN stream
      BY <1>0, <1>3, SameMessages
    <2>1. Progress(t) /\ t.n \in 1..MaxDeliver /\ MaxDeliver \in Nat
          /\ transcript \in [Calls -> SUBSET Channels]
      BY <1>0, CallFacts, OutboxAssumption DEF TaskProgress, DeliveryTypeOK, RecordTypeOK
    <2>2. /\ AfterFailure(t) \in {"dlq", "nak"}
          /\ AfterFailure(t) = "nak" => t.n < MaxDeliver
      BY <2>1 DEF AfterFailure
    <2>3. ASSUME NothingHeard(t) \/ Raises(t) PROVE TaskProgress'
      <3>1. Goto(t, AfterFailure(t))
        BY <2>3 DEF NothingHeard, Raises
      <3> QED
        BY <1>0, <2>0, <2>2, <3>1, GotoFacts, ProgressMoves DEF Steps, Handling
    <2>4. ASSUME Unprocessable(t) PROVE TaskProgress'
      <3>1. Goto(t, "dlq")
        BY <2>4 DEF Unprocessable
      <3> QED
        BY <1>0, <2>0, <3>1, GotoFacts, ProgressMoves DEF Steps, Handling
    <2>5. ASSUME NEW heard \in SUBSET Channels, Transcribe(t, heard) PROVE TaskProgress'
      <3>1. Goto(t, "analyzing") /\ CallOf(t) \in Calls /\ transcript'[CallOf(t)] # {}
        BY <2>1, <2>5 DEF Transcribe, SaveTranscript
      <3> QED
        BY <1>0, <2>0, <3>1, GotoFacts, ProgressMoves DEF Steps, Handling
    <2>6. ASSUME MarkAnalyzing(t) PROVE TaskProgress'
      <3>1. /\ Goto(t, "analyse") /\ CallOf(t) \in Calls /\ transcript' = transcript
            /\ transcript[CallOf(t)] # {}
        BY <2>1, <2>6 DEF MarkAnalyzing, Progress, Handling, resultVars
      <3> QED
        BY <1>0, <2>0, <3>1, GotoFacts, ProgressMoves DEF Steps, Handling
    <2>7. ASSUME NoAnalysis(t) \/ \E a \in Amounts \cup {NoAmount} : Analyse(t, a)
          PROVE  TaskProgress'
      <3>1. /\ Goto(t, "findings") /\ CallOf(t) \in Calls /\ transcript' = transcript
            /\ transcript[CallOf(t)] # {}
        BY <2>1, <2>7 DEF NoAnalysis, Analyse, Progress, Handling, recordVars, resultVars
      <3> QED
        BY <1>0, <2>0, <3>1, GotoFacts, ProgressMoves DEF Steps, Handling
    <2>8. ASSUME NEW found \in Findings, Review(t, found) PROVE TaskProgress'
      <3>1. /\ CallOf(t) \in Calls /\ transcript' = transcript
            /\ transcript[CallOf(t)] # {}
        BY <2>1, <2>8 DEF Review, Progress, Handling, recordVars, resultVars
      <3>2. MovesTo(t, "saving")
        BY <1>0, <2>8, ReviewMoves DEF MovesTo
      <3> QED
        BY <1>0, <2>0, <3>1, <3>2, ProgressMoves DEF Steps, Handling
    <2>12. ASSUME CommitFindings(t) PROVE TaskProgress'
      <3>1. /\ Goto(t, "complete") /\ CallOf(t) \in Calls /\ transcript' = transcript
            /\ transcript[CallOf(t)] # {} /\ CallOf(t) \in ruled'
        BY <2>1, <2>12 DEF CommitFindings, SaveFindings, Progress, Handling
      <3> QED
        BY <1>0, <2>0, <3>1, GotoFacts, ProgressMoves DEF Steps, Handling
    <2>9. ASSUME Complete(t) PROVE TaskProgress'
      <3>1. /\ Goto(t, "ack") /\ CallOf(t) \in Calls /\ transcript' = transcript
            /\ transcript[CallOf(t)] # {} /\ ruled' = ruled /\ CallOf(t) \in ruled
            /\ CallOf(t) \in done'
        BY <2>1, <2>9 DEF Complete, Progress, Handling
      <3> QED
        BY <1>0, <2>0, <3>1, GotoFacts, ProgressMoves DEF Steps, Handling
    <2>10. ASSUME DeadLetter(t) PROVE TaskProgress'
      <3>1. Goto(t, "ack") /\ CallOf(t) \in dlq'
        BY <2>10 DEF DeadLetter
      <3> QED
        BY <1>0, <2>0, <3>1, GotoFacts, ProgressMoves DEF Steps, Handling
    <2>11. ASSUME Ack(t) \/ Nak(t) \/ AnswerLost(t) PROVE TaskProgress'
      BY <1>1, <2>11 DEF Ack, Nak, AnswerLost, Finish
    <2> QED
      BY <1>3, <2>3, <2>4, <2>5, <2>6, <2>7, <2>8, <2>9, <2>10, <2>11, <2>12
         DEF Work
  <1> QED
    BY <1>1, <1>2, <1>3 DEF Next, FinishCall, ProcessDies, AckWaitExpires, vars

----------------------------------------------------------------------------
\* An accounted message stays accounted unless its last delivery ends.
LEMMA AccountedStays ==
    ASSUME DeliveryTypeOK, Grows, NEW i \in DOMAIN stream, Accounted(i),
           \A u \in tasks : u.msg = i /\ u.n = MaxDeliver =>
               \/ \E w \in tasks' : w.msg = i /\ w.n = MaxDeliver
               \/ Settled(stream[i].call)
               \/ i \in unreported'
    PROVE  Accounted(i)'
  <1>1. stream'[i].call = stream[i].call /\ unreported \subseteq unreported'
    BY DEF Grows
  <1>2. Settled(stream[i].call) => Settled(stream[i].call)'
    BY <1>1 DEF Settled, Grows, DeliveryTypeOK, RecordTypeOK
  <1> QED
    BY <1>1, <1>2 DEF Accounted

\* The same for what is counted, while the message itself does not change.
LEMMA CountedStays ==
    ASSUME DeliveryTypeOK, Grows, NEW i \in DOMAIN stream, Counted(i),
           stream'[i] = stream[i],
           \A u \in tasks : u.msg = i /\ u.n = MaxDeliver =>
               \/ \E w \in tasks' : w.msg = i /\ w.n = MaxDeliver
               \/ Settled(stream[i].call)
               \/ i \in unreported'
    PROVE  Counted(i)'
  BY AccountedStays DEF Counted

\* A message that is returned was out, and its last delivery is still accounted for.
LEMMA CountedReturned ==
    ASSUME DeliveryTypeOK, Grows, NEW i \in DOMAIN stream, Counted(i),
           stream'[i] = Returned(stream[i]), stream[i].state = "out",
           \A u \in tasks : u.msg = i /\ u.n = MaxDeliver =>
               \E w \in tasks' : w.msg = i /\ w.n = MaxDeliver
    PROVE  Counted(i)'
  <1>1. stream[i].deliveries = MaxDeliver => Accounted(i)'
    BY AccountedStays DEF Counted
  <1>2. /\ stream'[i].deliveries = stream[i].deliveries
        /\ stream'[i].state = IF stream[i].deliveries < MaxDeliver THEN "ready" ELSE "dropped"
        /\ stream[i].deliveries \in 0..MaxDeliver /\ MaxDeliver \in Nat
    BY MessageFacts, OutboxAssumption
  <1> QED
    BY <1>1, <1>2 DEF Counted

\* DeliveriesCounted: the broker's count and the deliveries in hand agree.
LEMMA CountStep ==
    ASSUME DeliveryInv, [Next]_vars
    PROVE  DeliveriesCounted'
  <1>0. DeliveryTypeOK /\ TaskProgress /\ DeliveriesCounted /\ Grows
    BY TypeStep DEF DeliveryInv
  <1>1. \A i \in DOMAIN stream : Counted(i)
    BY <1>0 DEF DeliveriesCounted
  <1>2. ASSUME stream' = stream,
               \A u \in tasks : u.n = MaxDeliver =>
                   \/ \E w \in tasks' : w.msg = u.msg /\ w.n = MaxDeliver
                   \/ Settled(CallOf(u))
                   \/ u.msg \in unreported'
        PROVE  DeliveriesCounted'
    <2> SUFFICES ASSUME NEW i \in DOMAIN stream' PROVE Counted(i)'
      BY DEF DeliveriesCounted
    <2>1. i \in DOMAIN stream /\ stream'[i] = stream[i] /\ Counted(i)
      BY <1>1, <1>2
    <2>2. \A u \in tasks : u.msg = i /\ u.n = MaxDeliver =>
             \/ \E w \in tasks' : w.msg = i /\ w.n = MaxDeliver
             \/ Settled(stream[i].call)
             \/ i \in unreported'
      BY <1>2 DEF CallOf
    <2> QED
      BY <1>0, <2>1, <2>2, CountedStays
  <1>3. ASSUME stream' = stream, tasks' = tasks PROVE DeliveriesCounted'
    BY <1>2, <1>3
  <1>4. ASSUME NEW m \in Subjects, Store(m), tasks' = tasks PROVE DeliveriesCounted'
    <2> SUFFICES ASSUME NEW i \in DOMAIN stream' PROVE Counted(i)'
      BY DEF DeliveriesCounted
    <2>1. CASE i \in DOMAIN stream
      <3>1. stream'[i] = stream[i] /\ Counted(i)
        BY <1>0, <1>1, <1>4, <2>1, StoreStep
      <3> QED
        BY <1>0, <1>4, <2>1, <3>1, CountedStays
    <2>2. CASE i \notin DOMAIN stream
      <3>1. stream'[i].deliveries = 0 /\ stream'[i].state = "ready"
        BY <1>0, <1>4, <2>2, StoreStep
      <3>2. 0 < MaxDeliver
        BY OutboxAssumption
      <3> QED
        BY <3>1, <3>2 DEF Counted
    <2> QED
      BY <2>1, <2>2
  <1>5. ASSUME OutboxNext, tasks' = tasks PROVE DeliveriesCounted'
    <2>1. stream' = stream \/ \E m \in Subjects : Store(m)
      BY <1>5 DEF OutboxNext, Claim, MarkPublished, MarkFails, GatewayStops, Publish, PublishFails,
           BackoffEnds, StrayArrives, Subjects
    <2> QED
      BY <1>3, <1>4, <1>5, <2>1
  <1>6. ASSUME NEW p \in Procs, Fetch(p) PROVE DeliveriesCounted'
    <2>1. PICK S \in SUBSET {i \in DOMAIN stream : stream[i].state = "ready"} :
              /\ DOMAIN stream' = DOMAIN stream
              /\ \A i \in DOMAIN stream \ S : stream'[i] = stream[i]
              /\ \A i \in S : stream'[i].state = "out"
              /\ \A i \in S : \E u \in tasks' : u.msg = i /\ u.n = stream'[i].deliveries
              /\ tasks \subseteq tasks'
      BY <1>0, <1>6, FetchFacts
    <2> SUFFICES ASSUME NEW i \in DOMAIN stream' PROVE Counted(i)'
      BY DEF DeliveriesCounted
    <2>2. CASE i \in S
      <3>1. stream'[i].state = "out" /\ (stream'[i].deliveries = MaxDeliver => Accounted(i)')
        BY <2>1, <2>2 DEF Accounted
      <3> QED
        BY <3>1 DEF Counted
    <2>3. CASE i \notin S
      <3>1. i \in DOMAIN stream /\ stream'[i] = stream[i] /\ Counted(i)
        BY <1>1, <2>1, <2>3
      <3> QED
        BY <1>0, <2>1, <3>1, CountedStays
    <2> QED
      BY <2>2, <2>3
  <1>7. ASSUME NEW p \in Procs, ProcessDies(p) PROVE DeliveriesCounted'
    <2>1. ASSUME NEW u \in tasks, u.n = MaxDeliver
          PROVE  u \in tasks' \/ Settled(CallOf(u)) \/ u.msg \in unreported'
      <3>1. u.pc = "ack" => Settled(CallOf(u))
        BY <1>0 DEF TaskProgress, Progress
      <3>2. u.proc = p /\ u.pc # "ack" => u.msg \in unreported'
        BY <1>7, <2>1 DEF ProcessDies
      <3>3. u.proc # p => u \in tasks'
        BY <1>7 DEF ProcessDies
      <3> QED
        BY <3>1, <3>2, <3>3
    <2>2. stream' = stream
      BY <1>7 DEF ProcessDies
    <2> QED
      BY <1>2, <2>1, <2>2
  <1>8. ASSUME NEW i \in DOMAIN stream, AckWaitExpires(i) PROVE DeliveriesCounted'
    <2>1. /\ stream[i].state = "out" /\ tasks' = tasks
          /\ stream' = [stream EXCEPT ![i] = Returned(stream[i])]
          /\ DOMAIN stream' = DOMAIN stream
      BY <1>0, <1>8, SameMessages DEF AckWaitExpires
    <2> SUFFICES ASSUME NEW j \in DOMAIN stream' PROVE Counted(j)'
      BY DEF DeliveriesCounted
    <2>2. CASE j = i
      <3>1. stream'[j] = Returned(stream[j]) /\ j \in DOMAIN stream /\ stream[j].state = "out"
        BY <2>1, <2>2
      <3> QED
        BY <1>0, <1>1, <2>1, <3>1, CountedReturned
    <2>3. CASE j # i
      <3>1. stream'[j] = stream[j] /\ j \in DOMAIN stream
        BY <2>1, <2>3
      <3> QED
        BY <1>0, <1>1, <2>1, <3>1, CountedStays
    <2> QED
      BY <2>2, <2>3
  <1>9. ASSUME NEW t \in tasks, Work(t) \/ Raises(t) \/ AnswerLost(t) PROVE DeliveriesCounted'
    <2>1. Progress(t) /\ t.msg \in DOMAIN stream /\ t.n \in 1..MaxDeliver /\ MaxDeliver \in Nat
      BY <1>0, CallFacts, OutboxAssumption DEF TaskProgress
    <2>2. ASSUME Moves(t), stream' = stream PROVE DeliveriesCounted'
      BY <1>0, <1>2, <2>2, MoveFacts DEF Moves
    <2>3. AfterFailure(t) \in Steps
      BY DEF AfterFailure, Steps, Handling
    <2>4. CASE ~(Ack(t) \/ Nak(t) \/ AnswerLost(t))
      <3>1. ASSUME NEW found \in Findings, Review(t, found) PROVE stream' = stream /\ Moves(t)
        BY <1>0, <3>1, ReviewMoves DEF Review, Moves
      <3>2. CASE ~ \E found \in Findings : Review(t, found)
        <4>1. stream' = stream /\ \E pc \in Steps : Goto(t, pc)
          BY <1>9, <2>3, <2>4, <3>2 DEF Work, Unprocessable, Transcribe, NothingHeard,
             MarkAnalyzing, Analyse, NoAnalysis, CommitFindings, Complete, DeadLetter, Raises,
             Steps, Handling
        <4>2. Moves(t)
          BY <1>0, <4>1, GotoFacts DEF Moves, MovesTo
        <4> QED
          BY <2>2, <4>1, <4>2
      <3> QED
        BY <2>2, <3>1, <3>2
    <2>5. CASE AnswerLost(t)
      <3>1. stream' = stream /\ tasks' = tasks \ {t} /\ t.pc \in {"ack", "nak"}
        BY <2>5 DEF AnswerLost, Finish
      <3>2. t.n = MaxDeliver => Settled(CallOf(t))
        BY <2>1, <3>1 DEF Progress
      <3> QED
        BY <1>2, <3>1, <3>2
    <2>6. CASE Ack(t)
      <3>1. /\ tasks' = tasks \ {t} /\ Settled(CallOf(t))
            /\ stream' = [stream EXCEPT ![t.msg] = Acked(stream[t.msg])]
            /\ DOMAIN stream' = DOMAIN stream
        BY <1>0, <1>9, <2>1, <2>6, SameMessages DEF Ack, Finish, Progress
      <3> SUFFICES ASSUME NEW j \in DOMAIN stream' PROVE Counted(j)'
        BY DEF DeliveriesCounted
      <3>2. CASE j = t.msg
        <4>1. stream'[j] = Acked(stream[j]) /\ j \in DOMAIN stream /\ Settled(stream[j].call)
          BY <3>1, <3>2 DEF CallOf
        <4>2. Accounted(j)'
          BY <1>0, <4>1, AccountedStays DEF Accounted
        <4>3. /\ stream'[j].state # "ready" /\ stream'[j].deliveries = stream[j].deliveries
              /\ stream'[j].state = "dropped" => stream[j].state = "dropped"
          BY <1>0, <4>1, MessageFacts
        <4> QED
          BY <1>1, <4>1, <4>2, <4>3 DEF Counted
      <3>3. CASE j # t.msg
        <4>1. stream'[j] = stream[j] /\ j \in DOMAIN stream
          BY <3>1, <3>3
        <4> QED
          BY <1>0, <1>1, <3>1, <3>3, <4>1, CountedStays
      <3> QED
        BY <3>2, <3>3
    <2>7. CASE Nak(t)
      <3>1. /\ tasks' = tasks \ {t} /\ t.n < MaxDeliver
            /\ stream' = [stream EXCEPT ![t.msg] =
                             IF stream[t.msg].state = "out" THEN Returned(stream[t.msg])
                             ELSE stream[t.msg]]
            /\ DOMAIN stream' = DOMAIN stream
        BY <1>0, <1>9, <2>1, <2>7, SameMessages DEF Nak, Finish, Progress
      <3>2. \A u \in tasks : u.n = MaxDeliver => u \in tasks'
        BY <2>1, <3>1
      <3> SUFFICES ASSUME NEW j \in DOMAIN stream' PROVE Counted(j)'
        BY DEF DeliveriesCounted
      <3>3. CASE j = t.msg /\ stream[j].state = "out"
        <4>1. stream'[j] = Returned(stream[j]) /\ j \in DOMAIN stream
          BY <3>1, <3>3
        <4> QED
          BY <1>0, <1>1, <3>2, <3>3, <4>1, CountedReturned
      <3>4. CASE ~(j = t.msg /\ stream[j].state = "out")
        <4>1. stream'[j] = stream[j] /\ j \in DOMAIN stream
          BY <3>1, <3>4
        <4> QED
          BY <1>0, <1>1, <3>2, <4>1, CountedStays
      <3> QED
        BY <3>3, <3>4
    <2> QED
      BY <2>4, <2>5, <2>6, <2>7
  <1> QED
    BY <1>3, <1>5, <1>6, <1>7, <1>8, <1>9 DEF Next, FinishCall, vars

\* AckedIsRecorded: only Ack makes a message acked, and its delivery is settled.
LEMMA AckedStep ==
    ASSUME DeliveryInv, [Next]_vars
    PROVE  AckedIsRecorded'
  <1>0. DeliveryTypeOK /\ TaskProgress /\ DeliveriesCounted /\ AckedIsRecorded /\ Grows
    BY TypeStep DEF DeliveryInv
  <1> SUFFICES ASSUME NEW i \in DOMAIN stream', stream'[i].state = "acked"
               PROVE  Settled(stream[i].call)'
    BY DEF AckedIsRecorded
  <1>1. ASSUME i \in DOMAIN stream, Settled(stream[i].call) PROVE Settled(stream[i].call)'
    BY <1>0, <1>1 DEF Settled, Grows, DeliveryTypeOK, RecordTypeOK
  <1>2. ASSUME i \in DOMAIN stream, stream[i].state = "acked" PROVE Settled(stream[i].call)'
    BY <1>0, <1>1, <1>2 DEF AckedIsRecorded
  <1>3. ASSUME stream' = stream PROVE Settled(stream[i].call)'
    BY <1>2, <1>3
  <1>4. ASSUME NEW m \in Subjects, Store(m) PROVE Settled(stream[i].call)'
    <2>1. i \in DOMAIN stream /\ stream'[i] = stream[i]
      BY <1>0, <1>4, StoreStep
    <2> QED
      BY <1>2, <2>1
  <1>5. ASSUME OutboxNext PROVE Settled(stream[i].call)'
    <2>1. stream' = stream \/ \E m \in Subjects : Store(m)
      BY <1>5 DEF OutboxNext, Claim, MarkPublished, MarkFails, GatewayStops, Publish, PublishFails,
           BackoffEnds, StrayArrives, Subjects
    <2> QED
      BY <1>3, <1>4, <2>1
  <1>6. ASSUME NEW p \in Procs, Fetch(p) PROVE Settled(stream[i].call)'
    <2>1. i \in DOMAIN stream /\ stream'[i] = stream[i]
      BY <1>0, <1>6, FetchFacts
    <2> QED
      BY <1>2, <2>1
  <1>7. ASSUME NEW j \in DOMAIN stream, AckWaitExpires(j) PROVE Settled(stream[i].call)'
    <2>1. /\ stream' = [stream EXCEPT ![j] = Returned(stream[j])]
          /\ DOMAIN stream' = DOMAIN stream
      BY <1>0, <1>7, SameMessages DEF AckWaitExpires
    <2>2. Returned(stream[j]).state # "acked"
      BY <1>0, MessageFacts
    <2>3. i \in DOMAIN stream /\ stream'[i] = stream[i]
      BY <2>1, <2>2
    <2> QED
      BY <1>2, <2>3
  <1>8. ASSUME NEW t \in tasks, Work(t) \/ Raises(t) \/ AnswerLost(t)
        PROVE  Settled(stream[i].call)'
    <2>1. DOMAIN stream' = DOMAIN stream /\ t.msg \in DOMAIN stream
      BY <1>0, <1>8, SameMessages, CallFacts
    <2>2. CASE ~(Ack(t) \/ Nak(t))
      BY <1>3, <1>8, <2>2 DEF Work, Unprocessable, Transcribe, NothingHeard, MarkAnalyzing, Analyse,
           NoAnalysis, Review, CommitFindings, Complete, DeadLetter, Raises, AnswerLost
    <2>3. CASE Ack(t)
      <3>1. i # t.msg => stream'[i] = stream[i]
        BY <2>1, <2>3 DEF Ack
      <3>2. i = t.msg => Settled(stream[i].call)
        BY <1>0, <2>3 DEF Ack, TaskProgress, Progress, CallOf
      <3> QED
        BY <1>1, <1>2, <2>1, <3>1, <3>2
    <2>4. CASE Nak(t)
      <3>1. Returned(stream[t.msg]).state # "acked"
        BY <1>0, <2>1, MessageFacts
      <3>2. stream'[i] = stream[i]
        BY <2>1, <2>4, <3>1 DEF Nak
      <3> QED
        BY <1>2, <2>1, <3>2
    <2> QED
      BY <2>2, <2>3, <2>4
  <1> QED
    BY <1>3, <1>5, <1>6, <1>7, <1>8 DEF Next, FinishCall, ProcessDies, vars

----------------------------------------------------------------------------
\* What saving a run's findings does to one flag.
LEMMA ReconciledFacts ==
    ASSUME NEW f \in FlagRows, NEW b \in BOOLEAN, NEW d \in BOOLEAN
    PROVE  /\ Decided(f) => Reconciled(f, b, d) = f
           /\ Decided(Reconciled(f, b, d)) => Decided(f)
           /\ Present(Reconciled(f, b, d)) => b \/ Decided(f) \/ (Present(f) /\ ~d)
  <1>1. ~Decided(NoFlag) /\ ~Present(NoFlag) /\ ~Decided(FreshFlag)
    BY DEF NoFlag, FreshFlag, Decided, Present
  <1>2. Decided(f) <=> Present(f) /\ ~Untouched(f)
    BY DEF Decided, Present, Untouched
  <1> QED
    BY <1>1, <1>2 DEF Reconciled

\* The flags of a call after its findings are committed.
LEMMA CommitFacts ==
    ASSUME DeliveryTypeOK, TaskProgress, NEW t \in tasks, CommitFindings(t)
    PROVE  /\ handled' = handled /\ ptp' = ptp /\ crossed' = crossed
           /\ overlapped' = overlapped \ (IF Name(t) \in crossed THEN {} ELSE {CallOf(t)})
           /\ CallOf(t) \in Calls
           /\ \A c \in Calls : c # CallOf(t) => flags'[c] = flags[c]
           /\ \A k \in Keys :
                 /\ Decided(flags[CallOf(t)][k])
                       => flags'[CallOf(t)][k] = flags[CallOf(t)][k]
                 /\ Decided(flags'[CallOf(t)][k]) => Decided(flags[CallOf(t)][k])
                 /\ Present(flags'[CallOf(t)][k])
                       => \/ k \in t.found \/ Decided(flags[CallOf(t)][k])
                          \/ Present(flags[CallOf(t)][k]) /\ k \notin t.stale
  <1>1. CallOf(t) \in Calls
    BY DEF TaskProgress, Progress, CommitFindings, Handling
  <1>2. flags \in [Calls -> [Keys -> FlagRows]]
    BY DEF DeliveryTypeOK, RecordTypeOK
  <1>3. /\ \A c \in Calls : c # CallOf(t) => flags'[c] = flags[c]
        /\ \A k \in Keys : flags'[CallOf(t)][k]
                 = Reconciled(flags[CallOf(t)][k], k \in t.found, k \in t.stale)
    BY <1>1, <1>2 DEF CommitFindings, SaveFindings
  <1>4. ASSUME NEW k \in Keys
        PROVE  /\ Decided(flags[CallOf(t)][k])
                     => flags'[CallOf(t)][k] = flags[CallOf(t)][k]
               /\ Decided(flags'[CallOf(t)][k]) => Decided(flags[CallOf(t)][k])
               /\ Present(flags'[CallOf(t)][k])
                     => \/ k \in t.found \/ Decided(flags[CallOf(t)][k])
                        \/ Present(flags[CallOf(t)][k]) /\ k \notin t.stale
    <2>1. flags[CallOf(t)][k] \in FlagRows
      BY <1>1, <1>2
    <2>2. (k \in t.found) \in BOOLEAN /\ (k \in t.stale) \in BOOLEAN
      OBVIOUS
    <2>3. flags'[CallOf(t)][k] = Reconciled(flags[CallOf(t)][k], k \in t.found, k \in t.stale)
      BY <1>3
    <2> DEFINE f == flags[CallOf(t)][k]
               b == k \in t.found
               d == k \in t.stale
    <2> HIDE DEF f, b, d
    <2>4. f \in FlagRows /\ b \in BOOLEAN /\ d \in BOOLEAN
      BY <2>1, <2>2 DEF f, b, d
    <2>5. /\ Decided(f) => Reconciled(f, b, d) = f
          /\ Decided(Reconciled(f, b, d)) => Decided(f)
          /\ Present(Reconciled(f, b, d)) => b \/ Decided(f) \/ (Present(f) /\ ~d)
      BY <2>4, ReconciledFacts
    <2> QED
      BY <2>3, <2>5 DEF f, b, d
  <1> QED
    BY <1>1, <1>3, <1>4 DEF CommitFindings

\* Apart from CommitFindings, only people write to flags, and they leave their mark.
LEMMA FlagWrites ==
    ASSUME DeliveryTypeOK, [Next]_vars,
           ~ \E t \in tasks : CommitFindings(t)
    PROVE  \/ flags' = flags
           \/ /\ acts' # acts
              /\ \E c \in Calls, k \in Keys :
                    /\ <<c, k>> \in handled'
                    /\ Present(flags[c][k])
                    /\ \A d \in Calls, j \in Keys :
                          <<d, j>> # <<c, k>> => flags'[d][j] = flags[d][j]
  <1>1. CASE UNCHANGED vars
    BY <1>1 DEF vars, recordVars, resultVars
  <1>2. ASSUME NEW c \in Calls, FinishCall(c) PROVE flags' = flags
    BY <1>2 DEF FinishCall, resultVars
  <1>3. ASSUME UNCHANGED recordVars PROVE flags' = flags
    BY <1>3 DEF recordVars, resultVars
  <1>4. ASSUME NEW p \in Procs, Fetch(p) \/ ProcessDies(p) PROVE flags' = flags
    BY <1>3, <1>4 DEF Fetch, ProcessDies
  <1>5. ASSUME NEW i \in DOMAIN stream, AckWaitExpires(i) PROVE flags' = flags
    BY <1>3, <1>5 DEF AckWaitExpires
  <1>6. ASSUME NEW t \in tasks, Work(t) \/ Raises(t) \/ AnswerLost(t) PROVE flags' = flags
    BY <1>3, <1>6 DEF Work, Unprocessable, Transcribe, NothingHeard, MarkAnalyzing, Analyse,
         NoAnalysis, Review, Complete, DeadLetter, Raises, AnswerLost, Ack, Nak, resultVars
  <1>7. ASSUME HumanNext
        PROVE  \/ flags' = flags
               \/ /\ acts' # acts
                  /\ \E c \in Calls, k \in Keys :
                        /\ <<c, k>> \in handled'
                        /\ Present(flags[c][k])
                        /\ \A d \in Calls, j \in Keys :
                              <<d, j>> # <<c, k>> => flags'[d][j] = flags[d][j]
    <2>1. ASSUME Act PROVE acts' # acts
      <3>1. acts \in 0..MaxActs /\ acts' = acts + 1
        BY <2>1 DEF Act, DeliveryTypeOK, RecordTypeOK
      <3> QED
        BY ONLY <3>1
    <2>2. ASSUME NEW c \in Calls, NEW k \in Keys,
                 RespondToFlag(c, k) \/ \E s \in Decisions, b \in BOOLEAN : UpdateFlag(c, k, s, b)
          PROVE  /\ acts' # acts /\ <<c, k>> \in handled' /\ Present(flags[c][k])
                 /\ \A d \in Calls, j \in Keys :
                       <<d, j>> # <<c, k>> => flags'[d][j] = flags[d][j]
      <3>1. Act /\ <<c, k>> \in handled' /\ Present(flags[c][k])
            /\ \E v : flags' = [flags EXCEPT ![c][k] = v]
        BY <2>2 DEF RespondToFlag, UpdateFlag
      <3>2. flags \in [Calls -> [Keys -> FlagRows]]
        BY DEF DeliveryTypeOK, RecordTypeOK
      <3> QED
        BY <2>1, <3>1, <3>2
    <2>3. ASSUME NEW c \in Calls, ConfirmCall(c) PROVE flags' = flags
      BY <2>3 DEF ConfirmCall
    <2> QED
      BY <1>7, <2>2, <2>3 DEF HumanNext
  <1> QED
    BY <1>1, <1>2, <1>3, <1>4, <1>5, <1>6, <1>7 DEF Next

\* Only the two ends of save_findings touch what is remembered of its meetings.
LEMMA HistoryKept ==
    ASSUME [Next]_vars, ~ \E t \in tasks : CommitFindings(t)
    PROVE  /\ overlapped \subseteq overlapped'
           /\ (~ \E t \in tasks, found \in Findings : Review(t, found)) =>
                 UNCHANGED <<overlapped, crossed>>
  <1>1. ASSUME NEW t \in tasks, Work(t) \/ Raises(t) \/ AnswerLost(t),
               ~ \E found \in Findings : Review(t, found)
        PROVE  UNCHANGED <<overlapped, crossed>>
    BY <1>1 DEF Work, Unprocessable, Transcribe, NothingHeard, MarkAnalyzing, Analyse,
         NoAnalysis, Complete, DeadLetter, Raises, AnswerLost, Ack, Nak, historyVars
  <1>2. ASSUME NEW t \in tasks, NEW found \in Findings, Review(t, found)
        PROVE  overlapped \subseteq overlapped'
    BY <1>2 DEF Review
  <1>3. CASE ~ \E t \in tasks : Work(t) \/ Raises(t) \/ AnswerLost(t)
    BY <1>3 DEF Next, FinishCall, Fetch, ProcessDies, AckWaitExpires, historyVars, vars
  <1> QED
    BY <1>1, <1>2, <1>3

\* DecidedIsHandled and ReplacedUnlessHandled: a run's findings hold one tier of a
\* rule, and what it does not find survives only if a human decided it.
LEMMA FlagStep ==
    ASSUME DeliveryInv, [Next]_vars
    PROVE  DecidedIsHandled' /\ ReplacedUnlessHandled'
  <1>0. /\ DeliveryTypeOK /\ TaskProgress /\ DecidedIsHandled /\ ReplacedUnlessHandled
        /\ SavingAlone /\ handled \subseteq handled'
    BY TypeStep DEF DeliveryInv, Grows
  <1>1. CASE \E t \in tasks : CommitFindings(t)
    <2>1. PICK t \in tasks : CommitFindings(t)
      BY <1>1
    <2>2. /\ handled' = handled /\ CallOf(t) \in Calls
          /\ overlapped' = overlapped \ (IF Name(t) \in crossed THEN {} ELSE {CallOf(t)})
          /\ \A c \in Calls : c # CallOf(t) => flags'[c] = flags[c]
          /\ \A k \in Keys :
                /\ Decided(flags'[CallOf(t)][k]) => Decided(flags[CallOf(t)][k])
                /\ Present(flags'[CallOf(t)][k])
                      => \/ k \in t.found \/ Decided(flags[CallOf(t)][k])
                         \/ Present(flags[CallOf(t)][k]) /\ k \notin t.stale
      BY <1>0, <2>1, CommitFacts
    <2>3. DecidedIsHandled'
      BY <1>0, <2>2 DEF DecidedIsHandled
    <2>4. ASSUME NEW c \in Calls \ overlapped', NEW r \in Rules,
                 \A n \in Tiers : Present(flags'[c][<<r, n>>])
          PROVE  \E n \in Tiers : <<c, <<r, n>>>> \in handled'
      <3>1. CASE c # CallOf(t)
        <4>1. c \notin overlapped
          BY <2>2, <3>1
        <4> QED
          BY <1>0, <2>2, <2>4, <3>1, <4>1 DEF ReplacedUnlessHandled
      <3>2. CASE c = CallOf(t)
        <4>1. <<r, 1>> \in Keys /\ <<r, 2>> \in Keys /\ 1 \in Tiers /\ 2 \in Tiers
          BY DEF Keys, Tiers
        <4>2. /\ t.found \in Findings
              /\ \A k \in Keys \ t.found : Present(flags[c][k]) =>
                     k \in t.stale \/ <<c, k>> \in handled
          <5>1. Saving(t) /\ t.pc = "saving"
            BY <1>0, <2>1 DEF SavingAlone, CommitFindings
          <5>2. Name(t) \notin crossed
            BY <2>2, <3>2, <5>1 DEF Saving
          <5> QED
            BY <3>2, <5>1, <5>2 DEF Saving
        <4>3. ~(<<r, 1>> \in t.found /\ <<r, 2>> \in t.found)
          <5>1. \A j, k \in t.found : j[1] = k[1] => j = k
            BY <4>2 DEF Findings
          <5> QED
            BY <5>1
        <4>4. ASSUME NEW k \in Keys, k \notin t.found, Present(flags'[c][k])
              PROVE  <<c, k>> \in handled
          BY <1>0, <2>2, <3>2, <4>2, <4>4 DEF DecidedIsHandled
        <4> QED
          BY <2>2, <2>4, <4>1, <4>3, <4>4
      <3> QED
        BY <3>1, <3>2
    <2> QED
      BY <2>2, <2>3, <2>4 DEF ReplacedUnlessHandled
  <1>4. ASSUME ~ \E t \in tasks : CommitFindings(t) PROVE overlapped \subseteq overlapped'
    BY <1>4, HistoryKept
  <1>2. CASE flags' = flags /\ ~ \E t \in tasks : CommitFindings(t)
    BY <1>0, <1>2, <1>4 DEF DecidedIsHandled, ReplacedUnlessHandled
  <1>3. CASE /\ ~ \E t \in tasks : CommitFindings(t)
             /\ \E c \in Calls, k \in Keys :
                  /\ <<c, k>> \in handled'
                  /\ Present(flags[c][k])
                  /\ \A d \in Calls, j \in Keys :
                        <<d, j>> # <<c, k>> => flags'[d][j] = flags[d][j]
    <2>1. PICK c \in Calls, k \in Keys :
            /\ <<c, k>> \in handled'
            /\ Present(flags[c][k])
            /\ \A d \in Calls, j \in Keys :
                  <<d, j>> # <<c, k>> => flags'[d][j] = flags[d][j]
      BY <1>3
    <2>2. ASSUME NEW d \in Calls, NEW j \in Keys, Decided(flags'[d][j])
          PROVE  <<d, j>> \in handled'
      BY <1>0, <2>1, <2>2 DEF DecidedIsHandled
    <2>3. ASSUME NEW d \in Calls \ overlapped', NEW r \in Rules,
                 \A n \in Tiers : Present(flags'[d][<<r, n>>])
          PROVE  \E n \in Tiers : <<d, <<r, n>>>> \in handled'
      <3>1. \A n \in Tiers : <<r, n>> \in Keys
        BY DEF Keys
      <3>2. CASE \E n \in Tiers : <<d, <<r, n>>>> = <<c, k>>
        BY <2>1, <3>2
      <3>3. CASE \A n \in Tiers : <<d, <<r, n>>>> # <<c, k>>
        BY <1>0, <1>3, <1>4, <2>1, <2>3, <3>1, <3>3 DEF ReplacedUnlessHandled
      <3> QED
        BY <3>2, <3>3
    <2> QED
      BY <2>2, <2>3 DEF DecidedIsHandled, ReplacedUnlessHandled
  <1> QED
    BY <1>0, <1>1, <1>2, <1>3, FlagWrites

\* SavingAlone: between its delete and its commit, a transaction's view of the flags is
\* only made stale by another one, and then it has crossed it.
LEMMA SavingStays ==
    ASSUME DeliveryInv, Grows, NEW t \in tasks, t.pc = "saving",
           \A u \in tasks' \ tasks : ~(u.pc = "saving" /\ CallOf(u)' = CallOf(t)),
           Name(t) \in crossed' <=> Name(t) \in crossed,
           CallOf(t) \in overlapped => CallOf(t) \in overlapped',
           Name(t) \notin crossed =>
              \A k \in Keys \ t.found : Present(flags'[CallOf(t)][k]) =>
                  Present(flags[CallOf(t)][k]) \/ <<CallOf(t), k>> \in handled'
    PROVE  Saving(t)'
  <1>1. DeliveryTypeOK /\ Saving(t)
    BY DEF DeliveryInv, SavingAlone
  <1>2. \A u \in tasks : CallOf(u)' = CallOf(u)
    BY <1>1, CallFacts DEF Grows, CallOf
  <1>3. t.found \in Findings
    BY <1>1 DEF Saving
  <1>4. Rivals(t) = {} => Rivals(t)' = {}
    BY <1>2 DEF Rivals
  <1>5. Name(t) \notin crossed =>
          \A k \in Keys \ t.found : Present(flags'[CallOf(t)][k]) =>
              k \in t.stale \/ <<CallOf(t), k>> \in handled'
    BY <1>1 DEF Saving, Grows
  <1>6. CallOf(t)' = CallOf(t) /\ Name(t)' = Name(t)
    BY <1>2 DEF Name
  <1>7. CASE Name(t) \in crossed
    <2>1. Name(t)' \in crossed' /\ CallOf(t)' \in overlapped'
      BY <1>1, <1>6, <1>7 DEF Saving
    <2> QED
      BY <1>3, <2>1 DEF Saving
  <1>8. CASE Name(t) \notin crossed
    <2>1. Name(t)' \notin crossed' /\ Rivals(t)' = {}
      BY <1>1, <1>4, <1>6, <1>8 DEF Saving
    <2>2. \A k \in Keys \ t.found : Present(flags'[CallOf(t)'][k]) =>
              k \in t.stale \/ <<CallOf(t)', k>> \in handled'
      BY <1>5, <1>6, <1>8
    <2> QED
      BY <1>3, <2>1, <2>2 DEF Saving
  <1> QED
    BY <1>7, <1>8

\* A transaction opens: it meets those of its call that are open, and no other.
LEMMA ReviewSaves ==
    ASSUME DeliveryInv, Grows, NEW t \in tasks, NEW found \in Findings, Review(t, found)
    PROVE  SavingAlone'
  <1>0. DeliveryTypeOK /\ TaskProgress /\ SavingAlone /\ DecidedIsHandled
    BY DEF DeliveryInv
  <1>1. PICK w : /\ SameDelivery(t, w) /\ Becomes(t, w) /\ w.pc = "saving"
                 /\ w.found = found /\ w.stale = Stale(CallOf(t), found)
    BY <1>0, ReviewMoves
  <1>2. flags' = flags /\ handled' = handled /\ t.pc = "findings"
    BY DEF Review, recordVars, resultVars
  <1>3. \A u \in tasks' : u \in tasks \ {t} \/ u = w
    BY <1>1 DEF Becomes
  <1>4. CallOf(w)' = CallOf(t) /\ CallOf(t) \in Calls /\ Name(w)' = Name(t)
    BY <1>0, <1>1, <1>2, CallFacts
       DEF SameDelivery, CallOf, Name, Grows, TaskProgress, Progress, Handling
  <1>5. \A u \in tasks : CallOf(u)' = CallOf(u)
    BY <1>0, CallFacts DEF Grows, CallOf
  <1>6. \A u, v \in tasks : Name(u) = Name(v) => CallOf(u) = CallOf(v)
    BY DEF Name, CallOf
  <1>7. Saving(w)'
    <2>1. \A k \in Keys \ found : Present(flags[CallOf(t)][k]) =>
             k \in Stale(CallOf(t), found) \/ <<CallOf(t), k>> \in handled
      BY <1>0, <1>4 DEF Stale, DecidedIsHandled, Decided, Present, Untouched
    <2>2. CASE Rivals(t) = {}
      <3>1. Name(w)' \notin crossed'
        BY <1>4, <2>2 DEF Review
      <3>2. Rivals(w)' = {}
        BY <1>3, <1>4, <1>5, <2>2 DEF Rivals
      <3>3. \A k \in Keys \ w.found : Present(flags'[CallOf(w)'][k]) =>
               k \in w.stale \/ <<CallOf(w)', k>> \in handled'
        BY <1>1, <1>2, <1>4, <2>1
      <3> QED
        BY <1>1, <3>1, <3>2, <3>3 DEF Saving
    <2>3. CASE Rivals(t) # {}
      <3>1. Name(w)' \in crossed' /\ CallOf(w)' \in overlapped'
        BY <1>4, <2>3 DEF Review
      <3> QED
        BY <1>1, <3>1 DEF Saving
    <2> QED
      BY <2>2, <2>3
  <1>8. ASSUME NEW u \in tasks, u # t, u.pc = "saving" PROVE Saving(u)'
    <2>1. CASE CallOf(u) = CallOf(t)
      <3>1. u \in Rivals(t)
        BY <1>8, <2>1 DEF Rivals
      <3>2. Name(u) \in crossed' /\ CallOf(u) \in overlapped'
        BY <2>1, <3>1 DEF Review
      <3>3. Name(u)' = Name(u) /\ CallOf(u)' = CallOf(u) /\ u.found \in Findings
        BY <1>0, <1>5, <1>8 DEF Name, SavingAlone, Saving
      <3> QED
        BY <3>2, <3>3 DEF Saving
    <2>2. CASE CallOf(u) # CallOf(t)
      <3>1. \A v \in Rivals(t) \cup {t} : Name(v) # Name(u)
        BY <1>6, <2>2 DEF Rivals
      <3>2. Name(u) \in crossed' <=> Name(u) \in crossed
        BY <3>1 DEF Review
      <3>3. \A v \in tasks' \ tasks : ~(v.pc = "saving" /\ CallOf(v)' = CallOf(u))
        BY <1>3, <1>4, <2>2
      <3>4. CallOf(u) \in overlapped => CallOf(u) \in overlapped'
        BY DEF Review
      <3> QED
        BY <1>2, <1>8, <3>2, <3>3, <3>4, SavingStays
    <2> QED
      BY <2>1, <2>2
  <1>9. ASSUME NEW u \in tasks', u.pc # "saving" PROVE Saving(u)'
    BY <1>9 DEF Saving
  <1> QED
    BY <1>3, <1>7, <1>8, <1>9 DEF SavingAlone

LEMMA SavingStep ==
    ASSUME DeliveryInv, [Next]_vars
    PROVE  SavingAlone'
  <1>0. DeliveryTypeOK /\ TaskProgress /\ DeliveriesCounted /\ SavingAlone /\ DecidedIsHandled
        /\ Grows
    BY TypeStep DEF DeliveryInv
  <1>1. CASE \E t \in tasks : \E found \in Findings : Review(t, found)
    BY <1>0, <1>1, ReviewSaves
  <1>2. CASE ~ \E t \in tasks : \E found \in Findings : Review(t, found)
    <2>1. \A u \in tasks' \ tasks : u.pc # "saving"
      <3>1. ASSUME NEW p \in Procs, Fetch(p) PROVE \A u \in tasks' \ tasks : u.pc # "saving"
        BY <1>0, <3>1, FetchFacts
      <3>2. ASSUME tasks' \subseteq tasks PROVE \A u \in tasks' \ tasks : u.pc # "saving"
        BY <3>2
      <3>3. ASSUME NEW t \in tasks, NEW pc \in Steps \ {"saving"}, Goto(t, pc)
            PROVE  \A u \in tasks' \ tasks : u.pc # "saving"
        BY <1>0, <3>3, GotoFacts DEF MovesTo, Becomes
      <3>4. ASSUME NEW t \in tasks, Work(t) \/ Raises(t) \/ AnswerLost(t)
            PROVE  \A u \in tasks' \ tasks : u.pc # "saving"
        <4>1. AfterFailure(t) \in Steps \ {"saving"}
          BY DEF AfterFailure, Steps, Handling
        <4>2. CASE Ack(t) \/ Nak(t) \/ AnswerLost(t)
          BY <3>2, <4>2 DEF Ack, Nak, AnswerLost, Finish
        <4>3. CASE ~(Ack(t) \/ Nak(t) \/ AnswerLost(t))
          <5>1. \E pc \in Steps \ {"saving"} : Goto(t, pc)
            BY <1>2, <3>4, <4>1, <4>3 DEF Work, Unprocessable, Transcribe, NothingHeard,
               MarkAnalyzing, Analyse, NoAnalysis, CommitFindings, Complete, DeadLetter, Raises,
               Steps, Handling
          <5> QED
            BY <3>3, <5>1
        <4> QED
          BY <4>2, <4>3
      <3> QED
        BY <3>1, <3>2, <3>4 DEF Next, FinishCall, ProcessDies, AckWaitExpires, vars
    <2>2. ASSUME NEW u \in tasks, u \in tasks', u.pc = "saving" PROVE Saving(u)'
      <3>0. CallOf(u) \in Calls
        BY <1>0, <2>2 DEF TaskProgress, Progress, Handling
      <3>1. CASE \E t \in tasks : CommitFindings(t)
        <4>1. PICK t \in tasks : CommitFindings(t)
          BY <3>1
        <4>2. PICK w : w.pc = "complete" /\ Becomes(t, w)
          BY <1>0, <4>1, GotoFacts DEF CommitFindings, MovesTo, Steps, Handling
        <4>3. u # t /\ t.pc = "saving"
          BY <2>2, <4>1, <4>2 DEF Becomes, CommitFindings
        <4>4. Saving(u) /\ Saving(t)
          BY <1>0, <2>2, <4>1 DEF SavingAlone
        <4>5. /\ crossed' = crossed
              /\ overlapped' = overlapped \ (IF Name(t) \in crossed THEN {} ELSE {CallOf(t)})
              /\ CallOf(u) # CallOf(t) => flags'[CallOf(u)] = flags[CallOf(u)]
          BY <1>0, <3>0, <4>1, CommitFacts
        <4>6. CallOf(u) = CallOf(t) => u \in Rivals(t) /\ t \in Rivals(u)
          BY <2>2, <4>1, <4>3 DEF Rivals
        <4>7. CallOf(u) = CallOf(t) => Name(t) \in crossed /\ Name(u) \in crossed
          BY <2>2, <4>3, <4>4, <4>6 DEF Saving
        <4>8. CallOf(u) \in overlapped => CallOf(u) \in overlapped'
          BY <4>5, <4>7
        <4> QED
          BY <1>0, <2>1, <2>2, <4>5, <4>7, <4>8, SavingStays
      <3>2. CASE ~ \E t \in tasks : CommitFindings(t)
        <4>1. ASSUME NEW k \in Keys, Present(flags'[CallOf(u)][k])
              PROVE  Present(flags[CallOf(u)][k])
          BY <1>0, <3>0, <3>2, <4>1, FlagWrites
        <4>2. UNCHANGED <<overlapped, crossed>>
          BY <1>2, <3>2, HistoryKept
        <4> QED
          BY <1>0, <2>1, <2>2, <4>1, <4>2, SavingStays
      <3> QED
        BY <3>1, <3>2
    <2>3. ASSUME NEW u \in tasks', u.pc # "saving" PROVE Saving(u)'
      BY <2>3 DEF Saving
    <2> QED
      BY <2>1, <2>2, <2>3 DEF SavingAlone
  <1> QED
    BY <1>1, <1>2

\* A finalize never changes a decided flag, nor the promise beside a correction.
LEMMA DecisionsKept ==
    ASSUME DeliveryInv, [Next]_vars, acts' = acts, NEW c \in Calls
    PROVE  /\ \A k \in Keys : Decided(flags[c][k]) => flags'[c][k] = flags[c][k]
           /\ ptp[c].state = "corrected" => ptp'[c] = ptp[c]
  <1>0. DeliveryTypeOK /\ TaskProgress /\ ptp \in [Calls -> Promises] /\ acts \in Nat
    BY DEF DeliveryInv, DeliveryTypeOK, RecordTypeOK
  <1>1. \A k \in Keys : Decided(flags[c][k]) => flags'[c][k] = flags[c][k]
    <2>1. CASE \E t \in tasks : CommitFindings(t)
      BY <1>0, <2>1, CommitFacts
    <2>2. CASE ~ \E t \in tasks : CommitFindings(t)
      BY <1>0, <2>2, FlagWrites
    <2> QED
      BY <2>1, <2>2
  <1>2. ptp[c].state = "corrected" => ptp'[c] = ptp[c]
    <2>1. CASE UNCHANGED vars
      BY <2>1 DEF vars, recordVars, resultVars
    <2>2. ASSUME NEW t \in tasks, NEW a \in Amounts \cup {NoAmount}, Analyse(t, a)
          PROVE  ptp[c].state = "corrected" => ptp'[c] = ptp[c]
      BY <1>0, <2>2 DEF Analyse, SaveAnalysis, Extracted
    <2>3. ASSUME NEW t \in tasks, Work(t) \/ Raises(t) \/ AnswerLost(t),
                 ~ \E a \in Amounts \cup {NoAmount} : Analyse(t, a)
          PROVE  ptp' = ptp
      BY <2>3 DEF Work, Unprocessable, Transcribe, NothingHeard, MarkAnalyzing, Review,
           CommitFindings, NoAnalysis, Complete, DeadLetter, Raises, AnswerLost, Ack, Nak, recordVars, resultVars
    <2>4. ~HumanNext
      <3>1. ~Act
        BY <1>0 DEF Act
      <3> QED
        BY <3>1 DEF HumanNext, ConfirmCall, RespondToFlag, UpdateFlag
    <2>5. CASE Next /\ ~ \E t \in tasks : Work(t) \/ Raises(t) \/ AnswerLost(t)
      BY <2>4, <2>5 DEF Next, FinishCall, Fetch, ProcessDies, AckWaitExpires, recordVars, resultVars
    <2> QED
      BY <2>1, <2>2, <2>3, <2>5
  <1> QED
    BY <1>1, <1>2

----------------------------------------------------------------------------
LEMMA InitInv ==
    ASSUME Init
    PROVE  DeliveryInv
  <1>1. NoPromise \in Promises /\ NoFlag \in FlagRows /\ ~Decided(NoFlag) /\ ~Present(NoFlag)
    BY DEF NoPromise, Promises, NoFlag, FlagRows, Decided, Present, Statuses
  <1>2. OutboxTypeOK
    BY OutboxAssumption DEF Init, OutboxInit, OutboxTypeOK, RowStates
  <1>3. RecordTypeOK
    <2>1. 0 \in 0..MaxActs
      <3>1. MaxActs \in Nat
        BY RecordAssumption
      <3> QED
        BY ONLY <3>1
    <2>2. "ingesting" \in CallStatuses
      BY DEF CallStatuses
    <2> QED
      BY <1>1, <2>1, <2>2 DEF Init, RecordInit, RecordTypeOK
  <1>4. DeliveryTypeOK
    BY <1>2, <1>3 DEF Init, OutboxInit, DeliveryTypeOK
  <1>5. RowsOwed
    BY DEF Init, OutboxInit, RecordInit, RowsOwed, Copies
  <1>6. TaskProgress /\ DeliveriesCounted /\ AckedIsRecorded /\ SavingAlone
    BY DEF Init, OutboxInit, TaskProgress, DeliveriesCounted, AckedIsRecorded, SavingAlone
  <1>7. \A c \in Calls, k \in Keys : ~Decided(flags[c][k]) /\ ~Present(flags[c][k])
    BY <1>1 DEF Init, RecordInit
  <1>8. DecidedIsHandled
    BY <1>7 DEF DecidedIsHandled
  <1>9. ReplacedUnlessHandled
    BY <1>7 DEF ReplacedUnlessHandled, Keys, Tiers
  <1> QED
    BY <1>4, <1>5, <1>6, <1>8, <1>9 DEF DeliveryInv

\* The inductive invariant: what rows, messages and deliveries owe to each other holds
\* in every state of every behaviour.
THEOREM DeliveryInductive == Spec => []DeliveryInv
  <1>1. Init => DeliveryInv
    BY InitInv
  <1>2. DeliveryInv /\ [Next]_vars => DeliveryInv'
    <2> SUFFICES ASSUME DeliveryInv, [Next]_vars PROVE DeliveryInv'
      OBVIOUS
    <2>1. DeliveryTypeOK'
      BY TypeStep DEF DeliveryInv
    <2> QED
      BY <2>1, RowsStep, ProgressStep, CountStep, AckedStep, FlagStep, SavingStep
         DEF DeliveryInv
  <1> QED
    BY <1>1, <1>2, PTL DEF Spec

\* Type correctness of the outbox, the stream, the deliveries and the record; in
\* particular no message is ever delivered more than MaxDeliver times.
THEOREM DeliveryTypes == Spec => []DeliveryTypeOK
  <1>1. DeliveryInv => DeliveryTypeOK
    BY DEF DeliveryInv
  <1> QED
    BY <1>1, DeliveryInductive, PTL

\* FinishCall's commit and the drainers' at-least-once publishing: a finalized call is
\* always owed by its outbox row or stored in the stream.
THEOREM NoCallStranded == Spec => []NeverStranded
  <1>1. DeliveryInv => NeverStranded
    BY DEF DeliveryInv, RowsOwed, NeverStranded, Copies, DeliveryTypeOK, OutboxTypeOK, RowStates
  <1> QED
    BY <1>1, DeliveryInductive, PTL

\* _process acknowledges last: an acknowledged message is recorded or dead-lettered.
THEOREM AckedRecorded == Spec => []AckedIsRecorded
  <1>1. DeliveryInv => AckedIsRecorded
    BY DEF DeliveryInv
  <1> QED
    BY <1>1, DeliveryInductive, PTL

\* The consumer dead-letters a message on its last delivery, before the broker's
\* silent limit: only a death on that very delivery loses the report.
THEOREM DroppedAccounted == Spec => []DeadLetteredUnlessKilled
  <1>1. DeliveryInv => DeadLetteredUnlessKilled
    BY DEF DeliveryInv, DeliveriesCounted, Counted, DeadLetteredUnlessKilled
  <1> QED
    BY <1>1, DeliveryInductive, PTL

\* save_findings replaces a run's findings: two tiers of one rule only stay side by side
\* when a human has written to one, or from an overlap of two transactions until the next
\* one that runs alone.
THEOREM FindingsReplaced == Spec => []ReplacedUnlessHandled
  <1>1. DeliveryInv => ReplacedUnlessHandled
    BY DEF DeliveryInv
  <1> QED
    BY <1>1, DeliveryInductive, PTL

\* The upserts of PostgresSink never overwrite a review, an answer or a correction.
THEOREM DecisionsSurvive == Spec => HumanDecisionsKept
  <1>1. DeliveryInv /\ [Next]_vars =>
          [acts' = acts =>
            \A c \in Calls :
                /\ \A k \in Keys :
                      Decided(flags[c][k]) => flags'[c][k] = flags[c][k]
                /\ ptp[c].state = "corrected" => ptp'[c] = ptp[c]]_vars
    BY DecisionsKept
  <1> QED
    BY <1>1, DeliveryInductive, PTL DEF Spec, HumanDecisionsKept

----------------------------------------------------------------------------
(* The hand-over is a duty.                                                *)

\* A row is written by the commit that ends the call.
RowsEnded == \A c \in Calls : row[c] # "none" => status[c] # "ingesting"

\* A call with a message or a delivery has ended.
LEMMA StoredEnded ==
    ASSUME DeliveryInv, RowsEnded
    PROVE  /\ \A c \in Calls : Copies(c) # {} => c \in Ended
           /\ \A t \in tasks : CallOf(t) \in Calls => CallOf(t) \in Ended /\ Busy(CallOf(t))
  <1>1. \A c \in Calls : Copies(c) # {} => c \in Ended
    BY DEF DeliveryInv, RowsOwed, RowsEnded, Ended
  <1>2. ASSUME NEW t \in tasks PROVE t.msg \in Copies(CallOf(t))
    BY CallFacts DEF DeliveryInv, Copies, CallOf
  <1> QED
    BY <1>1, <1>2 DEF Busy

\* The calls that are owed, before and after a step.
LEMMA OwedIs ==
    /\ \A c : c \in Owed <=> c \in Ended /\ Busy(c)
    /\ \A c : c \in Owed' <=> c \in Ended' /\ Busy(c)'
  BY DEF Owed, Busy, OpenMessages, Copies, CallOf

\* While no call ends, owed goes with busy.
LEMMA OwedShrinks ==
    ASSUME Ended' = Ended, \A c \in Calls : Busy(c)' => Busy(c)
    PROVE  /\ Owed' \subseteq Owed
           /\ (\A c \in Calls : Busy(c) => Busy(c)') => Owed' = Owed
  <1>1. Ended \subseteq Calls
    BY DEF Ended
  <1> QED
    BY <1>1, OwedIs

\* What a step may do to the statuses: only FinishCall ends a call.
LEMMA StatusStep ==
    ASSUME DeliveryInv, RowsEnded, NEW t \in tasks, Work(t) \/ Raises(t) \/ AnswerLost(t)
    PROVE  Ended' = Ended
  <1>1. status \in [Calls -> CallStatuses]
    BY DEF DeliveryInv, DeliveryTypeOK, RecordTypeOK
  <1>2. CASE status' = status
    BY <1>2 DEF Ended
  <1>3. ASSUME NEW s \in {"failed", "analyzing", "complete"}, CallOf(t) \in Calls,
               SetStatus(CallOf(t), s)
        PROVE  Ended' = Ended
    <2>1. CallOf(t) \in Ended
      BY <1>3, StoredEnded
    <2> QED
      BY <1>1, <1>3, <2>1 DEF SetStatus, Ended
  <1>4. t.pc \in Handling \ {"start"} => CallOf(t) \in Calls
    BY DEF DeliveryInv, TaskProgress, Progress
  <1>5. CASE NothingHeard(t)
    BY <1>3, <1>5 DEF NothingHeard
  <1>6. CASE MarkAnalyzing(t)
    BY <1>3, <1>4, <1>6 DEF MarkAnalyzing, Handling
  <1>7. CASE Complete(t)
    BY <1>3, <1>4, <1>7 DEF Complete, Handling
  <1>8. CASE ~(NothingHeard(t) \/ MarkAnalyzing(t) \/ Complete(t))
    <2>1. status' = status
      BY <1>8 DEF Work, Unprocessable, Transcribe, Analyse, NoAnalysis, Review,
           CommitFindings, DeadLetter, Ack, Nak, Raises, AnswerLost, recordVars
    <2> QED
      BY <1>2, <2>1
  <1> QED
    BY <1>5, <1>6, <1>7, <1>8

\* Rows are only changed for calls that have one.
LEMMA OutboxRows ==
    ASSUME DeliveryInv, OutboxNext
    PROVE  \A c \in Calls : row'[c] # "none" => row[c] # "none"
  <1>1. row \in [Calls -> RowStates]
    BY DEF DeliveryInv, DeliveryTypeOK, OutboxTypeOK
  <1>2. ASSUME NEW g \in Gateways, Claim(g) PROVE \A c \in Calls : row'[c] # "none" => row[c] # "none"
    <2>1. PICK S \in SUBSET {c \in Calls : row[c] = "due"} :
             row' = [c \in Calls |-> IF c \in S THEN "waiting" ELSE row[c]]
      BY <1>2 DEF Claim
    <2> QED
      BY <2>1
  <1>3. ASSUME NEW g \in Gateways, MarkPublished(g)
        PROVE  \A c \in Calls : row'[c] # "none" => row[c] # "none"
    <2>1. sending[g] \in Calls /\ Copies(sending[g]) # {}
      BY <1>3 DEF MarkPublished, DeliveryInv, RowsOwed, DeliveryTypeOK, OutboxTypeOK
    <2>2. row[sending[g]] # "none"
      BY <2>1 DEF DeliveryInv, RowsOwed
    <2> QED
      BY <1>1, <1>3, <2>1, <2>2 DEF MarkPublished
  <1>4. ASSUME NEW d \in Calls, BackoffEnds(d)
        PROVE  \A c \in Calls : row'[c] # "none" => row[c] # "none"
    BY <1>1, <1>4 DEF BackoffEnds
  <1>5. CASE row' = row
    BY <1>5
  <1> QED
    BY <1>2, <1>3, <1>4, <1>5 DEF OutboxNext, MarkFails, GatewayStops, Publish, PublishFails,
       StrayArrives, outboxVars

\* No step brings a row before the end of its call.
LEMMA EndedStep ==
    ASSUME DeliveryInv, RowsEnded, [Next]_vars
    PROVE  RowsEnded'
  <1>1. CASE UNCHANGED vars
    BY <1>1 DEF vars, outboxVars, recordVars, RowsEnded
  <1>2. ASSUME NEW c \in Calls, FinishCall(c) PROVE RowsEnded'
    <2>1. row \in [Calls -> RowStates] /\ status \in [Calls -> CallStatuses]
      BY DEF DeliveryInv, DeliveryTypeOK, OutboxTypeOK, RecordTypeOK
    <2> QED
      BY <1>2, <2>1 DEF FinishCall, SetStatus, RowsEnded
  <1>3. CASE OutboxNext /\ UNCHANGED <<recordVars, tasks, dlq, historyVars>>
    BY <1>3, OutboxRows DEF RowsEnded, recordVars
  <1>4. CASE HumanNext /\ UNCHANGED <<outboxVars, stream, faults, tasks, dlq, historyVars>>
    <2>1. status' = status /\ row' = row
      BY <1>4 DEF HumanNext, ConfirmCall, RespondToFlag, UpdateFlag, outboxVars
    <2> QED
      BY <2>1 DEF RowsEnded
  <1>5. CASE \/ \E p \in Procs : Fetch(p) \/ ProcessDies(p)
             \/ \E i \in DOMAIN stream : AckWaitExpires(i)
    <2>1. status' = status /\ row' = row
      BY <1>5 DEF Fetch, ProcessDies, AckWaitExpires, outboxVars, recordVars
    <2> QED
      BY <2>1 DEF RowsEnded
  <1>6. ASSUME NEW t \in tasks, Work(t) \/ Raises(t) \/ AnswerLost(t) PROVE RowsEnded'
    <2>1. row' = row
      BY <1>6 DEF Work, Unprocessable, Transcribe, NothingHeard, MarkAnalyzing, Analyse, NoAnalysis,
           Review, CommitFindings, Complete, DeadLetter, Ack, Nak, Raises, AnswerLost, outboxVars
    <2>2. Ended' = Ended
      BY <1>6, StatusStep
    <2> QED
      BY <2>1, <2>2 DEF RowsEnded, Ended
  <1> QED
    BY <1>1, <1>2, <1>3, <1>4, <1>5, <1>6 DEF Next

\* A call that has ended and keeps nothing busy is on record, reported or lost.
LEMMA DischargedIsSettled ==
    ASSUME DeliveryInv', NEW c \in Calls, c \in Ended', ~Busy(c)'
    PROVE  c \in Recorded' \/ c \in dlq' \/ c \in Lost'
  <1>1. Copies(c)' # {}
    <2>1. row'[c] \in RowStates
      BY DEF DeliveryInv, DeliveryTypeOK, OutboxTypeOK
    <2>2. row'[c] # "none"
      BY DEF DeliveryInv, RowsOwed, Ended
    <2>3. row'[c] = "published"
      BY <2>1, <2>2 DEF Busy, RowStates
    <2> QED
      BY <2>3 DEF DeliveryInv, RowsOwed
  <1>2. PICK i \in DOMAIN stream' : stream'[i].call = c
    BY <1>1 DEF Copies
  <1>3. stream'[i].state \in {"acked", "dropped"}
    <2>1. stream'[i].state \in MessageStates
      <3>1. stream' \in Seq(Messages)
        BY DEF DeliveryInv, DeliveryTypeOK, OutboxTypeOK
      <3>2. stream'[i] \in Messages
        BY <1>2, <3>1
      <3> QED
        BY <3>2 DEF Messages
    <2>2. stream'[i].state \notin {"ready", "out"}
      BY <1>2 DEF Busy, OpenMessages, Copies
    <2> QED
      BY <2>1, <2>2 DEF MessageStates
  <1>4. ASSUME Settled(c)' PROVE c \in Recorded' \/ c \in dlq'
    BY <1>4 DEF Settled, Recorded
  <1>5. CASE stream'[i].state = "acked"
    <2>1. Settled(c)'
      BY <1>2, <1>5 DEF DeliveryInv, AckedIsRecorded
    <2> QED
      BY <1>4, <2>1
  <1>6. CASE stream'[i].state = "dropped"
    <2>1. Accounted(i)'
      BY <1>2, <1>6 DEF DeliveryInv, DeliveriesCounted, Counted
    <2>2. ~\E t \in tasks' : t.msg = i
      BY <1>2 DEF Busy, CallOf
    <2>3. Settled(c)' \/ i \in unreported'
      BY <1>2, <2>1, <2>2 DEF Accounted
    <2> QED
      BY <1>2, <1>4, <2>3 DEF Lost
  <1> QED
    BY <1>3, <1>5, <1>6

\* Calls that are let go or lost: a Discharge of the duty.
LEMMA DutyMoves ==
    ASSUME DeliveryInv', Ended' = Ended, Owed' \subseteq Owed, Recorded' = Recorded,
           dlq' \cap Calls = dlq \cap Calls, Lost \subseteq Lost', Lost' \ Lost \subseteq Owed
    PROVE  Duty!Next
  <1> DEFINE S == Lost' \ Lost
             D == Owed \ Owed'
  <1>1. S \subseteq Calls /\ D \subseteq Calls
    BY DEF Owed, Ended, Lost
  <1>2. ASSUME NEW c \in D PROVE c \in Recorded \/ c \in dlq \cap Calls \/ c \in Lost \cup S
    <2>1. c \in Calls /\ c \in Ended' /\ ~Busy(c)'
      <3>1. c \in Ended' /\ ~Busy(c)'
        BY OwedIs
      <3> QED
        BY <1>1, <3>1
    <2>2. c \in Recorded' \/ c \in dlq' \/ c \in Lost'
      BY <2>1, DischargedIsSettled
    <2> QED
      BY <2>1, <2>2
  <1>3. D \subseteq Owed \cap (Recorded \cup (dlq \cap Calls) \cup Lost \cup S)
    BY <1>2
  <1>4. Lost' = Lost \cup S /\ Owed' = Owed \ D
    OBVIOUS
  <1> HIDE DEF S, D
  <1>5. Duty!Discharge(S, D)
    BY <1>3, <1>4 DEF Duty!Discharge, S
  <1> QED
    BY <1>1, <1>5 DEF Duty!Next

\* Messages keep their call, so the lost calls stay lost.
LEMMA LostStep ==
    ASSUME DeliveryTypeOK, Grows
    PROVE  /\ Lost \subseteq Lost'
           /\ unreported' = unreported => Lost' = Lost
  <1>1. \A i \in unreported : i \in DOMAIN stream /\ stream'[i].call = stream[i].call
    BY DEF DeliveryTypeOK, Grows
  <1> QED
    BY <1>1 DEF Lost, Grows

\* Outside the outbox nothing becomes busy: deliveries are of open messages.
LEMMA BusyWas ==
    ASSUME DeliveryTypeOK, Grows, UNCHANGED <<row, held>>, DOMAIN stream' = DOMAIN stream,
           \A i \in DOMAIN stream : stream'[i].state \in {"ready", "out"} =>
                                     stream[i].state \in {"ready", "out"},
           \A u \in tasks' : \/ \E v \in tasks : v.msg = u.msg
                             \/ u.msg \in DOMAIN stream /\ stream[u.msg].state \in {"ready", "out"}
    PROVE  \A c \in Calls : Busy(c)' => Busy(c)
  <1> SUFFICES ASSUME NEW c \in Calls, Busy(c)' PROVE Busy(c)
    OBVIOUS
  <1>1. CASE row[c] \in {"due", "waiting"} \/ \E g \in Gateways : c \in held[g]
    BY <1>1 DEF Busy
  <1>2. CASE OpenMessages(c)' # {}
    <2>1. PICK i \in DOMAIN stream' : stream'[i].call = c /\ stream'[i].state \in {"ready", "out"}
      BY <1>2 DEF OpenMessages, Copies
    <2>2. i \in OpenMessages(c)
      BY <2>1 DEF OpenMessages, Copies, Grows
    <2> QED
      BY <2>2 DEF Busy
  <1>3. ASSUME NEW u \in tasks', CallOf(u)' = c PROVE Busy(c)
    <2>1. stream'[u.msg].call = c
      BY <1>3 DEF CallOf
    <2>2. ASSUME NEW v \in tasks, v.msg = u.msg PROVE Busy(c)
      <3>1. v.msg \in DOMAIN stream
        BY DEF DeliveryTypeOK
      <3>2. CallOf(v) = c
        BY <2>1, <2>2, <3>1 DEF CallOf, Grows
      <3> QED
        BY <3>2 DEF Busy
    <2>3. ASSUME u.msg \in DOMAIN stream, stream[u.msg].state \in {"ready", "out"} PROVE Busy(c)
      <3>1. u.msg \in OpenMessages(c)
        BY <2>1, <2>3 DEF OpenMessages, Copies, Grows
      <3> QED
        BY <3>1 DEF Busy
    <2> QED
      BY <1>3, <2>2, <2>3
  <1> QED
    BY <1>1, <1>2, <1>3 DEF Busy

\* The drainers take up no call that is not busy.
LEMMA OutboxBusy ==
    ASSUME DeliveryInv, OutboxNext, UNCHANGED tasks, Grows
    PROVE  \A c \in Calls : Busy(c)' => Busy(c)
  <1>1. /\ row \in [Calls -> RowStates] /\ held \in [Gateways -> SUBSET Calls]
        /\ \A t \in tasks : t.msg \in DOMAIN stream
    BY DEF DeliveryInv, DeliveryTypeOK, OutboxTypeOK
  <1>2. \A t \in tasks : CallOf(t)' = CallOf(t)
    BY <1>1 DEF CallOf, Grows
  <1>3. ASSUME NEW c \in Calls, UNCHANGED stream,
               row'[c] \in {"due", "waiting"} => row[c] \in {"due", "waiting"},
               \A g \in Gateways : c \in held'[g] => c \in held[g] \/ row[c] \in {"due", "waiting"},
               Busy(c)'
        PROVE  Busy(c)
    BY <1>2, <1>3 DEF Busy, OpenMessages, Copies
  <1>4. ASSUME NEW g \in Gateways, Claim(g), NEW c \in Calls, Busy(c)' PROVE Busy(c)
    <2>1. PICK S \in SUBSET {d \in Calls : row[d] = "due"} :
             /\ row' = [d \in Calls |-> IF d \in S THEN "waiting" ELSE row[d]]
             /\ held' = [held EXCEPT ![g] = S]
      BY <1>4 DEF Claim
    <2>2. UNCHANGED stream
      BY <1>4 DEF Claim
    <2>3. row'[c] \in {"due", "waiting"} => row[c] \in {"due", "waiting"}
      BY <2>1
    <2>4. \A h \in Gateways : c \in held'[h] => c \in held[h] \/ row[c] \in {"due", "waiting"}
      BY <1>1, <2>1
    <2> QED
      BY <1>3, <1>4, <2>2, <2>3, <2>4
  <1>5. ASSUME NEW g \in Gateways, MarkPublished(g) \/ MarkFails(g) \/ GatewayStops(g),
               NEW c \in Calls, Busy(c)'
        PROVE  Busy(c)
    <2>1. UNCHANGED stream
      BY <1>5 DEF MarkPublished, MarkFails, GatewayStops
    <2>2. row'[c] \in {"due", "waiting"} => row[c] \in {"due", "waiting"}
      BY <1>1, <1>5 DEF MarkPublished, MarkFails, GatewayStops
    <2>3. \A h \in Gateways : c \in held'[h] => c \in held[h]
      BY <1>1, <1>5 DEF MarkPublished, MarkFails, GatewayStops
    <2> QED
      BY <1>3, <1>5, <2>1, <2>2, <2>3
  <1>6. ASSUME NEW d \in Calls, BackoffEnds(d), NEW c \in Calls, Busy(c)' PROVE Busy(c)
    <2>1. UNCHANGED <<stream, held>>
      BY <1>6 DEF BackoffEnds
    <2>2. row'[c] \in {"due", "waiting"} => row[c] \in {"due", "waiting"}
      BY <1>1, <1>6 DEF BackoffEnds
    <2> QED
      BY <1>3, <1>6, <2>1, <2>2
  <1>7. ASSUME NEW m \in Subjects, Store(m) \/ UNCHANGED stream, UNCHANGED row,
               \A g \in Gateways : held'[g] \subseteq held[g],
               NEW c \in Calls, m # c \/ \E g \in Gateways : c \in held[g], Busy(c)'
        PROVE  Busy(c)
    <2>1. CASE \E g \in Gateways : c \in held[g]
      BY <2>1 DEF Busy
    <2>2. CASE m # c
      <3>1. \A i \in DOMAIN stream' : stream'[i].call = c => i \in DOMAIN stream /\ stream'[i] = stream[i]
        BY <1>7, <2>2, StoreStep DEF DeliveryInv
      <3>2. OpenMessages(c)' \subseteq OpenMessages(c)
        BY <3>1 DEF OpenMessages, Copies
      <3> QED
        BY <1>2, <1>7, <3>2 DEF Busy
    <2> QED
      BY <1>7, <2>1, <2>2
  <1>8. ASSUME NEW g \in Gateways, NEW d \in Calls, Publish(g, d) \/ PublishFails(g, d),
               NEW c \in Calls, Busy(c)'
        PROVE  Busy(c)
    <2>1. /\ d \in held[g] /\ d \in Subjects /\ UNCHANGED row
          /\ Store(d) \/ UNCHANGED stream
          /\ held' = [held EXCEPT ![g] = held[g] \ {d}]
      BY <1>8 DEF Publish, PublishFails, Subjects
    <2>2. \A h \in Gateways : held'[h] \subseteq held[h]
      BY <1>1, <2>1
    <2>3. d # c \/ \E h \in Gateways : c \in held[h]
      BY <2>1
    <2> QED
      BY <1>7, <1>8, <2>1, <2>2, <2>3
  <1>9. ASSUME NEW m \in Strays, StrayArrives(m), NEW c \in Calls, Busy(c)' PROVE Busy(c)
    <2>1. m \in Subjects /\ m # c /\ Store(m) /\ UNCHANGED <<row, held>>
      BY <1>9, OutboxAssumption DEF StrayArrives, Subjects, outboxVars
    <2> QED
      BY <1>7, <1>9, <2>1
  <1> QED
    BY <1>4, <1>5, <1>6, <1>8, <1>9 DEF OutboxNext

\* A step of a delivery: it records its call, reports it, or lets go of it.
LEMMA WorkDuty ==
    ASSUME DeliveryInv, DeliveryInv', RowsEnded, Grows,
           NEW t \in tasks, Work(t) \/ Raises(t) \/ AnswerLost(t)
    PROVE  Duty!Next
  <1> DEFINE c == CallOf(t)
  <1>1. /\ DeliveryTypeOK /\ TaskProgress /\ t.msg \in DOMAIN stream /\ c \in Subjects
        /\ transcript \in [Calls -> SUBSET Channels]
        /\ ruled \in SUBSET Calls /\ done \in SUBSET Calls
    BY CallFacts DEF DeliveryInv, DeliveryTypeOK, RecordTypeOK
  <1>2. Ended' = Ended
    BY StatusStep
  <1>3. t.pc \in Handling \ {"start"} => c \in Calls
    BY <1>1 DEF TaskProgress, Progress
  <1>4. c \in Calls => c \in Owed
    BY StoredEnded DEF Owed
  <1>5. /\ UNCHANGED <<row, held, unreported>> /\ Lost' = Lost
    <2>1. UNCHANGED <<row, held, unreported>>
      BY DEF Work, Unprocessable, Transcribe, NothingHeard, MarkAnalyzing, Analyse, NoAnalysis,
           Review, CommitFindings, Complete, DeadLetter, Ack, Nak, Raises, AnswerLost, outboxVars,
           historyVars
    <2> QED
      BY <1>1, <2>1, LostStep
  <1>6. ASSUME UNCHANGED stream, tasks' = tasks \ {t} \/ Moves(t)
        PROVE  Owed' \subseteq Owed
    <2>1. \A u \in tasks' : \E v \in tasks : v.msg = u.msg
      BY <1>6 DEF Moves, Becomes, SameDelivery
    <2>2. \A d \in Calls : Busy(d)' => Busy(d)
      BY <1>1, <1>5, <1>6, <2>1, BusyWas
    <2> QED
      BY <1>2, <2>2, OwedShrinks
  <1>7. ASSUME UNCHANGED stream, Moves(t) PROVE Owed' = Owed
    <2>1. \A d \in Calls : Busy(d)' => Busy(d)
      <3>1. \A u \in tasks' : \E v \in tasks : v.msg = u.msg
        BY <1>7 DEF Moves, Becomes, SameDelivery
      <3> QED
        BY <1>1, <1>5, <1>7, <3>1, BusyWas
    <2>2. \A u \in tasks : \E v \in tasks' : v.msg = u.msg
      BY <1>1, <1>7, MoveFacts DEF Moves
    <2>3. \A d \in Calls : Busy(d) => Busy(d)'
      BY <1>5, <1>7, <2>2 DEF Busy, OpenMessages, Copies, CallOf
    <2> QED
      BY <1>2, <2>1, <2>3, OwedShrinks
  <1>8. ASSUME UNCHANGED <<stream, transcript, ruled, done, dlq>>, tasks' = tasks \ {t} \/ Moves(t)
        PROVE  Duty!Next
    <2>1. Recorded' = Recorded /\ Owed' \subseteq Owed
      BY <1>6, <1>8 DEF Recorded
    <2> QED
      BY <1>2, <1>5, <1>8, <2>1, DutyMoves
  <1>9. ASSUME UNCHANGED <<stream, dlq>>, Moves(t), c \in Calls,
               Recorded \subseteq Recorded', Recorded' \subseteq Recorded \cup {c}
        PROVE  Duty!Next
    <2>1. Owed' = Owed
      BY <1>7, <1>9
    <2>2. CASE Recorded' = Recorded
      BY <1>2, <1>5, <1>9, <2>1, <2>2, DutyMoves
    <2>3. CASE Recorded' = Recorded \cup {c}
      <3>1. c \in Owed
        BY <1>4, <1>9
      <3> HIDE DEF c
      <3>2. Duty!Record(c)
        BY <1>2, <1>5, <1>9, <2>1, <2>3, <3>1 DEF Duty!Record
      <3> QED
        BY <1>9, <3>2 DEF Duty!Next
    <2> QED
      BY <1>9, <2>2, <2>3
  <1>10. ASSUME NEW pc \in Steps, Goto(t, pc) PROVE Moves(t)
    BY <1>1, <1>10, GotoFacts DEF Moves, MovesTo
  <1>11. AfterFailure(t) \in Steps
    BY DEF AfterFailure, Steps, Handling
  <1>12. CASE Unprocessable(t) \/ NothingHeard(t) \/ MarkAnalyzing(t) \/ NoAnalysis(t) \/ Raises(t)
    <2>1. UNCHANGED <<stream, transcript, ruled, done, dlq>>
      BY <1>12 DEF Unprocessable, NothingHeard, MarkAnalyzing, NoAnalysis, Raises, recordVars, resultVars
    <2>2. \E pc \in Steps : Goto(t, pc)
      BY <1>11, <1>12 DEF Unprocessable, NothingHeard, MarkAnalyzing, NoAnalysis, Raises, Steps, Handling
    <2> QED
      BY <1>8, <1>10, <2>1, <2>2
  <1>13. ASSUME NEW a \in Amounts \cup {NoAmount}, Analyse(t, a) PROVE Duty!Next
    <2>1. UNCHANGED <<stream, transcript, ruled, done, dlq>> /\ Goto(t, "findings")
      BY <1>13 DEF Analyse
    <2> QED
      BY <1>8, <1>10, <2>1 DEF Steps, Handling
  <1>14. ASSUME NEW found \in Findings, Review(t, found) PROVE Duty!Next
    <2>1. UNCHANGED <<stream, transcript, ruled, done, dlq>>
      BY <1>14 DEF Review, recordVars, resultVars
    <2>2. Moves(t)
      BY <1>1, <1>14, ReviewMoves DEF Moves
    <2> QED
      BY <1>8, <2>1, <2>2
  <1>15. ASSUME NEW heard \in SUBSET Channels, Transcribe(t, heard) PROVE Duty!Next
    <2>1. /\ UNCHANGED <<stream, ruled, done, dlq>> /\ Goto(t, "analyzing") /\ c \in Calls
          /\ transcript' = [transcript EXCEPT ![c] = transcript[c] \cup heard]
      BY <1>1, <1>15 DEF Transcribe, SaveTranscript
    <2>2. Recorded \subseteq Recorded' /\ Recorded' \subseteq Recorded \cup {c}
      <3> HIDE DEF c
      <3> QED
        BY <1>1, <2>1 DEF Recorded
    <2> QED
      BY <1>9, <1>10, <2>1, <2>2 DEF Steps, Handling
  <1>16. CASE CommitFindings(t)
    <2>1. /\ UNCHANGED <<stream, transcript, done, dlq>> /\ Goto(t, "complete") /\ c \in Calls
          /\ ruled' = ruled \cup {c}
      BY <1>3, <1>16 DEF CommitFindings, SaveFindings, Handling
    <2>2. Recorded \subseteq Recorded' /\ Recorded' \subseteq Recorded \cup {c}
      <3> HIDE DEF c
      <3> QED
        BY <1>1, <2>1 DEF Recorded
    <2> QED
      BY <1>9, <1>10, <2>1, <2>2 DEF Steps, Handling
  <1>17. CASE Complete(t)
    <2>1. /\ UNCHANGED <<stream, transcript, ruled, dlq>> /\ Goto(t, "ack") /\ c \in Calls
          /\ done' = done \cup {c}
      BY <1>3, <1>17 DEF Complete, Handling
    <2>2. Recorded \subseteq Recorded' /\ Recorded' \subseteq Recorded \cup {c}
      <3> HIDE DEF c
      <3> QED
        BY <1>1, <2>1 DEF Recorded
    <2> QED
      BY <1>9, <1>10, <2>1, <2>2 DEF Steps, Handling
  <1>18. CASE DeadLetter(t)
    <2>1. /\ UNCHANGED <<stream, transcript, ruled, done>> /\ Goto(t, "ack")
          /\ dlq' = dlq \cup {c}
      BY <1>18 DEF DeadLetter, recordVars, resultVars
    <2>2. Recorded' = Recorded /\ Owed' = Owed
      BY <1>7, <1>10, <2>1 DEF Recorded, Steps
    <2>3. CASE c \in Calls
      <3>1. c \in Owed
        BY <1>4, <2>3
      <3> HIDE DEF c
      <3>2. dlq' \cap Calls = (dlq \cap Calls) \cup {c}
        BY <2>1, <2>3
      <3>3. Duty!Report(c)
        BY <1>2, <1>5, <2>2, <3>1, <3>2 DEF Duty!Report
      <3> QED
        BY <2>3, <3>3 DEF Duty!Next
    <2>4. CASE c \notin Calls
      <3> HIDE DEF c
      <3>1. dlq' \cap Calls = dlq \cap Calls
        BY <2>1, <2>4
      <3> QED
        BY <1>2, <1>5, <2>2, <3>1, DutyMoves
    <2> QED
      BY <2>3, <2>4
  <1>19. CASE AnswerLost(t)
    <2>1. UNCHANGED <<stream, transcript, ruled, done, dlq>> /\ tasks' = tasks \ {t}
      BY <1>19 DEF AnswerLost, Finish, recordVars, resultVars
    <2> QED
      BY <1>8, <2>1
  <1>20. CASE Ack(t) \/ Nak(t)
    <2>1. UNCHANGED <<transcript, ruled, done, dlq>> /\ tasks' = tasks \ {t}
      BY <1>20 DEF Ack, Nak, Finish, recordVars, resultVars
    <2>2. /\ DOMAIN stream' = DOMAIN stream
          /\ \A i \in DOMAIN stream : stream'[i].state \in {"ready", "out"} =>
                                       stream[i].state \in {"ready", "out"}
      <3>1. stream \in Seq(Messages)
        BY <1>1 DEF DeliveryTypeOK, OutboxTypeOK
      <3>2. DOMAIN stream' = DOMAIN stream /\ \A i \in DOMAIN stream \ {t.msg} : stream'[i] = stream[i]
        BY <1>20, <3>1 DEF Ack, Nak
      <3>3. stream'[t.msg].state \in {"ready", "out"} => stream[t.msg].state \in {"ready", "out"}
        <4>1. CASE Ack(t)
          <5>1. stream'[t.msg] = Acked(stream[t.msg])
            BY <1>1, <3>1, <4>1 DEF Ack
          <5>2. Acked(stream[t.msg]).state =
                  IF stream[t.msg].state \in {"ready", "out"} THEN "acked" ELSE stream[t.msg].state
            BY <1>1, MessageFacts
          <5> QED
            BY <5>1, <5>2
        <4>2. CASE Nak(t)
          <5>1. stream'[t.msg] = IF stream[t.msg].state = "out" THEN Returned(stream[t.msg])
                                 ELSE stream[t.msg]
            BY <1>1, <3>1, <4>2 DEF Nak
          <5> QED
            BY <5>1
        <4> QED
          BY <1>20, <4>1, <4>2
      <3> QED
        BY <3>2, <3>3
    <2>3. \A u \in tasks' : \E v \in tasks : v.msg = u.msg
      BY <2>1
    <2>4. \A d \in Calls : Busy(d)' => Busy(d)
      BY <1>1, <1>5, <2>2, <2>3, BusyWas
    <2>5. Owed' \subseteq Owed /\ Recorded' = Recorded
      BY <1>2, <2>1, <2>4, OwedShrinks DEF Recorded
    <2> QED
      BY <1>2, <1>5, <2>1, <2>5, DutyMoves
  <1> QED
    BY <1>12, <1>13, <1>14, <1>15, <1>16, <1>17, <1>18, <1>19, <1>20 DEF Work

\* Every step of the delivery path is a step of the duty or leaves it alone.
LEMMA DutyStep ==
    ASSUME DeliveryInv, DeliveryInv', RowsEnded, [Next]_vars
    PROVE  Duty!Next \/ UNCHANGED Duty!dutyVars
  <1>0. DeliveryTypeOK /\ DeliveriesCounted /\ Grows
    BY TypeStep DEF DeliveryInv
  <1>1. CASE UNCHANGED vars
    BY <1>1 DEF vars, outboxVars, recordVars, resultVars, historyVars, Duty!dutyVars, Ended, Owed,
       Busy, OpenMessages, Copies, CallOf, Recorded, Lost
  <1>2. ASSUME NEW c \in Calls, FinishCall(c) PROVE Duty!Next
    <2>1. /\ row \in [Calls -> RowStates] /\ status \in [Calls -> CallStatuses]
          /\ status[c] = "ingesting" /\ status' = [status EXCEPT ![c] = "transcribing"]
          /\ row' = [row EXCEPT ![c] = "due"]
          /\ UNCHANGED <<held, stream, transcript, ruled, done, tasks, dlq, unreported>>
      BY <1>0, <1>2 DEF FinishCall, SetStatus, DeliveryTypeOK, OutboxTypeOK, RecordTypeOK,
         resultVars, historyVars
    <2>2. c \notin Ended /\ Ended' = Ended \cup {c}
      BY <2>1 DEF Ended
    <2>3. Busy(c)' /\ \A d \in Calls \ {c} : Busy(d)' <=> Busy(d)
      BY <2>1 DEF Busy, OpenMessages, Copies, CallOf
    <2>4. Owed' = Owed \cup {c}
      <3>1. Ended \subseteq Calls
        BY DEF Ended
      <3> QED
        BY <2>2, <2>3, <3>1, OwedIs
    <2>5. Recorded' = Recorded /\ Lost' = Lost /\ dlq' = dlq
      BY <2>1 DEF Recorded, Lost
    <2>6. Duty!End(c)
      BY <2>2, <2>4, <2>5 DEF Duty!End
    <2> QED
      BY <2>6 DEF Duty!Next
  <1>3. ASSUME UNCHANGED <<status, transcript, ruled, done, dlq>>,
               \A c \in Calls : Busy(c)' => Busy(c), Lost' \ Lost \subseteq Owed
        PROVE  Duty!Next
    <2>1. Ended' = Ended /\ Recorded' = Recorded
      BY <1>3 DEF Ended, Recorded
    <2>2. Owed' \subseteq Owed
      BY <1>3, <2>1, OwedShrinks
    <2> QED
      BY <1>0, <1>3, <2>1, <2>2, LostStep, DutyMoves
  <1>4. CASE OutboxNext /\ UNCHANGED <<recordVars, tasks, dlq, historyVars>>
    <2>1. UNCHANGED <<status, transcript, ruled, done, dlq, unreported, tasks>>
      BY <1>4 DEF recordVars, resultVars, historyVars
    <2> QED
      BY <1>0, <1>3, <1>4, <2>1, OutboxBusy, LostStep
  <1>5. CASE HumanNext /\ UNCHANGED <<outboxVars, stream, faults, tasks, dlq, historyVars>>
    <2>1. UNCHANGED <<status, transcript, ruled, done, dlq, unreported, tasks, row, held, stream>>
      BY <1>5 DEF HumanNext, ConfirmCall, RespondToFlag, UpdateFlag, outboxVars, historyVars
    <2>2. \A c \in Calls : Busy(c)' => Busy(c)
      BY <2>1 DEF Busy, OpenMessages, Copies, CallOf
    <2> QED
      BY <1>0, <1>3, <2>1, <2>2, LostStep
  <1>6. ASSUME NEW p \in Procs, Fetch(p) PROVE Duty!Next
    <2>1. UNCHANGED <<status, transcript, ruled, done, dlq, unreported, row, held>>
      BY <1>6 DEF Fetch, outboxVars, recordVars, resultVars, historyVars
    <2>2. PICK S \in SUBSET {i \in DOMAIN stream : stream[i].state = "ready"} :
              /\ DOMAIN stream' = DOMAIN stream
              /\ \A i \in DOMAIN stream \ S : stream'[i] = stream[i]
              /\ \A u \in tasks' \ tasks : u.msg \in S
      BY <1>0, <1>6, FetchFacts
    <2>3. \A i \in DOMAIN stream : stream'[i].state \in {"ready", "out"} =>
                                    stream[i].state \in {"ready", "out"}
      BY <2>2
    <2>4. \A u \in tasks' : \/ \E v \in tasks : v.msg = u.msg
                            \/ u.msg \in DOMAIN stream /\ stream[u.msg].state \in {"ready", "out"}
      BY <2>2
    <2>5. \A c \in Calls : Busy(c)' => Busy(c)
      BY <1>0, <2>1, <2>2, <2>3, <2>4, BusyWas
    <2> QED
      BY <1>0, <1>3, <2>1, <2>5, LostStep
  <1>7. ASSUME NEW p \in Procs, ProcessDies(p) PROVE Duty!Next
    <2>1. /\ UNCHANGED <<status, transcript, ruled, done, dlq, row, held, stream>>
          /\ tasks' \subseteq tasks
          /\ unreported' = unreported \cup
                {t.msg : t \in {u \in {w \in tasks : w.proc = p} :
                                    u.n = MaxDeliver /\ u.pc # "ack"}}
      BY <1>7 DEF ProcessDies, outboxVars, recordVars, resultVars
    <2>2. \A c \in Calls : Busy(c)' => Busy(c)
      BY <2>1 DEF Busy, OpenMessages, Copies, CallOf
    <2>3. ASSUME NEW c \in Lost', c \notin Lost PROVE c \in Owed
      <3>1. c \in Calls /\ \E t \in tasks : CallOf(t) = c
        BY <2>1, <2>3 DEF Lost, CallOf
      <3> QED
        BY <3>1, StoredEnded DEF Owed
    <2> QED
      BY <1>3, <2>1, <2>2, <2>3
  <1>8. ASSUME NEW i \in DOMAIN stream, AckWaitExpires(i) PROVE Duty!Next
    <2>1. /\ UNCHANGED <<status, transcript, ruled, done, dlq, unreported, row, held, tasks>>
          /\ stream[i].state = "out" /\ stream' = [stream EXCEPT ![i] = Returned(stream[i])]
      BY <1>8 DEF AckWaitExpires, outboxVars, recordVars, resultVars, historyVars
    <2>2. stream \in Seq(Messages)
      BY <1>0 DEF DeliveryTypeOK, OutboxTypeOK
    <2>3. DOMAIN stream' = DOMAIN stream /\ \A j \in DOMAIN stream \ {i} : stream'[j] = stream[j]
      BY <2>1, <2>2
    <2>4. \A j \in DOMAIN stream : stream'[j].state \in {"ready", "out"} =>
                                    stream[j].state \in {"ready", "out"}
      BY <2>1, <2>3
    <2>5. \A u \in tasks' : \E v \in tasks : v.msg = u.msg
      BY <2>1
    <2>6. \A c \in Calls : Busy(c)' => Busy(c)
      BY <1>0, <2>1, <2>3, <2>4, <2>5, BusyWas
    <2> QED
      BY <1>0, <1>3, <2>1, <2>6, LostStep
  <1>9. ASSUME NEW t \in tasks, Work(t) \/ Raises(t) \/ AnswerLost(t) PROVE Duty!Next
    BY <1>0, <1>9, WorkDuty
  <1> QED
    BY <1>1, <1>2, <1>4, <1>5, <1>6, <1>7, <1>8, <1>9 DEF Next

\* Outbox, stream and consumers together are a duty to finalize, for any number of calls,
\* drainers, processes, copies and failures: a call that has ended stays owed until it is
\* complete, dead-lettered or lost with its last delivery, it is worked on only while it is
\* owed, and nothing that was let go comes back (outbox.go, nats.go, consumer.py, service.py).
THEOREM DeliveryIsDuty == Spec => ImplementsDuty
  <1>1. Init => RowsEnded
    BY DEF Init, OutboxInit, RowsEnded
  <1>2. DeliveryInv /\ RowsEnded /\ [Next]_vars => RowsEnded'
    BY EndedStep
  <1>3. Init => Duty!Init
    BY DEF Init, OutboxInit, RecordInit, Duty!Init, Ended, Owed, Recorded, Lost
  <1>4. DeliveryInv /\ DeliveryInv' /\ RowsEnded /\ [Next]_vars => [Duty!Next]_(Duty!dutyVars)
    BY DutyStep
  <1> QED
    BY <1>1, <1>2, <1>3, <1>4, DeliveryInductive, PTL DEF Spec, ImplementsDuty, Duty!Spec
====
