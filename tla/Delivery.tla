---- MODULE Delivery ----
(***************************************************************************)
(* From call.end to a reviewed record.  Consumer processes pull finalize   *)
(* messages from the durable JetStream consumer they share, run the        *)
(* finalize of every message of a batch concurrently, and pull again when  *)
(* the whole batch has been answered.  A finalize is a sequence of         *)
(* transactions: a process may die between any two of them, a message may  *)
(* be delivered again while an earlier delivery is still being worked on,  *)
(* and two stored copies of a message may be in hand at once.              *)
(***************************************************************************)
EXTENDS Outbox

CONSTANTS
    Procs,       \* consumer processes
    MaxInFlight  \* fetch batch, and deliveries the broker leaves unacknowledged

ASSUME DeliveryAssumption == MaxInFlight \in Nat \ {0}

VARIABLES
    tasks,      \* deliveries being processed
    dlq,        \* what has been published on the dead-letter subject
    unreported, \* history: messages whose last delivery died with its process
    overlapped, \* history: calls that two deliveries saved findings for at one time,
                \* and none alone since
    crossed     \* history: deliveries whose save met another one of the call

historyVars == <<unreported, overlapped, crossed>>
vars == <<outboxVars, stream, faults, recordVars, tasks, dlq, historyVars>>

\* The steps of _process and _finalize that leave a trace, in order.
Handling == {"start", "analyzing", "analyse", "findings", "saving", "complete"}
Steps == Handling \cup {"nak", "dlq", "ack"}

\* A delivery; found and stale are the open transaction of save_findings.
Tasks == [proc : Procs, msg : Nat, n : 1..MaxDeliver, pc : Steps,
          found : SUBSET Keys, stale : SUBSET Keys]

Init == /\ OutboxInit /\ RecordInit /\ tasks = {} /\ dlq = {}
        /\ unreported = {} /\ overlapped = {} /\ crossed = {}

DeliveryTypeOK ==
    /\ OutboxTypeOK
    /\ RecordTypeOK
    /\ tasks \in SUBSET Tasks
    /\ \A t \in tasks : t.msg \in DOMAIN stream
    /\ dlq \in SUBSET Subjects
    /\ unreported \in SUBSET (DOMAIN stream)
    /\ overlapped \in SUBSET Calls
    /\ crossed \in SUBSET (Nat \X (1..MaxDeliver))

CallOf(t) == stream[t.msg].call
Name(t) == <<t.msg, t.n>>
Becomes(t, u) == tasks' = (tasks \ {t}) \cup {u}
Goto(t, pc) == Becomes(t, [t EXCEPT !.pc = pc, !.found = {}, !.stale = {}])
Finish(t) == tasks' = tasks \ {t}

----------------------------------------------------------------------------
\* FinishCall: the end of the call and the outbox row are one commit.
FinishCall(c) ==
    /\ status[c] = "ingesting"
    /\ SetStatus(c, "transcribing")
    /\ row' = [row EXCEPT ![c] = "due"]
    /\ UNCHANGED <<held, sending, stream, faults, resultVars, handled, acts,
                   tasks, dlq, historyVars>>

\* fetch: every message of the batch is one more delivery of it.
Fetch(p) ==
    /\ \A t \in tasks : t.proc # p
    /\ \E S \in SUBSET {i \in DOMAIN stream : stream[i].state = "ready"} :
          /\ S # {}
          /\ Cardinality(S \cup {i \in DOMAIN stream : stream[i].state = "out"})
                 <= MaxInFlight
          /\ stream' = [i \in DOMAIN stream |->
                          IF i \in S
                          THEN [stream[i] EXCEPT !.deliveries = @ + 1, !.state = "out"]
                          ELSE stream[i]]
          /\ tasks' = tasks \cup
                {[proc |-> p, msg |-> i, n |-> stream[i].deliveries + 1, pc |-> "start",
                  found |-> {}, stale |-> {}] : i \in S}
    /\ UNCHANGED <<outboxVars, faults, recordVars, dlq, historyVars>>

\* AckWait runs out, whether or not the delivery is still being worked on.
AckWaitExpires(i) ==
    /\ stream[i].state = "out"
    /\ stream' = [stream EXCEPT ![i] = Returned(@)]
    /\ UNCHANGED <<outboxVars, faults, recordVars, tasks, dlq, historyVars>>

----------------------------------------------------------------------------
\* Mutants of AfterFailure: off by one; every failure is acknowledged.
PastLast(t) == IF t.n > MaxDeliver THEN "dlq" ELSE "nak"
AckAnyway(t) == "ack"

\* What _process does with an exception of the handler.
AfterFailure(t) == IF t.n >= MaxDeliver THEN "dlq" ELSE "nak"

\* Unprocessable, on any delivery: no such call for this tenant, or a value of the call's
\* tenant that cannot be read (its rule set, its budget).
Unprocessable(t) ==
    /\ t.pc = "start"
    /\ \/ CallOf(t) \in Strays /\ UNCHANGED faults
       \/ CallOf(t) \in Calls /\ Fault
    /\ Goto(t, "dlq")
    /\ UNCHANGED <<outboxVars, stream, recordVars, dlq, historyVars>>

\* A channel is heard when its audio was stored and its transcription succeeded.
Transcribe(t, heard) ==
    /\ t.pc = "start" /\ CallOf(t) \in Calls
    /\ heard # {}
    /\ SaveTranscript(CallOf(t), heard)
    /\ Goto(t, "analyzing")
    /\ UNCHANGED <<outboxVars, stream, faults, status, analysed, ptp, flags, ruled,
                   done, handled, acts, dlq, historyVars>>

\* Nothing was heard: the call is marked failed and the handler raises.
NothingHeard(t) ==
    /\ t.pc = "start" /\ CallOf(t) \in Calls
    /\ SetStatus(CallOf(t), "failed")
    /\ Goto(t, AfterFailure(t))
    /\ UNCHANGED <<outboxVars, stream, faults, resultVars, handled, acts, dlq, historyVars>>

MarkAnalyzing(t) ==
    /\ t.pc = "analyzing"
    /\ SetStatus(CallOf(t), "analyzing")
    /\ Goto(t, "analyse")
    /\ UNCHANGED <<outboxVars, stream, faults, resultVars, handled, acts, dlq, historyVars>>

Analyse(t, a) ==
    /\ t.pc = "analyse"
    /\ SaveAnalysis(CallOf(t), a)
    /\ Goto(t, "findings")
    /\ UNCHANGED <<outboxVars, stream, faults, status, transcript, flags, ruled, done,
                   handled, acts, dlq, historyVars>>

\* Skipped by the cost policy, or the provider failed: compliance still runs.
NoAnalysis(t) ==
    /\ t.pc = "analyse"
    /\ Goto(t, "findings")
    /\ UNCHANGED <<outboxVars, stream, faults, recordVars, dlq, historyVars>>

\* The other open transactions of save_findings for the call.
Rivals(t) == {u \in tasks \ {t} : u.pc = "saving" /\ CallOf(u) = CallOf(t)}

\* The findings are in hand, upserted, and the delete has read the flags.
Review(t, found) ==
    /\ t.pc = "findings"
    /\ Becomes(t, [t EXCEPT !.pc = "saving", !.found = found,
                            !.stale = Stale(CallOf(t), found)])
    /\ IF Rivals(t) = {}
       THEN crossed' = crossed \ {Name(t)} /\ UNCHANGED overlapped
       ELSE /\ crossed' = crossed \cup {Name(u) : u \in Rivals(t) \cup {t}}
            /\ overlapped' = overlapped \cup {CallOf(t)}
    /\ UNCHANGED <<outboxVars, stream, faults, recordVars, dlq, unreported>>

CommitFindings(t) ==
    /\ t.pc = "saving"
    /\ SaveFindings(CallOf(t), t.found, t.stale)
    /\ Goto(t, "complete")
    /\ overlapped' = overlapped \ (IF Name(t) \in crossed THEN {} ELSE {CallOf(t)})
    /\ UNCHANGED <<outboxVars, stream, faults, status, transcript, analysed, ptp, done,
                   handled, acts, dlq, unreported, crossed>>

Complete(t) ==
    /\ t.pc = "complete"
    /\ SetStatus(CallOf(t), "complete")
    /\ done' = done \cup {CallOf(t)}
    /\ Goto(t, "ack")
    /\ UNCHANGED <<outboxVars, stream, faults, transcript, analysed, ptp, flags, ruled,
                   handled, acts, dlq, historyVars>>

\* The database or the object store fails under any step of the handler.
Raises(t) ==
    /\ t.pc \in Handling
    /\ Fault
    /\ Goto(t, AfterFailure(t))
    /\ UNCHANGED <<outboxVars, stream, recordVars, dlq, historyVars>>

----------------------------------------------------------------------------
\* How a delivery is answered.
DeadLetter(t) ==
    /\ t.pc = "dlq"
    /\ dlq' = dlq \cup {CallOf(t)}
    /\ Goto(t, "ack")
    /\ UNCHANGED <<outboxVars, stream, faults, recordVars, historyVars>>

\* The acknowledgement of any delivery settles the message.
Acked(m) == IF m.state \in {"ready", "out"} THEN [m EXCEPT !.state = "acked"] ELSE m

Ack(t) ==
    /\ t.pc = "ack"
    /\ stream' = [stream EXCEPT ![t.msg] = Acked(@)]
    /\ Finish(t)
    /\ UNCHANGED <<outboxVars, faults, recordVars, dlq, historyVars>>

Nak(t) ==
    /\ t.pc = "nak"
    /\ stream' = [stream EXCEPT ![t.msg] = IF @.state = "out" THEN Returned(@) ELSE @]
    /\ Finish(t)
    /\ UNCHANGED <<outboxVars, faults, recordVars, dlq, historyVars>>

\* The answer is written to a connection that is gone.
AnswerLost(t) ==
    /\ t.pc \in {"ack", "nak"}
    /\ Fault
    /\ Finish(t)
    /\ UNCHANGED <<outboxVars, stream, recordVars, dlq, historyVars>>

\* The process is killed, or an exception outside the handler (the dead-letter publish)
\* ends the loop; its batch goes with it.
ProcessDies(p) ==
    LET mine == {t \in tasks : t.proc = p}
    IN  /\ mine # {}
        /\ Fault
        /\ tasks' = tasks \ mine
        /\ unreported' = unreported \cup
               {t.msg : t \in {u \in mine : u.n = MaxDeliver /\ u.pc # "ack"}}
        /\ UNCHANGED <<outboxVars, stream, recordVars, dlq, overlapped, crossed>>

----------------------------------------------------------------------------
Work(t) ==
    \/ Unprocessable(t)
    \/ \E heard \in SUBSET Channels : Transcribe(t, heard)
    \/ NothingHeard(t)
    \/ MarkAnalyzing(t)
    \/ \E a \in Amounts \cup {NoAmount} : Analyse(t, a)
    \/ NoAnalysis(t)
    \/ \E found \in Findings : Review(t, found)
    \/ CommitFindings(t)
    \/ Complete(t)
    \/ DeadLetter(t)
    \/ Ack(t)
    \/ Nak(t)

Next ==
    \/ \E c \in Calls : FinishCall(c)
    \/ OutboxNext /\ UNCHANGED <<recordVars, tasks, dlq, historyVars>>
    \/ HumanNext /\ UNCHANGED <<outboxVars, stream, faults, tasks, dlq, historyVars>>
    \/ \E p \in Procs : Fetch(p) \/ ProcessDies(p)
    \/ \E i \in DOMAIN stream : AckWaitExpires(i)
    \/ \E t \in tasks : Work(t) \/ Raises(t) \/ AnswerLost(t)

Spec == Init /\ [][Next]_vars

\* The drainer's loop never stops, processes keep pulling and every provider call
\* returns; backoffs and AckWait are timers.
Drain(g) ==
    /\ Claim(g) \/ MarkPublished(g) \/ \E c \in Calls : Publish(g, c)
    /\ UNCHANGED <<recordVars, tasks, dlq, historyVars>>

Run(p) == Fetch(p) \/ \E t \in tasks : t.proc = p /\ Work(t)

Fairness ==
    /\ \A g \in Gateways : WF_vars(Drain(g))
    /\ \A c \in Calls :
          WF_vars(BackoffEnds(c) /\ UNCHANGED <<recordVars, tasks, dlq, historyVars>>)
    /\ \A p \in Procs : WF_vars(Run(p))
    /\ \A i \in 1..MaxStored :
          WF_vars(i \in DOMAIN stream /\ AckWaitExpires(i))

FairSpec == Spec /\ Fairness

----------------------------------------------------------------------------
\* From the commit of call.end on, a call is owed to the pipeline by its outbox row or
\* by a message in the stream: no failure of the broker, of a drainer or of the mark
\* leaves a finalized call that nothing will ever analyse.
NeverStranded ==
    \A c \in Calls : status[c] # "ingesting" =>
        \/ row[c] \in {"due", "waiting"}
        \/ \E i \in DOMAIN stream : stream[i].call = c

\* A message is settled only once the work is durable: the call has a transcript, its
\* findings were saved and it was carried to complete, or the message is on the
\* dead-letter subject.
Settled(c) ==
    \/ c \in dlq
    \/ c \in done /\ c \in ruled /\ transcript[c] # {}

AckedIsRecorded ==
    \A i \in DOMAIN stream : stream[i].state = "acked" => Settled(stream[i].call)

\* The broker gives up on a message that nothing recorded and nobody dead-lettered only
\* while its last delivery is still running or after that delivery died with its process.
Accounted(i) ==
    \/ Settled(stream[i].call)
    \/ i \in unreported
    \/ \E t \in tasks : t.msg = i /\ t.n = MaxDeliver

DeadLetteredUnlessKilled ==
    \A i \in DOMAIN stream : stream[i].state = "dropped" => Accounted(i)

\* However many deliveries of a call run or die, a rule holds flags of both tiers only
\* when a human has written to one of them, or when two deliveries saved their findings
\* at one time, neither saw the other's, and no delivery has saved alone since: the next
\* run that does so removes what such a pair left behind.
ReplacedUnlessHandled ==
    \A c \in Calls \ overlapped, r \in Rules :
        (\A n \in Tiers : Present(flags[c][<<r, n>>])) =>
            \E n \in Tiers : <<c, <<r, n>>>> \in handled

\* Only a human changes what a human wrote: a reviewed, assigned or answered flag stays
\* as it is under every finalize, and so does the extraction beside a correction.
HumanDecisionsKept ==
    [][acts' = acts =>
        \A c \in Calls :
            /\ \A k \in Keys :
                  Decided(flags[c][k]) => flags'[c][k] = flags[c][k]
            /\ ptp[c].state = "corrected" => ptp'[c] = ptp[c]]_vars

\* Every finalized call is eventually carried to complete or dead-lettered, unless the
\* last delivery of its message died with its process.
FinalizedIsSettled ==
    \A c \in Calls : status[c] = "transcribing" ~>
        \/ c \in done \cup dlq
        \/ \E i \in DOMAIN stream : stream[i].call = c /\ i \in unreported

----------------------------------------------------------------------------
(* The hand-over as a duty: a call is owed while its row is to be          *)
(* published, a drainer holds it, or a message or a delivery of it is open. *)

Ended == {c \in Calls : status[c] # "ingesting"}

OpenMessages(c) == {i \in Copies(c) : stream[i].state \in {"ready", "out"}}

Busy(c) ==
    \/ row[c] \in {"due", "waiting"}
    \/ \E g \in Gateways : c \in held[g]
    \/ OpenMessages(c) # {}
    \/ \E t \in tasks : CallOf(t) = c

Owed == {c \in Ended : Busy(c)}

Recorded == {c \in done \cap ruled : transcript[c] # {}}

Lost == {c \in Calls : \E i \in unreported : stream[i].call = c}

Duty == INSTANCE FinalizeDuty WITH ended <- Ended, owed <- Owed, recorded <- Recorded,
                                   reported <- dlq \cap Calls, lost <- Lost

\* Whatever fails, dies or is delivered twice, a call that has ended stays owed until it is
\* complete, dead-lettered or lost with its last delivery; it is worked on only while it is
\* owed; and once no row, drainer, message or delivery is left of it none ever comes back.
ImplementsDuty == Duty!Spec

----------------------------------------------------------------------------
(* The parts of the inductive invariant behind these properties.           *)

\* A row stays until it is published, only stored messages are marked published, and
\* nothing is claimed or stored for a call without a row.
RowsOwed ==
    /\ \A c \in Calls : status[c] # "ingesting" => row[c] # "none"
    /\ \A c \in Calls : Copies(c) # {} => row[c] # "none"
    /\ \A g \in Gateways : \A c \in held[g] : row[c] # "none"
    /\ \A c \in Calls : row[c] = "published" => Copies(c) # {}
    /\ \A g \in Gateways : sending[g] # NoCall => Copies(sending[g]) # {}

\* What a delivery has made durable when it reaches a step.
Progress(t) ==
    /\ t.pc \in Handling \ {"start"} => CallOf(t) \in Calls /\ transcript[CallOf(t)] # {}
    /\ t.pc = "complete" => CallOf(t) \in ruled
    /\ t.pc = "ack" => Settled(CallOf(t))
    /\ t.pc = "nak" => t.n < MaxDeliver
TaskProgress == \A t \in tasks : Progress(t)

\* Deliveries left tell a message that waits from one the broker gave up on, and the last
\* delivery of an open message is accounted for.
Counted(i) ==
    /\ stream[i].state = "ready" => stream[i].deliveries < MaxDeliver
    /\ stream[i].state = "dropped" => stream[i].deliveries = MaxDeliver
    /\ stream[i].deliveries = MaxDeliver /\ stream[i].state # "acked" => Accounted(i)
DeliveriesCounted == \A i \in DOMAIN stream : Counted(i)

\* An open transaction of save_findings: what it will leave behind is its own findings or
\* was written by a human, unless it met another one.
Saving(t) ==
    t.pc = "saving" =>
        /\ t.found \in Findings
        /\ IF Name(t) \in crossed THEN CallOf(t) \in overlapped
           ELSE /\ Rivals(t) = {}
                /\ \A k \in Keys \ t.found : Present(flags[CallOf(t)][k]) =>
                      k \in t.stale \/ <<CallOf(t), k>> \in handled
SavingAlone == \A t \in tasks : Saving(t)

\* The columns that protect a flag are only ever written by people.
DecidedIsHandled ==
    \A c \in Calls, k \in Keys : Decided(flags[c][k]) => <<c, k>> \in handled

DeliveryInv ==
    /\ DeliveryTypeOK
    /\ RowsOwed
    /\ TaskProgress
    /\ DeliveriesCounted
    /\ AckedIsRecorded
    /\ DecidedIsHandled
    /\ SavingAlone
    /\ ReplacedUnlessHandled
====
