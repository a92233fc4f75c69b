---- MODULE MachineProofs ----
(***************************************************************************)
(* Proofs about Machine, for every set of sessions and tokens, every       *)
(* backoff policy, every channel capacity and every bound on certificates, *)
(* requests and failures.                                                  *)
(***************************************************************************)
EXTENDS Machine, WellFoundedInduction, TLAPS

-----------------------------------------------------------------------------
(***************************************************************************)
(* What makes the properties inductive.                                    *)
(***************************************************************************)

\* There is one device key: every request on its way and every certificate ever issued is
\* for the key the machine holds, and before it has one there is neither.
OneKey ==
    /\ \A q \in inflight : q.key = key
    /\ \A i \in 1..Len(issued) : issued[i] = key
    /\ key = 0 => inflight = {} /\ issued = <<>> /\ step \in {"off", "key"}

\* The steps of persist: an answer is in memory and its files are being written.
Persisting == step \in {"cert", "chain", "identity", "spoolkey", "clear"}

\* The files are written in one order and never go back: identity after chain after
\* certificate, all of certificates the gateway issued.
FilesInOrder ==
    /\ ident <= chain /\ chain <= cert /\ cert <= Len(issued)
    /\ Persisting => job.cert \in 1..Len(issued) /\ cert <= job.cert
    /\ step \in {"chain", "identity", "spoolkey", "clear"} => cert = job.cert
    /\ step \in {"identity", "spoolkey", "clear"} => chain = job.cert

\* As long as no answer was lost the device row holds the certificate on disk, or the one
\* about to be written there.
RowInStep == ~lost => registered = IF step = "cert" THEN job.cert ELSE cert

EnrollInv == EnrollmentTypeOK /\ OneKey /\ FilesInOrder /\ RowInStep

\* Every certificate an agent has loaded was issued.
AgentsLoaded == \A s \in Sessions, w \in Places : proc[s][w].cert <= Len(issued)

\* RunningIsWatched, in a form that also holds while the service is down.
Watched == \A s \in Sessions : Running(s) <=> proc[s]["child"].st # "none"

\* A service that is down tracks nothing.
DownIsEmpty == svc = "down" => Tracked = {}

\* The exchange is a call the service body waits for.
ExchangeHeld == svc \in {"start", "check"} \/ step = "off"

IInv == TypeOK /\ EnrollInv /\ AgentsLoaded /\ Watched /\ DownIsEmpty /\ ExchangeHeld

-----------------------------------------------------------------------------
(***************************************************************************)
(* The enrollment exchange.                                                *)
(***************************************************************************)

\* Certificates are only ever added, and a step of another part leaves them alone.
IssuedGrows == Len(issued) <= Len(issued')

\* A failure stays within its bound.
LEMMA FailureType ==
    ASSUME faults \in 0..MaxFault, Failure
    PROVE  faults' \in 0..MaxFault
BY EnrollmentAssumption DEF Failure

\* The empty job has the type of a job.
LEMMA NoJobType ==
    NoJob \in [req : 0..MaxRequest, tok : Tokens \cup {NoToken}, file : BOOLEAN,
               cert : 0..MaxCert]
BY EnrollmentAssumption DEF NoJob

\* What the service's own steps of ensure_device_credential keep.
LEMMA EnrollStepKeeps ==
    ASSUME EnrollInv, EnrollStep
    PROVE  EnrollInv' /\ IssuedGrows
<1> USE EnrollmentAssumption, NoJobType DEF EnrollInv, EnrollmentTypeOK, OneKey, FilesInOrder, RowInStep,
        IssuedGrows, Persisting, Steps, diskVars, gatewayVars, Finish
<1>1. CASE OpenKey
  <2>1. CASE key # 0
    BY <1>1, <2>1 DEF OpenKey, OpenOrCreate
  <2>2. CASE key = 0
    <3>1. key' \in Nat /\ key' # 0 /\ keys' \in Nat
      BY <1>1, <2>2 DEF OpenKey, OpenOrCreate
    <3>2. inflight = {} /\ Len(issued) = 0
      BY <2>2
    <3> QED
      BY <1>1, <3>1, <3>2 DEF OpenKey
  <2> QED
    BY <2>1, <2>2
<1>2. CASE NothingToDo
  BY <1>2 DEF NothingToDo
<1>3. ASSUME NEW r \in 1..MaxRequest, SendRequest(r)
      PROVE  EnrollInv' /\ IssuedGrows
  <2>1. Token \in Tokens /\ step = "decide" /\ key # 0 /\ key \in Nat
    BY <1>3 DEF SendRequest, Token
  <2>2. [req |-> r, tok |-> Token, key |-> key] \in Request
    BY <2>1 DEF Request
  <2>3. inflight' \subseteq Request
    BY <2>2, <1>3 DEF SendRequest
  <2>4. \A q \in inflight' : q.key = key
    BY <1>3 DEF SendRequest
  <2>5. job' \in [req : 0..MaxRequest, tok : Tokens \cup {NoToken}, file : BOOLEAN,
                  cert : 0..MaxCert]
    BY <1>3, <2>1 DEF SendRequest
  <2> QED
    BY <1>3, <2>1, <2>3, <2>4, <2>5 DEF SendRequest
<1>4. CASE WriteCertificate
  BY <1>4 DEF WriteCertificate
<1>5. CASE WriteChain
  BY <1>5 DEF WriteChain
<1>6. CASE WriteIdentity
  BY <1>6 DEF WriteIdentity
<1>7. CASE StoreSpoolKey
  BY <1>7 DEF StoreSpoolKey
<1>8. CASE ClearToken
  BY <1>8 DEF ClearToken, ClearRenewalToken, ClearEnrollmentToken
<1> QED
  BY <1>1, <1>2, <1>3, <1>4, <1>5, <1>6, <1>7, <1>8 DEF EnrollStep
\* A step that writes nothing and issues nothing: it may take requests and tokens away,
\* and it goes on with the exchange, ends it, or starts one where there is none.
Settles ==
    /\ UNCHANGED <<key, cert, chain, ident, spoolKey, registered, issued, keys, spoolKeys>>
    /\ inflight' \subseteq inflight /\ usable' \subseteq usable /\ aged' \subseteq Certs
    /\ {regTok', newTok'} \subseteq Tokens \cup {NoToken}
    /\ faults' \in 0..MaxFault
    /\ \/ step' = step /\ job' = job /\ lost' = lost
       \/ step' = "off" /\ job' = NoJob /\ lost' = (lost \/ step = "cert")
       \/ step' = "key" /\ ~Persisting /\ job' = job /\ lost' = lost

\* Settling a job keeps the enrollment's invariant and issues nothing back.
LEMMA SettlesKeeps ==
    ASSUME EnrollInv, Settles
    PROVE  EnrollInv' /\ IssuedGrows
<1> USE DEF EnrollInv, Settles
<1>1. EnrollmentTypeOK'
  BY NoJobType DEF EnrollmentTypeOK, Steps
<1>2. OneKey'
  BY DEF OneKey
<1>3. FilesInOrder'
  BY DEF FilesInOrder, Persisting
<1>4. RowInStep'
  <2>1. CASE step' = "off" /\ job' = NoJob /\ lost' = (lost \/ step = "cert")
    <3>1. ~lost' => ~lost /\ step # "cert"
      BY <2>1, Zenon
    <3> QED
      BY <2>1, <3>1 DEF RowInStep
  <2>2. CASE step' \in {step, "key"} /\ job' = job /\ lost' = lost /\ (step' # step => ~Persisting)
    BY <2>2 DEF RowInStep, Persisting
  <2> QED
    BY <2>1, <2>2
<1>5. IssuedGrows
  BY DEF IssuedGrows, EnrollmentTypeOK
<1> QED
  BY <1>1, <1>2, <1>3, <1>4, <1>5

\* What the gateway's handler keeps, whoever waits for its answer.
LEMMA GatewayKeeps ==
    ASSUME EnrollInv, Gateway
    PROVE  EnrollInv' /\ IssuedGrows
<1> USE EnrollmentAssumption
<1>1. PICK q \in inflight : TokenRefused(q) \/ Issue(q)
  BY DEF Gateway
<1>2. CASE TokenRefused(q)
  <2>1. Settles
    BY <1>2 DEF TokenRefused, Waiting, Finish, Settles, EnrollInv, EnrollmentTypeOK, diskVars
  <2> QED
    BY <2>1, SettlesKeeps
<1>3. CASE Issue(q)
  <2>1. /\ issued' = Append(issued, q.key) /\ Len(issued) < MaxCert
        /\ registered' = Len(issued) + 1 /\ inflight' = inflight \ {q}
        /\ usable' = usable \ {q.tok}
        /\ UNCHANGED <<key, cert, chain, ident, spoolKey, regTok, newTok, aged, keys, spoolKeys,
                       faults>>
    BY <1>3 DEF Issue, diskVars
  <2>2. q.key = key /\ key \in Nat /\ key # 0 /\ issued \in Seq(Nat)
    BY <1>1 DEF EnrollInv, OneKey, EnrollmentTypeOK
  <2>3. /\ issued' \in Seq(Nat) /\ Len(issued') = Len(issued) + 1 /\ Len(issued) \in Nat
        /\ \A i \in 1..Len(issued) : issued'[i] = issued[i]
        /\ issued'[Len(issued) + 1] = key
    BY <2>1, <2>2
  <2>4. \/ /\ step = "sent" /\ step' = "cert" /\ lost' = lost
           /\ job' = [job EXCEPT !.cert = Len(issued) + 1]
        \/ step' = step /\ job' = job /\ lost' = TRUE
    BY <1>3 DEF Issue, Waiting
  <2>5. EnrollmentTypeOK'
    <3>1. Len(issued) + 1 \in 0..MaxCert
      BY <2>1, <2>3
    <3>2. step' \in Steps /\ lost' \in BOOLEAN
          /\ job' \in [req : 0..MaxRequest, tok : Tokens \cup {NoToken}, file : BOOLEAN,
                       cert : 0..MaxCert]
      BY <2>4, <3>1 DEF EnrollInv, EnrollmentTypeOK, Steps
    <3> QED
      BY <2>1, <2>3, <3>1, <3>2 DEF EnrollInv, EnrollmentTypeOK
  <2>6. OneKey'
    <3>1. \A i \in 1..Len(issued') : issued'[i] = key
      BY <2>3 DEF EnrollInv, OneKey
    <3> QED
      BY <2>1, <2>2, <3>1 DEF EnrollInv, OneKey
  <2>7. FilesInOrder'
    <3>1. job.cert \in Nat /\ cert \in Nat /\ job'.cert \in {job.cert, Len(issued) + 1}
      BY <2>4 DEF EnrollInv, EnrollmentTypeOK
    <3>2. step' = "cert" => job'.cert \in 1..Len(issued') /\ cert <= job'.cert
      <4>1. CASE step = "sent" /\ job' = [job EXCEPT !.cert = Len(issued) + 1]
        <5>1. job'.cert = Len(issued) + 1
          BY <4>1 DEF EnrollInv, EnrollmentTypeOK
        <5> QED
          BY <2>3, <3>1, <5>1 DEF EnrollInv, FilesInOrder
      <4>2. CASE step' = step /\ job' = job
        BY <2>3, <3>1, <4>2 DEF EnrollInv, FilesInOrder, Persisting
      <4> QED
        BY <2>4, <4>1, <4>2
    <3>3. step' # "cert" => step' = step /\ job' = job
      BY <2>4
    <3> QED
      BY <2>1, <2>3, <3>1, <3>2, <3>3 DEF EnrollInv, FilesInOrder, Persisting
  <2>8. RowInStep'
    BY <2>1, <2>4 DEF EnrollInv, RowInStep, EnrollmentTypeOK
  <2> QED
    BY <2>3, <2>5, <2>6, <2>7, <2>8 DEF EnrollInv, IssuedGrows
<1> QED
  BY <1>1, <1>2, <1>3

\* What the operator, the clock and the failures of an exchange keep.
LEMMA OutsideKeeps ==
    ASSUME EnrollInv, Operator \/ EnrollFault
    PROVE  EnrollInv' /\ IssuedGrows
<1> SUFFICES Settles
  BY SettlesKeeps
<1> USE EnrollmentAssumption, FailureType DEF EnrollInv, EnrollmentTypeOK, Settles, diskVars,
        gatewayVars, Finish
<1>1. ASSUME NEW t \in Tokens, TokenDropped(t) \/ TokenInstalled(t) \/ TokenExpires(t)
      PROVE  Settles
  BY <1>1 DEF TokenDropped, TokenInstalled, TokenExpires
<1>2. CASE CertificateAges
  <2>1. ident \in Certs
    BY <1>2 DEF CertificateAges, Certs
  <2> QED
    BY <1>2, <2>1 DEF CertificateAges
<1>3. CASE NoExchange
  BY <1>3 DEF NoExchange
<1>4. CASE GiveUp
  BY <1>4 DEF GiveUp
<1>5. CASE AnswerLost
  BY <1>5 DEF AnswerLost
<1>6. CASE WriteFails
  BY <1>6 DEF WriteFails
<1>7. ASSUME NEW q \in inflight, RequestLost(q)
      PROVE  Settles
  BY <1>7 DEF RequestLost, Waiting
<1>8. ASSUME NEW q \in inflight, SigningFails(q)
      PROVE  Settles
  BY <1>8 DEF SigningFails, Waiting
<1> QED
  BY <1>1, <1>2, <1>3, <1>4, <1>5, <1>6, <1>7, <1>8 DEF Operator, EnrollFault
-----------------------------------------------------------------------------
(***************************************************************************)
(* The supervisor.                                                         *)
(***************************************************************************)

\* The slot after an exit, a launch and a failed launch.
LEMMA SlotChanges ==
    ASSUME NEW slot \in Slot
    PROVE  /\ Exited(slot) \in Slot /\ ~Exited(slot).running
           /\ Launched(slot) \in Slot /\ Launched(slot).running
           /\ LaunchFailed(slot) \in Slot /\ ~LaunchFailed(slot).running
<1> USE SupervisorAssumption
<1>1. ASSUME NEW x \in Slot
      PROVE  Exited(x) \in Slot /\ ~Exited(x).running
  <2> DEFINE a == IF x.age >= HealthyRun THEN 0 ELSE x.attempt
  <2>1. a \in 0..MaxAttempt
    BY DEF Slot
  <2>2. NextAttempt(a) \in 0..MaxAttempt
    BY <2>1 DEF NextAttempt, Least
  <2>3. Ceiling(a) \in 0..BackoffCap
    <3>1. 2^a \in Nat
      BY <2>1, PowersAssumption
    <3> QED
      BY <3>1 DEF Ceiling, Least
  <2>4. Exited(x) = [running |-> FALSE, age |-> 0, wait |-> Ceiling(a),
                     attempt |-> NextAttempt(a)]
    BY DEF Exited
  <2> HIDE DEF a
  <2> QED
    BY <2>2, <2>3, <2>4 DEF Slot
<1>2. Launched(slot) \in Slot /\ Launched(slot).running
  <2>1. 0 \in 0..HealthyRun
    OBVIOUS
  <2>2. Launched(slot) = [slot EXCEPT !.running = TRUE, !.age = 0]
    BY DEF Launched
  <2>3. Launched(slot) \in Slot
    BY <2>1, <2>2 DEF Slot
  <2> QED
    BY <2>2, <2>3, Zenon DEF Slot
<1> QED
  BY <1>1, <1>2 DEF LaunchFailed

\* poll names a session that is due.
LEMMA FirstDueIsDue ==
    ASSUME SupervisorTypeOK, DueSessions # {}
    PROVE  FirstDue \in DueSessions
<1> DEFINE less == {ss \in Nat \X Nat : ss[1] < ss[2]}
<1>1. DueSessions \subseteq Nat
  BY SupervisorAssumption DEF DueSessions, Tracked, SupervisorTypeOK
<1>2. PICK x \in DueSessions : \A y \in DueSessions : ~(<<y, x>> \in less)
  <2>1. IsWellFoundedOn(less, Nat)
    BY NatLessThanWellFounded, Zenon DEF OpToRel
  <2> HIDE DEF less
  <2> QED
    BY <1>1, <2>1, WFMin
<1>3. \A y \in DueSessions : x <= y
  <2> SUFFICES ASSUME NEW y \in DueSessions PROVE x <= y
    OBVIOUS
  <2>1. x \in Nat /\ y \in Nat
    BY <1>1, <1>2
  <2>2. ~(y < x)
    BY <1>2, <2>1
  <2> QED
    BY <2>1, <2>2
<1> HIDE DEF less
<1> QED
  BY <1>2, <1>3 DEF FirstDue

\* The invariant of the loop, the agents and Windows, beside the enrollment's.
LoopInv ==
    /\ SupervisorTypeOK
    /\ svc \in {"down", "start", "reap", "check", "poll", "recv", "wait"}
    /\ rested \in BOOLEAN
    /\ loggedOn \subseteq Sessions /\ missed \subseteq Sessions
    /\ proc \in [Sessions -> [Places -> Process]]
    /\ dbKey \in Nat
    /\ Watched /\ AgentsLoaded

\* The invariant is the conjunction of its parts by component.
LEMMA IInvParts == IInv <=> EnrollInv /\ LoopInv /\ DownIsEmpty /\ ExchangeHeld
BY DEF IInv, EnrollInv, LoopInv, TypeOK

\* The processes of a machine.
LEMMA ProcessTypes ==
    /\ NoProcess \in Process /\ NewProcess \in Process /\ DeadProcess \in Process
    /\ NoProcess.st = "none" /\ NewProcess.st = "new" /\ DeadProcess.st = "dead"
    /\ NoProcess.cert = 0 /\ NewProcess.cert = 0 /\ DeadProcess.cert = 0
BY EnrollmentAssumption DEF Process, NoProcess, NewProcess, DeadProcess, States

\* A table of processes with one entry replaced.
LEMMA OneProcess ==
    ASSUME NEW P \in [Sessions -> [Places -> Process]], NEW s \in Sessions, NEW w \in Places,
           NEW x \in Process
    PROVE  /\ [P EXCEPT ![s][w] = x] \in [Sessions -> [Places -> Process]]
           /\ \A r \in Sessions, v \in Places :
                 [P EXCEPT ![s][w] = x][r][v] = IF r = s /\ v = w THEN x ELSE P[r][v]
OBVIOUS

\* An agent takes a step by itself: the handle of a child stays one.
LEMMA AgentMoves ==
    ASSUME LoopInv, EnrollmentTypeOK, NEW s \in Sessions, NEW w \in Places, NEW x \in Process,
           proc' = [proc EXCEPT ![s][w] = x],
           proc[s][w].st # "none", w = "child" => x.st # "none", x.cert <= Len(issued),
           UNCHANGED <<supervisorVars, svc, rested, loggedOn, missed, issued>>, dbKey' \in Nat
    PROVE  LoopInv'
<1>1. /\ proc' \in [Sessions -> [Places -> Process]]
      /\ \A r \in Sessions, v \in Places :
            proc'[r][v] = IF r = s /\ v = w THEN x ELSE proc[r][v]
  BY OneProcess DEF LoopInv
<1>2. Watched'
  BY <1>1 DEF LoopInv, Watched, Running, Tracked, supervisorVars, Places
<1>3. AgentsLoaded'
  BY <1>1 DEF LoopInv, AgentsLoaded
<1>4. SupervisorTypeOK'
  BY DEF LoopInv, SupervisorTypeOK, supervisorVars
<1> QED
  BY <1>1, <1>2, <1>3, <1>4 DEF LoopInv
\* The service's memory of slots and its event channel are new, and it holds no handle.
LEMMA FreshSupervisor ==
    ASSUME slots' = [s \in {} |-> 0], queue' = <<>>
    PROVE  SupervisorTypeOK' /\ \A s \in Sessions : ~Running(s)'
BY SupervisorAssumption DEF SupervisorTypeOK, Running, Tracked

\* One slot replaced.
LEMMA OneSlot ==
    ASSUME SupervisorTypeOK, NEW s \in Tracked, NEW x \in Slot, slots' = [slots EXCEPT ![s] = x],
           UNCHANGED queue
    PROVE  /\ SupervisorTypeOK' /\ s \in Sessions
           /\ \A r \in Sessions : Running(r)' <=> IF r = s THEN x.running ELSE Running(r)
BY DEF SupervisorTypeOK, Running, Tracked

-----------------------------------------------------------------------------
(***************************************************************************)
(* The service loop.                                                       *)
(***************************************************************************)

\* The process table with all handles of dead children closed.
LEMMA ReapKeeps ==
    ASSUME LoopInv, NEW check \in BOOLEAN, Reap(check)
    PROVE  LoopInv'
<1> DEFINE dead == {s \in Sessions : proc[s]["child"].st = "dead"}
           counted == dead \cap Tracked
<1>1. /\ proc' = [s \in Sessions |->
                     IF s \in dead THEN [proc[s] EXCEPT !["child"] = NoProcess] ELSE proc[s]]
      /\ slots' = [s \in Tracked |-> IF s \in counted THEN Exited(slots[s]) ELSE slots[s]]
      /\ UNCHANGED <<queue, loggedOn, dbKey, missed, issued>>
      /\ svc' \in {"check", "poll"} /\ rested' \in BOOLEAN
  BY DEF Reap, LoopInv, gatewayVars
<1>2. \A s \in Tracked : slots[s] \in Slot /\ s \in Sessions
  BY DEF LoopInv, SupervisorTypeOK, Tracked
<1>3. \A s \in Tracked : Exited(slots[s]) \in Slot /\ ~Exited(slots[s]).running
  BY <1>2, SlotChanges
<1>4. SupervisorTypeOK'
  BY <1>1, <1>2, <1>3 DEF LoopInv, SupervisorTypeOK, Tracked
<1>5. proc' \in [Sessions -> [Places -> Process]]
  BY <1>1, ProcessTypes DEF LoopInv, Places
<1>6. /\ \A s \in dead : proc'[s]["child"] = NoProcess /\ proc'[s]["orphan"] = proc[s]["orphan"]
      /\ \A s \in Sessions \ dead : proc'[s] = proc[s]
  BY <1>1 DEF LoopInv, Places
<1>7. Watched'
  <2> SUFFICES ASSUME NEW s \in Sessions
               PROVE  Running(s)' <=> proc'[s]["child"].st # "none"
    BY DEF Watched
  <2>1. CASE s \in dead
    <3>1. proc'[s]["child"].st = "none"
      BY <1>6, <2>1, ProcessTypes
    <3>2. ~Running(s)'
      BY <1>1, <1>3, <2>1 DEF Running, Tracked
    <3> QED
      BY <3>1, <3>2
  <2>2. CASE s \notin dead
    <3>1. Running(s)' <=> Running(s)
      BY <1>1, <2>2 DEF Running, Tracked
    <3> QED
      BY <3>1, <1>6, <2>2 DEF LoopInv, Watched
  <2> QED
    BY <2>1, <2>2
<1>8. AgentsLoaded'
  BY <1>1, <1>6, ProcessTypes DEF LoopInv, AgentsLoaded, Places
<1> QED
  BY <1>1, <1>4, <1>5, <1>7, <1>8 DEF LoopInv

\* A launch opens a handle and marks the slot, a failed one does neither.
LEMMA LaunchKeeps ==
    ASSUME LoopInv, EnrollmentTypeOK, Launch \/ LaunchFails
    PROVE  LoopInv'
<1> DEFINE s == FirstDue
<1>1. s \in DueSessions
  BY FirstDueIsDue DEF Launch, LaunchFails, LoopInv
<1>2. s \in Tracked /\ s \in Sessions /\ slots[s] \in Slot /\ ~Running(s)
  BY <1>1 DEF DueSessions, Tracked, Running, LoopInv, SupervisorTypeOK
<1> HIDE DEF s
<1>3. proc[s]["child"].st = "none"
  BY <1>2 DEF LoopInv, Watched
<1>4. CASE Launch
  <2>1. /\ slots' = [slots EXCEPT ![s] = Launched(slots[s])] /\ UNCHANGED queue
        /\ proc' = [proc EXCEPT ![s]["child"] = NewProcess]
        /\ svc' = "recv" /\ UNCHANGED <<rested, loggedOn, dbKey, missed, issued>>
    BY <1>4 DEF Launch, s, enrollVars, gatewayVars
  <2>2. /\ SupervisorTypeOK'
        /\ \A r \in Sessions : Running(r)' <=> (r = s \/ Running(r))
    BY <1>2, <2>1, SlotChanges, OneSlot DEF LoopInv
  <2>3. /\ proc' \in [Sessions -> [Places -> Process]]
        /\ \A r \in Sessions, v \in Places :
              proc'[r][v] = IF r = s /\ v = "child" THEN NewProcess ELSE proc[r][v]
    BY <1>2, <2>1, OneProcess, ProcessTypes DEF LoopInv, Places
  <2>4. Watched'
    BY <2>2, <2>3, ProcessTypes DEF LoopInv, Watched, Places
  <2>5. AgentsLoaded'
    BY <2>1, <2>3, ProcessTypes DEF LoopInv, AgentsLoaded, EnrollmentTypeOK
  <2> QED
    BY <2>1, <2>2, <2>3, <2>4, <2>5 DEF LoopInv
<1>5. CASE LaunchFails
  <2>1. /\ slots' = [slots EXCEPT ![s] = LaunchFailed(slots[s])] /\ UNCHANGED queue
        /\ svc' = "recv" /\ UNCHANGED <<proc, rested, loggedOn, dbKey, missed, issued>>
    BY <1>5 DEF LaunchFails, s, gatewayVars
  <2>2. /\ SupervisorTypeOK'
        /\ \A r \in Sessions : Running(r)' <=> (r # s /\ Running(r))
    BY <1>2, <2>1, SlotChanges, OneSlot DEF LoopInv
  <2> QED
    BY <1>2, <2>1, <2>2 DEF LoopInv, Watched, AgentsLoaded
<1> QED
  BY <1>4, <1>5

\* The next event of the channel.
LEMMA HeadEvent ==
    ASSUME SupervisorTypeOK, queue # <<>>
    PROVE  /\ Head(queue).session \in Sessions
           /\ Tail(queue) \in Seq(Event) /\ Len(Tail(queue)) <= QueueCap
<1>1. Head(queue) \in Event /\ Tail(queue) \in Seq(Event) /\ Len(Tail(queue)) = Len(queue) - 1
  BY DEF SupervisorTypeOK
<1> QED
  BY <1>1, SupervisorAssumption DEF Event, SupervisorTypeOK

\* A session the supervisor begins to track has no agent yet.
LEMMA LogonKeeps ==
    ASSUME LoopInv, ReceiveLogon
    PROVE  LoopInv'
<1> DEFINE s == Head(queue).session
           new == [running |-> FALSE, wait |-> 0, attempt |-> 0, age |-> 0]
<1>1. s \in Sessions /\ Tail(queue) \in Seq(Event) /\ Len(Tail(queue)) <= QueueCap
  BY HeadEvent DEF ReceiveLogon, LoopInv
<1>2. new \in Slot /\ ~new.running
  BY SupervisorAssumption DEF Slot
<1>3. /\ slots' = [x \in Tracked \cup {s} |-> IF x \in Tracked THEN slots[x] ELSE new]
      /\ queue' = Tail(queue) /\ svc' = "reap"
      /\ UNCHANGED <<proc, rested, loggedOn, dbKey, missed, issued>>
  BY DEF ReceiveLogon, LoggedOn, enrollVars, gatewayVars
<1> HIDE DEF s, new
<1>4. SupervisorTypeOK'
  BY <1>1, <1>2, <1>3 DEF LoopInv, SupervisorTypeOK, Tracked
<1>5. \A r \in Sessions : Running(r)' <=> Running(r)
  BY <1>2, <1>3 DEF Running, Tracked
<1> QED
  BY <1>3, <1>4, <1>5 DEF LoopInv, Watched, AgentsLoaded

\* A session whose handles are closed, for a logoff or because the service stops.
LEMMA ReleasedTypes ==
    ASSUME NEW ps \in [Places -> Process]
    PROVE  /\ Released(ps) \in [Places -> Process]
           /\ Released(ps)["child"] = NoProcess
           /\ Released(ps)["orphan"] \in {ps["child"], ps["orphan"]}
BY ProcessTypes DEF Released, Places

\* A logoff the supervisor receives keeps the invariant of its loop.
LEMMA LogoffKeeps ==
    ASSUME LoopInv, EnrollmentTypeOK, ReceiveLogoff
    PROVE  LoopInv'
<1> DEFINE s == Head(queue).session
<1>1. s \in Sessions /\ Tail(queue) \in Seq(Event) /\ Len(Tail(queue)) <= QueueCap
  BY HeadEvent DEF ReceiveLogoff, LoopInv
<1>2. /\ slots' = [x \in Tracked \ {s} |-> slots[x]]
      /\ queue' = Tail(queue) /\ svc' = "reap"
      /\ proc' = [proc EXCEPT ![s] = Released(proc[s])]
      /\ UNCHANGED <<rested, loggedOn, dbKey, missed, issued>>
  BY DEF ReceiveLogoff, LoggedOff, enrollVars, gatewayVars
<1> HIDE DEF s
<1>3. SupervisorTypeOK'
  BY <1>1, <1>2 DEF LoopInv, SupervisorTypeOK, Tracked
<1>4. \A r \in Sessions : Running(r)' <=> r # s /\ Running(r)
  BY <1>2 DEF Running, Tracked
<1>5. proc[s] \in [Places -> Process]
  BY <1>1 DEF LoopInv
<1>6. /\ proc' \in [Sessions -> [Places -> Process]]
      /\ proc'[s] = Released(proc[s]) /\ \A r \in Sessions \ {s} : proc'[r] = proc[r]
  BY <1>1, <1>2, <1>5, ReleasedTypes DEF LoopInv
<1>7. Watched'
  BY <1>4, <1>5, <1>6, ReleasedTypes, ProcessTypes DEF LoopInv, Watched
<1>8. AgentsLoaded'
  <2>1. \A w \in Places : proc'[s][w].cert <= Len(issued)
    BY <1>1, <1>5, <1>6, ReleasedTypes, ProcessTypes
       DEF LoopInv, AgentsLoaded, EnrollmentTypeOK, Places
  <2> QED
    BY <1>2, <1>6, <2>1 DEF LoopInv, AgentsLoaded
<1> QED
  BY <1>2, <1>3, <1>6, <1>7, <1>8 DEF LoopInv
\* The steps of the body that only move it along.
LEMMA BodyMoves ==
    ASSUME LoopInv, UNCHANGED <<supervisorVars, loggedOn, proc, dbKey, missed, issued>>,
           rested' \in BOOLEAN, svc' \in {"reap", "poll", "wait"}
    PROVE  LoopInv'
BY DEF LoopInv, SupervisorTypeOK, Watched, AgentsLoaded, Running, Tracked, supervisorVars

\* The service stops or starts: nothing tracked, no handle held.
LEMMA ServiceKeeps ==
    ASSUME LoopInv, DownIsEmpty, EnrollmentTypeOK, UNCHANGED issued,
           ServiceStart \/ ServiceStops
    PROVE  LoopInv'
<1>1. /\ slots' = [s \in {} |-> 0] /\ queue' = <<>>
      /\ svc' \in {"start", "down"} /\ rested' \in BOOLEAN
      /\ missed' \subseteq Sessions /\ UNCHANGED <<loggedOn, dbKey>>
  BY DEF ServiceStart, ServiceStops, LoopInv
<1>2. SupervisorTypeOK' /\ \A s \in Sessions : ~Running(s)'
  BY <1>1, FreshSupervisor
<1>3. \A s \in Sessions : proc[s] \in [Places -> Process]
  BY DEF LoopInv
<1>4. /\ proc' \in [Sessions -> [Places -> Process]]
      /\ \A s \in Sessions : proc'[s]["child"].st = "none"
      /\ \A s \in Sessions, w \in Places : proc'[s][w].cert <= Len(issued)
  <2>1. CASE ServiceStops
    <3>1. proc' = [s \in Sessions |-> Released(proc[s])]
      BY <2>1 DEF ServiceStops
    <3>2. /\ proc' \in [Sessions -> [Places -> Process]]
          /\ \A s \in Sessions : /\ proc'[s]["child"] = NoProcess
                                 /\ proc'[s]["orphan"] \in {proc[s]["child"], proc[s]["orphan"]}
      BY <1>3, <3>1, ReleasedTypes
    <3>3. 0 <= Len(issued)
      BY DEF EnrollmentTypeOK
    <3> QED
      BY <3>2, <3>3, ProcessTypes DEF LoopInv, AgentsLoaded, Places
  <2>2. CASE ServiceStart
    <3>1. svc = "down" /\ proc' = proc
      BY <2>2 DEF ServiceStart
    <3>2. \A s \in Sessions : ~Running(s)
      BY <3>1 DEF DownIsEmpty, Running, Tracked
    <3> QED
      BY <3>1, <3>2 DEF LoopInv, Watched, AgentsLoaded
  <2> QED
    BY <2>1, <2>2
<1> QED
  BY <1>1, <1>2, <1>4 DEF LoopInv, Watched, AgentsLoaded

-----------------------------------------------------------------------------
(***************************************************************************)
(* Windows and the agents.                                                 *)
(***************************************************************************)

\* An event is posted or dropped.
LEMMA ToldType ==
    ASSUME SupervisorTypeOK, NEW s \in Sessions, NEW kind \in {"logon", "logoff"},
           Told(s, kind), UNCHANGED slots
    PROVE  SupervisorTypeOK'
<1> DEFINE e == [kind |-> kind, session |-> s]
<1>1. e \in Event
  BY DEF Event
<1>2. queue' = queue \/ (Len(queue) < QueueCap /\ queue' = Append(queue, e))
  BY DEF Told, Posted
<1> HIDE DEF e
<1>3. queue' \in Seq(Event) /\ Len(queue') <= QueueCap
  <2>1. queue \in Seq(Event) /\ Len(queue) \in Nat /\ QueueCap \in Nat /\ Len(queue) <= QueueCap
    BY SupervisorAssumption DEF SupervisorTypeOK
  <2>2. Append(queue, e) \in Seq(Event) /\ Len(Append(queue, e)) = Len(queue) + 1
    BY <1>1, <2>1
  <2> QED
    BY <1>2, <2>1, <2>2
<1> QED
  BY <1>3 DEF SupervisorTypeOK

\* Users logging on and off keep the invariant of the supervisor's loop.
LEMMA UsersKeep ==
    ASSUME LoopInv, EnrollmentTypeOK, NEW s \in Sessions, Logon(s) \/ Logoff(s)
    PROVE  LoopInv'
<1>1. UNCHANGED <<slots, svc, rested, dbKey, issued>>
  BY DEF Logon, Logoff, enrollVars, gatewayVars
<1>2. SupervisorTypeOK'
  BY <1>1, ToldType DEF Logon, Logoff, LoopInv
<1>3. \A r \in Sessions : Running(r)' <=> Running(r)
  BY <1>1 DEF Running, Tracked
<1>4. CASE Logon(s)
  <2>1. loggedOn' \subseteq Sessions /\ missed' \subseteq Sessions /\ proc' = proc
    BY <1>4 DEF Logon, LoopInv
  <2> QED
    BY <1>1, <1>2, <1>3, <2>1 DEF LoopInv, Watched, AgentsLoaded
<1>5. CASE Logoff(s)
  <2>1. /\ loggedOn' \subseteq Sessions /\ missed' = missed
        /\ proc' = [proc EXCEPT ![s] = [w \in Places |-> IF Alive(proc[s][w]) THEN Gone(w)
                                                        ELSE proc[s][w]]]
    BY <1>5 DEF Logoff, LoopInv
  <2>2. \A w \in Places : Gone(w) \in Process /\ Gone(w).cert = 0
                          /\ (w = "child" => Gone(w).st # "none")
    BY ProcessTypes DEF Gone
  <2>3. \A w \in Places : Alive(proc[s][w]) => proc[s][w].st # "none"
    BY DEF Alive, Owner
  <2>4. /\ proc' \in [Sessions -> [Places -> Process]]
        /\ \A r \in Sessions \ {s} : proc'[r] = proc[r]
        /\ \A w \in Places : proc'[s][w] = IF Alive(proc[s][w]) THEN Gone(w) ELSE proc[s][w]
    BY <2>1, <2>2 DEF LoopInv
  <2>5. Watched'
    BY <1>3, <2>2, <2>3, <2>4 DEF LoopInv, Watched, Places
  <2>6. AgentsLoaded'
    BY <1>1, <2>2, <2>4 DEF LoopInv, AgentsLoaded, EnrollmentTypeOK
  <2> QED
    BY <1>1, <1>2, <2>1, <2>4, <2>5, <2>6 DEF LoopInv
<1> QED
  BY <1>4, <1>5

\* Time passes for the slots.
LEMMA TickKeeps ==
    ASSUME LoopInv, Tick
    PROVE  LoopInv'
<1>1. /\ slots' = [s \in Tracked |->
                     [slots[s] EXCEPT !.wait = IF @ = 0 THEN 0 ELSE @ - 1,
                                      !.age = IF slots[s].running THEN Least(@ + 1, HealthyRun)
                                              ELSE @]]
      /\ UNCHANGED <<queue, svc, rested, loggedOn, proc, dbKey, missed, issued>>
  BY DEF Tick, SupervisorTick, enrollVars, gatewayVars
<1>2. \A s \in Tracked : slots[s] \in Slot
  BY DEF LoopInv, SupervisorTypeOK, Tracked
<1>3. \A s \in Tracked : slots'[s] \in Slot /\ slots'[s].running = slots[s].running
  <2> SUFFICES ASSUME NEW s \in Tracked
               PROVE  slots'[s] \in Slot /\ slots'[s].running = slots[s].running
    OBVIOUS
  <2> DEFINE wait == IF slots[s].wait = 0 THEN 0 ELSE slots[s].wait - 1
             age == IF slots[s].running THEN Least(slots[s].age + 1, HealthyRun)
                    ELSE slots[s].age
  <2>1. slots'[s] = [slots[s] EXCEPT !.wait = wait, !.age = age]
    BY <1>1
  <2>2. wait \in 0..BackoffCap /\ age \in 0..HealthyRun
    BY <1>2, SupervisorAssumption DEF Slot, Least
  <2> HIDE DEF wait, age
  <2> QED
    BY <1>2, <2>1, <2>2 DEF Slot
<1>4. SupervisorTypeOK'
  BY <1>1, <1>3 DEF LoopInv, SupervisorTypeOK, Tracked
<1>5. \A s \in Sessions : Running(s)' <=> Running(s)
  BY <1>1, <1>3 DEF Running, Tracked
<1> QED
  BY <1>1, <1>4, <1>5 DEF LoopInv, Watched, AgentsLoaded

\* An agent starts, loads its credential, opens its spool or dies.
LEMMA AgentsKeep ==
    ASSUME LoopInv, EnrollmentTypeOK, FilesInOrder, NEW s \in Sessions, NEW w \in Places,
             Acquire(s, w) \/ LoadIdentity(s, w) \/ LoadCredential(s, w) \/ OpenSpool(s, w)
             \/ AgentDies(s, w)
    PROVE  LoopInv'
<1> DEFINE p == proc[s][w]
<1>1. /\ p \in Process /\ p.cert <= Len(issued) /\ 0 <= Len(issued)
      /\ Gone(w) \in Process /\ Gone(w).cert = 0 /\ (w = "child" => Gone(w).st # "none")
  BY ProcessTypes DEF LoopInv, AgentsLoaded, EnrollmentTypeOK, Gone
<1>2. UNCHANGED <<supervisorVars, svc, rested, loggedOn, missed, issued>> /\ dbKey' \in Nat
  BY DEF Acquire, LoadIdentity, LoadCredential, OpenSpool, AgentDies, enrollVars, gatewayVars, LoopInv,
         EnrollmentTypeOK
<1>3. PICK x \in Process :
         /\ proc' = [proc EXCEPT ![s][w] = x]
         /\ w = "child" => x.st # "none"
         /\ x.cert <= Len(issued)
  <2>1. CASE Acquire(s, w)
    <3>1. [p EXCEPT !.st = "started"] \in Process
          /\ [p EXCEPT !.st = "started"].cert = p.cert
          /\ [p EXCEPT !.st = "started"].st = "started"
      BY <1>1 DEF Process, States
    <3> QED
      BY <1>1, <2>1, <3>1 DEF Acquire
  <2>2. CASE LoadIdentity(s, w)
    <3> DEFINE x(st) == [p EXCEPT !.st = st]
    <3>1. \A st \in {"named", "loaded"} : x(st) \in Process /\ x(st).cert = p.cert /\ x(st).st = st
      BY <1>1 DEF Process, States
    <3>2. \A st \in {"named", "loaded"} : [proc EXCEPT ![s][w].st = st] = [proc EXCEPT ![s][w] = x(st)]
      BY DEF LoopInv
    <3>3. \/ proc' = [proc EXCEPT ![s][w].st = "named"]
          \/ proc' = [proc EXCEPT ![s][w].st = "loaded"]
      BY <2>2 DEF LoadIdentity
    <3> QED
      BY <1>1, <3>1, <3>2, <3>3
  <2>3. CASE LoadCredential(s, w)
    <3> DEFINE x == [p EXCEPT !.st = "loaded", !.cert = Credential]
    <3>1. Credential \in 0..MaxCert /\ Credential <= Len(issued)
      BY <1>1, EnrollmentAssumption DEF Credential, FilesInOrder, EnrollmentTypeOK
    <3>2. x \in Process /\ x.st = "loaded" /\ x.cert = Credential
      BY <1>1, <3>1 DEF Process, States
    <3>3. [proc EXCEPT ![s][w].st = "loaded", ![s][w].cert = Credential]
             = [proc EXCEPT ![s][w] = x]
      BY DEF LoopInv
    <3> QED
      BY <2>3, <3>1, <3>2, <3>3 DEF LoadCredential
  <2>4. CASE OpenSpool(s, w)
    <3> DEFINE x(st) == [p EXCEPT !.st = st]
    <3>1. \A st \in {"up", "blocked"} : x(st) \in Process /\ x(st).cert = p.cert /\ x(st).st = st
      BY <1>1 DEF Process, States
    <3>2. \A st \in {"up", "blocked"} : [proc EXCEPT ![s][w].st = st] = [proc EXCEPT ![s][w] = x(st)]
      BY DEF LoopInv
    <3>3. \/ proc' = [proc EXCEPT ![s][w] = Gone(w)]
          \/ proc' = [proc EXCEPT ![s][w].st = "up"]
          \/ proc' = [proc EXCEPT ![s][w].st = "blocked"]
      BY <2>4 DEF OpenSpool
    <3> QED
      BY <1>1, <3>1, <3>2, <3>3
  <2>5. CASE AgentDies(s, w)
    BY <1>1, <2>5 DEF AgentDies
  <2> QED
    BY <2>1, <2>2, <2>3, <2>4, <2>5
<1>4. p.st # "none"
  BY DEF Acquire, LoadIdentity, LoadCredential, OpenSpool, AgentDies, Alive, Owner
<1> HIDE DEF p
<1> QED
  BY <1>2, <1>3, <1>4, AgentMoves DEF p
-----------------------------------------------------------------------------
(***************************************************************************)
(* The whole machine.                                                      *)
(***************************************************************************)

\* The machine starts in the invariant.
LEMMA IInvInit == Init => IInv
<1> SUFFICES ASSUME Init PROVE IInv
  OBVIOUS
<1> USE EnrollmentAssumption, SupervisorAssumption DEF Init, EnrollmentInit, SupervisorFresh
<1>1. EnrollmentTypeOK
  <2>1. issued \in Seq(Nat) /\ Len(issued) = 0
    OBVIOUS
  <2>2. inflight \subseteq Request /\ aged \subseteq Certs /\ usable \subseteq Tokens
    OBVIOUS
  <2>3. {cert, chain, ident, registered} \subseteq 0..MaxCert /\ faults \in 0..MaxFault
    OBVIOUS
  <2>4. Len(issued) <= MaxCert
    BY <2>1
  <2>5. job \in [req : 0..MaxRequest, tok : Tokens \cup {NoToken}, file : BOOLEAN,
                cert : 0..MaxCert]
    BY NoJobType
  <2>6. regTok \in Tokens \cup {NoToken} /\ newTok \in Tokens \cup {NoToken} /\ step \in Steps
    BY DEF Steps
  <2> QED
    BY <2>1, <2>2, <2>3, <2>4, <2>5, <2>6 DEF EnrollmentTypeOK
<1>2. OneKey /\ FilesInOrder /\ RowInStep
  BY DEF OneKey, FilesInOrder, RowInStep, Persisting
<1>3. SupervisorTypeOK /\ \A s \in Sessions : ~Running(s)
  BY DEF SupervisorTypeOK, Running, Tracked
<1>4. proc \in [Sessions -> [Places -> Process]]
  BY ProcessTypes
<1>5. Watched /\ AgentsLoaded
  BY <1>3, ProcessTypes DEF Watched, AgentsLoaded, Places
<1>6. DownIsEmpty /\ ExchangeHeld
  BY DEF DownIsEmpty, ExchangeHeld, Tracked
<1> QED
  BY <1>1, <1>2, <1>3, <1>4, <1>5, <1>6 DEF IInv, EnrollInv, TypeOK

\* The enrollment's part of the invariant under every step of the machine.
LEMMA EnrollNext ==
    ASSUME IInv, Next
    PROVE  EnrollInv' /\ IssuedGrows
<1> USE DEF IInv
<1>1. CASE Exchange
  BY <1>1, EnrollStepKeeps DEF Exchange
<1>2. CASE GatewaySteps
  BY <1>2, GatewayKeeps DEF GatewaySteps
<1>3. CASE Outside
  BY <1>3, OutsideKeeps DEF Outside
<1>4. CASE ServiceStops
  <2>1. Settles
    BY <1>4, FailureType DEF ServiceStops, EnrollCrash, Finish, Settles, EnrollInv,
       EnrollmentTypeOK, diskVars, gatewayVars
  <2> QED
    BY <2>1, SettlesKeeps
<1>5. CASE ~(Exchange \/ GatewaySteps \/ Outside \/ ServiceStops)
  <2>1. faults' \in 0..MaxFault
    <3>1. faults \in 0..MaxFault
      BY DEF EnrollInv, EnrollmentTypeOK
    <3>2. faults' = faults \/ Failure
      BY <1>5, ZenonT(40) DEF Failure, Next, ServiceStart, LoopPass, Ensured, Reap, PollIdle, Launch, LaunchFails, ReceiveLogon,
             ReceiveLogoff, ReceiveNothing, Logon, Logoff, Tick, AgentStep, Acquire, LoadIdentity, LoadCredential,
             OpenSpool, AgentDies, enrollVars
    <3> QED
      BY <3>1, <3>2, FailureType
  <2>2. UNCHANGED <<diskVars, gatewayVars, aged, job, keys, spoolKeys, lost>>
    BY <1>5, ZenonT(40) DEF Next, ServiceStart, LoopPass, Ensured, Reap, PollIdle, Launch, LaunchFails,
         ReceiveLogon, ReceiveLogoff, ReceiveNothing, Logon, Logoff, Tick, AgentStep, Acquire,
         LoadIdentity, LoadCredential, OpenSpool, AgentDies, enrollVars
  <2>3. step' = step \/ (step' = "key" /\ step = "off")
    BY <1>5, ZenonT(40) DEF Next, ServiceStart, LoopPass, Ensured, Reap, PollIdle, Launch, LaunchFails,
         ReceiveLogon, ReceiveLogoff, ReceiveNothing, Logon, Logoff, Tick, AgentStep, Acquire,
         LoadIdentity, LoadCredential, OpenSpool, AgentDies, enrollVars, ExchangeHeld
  <2>4. Settles
    BY <2>1, <2>2, <2>3
       DEF Settles, diskVars, gatewayVars, Persisting, EnrollInv, EnrollmentTypeOK
  <2> QED
    BY <2>4, SettlesKeeps
<1> QED
  BY <1>1, <1>2, <1>3, <1>4, <1>5

\* The loop's part.
LEMMA LoopNext ==
    ASSUME IInv, Next
    PROVE  LoopInv'
<1>1. LoopInv /\ EnrollmentTypeOK /\ FilesInOrder /\ DownIsEmpty
  BY IInvParts DEF EnrollInv
<1>2. CASE ServiceStart \/ ServiceStops
  BY <1>1, <1>2, ServiceKeeps DEF ServiceStart, ServiceStops, EnrollCrash, gatewayVars
<1>3. CASE LoopPass
  <2>1. CASE Ensured \/ PollIdle \/ ReceiveNothing
    BY <1>1, <2>1, BodyMoves
       DEF Ensured, PollIdle, ReceiveNothing, supervisorVars, enrollVars, gatewayVars, LoopInv
  <2> QED
    BY <1>1, <1>3, <2>1, ReapKeeps, LaunchKeeps, LogonKeeps, LogoffKeeps DEF LoopPass
<1>4. ASSUME NEW s \in Sessions, Logon(s) \/ Logoff(s)
      PROVE  LoopInv'
  BY <1>1, <1>4, UsersKeep
<1>5. CASE Tick
  BY <1>1, <1>5, TickKeeps
<1>6. ASSUME NEW s \in Sessions, NEW w \in Places,
             Acquire(s, w) \/ LoadIdentity(s, w) \/ LoadCredential(s, w) \/ OpenSpool(s, w)
             \/ AgentDies(s, w)
      PROVE  LoopInv'
  BY <1>1, <1>6, AgentsKeep
<1>7. CASE Exchange \/ GatewaySteps \/ Outside
  <2>1. UNCHANGED <<supervisorVars, machineVars>>
    BY <1>7 DEF Exchange, GatewaySteps, Outside, Rest
  <2>2. Len(issued) <= Len(issued') /\ Len(issued) \in Nat /\ Len(issued') \in Nat
    <3>1. EnrollInv' /\ IssuedGrows
      BY EnrollNext
    <3>2. issued \in Seq(Nat) /\ issued' \in Seq(Nat)
      BY <3>1, <1>1 DEF EnrollInv, EnrollmentTypeOK
    <3> QED
      BY <3>1, <3>2 DEF IssuedGrows
  <2>3. \A s \in Sessions, w \in Places : proc[s][w].cert \in Nat
    BY <1>1 DEF LoopInv, Process
  <2>4. AgentsLoaded'
    BY <1>1, <2>1, <2>2, <2>3 DEF LoopInv, AgentsLoaded, machineVars
  <2> QED
    BY <1>1, <2>1, <2>4
       DEF LoopInv, supervisorVars, machineVars, SupervisorTypeOK, Watched, Running, Tracked
<1> QED
  BY <1>2, <1>3, <1>4, <1>5, <1>6, <1>7 DEF Next, AgentStep

\* The body's part: what it waits for and what it has forgotten.
LEMMA BodyNext ==
    ASSUME IInv, Next
    PROVE  DownIsEmpty' /\ ExchangeHeld'
<1> USE DEF IInv, DownIsEmpty, ExchangeHeld, Tracked
<1>1. CASE ServiceStart \/ ServiceStops \/ LoopPass
  BY <1>1 DEF ServiceStart, ServiceStops, EnrollCrash, Finish, LoopPass, Ensured, Reap, PollIdle,
              Launch, LaunchFails, ReceiveLogon, ReceiveLogoff, ReceiveNothing, Receiving, enrollVars
<1>2. ASSUME NEW s \in Sessions, Logon(s) \/ Logoff(s)
      PROVE  DownIsEmpty' /\ ExchangeHeld'
  BY <1>2 DEF Logon, Logoff, enrollVars
<1>3. CASE Tick
  BY <1>3 DEF Tick, enrollVars
<1>4. ASSUME NEW s \in Sessions, NEW w \in Places,
             Acquire(s, w) \/ LoadIdentity(s, w) \/ LoadCredential(s, w) \/ OpenSpool(s, w)
             \/ AgentDies(s, w)
      PROVE  DownIsEmpty' /\ ExchangeHeld'
  BY <1>4 DEF Acquire, LoadIdentity, LoadCredential, OpenSpool, AgentDies, enrollVars, supervisorVars
<1>5. CASE Exchange
  BY <1>5 DEF Exchange, Rest, supervisorVars, machineVars
<1>6. CASE GatewaySteps \/ Outside
  <2>1. step = "off" => step' = "off"
    BY <1>6 DEF GatewaySteps, Outside, Gateway, Operator, EnrollFault, TokenRefused, Issue,
         Waiting, Finish, TokenDropped, TokenInstalled, CertificateAges, NoExchange, GiveUp,
         AnswerLost, WriteFails, RequestLost, SigningFails, TokenExpires
  <2> QED
    BY <1>6, <2>1 DEF GatewaySteps, Outside, Rest, supervisorVars, machineVars
<1> QED
  BY <1>1, <1>2, <1>3, <1>4, <1>5, <1>6 DEF Next, AgentStep

\* Every step of the service and of the world around it keeps the invariant.
LEMMA IInvNext == IInv /\ [Next]_vars => IInv'
<1>1. IInv /\ Next => IInv'
  BY EnrollNext, LoopNext, BodyNext, IInvParts DEF IInv, EnrollInv, LoopInv, TypeOK
<1>2. ASSUME IInv, UNCHANGED vars PROVE IInv'
  <2>1. UNCHANGED <<enrollVars, supervisorVars, machineVars>>
    BY <1>2 DEF vars
  <2>2. EnrollInv'
    BY <1>2, <2>1 DEF IInv, EnrollInv, EnrollmentTypeOK, OneKey, FilesInOrder, RowInStep,
      Persisting, enrollVars, diskVars, gatewayVars
  <2>3. SupervisorTypeOK' /\ Watched' /\ AgentsLoaded'
    BY <1>2, <2>1 DEF IInv, TypeOK, SupervisorTypeOK, Watched, Running, Tracked, AgentsLoaded,
      enrollVars, gatewayVars, supervisorVars, machineVars
  <2>4. DownIsEmpty' /\ ExchangeHeld'
    BY <1>2, <2>1 DEF IInv, DownIsEmpty, ExchangeHeld, Tracked, enrollVars, supervisorVars,
      machineVars
  <2>5. TypeOK'
    BY <1>2, <2>1, <2>2, <2>3 DEF IInv, TypeOK, EnrollInv, machineVars
  <2> QED
    BY <2>2, <2>3, <2>4, <2>5 DEF IInv
<1> QED
  BY <1>1, <1>2

\* The invariant holds in every reachable state.
LEMMA IInvAlways == Spec => []IInv
BY IInvInit, IInvNext, PTL DEF Spec

\* Every variable of service, gateway and agents keeps its type.
THEOREM MachineTypeCorrect == Spec => []TypeOK
<1>1. IInv => TypeOK
  BY DEF IInv
<1> QED
  BY <1>1, IInvAlways, PTL

\* Wherever the service stops between the writes of persist (enroll.rs, device.rs), the
\* identity record on disk has the certificate and the chain it stands for, for the key
\* the machine holds.
THEOREM IdentityComplete == Spec => []IdentityHasCredential
<1>1. IInv => IdentityHasCredential
  BY DEF IInv, EnrollInv, EnrollmentTypeOK, OneKey, FilesInOrder, IdentityHasCredential
<1> QED
  BY <1>1, IInvAlways, PTL

\* The certificate an agent loaded (device.rs load) fits the device key it signs with,
\* however many renewals there were since.
THEOREM AgentsSignWithTheirKey == Spec => []AgentKeyMatches
<1>1. IInv => AgentKeyMatches
  BY DEF IInv, TypeOK, Process, EnrollInv, EnrollmentTypeOK, OneKey, AgentsLoaded, AgentKeyMatches
<1> QED
  BY <1>1, IInvAlways, PTL

\* Disk and device row part only by an answer that was lost (enroll.go, enroll.rs).
THEOREM LockedOutOnlyByLoss == Spec => []LockedOutOnlyByLostAnswer
<1>1. IInv => LockedOutOnlyByLostAnswer
  BY DEF IInv, EnrollInv, RowInStep, LockedOutOnlyByLostAnswer
<1> QED
  BY <1>1, IInvAlways, PTL

\* The supervisor's belief and the handles the service holds are never separated
\* (supervisor.rs, main.rs).
THEOREM SupervisorWatches == Spec => []RunningIsWatched
<1>1. IInv => RunningIsWatched
  BY DEF IInv, Watched, RunningIsWatched, Handles
<1> QED
  BY <1>1, IInvAlways, PTL
====
