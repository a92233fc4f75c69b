---- MODULE Machine ----
(***************************************************************************)
(* One Windows machine: the service with its watchdog (Supervisor) and its *)
(* enrollment (Enrollment), and the agents it launches into the            *)
(* interactive sessions, up to the point where each has its configuration, *)
(* its certificate and its spool (sentinel-service/src/main.rs,            *)
(* windows/launcher.rs, sentinel-agent/src/main.rs, instance.rs,           *)
(* device.rs).  The service may stop at any time and is started again; the *)
(* agents it had launched live on without a handle to them.                *)
(***************************************************************************)
EXTENDS Enrollment, Supervisor

VARIABLES svc,      \* where the service body is
          rested,   \* the loop has had a pass with nothing due since the last check
          loggedOn, \* the sessions with a user in them
          proc,     \* per session the child the service holds a handle of, and an orphan
          dbKey,    \* the key the spool database is encrypted with, 0: no database
          missed    \* history: sessions whose logon the running service has not been told of

machineVars == <<svc, rested, loggedOn, proc, dbKey, missed>>
vars == <<enrollVars, supervisorVars, machineVars>>

Places == {"child", "orphan"}
States == {"none", "new", "started", "named", "loaded", "up", "blocked", "dead"}
Process == [st : States, cert : 0..MaxCert]
NoProcess == [st |-> "none", cert |-> 0]
NewProcess == [NoProcess EXCEPT !.st = "new"]
DeadProcess == [NoProcess EXCEPT !.st = "dead"]

\* Types of all three parts.
TypeOK ==
    /\ EnrollmentTypeOK /\ SupervisorTypeOK
    /\ svc \in {"down", "start", "reap", "check", "poll", "recv", "wait"}
    /\ rested \in BOOLEAN
    /\ loggedOn \subseteq Sessions /\ missed \subseteq Sessions
    /\ proc \in [Sessions -> [Places -> Process]]
    /\ dbKey \in Nat

\* The machine boots; nobody is logged on.
Init ==
    /\ EnrollmentInit /\ SupervisorFresh
    /\ svc = "down" /\ rested = FALSE /\ loggedOn = {} /\ missed = {}
    /\ proc = [s \in Sessions |-> [w \in Places |-> NoProcess]]
    /\ dbKey = 0

Owner(p) == p.st \in {"started", "named", "loaded", "up", "blocked"}
Alive(p) == p.st = "new" \/ Owner(p)
Handles == {s \in Sessions : proc[s]["child"].st # "none"}

\* What becomes of an agent that exits: the handle of a child tells so.
Gone(w) == IF w = "child" THEN DeadProcess ELSE NoProcess
\* A session whose child's handle is closed: a child still alive becomes the orphan.
Released(ps) ==
    [child |-> NoProcess,
     orphan |-> IF Alive(ps["child"]) /\ ~Owner(ps["orphan"]) THEN ps["child"]
                ELSE ps["orphan"]]

-----------------------------------------------------------------------------
\* The service process.

\* service_main and service_body up to the loop; the credential is seen to first.
ServiceStart ==
    /\ svc = "down"
    /\ svc' = "start" /\ step' = "key" /\ rested' = FALSE
    /\ slots' = [s \in {} |-> 0] /\ queue' = <<>>
    /\ UNCHANGED <<diskVars, gatewayVars, aged, job, keys, spoolKeys, lost, faults,
                   loggedOn, proc, dbKey, missed>>

\* ensure_device_credential has returned.
Ensured ==
    /\ svc \in {"start", "check"} /\ step = "off"
    /\ svc' = IF svc = "start" THEN "reap" ELSE "poll"
    /\ UNCHANGED <<enrollVars, supervisorVars, rested, loggedOn, proc, dbKey, missed>>

\* Mutant of Reap: the six-hourly check is left out.
ReapOnly(check) ==
    /\ svc = "reap" /\ ~check
    /\ svc' = "poll"
    /\ LET dead == {s \in Sessions : proc[s]["child"].st = "dead"}
           counted == dead \cap Tracked
       IN /\ proc' = [s \in Sessions |->
                        IF s \in dead THEN [proc[s] EXCEPT !["child"] = NoProcess]
                        ELSE proc[s]]
          /\ slots' = [s \in Tracked |-> IF s \in counted THEN Exited(slots[s]) ELSE slots[s]]
    /\ UNCHANGED <<enrollVars, queue, rested, loggedOn, dbKey, missed>>

\* The loop's first part: agents that exited are taken off, each counted as a relaunch
\* whatever its exit code; then, every six hours, the credential is checked.  Six hours
\* are longer than any backoff: passes with nothing due come in between.
Reap(check) ==
    /\ svc = "reap"
    /\ LET dead == {s \in Sessions : proc[s]["child"].st = "dead"}
           counted == dead \cap Tracked
       IN /\ proc' = [s \in Sessions |->
                        IF s \in dead THEN [proc[s] EXCEPT !["child"] = NoProcess]
                        ELSE proc[s]]
          /\ slots' = [s \in Tracked |-> IF s \in counted THEN Exited(slots[s]) ELSE slots[s]]
    /\ IF check THEN rested /\ rested' = FALSE /\ svc' = "check" /\ step' = "key"
       ELSE svc' = "poll" /\ UNCHANGED <<rested, step>>
    /\ UNCHANGED <<diskVars, gatewayVars, aged, job, keys, spoolKeys, lost, faults,
                   queue, loggedOn, dbKey, missed>>

\* poll with nothing due.
PollIdle ==
    /\ svc = "poll" /\ DueSessions = {}
    /\ svc' = "wait" /\ rested' = TRUE
    /\ UNCHANGED <<enrollVars, slots, queue, loggedOn, proc, dbKey, missed>>

\* poll names a session and CreateProcessAsUser succeeds in it.
Launch ==
    /\ svc = "poll" /\ DueSessions # {}
    /\ FirstDue \in loggedOn
    /\ svc' = "recv"
    /\ slots' = [slots EXCEPT ![FirstDue] = Launched(@)]
    /\ proc' = [proc EXCEPT ![FirstDue]["child"] = NewProcess]
    /\ UNCHANGED <<enrollVars, queue, rested, loggedOn, dbKey, missed>>

\* Mutant of LaunchFails: the exit is not recorded.
LaunchFailsQuietly ==
    /\ svc = "poll" /\ DueSessions # {}
    /\ FirstDue \notin loggedOn \/ faults < MaxFault
    /\ faults' = IF FirstDue \in loggedOn THEN faults + 1 ELSE faults
    /\ svc' = "recv"
    /\ slots' = [slots EXCEPT ![FirstDue] = Launched(@)]
    /\ UNCHANGED <<diskVars, gatewayVars, aged, step, job, keys, spoolKeys, lost, queue,
                   rested, loggedOn, proc, dbKey, missed>>

\* The launch fails, always in a session without a user.
LaunchFails ==
    /\ svc = "poll" /\ DueSessions # {}
    /\ FirstDue \notin loggedOn \/ faults < MaxFault
    /\ faults' = IF FirstDue \in loggedOn THEN faults + 1 ELSE faults
    /\ svc' = "recv"
    /\ slots' = [slots EXCEPT ![FirstDue] = LaunchFailed(@)]
    /\ UNCHANGED <<diskVars, gatewayVars, aged, step, job, keys, spoolKeys, lost, queue,
                   rested, loggedOn, proc, dbKey, missed>>

\* recv_timeout, 200 ms after a launch and up to two seconds when nothing was due: an
\* event, or none in time.
Receiving == svc \in {"recv", "wait"}

ReceiveLogon ==
    /\ Receiving /\ queue # <<>> /\ Head(queue).kind = "logon"
    /\ svc' = "reap" /\ queue' = Tail(queue)
    /\ slots' = LoggedOn(Head(queue).session)
    /\ UNCHANGED <<enrollVars, rested, loggedOn, proc, dbKey, missed>>

\* Mutant of ReceiveLogoff: the handle is kept.
ReceiveLogoffKeepingHandle ==
    /\ Receiving /\ queue # <<>> /\ Head(queue).kind = "logoff"
    /\ svc' = "reap" /\ queue' = Tail(queue)
    /\ slots' = LoggedOff(Head(queue).session)
    /\ UNCHANGED <<enrollVars, rested, loggedOn, proc, dbKey, missed>>

\* The session leaves the map and its process handle is closed.
ReceiveLogoff ==
    /\ Receiving /\ queue # <<>> /\ Head(queue).kind = "logoff"
    /\ svc' = "reap" /\ queue' = Tail(queue)
    /\ slots' = LoggedOff(Head(queue).session)
    /\ proc' = [proc EXCEPT ![Head(queue).session] = Released(@)]
    /\ UNCHANGED <<enrollVars, rested, loggedOn, dbKey, missed>>

ReceiveNothing ==
    /\ Receiving /\ queue = <<>>
    /\ svc' = "reap"
    /\ UNCHANGED <<enrollVars, supervisorVars, rested, loggedOn, proc, dbKey, missed>>

\* The service crashes, or is stopped: its memory and its handles go, its agents stay.
ServiceStops ==
    /\ svc # "down" /\ Failure
    /\ svc' = "down"
    /\ EnrollCrash
    /\ slots' = [s \in {} |-> 0] /\ queue' = <<>>
    /\ proc' = [s \in Sessions |-> Released(proc[s])]
    /\ missed' = loggedOn
    /\ UNCHANGED <<rested, loggedOn, dbKey>>

-----------------------------------------------------------------------------
\* Windows: users come and go, time passes.

Told(s, kind) ==
    queue' = IF svc = "down" THEN queue ELSE Posted([kind |-> kind, session |-> s])

Logon(s) ==
    /\ s \notin loggedOn
    /\ loggedOn' = loggedOn \cup {s}
    /\ Told(s, "logon")
    /\ missed' = IF queue' = queue THEN missed \cup {s} ELSE missed \ {s}
    /\ UNCHANGED <<enrollVars, slots, svc, rested, proc, dbKey>>

\* The session's processes end with it.
Logoff(s) ==
    /\ s \in loggedOn /\ Failure      \* bound: how often users leave
    /\ loggedOn' = loggedOn \ {s}
    /\ Told(s, "logoff")
    /\ proc' = [proc EXCEPT ![s] = [w \in Places |-> IF Alive(@[w]) THEN Gone(w) ELSE @[w]]]
    /\ UNCHANGED <<diskVars, gatewayVars, aged, step, job, keys, spoolKeys, lost, slots, svc,
                   rested, dbKey, missed>>

\* The body spends its time waiting for events, no longer than until the next deadline, or
\* in an exchange.
Tick ==
    /\ svc \in {"start", "check"} \/ (svc = "wait" /\ DueSessions = {})
    /\ SupervisorTick
    /\ slots' # slots
    /\ UNCHANGED <<enrollVars, queue, svc, rested, loggedOn, proc, dbKey, missed>>

-----------------------------------------------------------------------------
\* The agent's main, up to the session's mutex.
Acquire(s, w) ==
    /\ proc[s][w].st = "new"
    /\ proc' = [proc EXCEPT ![s][w] =
                    IF \E x \in Places : Owner(proc[s][x]) THEN Gone(w)
                    ELSE [@ EXCEPT !.st = "started"]]
    /\ UNCHANGED <<enrollVars, supervisorVars, svc, rested, loggedOn, dbKey, missed>>

\* device::load: the identity record first; a machine without one is not enrolled.
LoadIdentity(s, w) ==
    /\ proc[s][w].st = "started"
    /\ proc' = [proc EXCEPT ![s][w].st = IF ident # 0 THEN "named" ELSE "loaded"]
    /\ UNCHANGED <<enrollVars, supervisorVars, svc, rested, loggedOn, dbKey, missed>>

\* Then certificate and chain as they are by now, then the key.
Credential == IF cert # 0 /\ key # 0 THEN cert ELSE 0
LoadCredential(s, w) ==
    /\ proc[s][w].st = "named"
    /\ proc' = [proc EXCEPT ![s][w].st = "loaded", ![s][w].cert = Credential]
    /\ UNCHANGED <<enrollVars, supervisorVars, svc, rested, loggedOn, dbKey, missed>>

\* spool_key and Spool::open: without a key capture is blocked, with another key than the
\* database's the process ends.
Resolved == spoolKey # 0
WrongKey == dbKey \notin {0, spoolKey}
OpenSpool(s, w) ==
    /\ proc[s][w].st = "loaded"
    /\ IF Resolved /\ WrongKey
       THEN /\ proc' = [proc EXCEPT ![s][w] = Gone(w)]
            /\ UNCHANGED dbKey
       ELSE /\ proc' = [proc EXCEPT ![s][w].st = IF Resolved THEN "up" ELSE "blocked"]
            /\ dbKey' = IF Resolved THEN spoolKey ELSE dbKey
    /\ UNCHANGED <<enrollVars, supervisorVars, svc, rested, loggedOn, missed>>

\* The agent crashes or is killed.
AgentDies(s, w) ==
    /\ Alive(proc[s][w]) /\ Failure
    /\ proc' = [proc EXCEPT ![s][w] = Gone(w)]
    /\ UNCHANGED <<diskVars, gatewayVars, aged, step, job, keys, spoolKeys, lost, supervisorVars,
                   svc, rested, loggedOn, dbKey, missed>>

-----------------------------------------------------------------------------
Rest == UNCHANGED <<supervisorVars, machineVars>>
Exchange == svc \in {"start", "check"} /\ EnrollStep /\ Rest
GatewaySteps == Gateway /\ Rest
Outside == (Operator \/ EnrollFault) /\ Rest

LoopPass ==
    \/ Ensured \/ (\E check \in BOOLEAN : Reap(check))
    \/ PollIdle \/ Launch \/ LaunchFails
    \/ ReceiveLogon \/ ReceiveLogoff \/ ReceiveNothing

AgentStep ==
    \E s \in Sessions, w \in Places :
        Acquire(s, w) \/ LoadIdentity(s, w) \/ LoadCredential(s, w) \/ OpenSpool(s, w)

Next ==
    \/ ServiceStart \/ LoopPass \/ ServiceStops
    \/ \E s \in Sessions : Logon(s) \/ Logoff(s)
    \/ Tick
    \/ AgentStep
    \/ \E s \in Sessions, w \in Places : AgentDies(s, w)
    \/ Exchange \/ GatewaySteps \/ Outside

\* The SCM restarts the service, the loop and its exchange make progress, six hours pass,
\* the clock runs, the gateway answers, agents start.
Fairness ==
    /\ WF_vars(ServiceStart) /\ WF_vars(Exchange) /\ WF_vars(GatewaySteps)
    /\ WF_vars(LoopPass) /\ SF_vars(Reap(TRUE)) /\ SF_vars(Tick)
    /\ WF_vars(AgentStep)

Spec == Init /\ [][Next]_vars
LiveSpec == Spec /\ Fairness

-----------------------------------------------------------------------------
\* What must hold.

\* An identity record is never on disk without the certificate it stands for, at least as
\* new as itself, and the certificate is for the device key the machine holds, wherever
\* the service stopped between the writes of persist and whichever exchange they were of.
IdentityHasCredential ==
    ident # 0 => /\ key # 0 /\ cert >= ident /\ chain >= ident
                 /\ issued[cert] = key

\* An agent that presents a certificate signs with the key it was issued for, also after
\* renewals and failed exchanges while the agent was running.
AgentKeyMatches ==
    \A s \in Sessions, w \in Places :
        proc[s][w].cert # 0 => issued[proc[s][w].cert] = key

\* The certificate on disk is the one the gateway has in the device's row, unless the
\* answer of an exchange is still to be written or was lost.
LockedOutOnlyByLostAnswer ==
    cert # registered => step = "cert" \/ lost

\* The supervisor believes an agent is running exactly where the service holds a handle
\* that can tell when it is not: a logoff, a failed launch or an event for a session it
\* does not track never separates the two.
RunningIsWatched ==
    svc # "down" => {s \in Sessions : Running(s)} = Handles

\* A session whose logon reached the running service gets an agent, unless the user
\* leaves or the service stops; also while an exchange or another session keeps it busy.
SessionServed ==
    \A s \in Sessions :
        (s \in loggedOn /\ s \notin missed)
            ~> (s \notin loggedOn \/ s \in missed \/ \E w \in Places : Alive(proc[s][w]))

\* A usable token that enroll would be given is used: at the start of the service or at
\* one of its six-hourly checks the machine is enrolled, or the token is spent.
TokenUsed ==
    (Due /\ Token \in usable) ~> (~Due \/ Token \notin usable)

\* generate_and_store, by its comment, is called at enrollment only: the key on disk
\* stays the one the spool was created with.
SpoolStaysReadable ==
    dbKey # 0 => spoolKey = dbKey
====
