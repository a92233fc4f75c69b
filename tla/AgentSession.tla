---- MODULE AgentSession ----
(***************************************************************************)
(* One run after the other of the agent process, as its single thread      *)
(* takes it from the start-up checks (sentinel-agent/src/main.rs) through  *)
(* the ticks (agent.rs): the identity gate (identity.rs), the uplink's     *)
(* token, the heartbeat with its events (heartbeat.rs, api.rs) and the     *)
(* sign-out, against the gateway's device check (server/gateway/internal/  *)
(* api/middleware.go, handlers.go) and its revocation poll.  Time is in    *)
(* ticks of the loop.  What a capture step and a pump do with the audio is *)
(* in Capture and Ingest: here a step adds a segment to the spool or not   *)
(* and a pump is told apart by what it learns.                             *)
(***************************************************************************)
EXTENDS SignIn

CONSTANTS Grace,    \* offline_grace_ms
          Interval, \* the heartbeat's INTERVAL_MS
          MaxDepth, \* the spool's limit, in segments
          MaxEvent  \* bound: client events raised

ASSUME AgentSessionAssumption ==
    /\ {Grace, Interval, MaxDepth} \subseteq Nat \ {0} /\ MaxEvent \in Nat

VARIABLES pc,      \* where the thread is
          cert,    \* the device credential was loaded at start
          key,     \* the spool key was there at start
          signed,  \* the gate: signed_in
          ver,     \* the gate: the age of the last verification; Grace: expired or none
          pinned,  \* the gate: pinned_device_present
          revoked, \* Agent::revoked, and with it the gate's device_revoked
          pipe,    \* the pipeline: none, blocked or on
          valid,   \* the capture device is still there
          bearer,  \* the user whose ID token the uplink presents when it connects
          sock,    \* the user whose token opened the ingest socket
          kicked,  \* the gateway has closed the socket with 4403
          depth,   \* segments in the spool
          hb,      \* the age of the last heartbeat; Interval: due
          pending, \* pending_events
          got,     \* gateway: the events it recorded
          gone,    \* history: events lost with the process, a refusal or a failed insert
          raised,  \* how many events were raised
          asked,   \* the widget has a SignOut call queued
          banned,  \* gateway: the device is revoked
          proof    \* history: per user the age of the last acceptance of their token since
                   \* the process started or somebody signed out; Grace: none or too old

gateVars == <<signed, ver, pinned, revoked>>
captureVars == <<pipe, valid, depth>>
uplinkVars == <<bearer, sock, kicked>>
eventVars == <<pending, got, gone, raised>>
bootVars == <<cert, key>>
vars == <<signInVars, pc, bootVars, gateVars, captureVars, uplinkVars, hb, eventVars,
          asked, banned, proof>>

Events == 1..MaxEvent
Later(age, limit) == IF age < limit THEN age + 1 ELSE limit

NoProof == [u \in Users |-> Grace]

\* Types of both parts.
TypeOK ==
    /\ SignInTypeOK
    /\ pc \in {"down", "restore", "open", "top", "pump", "beat", "widget", "flush",
              "clear", "browser"}
    /\ {cert, key, signed, pinned, revoked, valid, kicked, asked, banned} \subseteq BOOLEAN
    /\ ver \in 0..Grace /\ proof \in [Users -> 0..Grace] /\ hb \in 0..Interval
    /\ pipe \in {"none", "blocked", "on"}
    /\ {bearer, sock} \subseteq Users \cup {NoUser}
    /\ depth \in 0..MaxDepth
    /\ {pending, got, gone} \subseteq SUBSET Events
    /\ raised \in 0..MaxEvent

\* No agent process yet.
Init ==
    /\ SignInInit
    /\ pc = "down" /\ cert = FALSE /\ key = FALSE
    /\ signed = FALSE /\ ver = Grace /\ pinned = FALSE /\ revoked = FALSE
    /\ pipe = "none" /\ valid = FALSE /\ depth = 0
    /\ bearer = NoUser /\ sock = NoUser /\ kicked = FALSE /\ hb = Interval
    /\ pending = {} /\ got = {} /\ gone = {} /\ raised = 0
    /\ asked = FALSE /\ banned = FALSE /\ proof = NoProof

\* n more events wait for a heartbeat.
Raise(n) ==
    /\ raised + n <= MaxEvent
    /\ raised' = raised + n
    /\ pending' = pending \cup (raised + 1)..(raised + n)
    /\ UNCHANGED <<got, gone>>

-----------------------------------------------------------------------------
\* run, up to the loop.

\* The credential and the spool key are read once; each that is missing is an event.
Start ==
    /\ pc = "down"
    /\ pc' = "restore"
    /\ cert' \in BOOLEAN /\ key' \in BOOLEAN
    /\ Raise((IF cert' THEN 0 ELSE 1) + (IF key' THEN 0 ELSE 1))
    /\ UNCHANGED <<signInVars, gateVars, captureVars, uplinkVars, hb, asked, banned, proof>>

\* The stored session; a failure leaves the widget locked.
Restore ==
    /\ pc = "restore"
    /\ pc' = "open"
    /\ Redeem
    /\ signed' = (auth' # NoUser) /\ bearer' = auth'
    /\ UNCHANGED <<bootVars, ver, pinned, revoked, captureVars, sock, kicked, hb, eventVars,
                   asked, banned, proof>>

\* open_capture_source: only with a tier, a key and a user, and only here.  A pinned
\* endpoint that is missing is an event, another failure is not.
OpenCapture ==
    /\ pc = "open"
    /\ pc' = "top"
    /\ \/ key /\ signed /\ pipe' = "on" /\ valid' = TRUE /\ UNCHANGED eventVars
       \/ key /\ signed /\ Raise(1) /\ UNCHANGED <<pipe, valid>>
       \/ UNCHANGED <<pipe, valid, eventVars>>
    /\ UNCHANGED <<signInVars, bootVars, gateVars, depth, uplinkVars, hb, asked, banned, proof>>

-----------------------------------------------------------------------------
\* tick.

\* Mutant of MayCapture: a verification is good for ever.
MayCaptureUnverified(age) == signed /\ ~revoked /\ pinned

\* IdentityGate::status, given the age of the verification.
MayCapture(age) == signed /\ ~revoked /\ pinned /\ age < Grace

\* A turn of the loop up to the capture step: the token for the next connect is brought up
\* to date, the gate blocks or unblocks the pipeline, and one step reads and spools.  A
\* step that fails ends the tick.  A full spool evicts and says so.
TickCapture ==
    /\ pc = "top"
    /\ bearer' = IF auth # NoUser THEN auth ELSE bearer
    /\ ver' = Later(ver, Grace) /\ hb' = Later(hb, Interval)
    /\ proof' = [u \in Users |-> Later(proof[u], Grace)]
    /\ pipe' = IF pipe = "none" THEN "none" ELSE IF MayCapture(ver') THEN "on" ELSE "blocked"
    /\ IF pipe' = "on" /\ ~valid
       THEN pc' = "top" /\ UNCHANGED <<depth, eventVars>>
       ELSE /\ pc' = "pump"
            /\ \/ UNCHANGED <<depth, eventVars>>
               \/ pipe' = "on" /\ depth < MaxDepth /\ depth' = depth + 1 /\ UNCHANGED eventVars
               \/ pipe' = "on" /\ depth = MaxDepth /\ Raise(1) /\ UNCHANGED depth
    /\ UNCHANGED <<signInVars, bootVars, signed, pinned, revoked, valid, sock, kicked,
                   asked, banned>>

\* What the gateway's device check lets through, and who may open a socket: its token is
\* checked then and not again.  The token kept from a user who signed out may still be good.
DeviceAccepted == cert /\ ~banned
Reachable(s) ==
    /\ s # NoUser
    /\ s = sock \/ (DeviceAccepted /\ s = bearer /\ (s = auth => fresh))

\* observe_verified, and whose token it was that the gateway accepted.
Verified(u) == ver' = 0 /\ proof' = [proof EXCEPT ![u] = 0]

\* The pump is left out while revoked; or it sends and learns nothing, or loses the socket.
PumpQuiet ==
    /\ pc = "pump" /\ (revoked \/ ~kicked)
    /\ pc' = "beat"
    /\ \/ UNCHANGED sock
       \/ ~revoked /\ sock = NoUser /\ Reachable(bearer) /\ sock' = bearer
       \/ ~revoked /\ sock' = NoUser
    /\ UNCHANGED <<signInVars, bootVars, gateVars, captureVars, bearer, kicked, hb, eventVars,
                   asked, banned, proof>>

\* An ack or a resume arrives, on the open socket or on one opened now.
PumpVerified(u) ==
    /\ pc = "pump" /\ ~revoked /\ ~kicked /\ depth > 0
    /\ Reachable(u) /\ sock \in {u, NoUser}
    /\ pc' = "beat"
    /\ sock' = u /\ Verified(u)
    /\ depth' \in 0..depth
    /\ UNCHANGED <<signInVars, bootVars, signed, pinned, revoked, pipe, valid, bearer, kicked,
                   hb, eventVars, asked, banned>>

\* The socket was closed with 4403.
PumpRevoked ==
    /\ pc = "pump" /\ ~revoked /\ kicked
    /\ pc' = "beat"
    /\ revoked' = TRUE /\ sock' = NoUser /\ kicked' = FALSE
    /\ UNCHANGED <<signInVars, bootVars, signed, ver, pinned, captureVars, bearer, hb,
                   eventVars, asked, banned, proof>>

\* No heartbeat due, or nobody to send it for.
BeatSkipped ==
    /\ pc = "beat"
    /\ hb < Interval \/ auth = NoUser
    /\ pc' = "widget"
    /\ hb' = IF hb < Interval THEN hb ELSE 0
    /\ UNCHANGED <<signInVars, bootVars, gateVars, captureVars, uplinkVars, eventVars, asked,
                   banned, proof>>

\* A heartbeat goes out with every pending event.
BeatSent ==
    /\ pc = "beat" /\ hb = Interval /\ auth # NoUser
    /\ pc' = "widget" /\ hb' = 0
    /\ UNCHANGED <<auth, fresh, stored, idpVars, left, undone, bootVars, signed, pinned,
                   captureVars, uplinkVars, asked, banned, raised>>

\* The gateway records the events, though a failed insert is only logged, and answers 200.
BeatAccepted ==
    /\ BeatSent /\ fresh /\ DeviceAccepted
    /\ \E bad \in SUBSET pending :
        /\ IF bad = {} THEN UNCHANGED faults ELSE Failure
        /\ got' = got \cup (pending \ bad) /\ gone' = gone \cup bad
    /\ pending' = {}
    /\ Verified(auth)
    /\ UNCHANGED revoked

\* 403: the device is revoked, there is no certificate, or the gateway could not look the
\* device up.  The events taken are dropped.
BeatForbidden ==
    /\ BeatSent /\ fresh
    /\ IF DeviceAccepted THEN Failure ELSE UNCHANGED faults
    /\ revoked' = TRUE
    /\ pending' = {} /\ gone' = gone \cup pending
    /\ UNCHANGED <<ver, got, proof>>

\* Mutant of BeatFailed: the events taken are not put back.
BeatFailedEmpty ==
    /\ BeatSent
    /\ \/ ~fresh /\ UNCHANGED <<faults, got>>
       \/ fresh /\ Failure /\ (UNCHANGED got \/ (DeviceAccepted /\ got' = got \cup pending))
    /\ pending' = {}
    /\ UNCHANGED <<ver, revoked, gone, proof>>

\* 401 to an expired token, no answer, or a failure after the events were recorded: they
\* are put back and sent again.
BeatFailed ==
    /\ BeatSent
    /\ \/ ~fresh /\ UNCHANGED <<faults, got>>
       \/ fresh /\ Failure /\ (UNCHANGED got \/ (DeviceAccepted /\ got' = got \cup pending))
    /\ UNCHANGED <<ver, revoked, pending, gone, proof>>

\* The widget is told the state and asked for its calls; telling it may fail.
Widget ==
    /\ pc = "widget"
    /\ \/ pc' = (IF asked THEN "flush" ELSE "top") /\ UNCHANGED faults
       \/ pc' = "top" /\ asked /\ Failure
    /\ UNCHANGED <<auth, fresh, stored, idpVars, left, undone, bootVars, gateVars, captureVars,
                   uplinkVars, hb, eventVars, asked, banned, proof>>

-----------------------------------------------------------------------------
\* sign_out.

\* The flush pumps until the spool is empty or the deadline has passed, revoked or not, and
\* what it learns about the device is dropped.
Flush ==
    /\ pc = "flush"
    /\ pc' = "clear"
    /\ \/ UNCHANGED <<depth, sock, kicked>>
       \/ depth > 0 /\ kicked /\ sock' = NoUser /\ kicked' = FALSE /\ UNCHANGED depth
       \/ /\ depth > 0 /\ ~kicked
          /\ \E u \in Users : Reachable(u) /\ sock \in {u, NoUser} /\ sock' = u
          /\ depth' \in 0..depth
          /\ UNCHANGED kicked
    /\ UNCHANGED <<signInVars, bootVars, gateVars, pipe, valid, bearer, hb, eventVars, asked,
                   banned, proof>>

\* Mutant of SignedOut: the verification stays with the gate.
SignedOutVerified == signed' = FALSE /\ UNCHANGED ver

\* set_signed_in(false): the next user's grace window is not to be inherited.
SignedOut == signed' = FALSE /\ ver' = Grace

\* The token is cleared, the pipeline blocked and the gate closed.
Clear ==
    /\ pc = "clear"
    /\ pc' = "top"
    /\ ClearTokens
    /\ pipe' = (IF pipe = "none" THEN "none" ELSE "blocked")
    /\ SignedOut
    /\ asked' = FALSE /\ proof' = NoProof
    /\ UNCHANGED <<bootVars, pinned, revoked, valid, depth, uplinkVars, hb, eventVars, banned>>

-----------------------------------------------------------------------------
\* sign_in_interactive and refresh_now, between two ticks of the same thread.

SignInStart ==
    /\ pc = "top" /\ Len(holder) < MaxToken /\ faults < MaxFault
    /\ pc' = "browser"
    /\ UNCHANGED <<signInVars, bootVars, gateVars, captureVars, uplinkVars, hb, eventVars,
                   asked, banned, proof>>

\* on_signed_in after the exchange; a failure changes nothing here.
SignInEnds ==
    /\ pc = "browser"
    /\ pc' = "top"
    /\ \/ (\E u \in Users : Exchanged(u)) /\ signed' = TRUE
       \/ (SignInFails \/ \E u \in Users : ExchangedUnsaved(u)) /\ UNCHANGED signed
    /\ UNCHANGED <<bootVars, ver, pinned, revoked, captureVars, uplinkVars, hb, eventVars,
                   asked, banned, proof>>

Refresh ==
    /\ pc = "top" /\ auth # NoUser
    /\ Redeem
    /\ UNCHANGED <<pc, bootVars, gateVars, captureVars, uplinkVars, hb, eventVars, asked,
                   banned, proof>>

-----------------------------------------------------------------------------
\* The agent's surroundings.

AskSignOut ==
    /\ pc # "down" /\ signed /\ ~asked
    /\ asked' = TRUE
    /\ UNCHANGED <<signInVars, pc, bootVars, gateVars, captureVars, uplinkVars, hb, eventVars,
                   banned, proof>>

\* set_pinned_device_present.
PinnedSeen ==
    /\ pc = "top" /\ ~pinned
    /\ pinned' = TRUE
    /\ UNCHANGED <<signInVars, pc, bootVars, signed, ver, revoked, captureVars, uplinkVars, hb,
                   eventVars, asked, banned, proof>>

\* The headset is unplugged: the stream is not opened again.
DeviceLost ==
    /\ valid /\ Failure
    /\ valid' = FALSE
    /\ UNCHANGED <<auth, fresh, stored, idpVars, left, undone, pc, bootVars, gateVars, pipe,
                   depth, uplinkVars, hb, eventVars, asked, banned, proof>>

\* An operator revokes the device or reinstates it.
Revoke ==
    /\ Failure
    /\ banned' = ~banned
    /\ UNCHANGED <<auth, fresh, stored, idpVars, left, undone, pc, bootVars, gateVars,
                   captureVars, uplinkVars, hb, eventVars, asked, proof>>

\* The gateway's poll of the devices with a socket; a device it cannot read is active.
RevocationPoll ==
    /\ banned /\ sock # NoUser /\ ~kicked
    /\ kicked' = TRUE
    /\ UNCHANGED <<signInVars, pc, bootVars, gateVars, captureVars, bearer, sock, hb, eventVars,
                   asked, banned, proof>>

TokenLapses ==
    /\ TokenExpires \/ TokenWithdrawn
    /\ UNCHANGED <<pc, bootVars, gateVars, captureVars, uplinkVars, hb, eventVars, asked, banned,
                   proof>>

\* The process ends: only the stored token and the spool outlive it.
Crash ==
    /\ pc # "down" /\ Failure
    /\ pc' = "down"
    /\ auth' = NoUser /\ fresh' = FALSE
    /\ cert' = FALSE /\ key' = FALSE
    /\ signed' = FALSE /\ ver' = Grace /\ pinned' = FALSE /\ revoked' = FALSE
    /\ pipe' = "none" /\ valid' = FALSE
    /\ bearer' = NoUser /\ sock' = NoUser /\ kicked' = FALSE /\ hb' = Interval
    /\ pending' = {} /\ gone' = gone \cup pending
    /\ asked' = FALSE /\ proof' = NoProof
    /\ UNCHANGED <<stored, idpVars, left, undone, depth, got, raised, banned>>

-----------------------------------------------------------------------------
\* What the thread does by itself.
Thread ==
    \/ Restore \/ OpenCapture \/ TickCapture
    \/ PumpQuiet \/ (\E u \in Users : PumpVerified(u)) \/ PumpRevoked
    \/ BeatSkipped \/ BeatAccepted \/ BeatForbidden \/ BeatFailed
    \/ Widget \/ Flush \/ Clear \/ SignInEnds

Next ==
    \/ Thread \/ Start \/ SignInStart \/ Refresh
    \/ AskSignOut \/ PinnedSeen \/ DeviceLost \/ Revoke \/ RevocationPoll
    \/ TokenLapses \/ Crash

\* The loop never ends by itself and every call in it has a deadline; the gateway polls
\* every socket's device.
Fairness == WF_vars(Thread) /\ WF_vars(RevocationPoll)

Spec == Init /\ [][Next]_vars
FairSpec == Spec /\ Fairness

-----------------------------------------------------------------------------
Capturing == pc = "pump" /\ pipe = "on"

\* Audio is taken only while a user is signed in, the device is not known to be revoked and
\* the gateway accepted something within the grace window, after the process started and
\* after the last sign-out (agent.rs tick, identity.rs status).
CaptureVerified ==
    Capturing => signed /\ ~revoked /\ \E u \in Users : proof[u] < Grace

\* Once the user has signed out nobody is signed in again without going through the
\* browser, whatever restarts, unless deleting the stored token failed (auth/mod.rs
\* sign_out and restore, store.rs clear).
SignedOutStays == left /\ ~undone => auth = NoUser

\* Every client event raised is waiting, was recorded by the gateway, or went with a
\* refusal, a failed insert or the process (agent.rs send_heartbeat).
EventsAccounted == 1..raised \subseteq pending \cup got \cup gone

\* A sign-out asked for in the widget is carried out, also while every tick fails in the
\* capture step: the grace window runs out first (agent.rs tick).
SignOutHonoured == asked ~> ~asked

\* A device that stays revoked stops capturing for good, even if no request of it reaches
\* the gateway any more (identity.rs, ws.go revocation poll, middleware.go).
RevocationBites == <>[]banned => <>[](pipe # "on")

\* What identity.rs:103 says: the grace window capture runs on is the present user's own.
GraceNotInherited == Capturing => proof[auth] < Grace
====
