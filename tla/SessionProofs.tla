---- MODULE SessionProofs ----
(***************************************************************************)
(* Proofs about AgentSession, for every set of users, every grace window,  *)
(* heartbeat interval and spool limit, and every bound on tokens, events   *)
(* and failures.                                                           *)
(***************************************************************************)
EXTENDS AgentSession, TLAPS

-----------------------------------------------------------------------------
(***************************************************************************)
(* The sign-in and its stored token.                                       *)
(***************************************************************************)

\* SignedOutStays lasts because a deliberate sign-out leaves no refresh token either.
SignInInv ==
    /\ SignInTypeOK
    /\ left /\ ~undone => auth = NoUser /\ stored = 0

\* A failure stays within its bound.
LEMMA FailureType ==
    ASSUME faults \in 0..MaxFault, Failure
    PROVE  faults' \in 0..MaxFault
BY SignInAssumption DEF Failure

\* The provider issues a token: the list grows by one, what it still redeems is on it.
LEMMA IssueType ==
    ASSUME SignInTypeOK, NEW u \in Users, NEW spent, Issue(u, spent)
    PROVE  /\ holder' \in Seq(Users) /\ Len(holder') <= MaxToken
           /\ Len(holder') = Len(holder) + 1 /\ Len(holder) \in Nat
           /\ live' \subseteq 1..Len(holder')
<1>1. holder \in Seq(Users) /\ Len(holder) \in Nat /\ Len(holder) < MaxToken
  BY DEF SignInTypeOK, Issue
<1>2. holder' = Append(holder, u) /\ live' = (live \ spent) \cup {Len(holder) + 1}
  BY DEF Issue
<1>3. holder' \in Seq(Users) /\ Len(holder') = Len(holder) + 1
  BY <1>1, <1>2
<1>4. live' \subseteq 1..(Len(holder) + 1)
  <2> DEFINE n == Len(holder)
  <2>1. live \subseteq 1..n /\ n \in Nat
    BY <1>1 DEF SignInTypeOK
  <2> HIDE DEF n
  <2>2. live' \subseteq live \cup {n + 1}
    BY <1>2 DEF n
  <2>3. live' \subseteq 1..(n + 1)
    BY <2>1, <2>2
  <2> QED
    BY <2>3 DEF n
<1> QED
  BY <1>1, <1>3, <1>4, SignInAssumption

\* The user of a token the provider redeems.
LEMMA HolderType ==
    ASSUME SignInTypeOK, stored \in live
    PROVE  holder[stored] \in Users /\ stored # 0
BY DEF SignInTypeOK

\* restore and refresh_now.
LEMMA RedeemKeeps ==
    ASSUME SignInInv, Redeem
    PROVE  SignInInv'
<1> USE DEF SignInInv
<1>1. CASE RedeemKept
  BY <1>1, HolderType DEF RedeemKept, Adopt, SignInTypeOK, idpVars
<1>2. CASE RedeemRotated
  <2>1. holder[stored] \in Users /\ stored # 0
    BY <1>2, HolderType DEF RedeemRotated
  <2>2. /\ holder' \in Seq(Users) /\ Len(holder') <= MaxToken
        /\ Len(holder') = Len(holder) + 1 /\ Len(holder) \in Nat
        /\ live' \subseteq 1..Len(holder')
    BY <1>2, <2>1, IssueType DEF RedeemRotated
  <2>3. stored' = Len(holder) + 1 /\ auth' = holder[stored] /\ fresh' = TRUE
        /\ UNCHANGED <<left, undone, faults>>
    BY <1>2, <2>2 DEF RedeemRotated, Adopt, NextToken
  <2> QED
    BY <2>1, <2>2, <2>3 DEF SignInTypeOK
<1>3. CASE RedeemWasted
  <2>1. holder[stored] \in Users /\ stored # 0
    BY <1>3, HolderType DEF RedeemWasted
  <2>2. /\ holder' \in Seq(Users) /\ Len(holder') <= MaxToken
        /\ Len(holder') = Len(holder) + 1 /\ Len(holder) \in Nat
        /\ live' \subseteq 1..Len(holder')
    BY <1>3, <2>1, IssueType DEF RedeemWasted
  <2>3. faults' \in 0..MaxFault /\ UNCHANGED <<auth, fresh, stored, left, undone>>
    BY <1>3, FailureType DEF RedeemWasted, SignInTypeOK
  <2> QED
    BY <2>1, <2>2, <2>3 DEF SignInTypeOK
<1>4. CASE RedeemRefused
  BY <1>4 DEF RedeemRefused, signInVars, SignInTypeOK
<1>5. CASE RedeemUnreachable
  BY <1>5, FailureType DEF RedeemUnreachable, SignInTypeOK, idpVars
<1>6. CASE LoadCorrupt
  BY <1>6, FailureType DEF LoadCorrupt, SignInTypeOK, idpVars
<1> QED
  BY <1>1, <1>2, <1>3, <1>4, <1>5, <1>6 DEF Redeem

\* sign_in_interactive and sign_out.
LEMMA BrowserKeeps ==
    ASSUME SignInInv, NEW u \in Users, Exchanged(u) \/ ExchangedUnsaved(u)
    PROVE  SignInInv'
<1> USE DEF SignInInv
<1>1. ASSUME Issue(u, {})
      PROVE  /\ holder' \in Seq(Users) /\ Len(holder') <= MaxToken
             /\ Len(holder') = Len(holder) + 1 /\ Len(holder) \in Nat
             /\ live' \subseteq 1..Len(holder')
  BY <1>1, IssueType
<1>2. CASE Exchanged(u)
  <2>1. auth' = u /\ fresh' = TRUE /\ left' = FALSE /\ UNCHANGED undone
    BY <1>2 DEF Exchanged, Adopt
  <2>2. CASE Issue(u, {}) /\ Adopt(u, NextToken) /\ UNCHANGED faults
    <3>1. Len(holder) \in Nat /\ stored' = Len(holder) + 1
      BY <1>1, <2>2 DEF Adopt, NextToken
    <3>2. stored' \in 0..Len(holder')
      BY <1>1, <2>2, <3>1
    <3> QED
      BY <1>1, <2>1, <2>2, <3>2 DEF SignInTypeOK
  <2>3. CASE Failure /\ Adopt(u, 0) /\ UNCHANGED idpVars
    <3>1. UNCHANGED <<stored, holder, live>> /\ faults' \in 0..MaxFault
      BY <2>3, FailureType DEF Adopt, idpVars, SignInTypeOK
    <3> QED
      BY <2>1, <3>1 DEF SignInTypeOK
  <2> QED
    BY <1>2, <2>2, <2>3 DEF Exchanged
<1>3. CASE ExchangedUnsaved(u)
  <2>1. faults' \in 0..MaxFault /\ UNCHANGED <<auth, fresh, stored, left, undone>> /\ Issue(u, {})
    BY <1>3, FailureType DEF ExchangedUnsaved, SignInTypeOK
  <2> QED
    BY <1>1, <2>1 DEF SignInTypeOK
<1> QED
  BY <1>2, <1>3

\* Clearing the stored tokens keeps the sign-in consistent.
LEMMA ClearKeeps ==
    ASSUME SignInInv, ClearTokens
    PROVE  SignInInv'
<1>1. SignInTypeOK /\ Len(holder) \in Nat
  BY DEF SignInInv, SignInTypeOK
<1>2. CASE stored' = 0 /\ UNCHANGED <<undone, faults>>
  <2>1. stored' \in 0..Len(holder) /\ UNCHANGED <<holder, live, undone, faults>>
    BY <1>1, <1>2 DEF ClearTokens, idpVars
  <2>2. auth' = NoUser /\ fresh' = FALSE /\ left' = TRUE
    BY DEF ClearTokens
  <2>3. SignInTypeOK'
    BY <1>1, <2>1, <2>2 DEF SignInTypeOK
  <2> QED
    BY <1>2, <2>2, <2>3 DEF SignInInv
<1>3. CASE stored # 0 /\ Failure /\ undone' = TRUE /\ UNCHANGED stored
  <2>1. faults' \in 0..MaxFault
    BY <1>1, <1>3, FailureType DEF SignInTypeOK
  <2> QED
    BY <1>1, <1>3, <2>1 DEF SignInInv, ClearTokens, SignInTypeOK, idpVars
<1> QED
  BY <1>2, <1>3 DEF ClearTokens

\* Steps that leave the sign-in as it is, but for its ID token and the count of failures.
LEMMA SignInRests ==
    ASSUME SignInInv, UNCHANGED <<auth, stored, holder, left, undone>>, fresh' \in BOOLEAN,
           live' \subseteq live, faults' \in 0..MaxFault
    PROVE  SignInInv'
BY DEF SignInInv, SignInTypeOK

\* What every step of the agent and its surroundings does to the sign-in.
LEMMA SignInNext ==
    ASSUME SignInInv, Next
    PROVE  SignInInv'
<1>1. SignInTypeOK /\ faults \in 0..MaxFault /\ fresh \in BOOLEAN
  BY DEF SignInInv, SignInTypeOK
<1>2. CASE Restore \/ Refresh
  BY <1>2, RedeemKeeps DEF Restore, Refresh
<1>3. CASE SignInEnds
  <2>1. CASE SignInFails
    BY <1>1, <2>1, FailureType, SignInRests DEF SignInFails, idpVars
  <2> QED
    BY <1>3, <2>1, BrowserKeeps DEF SignInEnds
<1>4. CASE Clear
  BY <1>4, ClearKeeps DEF Clear
<1>5. CASE TokenLapses
  BY <1>1, <1>5, FailureType, SignInRests
     DEF TokenLapses, TokenExpires, TokenWithdrawn, idpVars
<1>6. CASE Crash
  <2>1. auth' = NoUser /\ fresh' = FALSE /\ faults' \in 0..MaxFault
        /\ UNCHANGED <<stored, holder, live, left, undone>>
    BY <1>1, <1>6, FailureType DEF Crash, idpVars
  <2> QED
    BY <2>1 DEF SignInInv, SignInTypeOK
<1>7. CASE ~(Restore \/ Refresh \/ SignInEnds \/ Clear \/ TokenLapses \/ Crash)
  <2>1. UNCHANGED <<auth, stored, fresh, holder, live, left, undone>> /\ (Failure \/ UNCHANGED faults)
    BY <1>7 DEF Next, Thread, Start, OpenCapture, TickCapture, PumpQuiet, PumpVerified, PumpRevoked,
         BeatSkipped, BeatAccepted, BeatForbidden, BeatFailed, BeatSent, Widget, Flush,
         SignInStart, AskSignOut, PinnedSeen, DeviceLost, Revoke, RevocationPoll,
         signInVars, idpVars
  <2> QED
    BY <1>1, <2>1, FailureType, SignInRests
<1> QED
  BY <1>2, <1>3, <1>4, <1>5, <1>6, <1>7

\* The first agent starts with a consistent sign-in.
LEMMA SignInStarts == Init => SignInInv
<1> SUFFICES ASSUME Init PROVE SignInInv
  OBVIOUS
<1>1. holder \in Seq(Users) /\ Len(holder) = 0
  BY DEF Init, SignInInit
<1>2. stored \in 0..Len(holder) /\ live \subseteq 1..Len(holder) /\ Len(holder) <= MaxToken
      /\ faults \in 0..MaxFault
  BY <1>1, SignInAssumption DEF Init, SignInInit
<1> QED
  BY <1>1, <1>2 DEF Init, SignInInit, SignInInv, SignInTypeOK

\* Once the user has signed out nobody is signed in again without going through the
\* browser, whatever restarts, unless deleting the stored token failed (auth/mod.rs
\* sign_out and restore, store.rs clear): no refresh token is left to restore from.
THEOREM SignOutLasts == Spec => []SignedOutStays
<1>1. Init => SignInInv
  BY SignInStarts
<1>2. SignInInv /\ [Next]_vars => SignInInv'
  <2> SUFFICES ASSUME SignInInv, [Next]_vars PROVE SignInInv'
    OBVIOUS
  <2>1. CASE Next
    BY <2>1, SignInNext
  <2>2. CASE UNCHANGED vars
    BY <2>2 DEF vars, signInVars, SignInInv, SignInTypeOK
  <2> QED
    BY <2>1, <2>2
<1>3. SignInInv => SignedOutStays
  BY DEF SignInInv, SignedOutStays
<1> QED
  BY <1>1, <1>2, <1>3, PTL DEF Spec

-----------------------------------------------------------------------------
(***************************************************************************)
(* The gate, the capture and the events.                                   *)
(***************************************************************************)

\* The state of the process outside the sign-in.
ProcessTypeOK ==
    /\ pc \in {"down", "restore", "open", "top", "pump", "beat", "widget", "flush",
              "clear", "browser"}
    /\ {cert, key, signed, pinned, revoked, valid, kicked, asked, banned} \subseteq BOOLEAN
    /\ hb \in 0..Interval
    /\ pipe \in {"none", "blocked", "on"}
    /\ {bearer, sock} \subseteq Users \cup {NoUser}
    /\ depth \in 0..MaxDepth

\* The gate never believes in a later verification than the gateway gave to somebody.
GateInv ==
    /\ ver \in 0..Grace /\ proof \in [Users -> 0..Grace]
    /\ ver = Grace \/ \E u \in Users : proof[u] <= ver
    /\ CaptureVerified

EventInv ==
    /\ {pending, got, gone} \subseteq SUBSET Events
    /\ raised \in 0..MaxEvent
    /\ EventsAccounted

\* A step after which nothing is being captured leaves the gate sound if it leaves the
\* verification, clears it or makes it anew.
LEMMA GateRests ==
    ASSUME GateInv, UNCHANGED <<ver, proof>>,
           \/ ~Capturing'
           \/ Capturing /\ UNCHANGED <<signed, revoked>>
    PROVE  GateInv'
BY DEF GateInv, CaptureVerified, Capturing

\* A gate reset to an unproved grace, with capture stopped, is consistent.
LEMMA GateCleared ==
    ASSUME GateInv, ver' = Grace, proof' = NoProof, ~Capturing'
    PROVE  GateInv'
BY AgentSessionAssumption DEF GateInv, CaptureVerified, NoProof

\* A gate set by a verification, with capture stopped, is consistent.
LEMMA GateVerified ==
    ASSUME GateInv, NEW u \in Users, Verified(u), ~Capturing'
    PROVE  GateInv'
<1>1. 0 \in 0..Grace /\ Grace \in Nat
  BY AgentSessionAssumption
<1>2. proof' \in [Users -> 0..Grace] /\ proof'[u] = 0 /\ ver' = 0
  BY <1>1 DEF Verified, GateInv
<1> QED
  BY <1>1, <1>2 DEF GateInv, CaptureVerified

\* The ages go on together, so a grace window that is open was opened by somebody.
LEMMA TickKeepsGate ==
    ASSUME GateInv, TickCapture
    PROVE  GateInv'
<1>1. Grace \in Nat \ {0} /\ ver \in 0..Grace /\ proof \in [Users -> 0..Grace]
  BY AgentSessionAssumption DEF GateInv
<1>2. ver' = Later(ver, Grace) /\ proof' = [u \in Users |-> Later(proof[u], Grace)]
  BY DEF TickCapture
<1>3. \A a \in 0..Grace : Later(a, Grace) \in 0..Grace
  BY <1>1 DEF Later
<1>4. \A a, b \in 0..Grace : a <= b => Later(a, Grace) <= Later(b, Grace)
  BY <1>1 DEF Later
<1>5. ver' \in 0..Grace /\ proof' \in [Users -> 0..Grace]
  BY <1>1, <1>2, <1>3
<1>6. ver' = Grace \/ \E u \in Users : proof'[u] <= ver'
  <2>1. CASE ver = Grace
    BY <1>1, <1>2, <2>1 DEF Later
  <2>2. CASE \E u \in Users : proof[u] <= ver
    <3>1. PICK u \in Users : proof[u] <= ver
      BY <2>2
    <3>2. proof'[u] <= ver'
      BY <1>1, <1>2, <1>4, <3>1
    <3> QED
      BY <3>2
  <2> QED
    BY <2>1, <2>2 DEF GateInv
<1>7. Capturing' => signed' /\ ~revoked' /\ ver' < Grace
  BY DEF TickCapture, Capturing, MayCapture
<1>8. CaptureVerified'
  <2> SUFFICES ASSUME Capturing' PROVE signed' /\ ~revoked' /\ \E u \in Users : proof'[u] < Grace
    BY DEF CaptureVerified
  <2>1. PICK u \in Users : proof'[u] <= ver'
    BY <1>1, <1>5, <1>6, <1>7
  <2>2. proof'[u] < Grace
    BY <1>1, <1>5, <1>7, <2>1
  <2> QED
    BY <1>7, <2>2
<1> QED
  BY <1>5, <1>6, <1>8 DEF GateInv

\* What every step does to the gate.
LEMMA GateNext ==
    ASSUME SignInTypeOK, GateInv, Next
    PROVE  GateInv'
<1>1. CASE TickCapture
  BY <1>1, TickKeepsGate
<1>2. CASE \E u \in Users : PumpVerified(u)
  BY <1>2, GateVerified DEF PumpVerified, Capturing
<1>3. CASE BeatAccepted
  <2>1. auth \in Users
    BY <1>3 DEF BeatAccepted, BeatSent, SignInTypeOK
  <2> QED
    BY <1>3, <2>1, GateVerified DEF BeatAccepted, BeatSent, Capturing
<1>4. CASE Clear
  BY <1>4, GateCleared DEF Clear, SignedOut, Capturing
<1>5. CASE Crash
  BY <1>5, GateCleared DEF Crash, Capturing
<1>6. CASE Start \/ Restore \/ OpenCapture \/ PumpQuiet \/ PumpRevoked \/ BeatSkipped
             \/ BeatForbidden \/ BeatFailed \/ Widget \/ Flush \/ SignInStart \/ SignInEnds
             \/ Refresh \/ PinnedSeen
  <2>1. UNCHANGED <<ver, proof>> /\ ~Capturing'
    BY <1>6 DEF Start, Restore, OpenCapture, PumpQuiet, PumpRevoked, BeatSkipped, BeatSent,
         BeatForbidden, BeatFailed, Widget, Flush, SignInStart, SignInEnds, Refresh, PinnedSeen,
         Capturing, gateVars, captureVars
  <2> QED
    BY <2>1, GateRests
<1>7. CASE AskSignOut \/ DeviceLost \/ Revoke \/ RevocationPoll \/ TokenLapses
  <2>1. UNCHANGED <<ver, proof, signed, revoked, pc, pipe>>
    BY <1>7 DEF AskSignOut, DeviceLost, Revoke, RevocationPoll, TokenLapses, gateVars, captureVars
  <2> QED
    BY <2>1, GateRests DEF Capturing
<1> QED
  BY <1>1, <1>2, <1>3, <1>4, <1>5, <1>6, <1>7 DEF Next, Thread

-----------------------------------------------------------------------------
\* The rest of the process's state.

\* Raised events are new, and wait.
LEMMA RaiseKeeps ==
    ASSUME EventInv, NEW n \in Nat, Raise(n)
    PROVE  EventInv'
<1>1. MaxEvent \in Nat /\ raised \in 0..MaxEvent /\ raised + n <= MaxEvent
  BY AgentSessionAssumption DEF EventInv, Raise
<1>2. raised' = raised + n /\ pending' = pending \cup (raised + 1)..(raised + n)
      /\ UNCHANGED <<got, gone>>
  BY DEF Raise
<1>3. (raised + 1)..(raised + n) \subseteq Events
  BY <1>1 DEF Events
<1>4. raised' \in 0..MaxEvent
  BY <1>1, <1>2
<1>5. 1..raised' \subseteq (1..raised) \cup (raised + 1)..(raised + n)
  BY <1>1, <1>2
<1> QED
  BY <1>2, <1>3, <1>4, <1>5 DEF EventInv, EventsAccounted

\* What leaves the waiting events is recorded or given up.
LEMMA EventsMoved ==
    ASSUME EventInv, UNCHANGED raised,
           pending' \subseteq pending, got \subseteq got', gone \subseteq gone',
           got' \subseteq got \cup pending, gone' \subseteq gone \cup pending,
           pending \subseteq pending' \cup got' \cup gone'
    PROVE  EventInv'
BY DEF EventInv, EventsAccounted

\* What every step does to the events.
LEMMA EventsNext ==
    ASSUME EventInv, Next
    PROVE  EventInv'
<1>1. CASE Start
  <2> DEFINE n == (IF cert' THEN 0 ELSE 1) + (IF key' THEN 0 ELSE 1)
  <2>1. n \in Nat /\ Raise(n)
    BY <1>1 DEF Start
  <2> HIDE DEF n
  <2> QED
    BY <2>1, RaiseKeeps
<1>2. CASE OpenCapture
  <2>1. Raise(1) \/ UNCHANGED eventVars
    BY <1>2 DEF OpenCapture
  <2> QED
    BY <2>1, RaiseKeeps, EventsMoved DEF eventVars
<1>3. CASE TickCapture
  <2>1. Raise(1) \/ UNCHANGED eventVars
    BY <1>3 DEF TickCapture
  <2> QED
    BY <2>1, RaiseKeeps, EventsMoved DEF eventVars
<1>4. CASE BeatAccepted
  BY <1>4, EventsMoved DEF BeatAccepted, BeatSent
<1>5. CASE BeatForbidden
  BY <1>5, EventsMoved DEF BeatForbidden, BeatSent
<1>6. CASE BeatFailed
  BY <1>6, EventsMoved DEF BeatFailed, BeatSent
<1>7. CASE Crash
  BY <1>7, EventsMoved DEF Crash
<1>8. CASE ~(Start \/ OpenCapture \/ TickCapture \/ BeatAccepted \/ BeatForbidden \/ BeatFailed
             \/ Crash)
  <2>1. UNCHANGED <<pending, got, gone, raised>>
    BY <1>8 DEF Next, Thread, Restore, PumpQuiet, PumpVerified, PumpRevoked, BeatSkipped, Widget,
         Flush, Clear, SignInStart, SignInEnds, Refresh, AskSignOut, PinnedSeen, DeviceLost,
         Revoke, RevocationPoll, TokenLapses, eventVars
  <2> QED
    BY <2>1, EventsMoved
<1> QED
  BY <1>1, <1>2, <1>3, <1>4, <1>5, <1>6, <1>7, <1>8

\* Steps of the surroundings leave the process as it is, but for one flag each.
LEMMA ProcessNext ==
    ASSUME SignInTypeOK, SignInTypeOK', ProcessTypeOK, Next
    PROVE  ProcessTypeOK'
<1> USE DEF ProcessTypeOK
<1>0. /\ Interval \in Nat \ {0} /\ MaxDepth \in Nat \ {0} /\ 0 \in 0..Interval
      /\ Interval \in 0..Interval
  BY AgentSessionAssumption
<1>1. CASE Start \/ Restore
  BY <1>1 DEF Start, Restore, SignInTypeOK, gateVars, captureVars, uplinkVars, bootVars
<1>2. CASE OpenCapture
  BY <1>2 DEF OpenCapture, gateVars, uplinkVars, bootVars
<1>3. CASE TickCapture
  <2>1. hb' \in 0..Interval
    BY <1>0, <1>3 DEF TickCapture, Later
  <2>2. depth' \in 0..MaxDepth
    BY <1>0, <1>3 DEF TickCapture
  <2>3. pipe' \in {"none", "blocked", "on"} /\ pc' \in {"top", "pump"}
        /\ bearer' \in Users \cup {NoUser}
    BY <1>3 DEF TickCapture, SignInTypeOK
  <2> QED
    BY <1>3, <2>1, <2>2, <2>3 DEF TickCapture, bootVars
<1>4. CASE PumpQuiet \/ PumpRevoked
  BY <1>4 DEF PumpQuiet, PumpRevoked, gateVars, captureVars, bootVars
<1>5. CASE \E u \in Users : PumpVerified(u)
  <2>1. PICK u \in Users : PumpVerified(u)
    BY <1>5
  <2>2. depth' \in 0..MaxDepth
    BY <1>0, <2>1 DEF PumpVerified
  <2> QED
    BY <2>1, <2>2 DEF PumpVerified, bootVars
<1>6. CASE BeatSkipped
  BY <1>0, <1>6 DEF BeatSkipped, gateVars, captureVars, uplinkVars, bootVars
<1>7. CASE BeatAccepted \/ BeatForbidden \/ BeatFailed
  BY <1>0, <1>7 DEF BeatAccepted, BeatForbidden, BeatFailed, BeatSent, captureVars, uplinkVars,
       bootVars
<1>8. CASE Widget
  BY <1>8 DEF Widget, gateVars, captureVars, uplinkVars, bootVars
<1>9. CASE Flush
  <2>1. depth' \in 0..MaxDepth
    BY <1>0, <1>9 DEF Flush
  <2>2. sock' \in Users \cup {NoUser}
    BY <1>9 DEF Flush
  <2>3. kicked' \in BOOLEAN
    BY <1>9 DEF Flush
  <2> QED
    BY <1>9, <2>1, <2>2, <2>3 DEF Flush, gateVars, bootVars
<1>10. CASE Clear
  BY <1>10 DEF Clear, SignedOut, uplinkVars, bootVars
<1>11. CASE SignInStart \/ SignInEnds \/ Refresh
  BY <1>11 DEF SignInStart, SignInEnds, Refresh, gateVars, captureVars, uplinkVars, bootVars
<1>12. CASE AskSignOut \/ PinnedSeen \/ DeviceLost \/ Revoke \/ RevocationPoll \/ TokenLapses
  BY <1>12 DEF AskSignOut, PinnedSeen, DeviceLost, Revoke, RevocationPoll, TokenLapses, gateVars,
       captureVars, uplinkVars, bootVars
<1>13. CASE Crash
  BY <1>0, <1>13 DEF Crash
<1> QED
  BY <1>1, <1>2, <1>3, <1>4, <1>5, <1>6, <1>7, <1>8, <1>9, <1>10, <1>11, <1>12, <1>13
     DEF Next, Thread

-----------------------------------------------------------------------------
\* The inductive invariant of the whole session.
IInv == SignInInv /\ ProcessTypeOK /\ GateInv /\ EventInv

\* The inductive invariant holds in every reachable state.
LEMMA SessionInvariant == Spec => []IInv
<1>1. Init => IInv
  <2> SUFFICES ASSUME Init PROVE IInv
    OBVIOUS
  <2>1. ProcessTypeOK
    <3>1. 0 \in 0..MaxDepth /\ Interval \in 0..Interval
      BY AgentSessionAssumption
    <3> QED
      BY <3>1 DEF Init, ProcessTypeOK
  <2>2. GateInv
    <3>1. Grace \in 0..Grace
      BY AgentSessionAssumption
    <3> QED
      BY <3>1 DEF Init, NoProof, GateInv, CaptureVerified, Capturing
  <2>3. EventInv
    BY AgentSessionAssumption DEF Init, EventInv, EventsAccounted
  <2> QED
    BY <2>1, <2>2, <2>3, SignInStarts DEF IInv
<1>2. IInv /\ [Next]_vars => IInv'
  <2> SUFFICES ASSUME IInv, [Next]_vars PROVE IInv'
    OBVIOUS
  <2>1. CASE Next
    <3>1. SignInInv'
      BY <2>1, SignInNext DEF IInv
    <3> QED
      BY <2>1, <3>1, GateNext, EventsNext, ProcessNext DEF IInv, SignInInv
  <2>2. CASE UNCHANGED vars
    <3>1. SignInInv' /\ ProcessTypeOK'
      BY <2>2 DEF vars, signInVars, bootVars, gateVars, captureVars, uplinkVars, IInv, SignInInv,
           SignInTypeOK, ProcessTypeOK
    <3>2. GateInv' /\ EventInv'
      BY <2>2, GateRests, EventsMoved DEF vars, gateVars, captureVars, eventVars, IInv, Capturing
    <3> QED
      BY <3>1, <3>2 DEF IInv
  <2> QED
    BY <2>1, <2>2
<1> QED
  BY <1>1, <1>2, PTL DEF Spec

\* Types of the sign-in and of the process, whatever users, limits and bounds.
THEOREM SessionTypeCorrect == Spec => []TypeOK
<1>1. IInv => TypeOK
  BY DEF IInv, SignInInv, ProcessTypeOK, GateInv, EventInv, TypeOK
<1> QED
  BY <1>1, SessionInvariant, PTL

\* Audio is taken only while a user is signed in, the device is not known to be revoked and
\* the gateway accepted something within the grace window (agent.rs tick, identity.rs
\* status), for every length of the window.
THEOREM CaptureIsVerified == Spec => []CaptureVerified
<1>1. IInv => CaptureVerified
  BY DEF IInv, GateInv
<1> QED
  BY <1>1, SessionInvariant, PTL

\* Every client event raised is waiting, was recorded by the gateway, or went with a
\* refusal, a failed insert or the process (agent.rs send_heartbeat).
THEOREM EventsAllAccounted == Spec => []EventsAccounted
<1>1. IInv => EventsAccounted
  BY DEF IInv, EventInv
<1> QED
  BY <1>1, SessionInvariant, PTL
====
