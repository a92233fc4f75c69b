---- MODULE Capture ----
(***************************************************************************)
(* The capture side of the agent: the pipeline (sentinel-agent/src/        *)
(* pipeline.rs), its encoders (encode.rs), foreign-audio suppression       *)
(* (sentinel-capture/src/foreign.rs), the identity gate (identity.rs) and  *)
(* the tick that drives them (agent.rs).  The agent is one thread: a tick  *)
(* is one action, and everything else happens between ticks.  A tick ends  *)
(* with the uplink and the heartbeat, which a failing step skips.          *)
(***************************************************************************)
EXTENDS Detector, FiniteSets

CONSTANTS Calls, NoCall, NoUser,
          SegLen,        \* FRAMES_PER_SEGMENT: steps per segment
          PrerollMax,    \* PREROLL_MAX_SEGMENTS
          TrailingGrace, \* trailing_grace_ms, in steps
          MaxSeq,        \* bound: no frame is read once a channel has used this number
          MaxSkew,       \* bound: frames one channel is read ahead of the other
          FailKinds      \* bound: the kinds of failure that occur, at most one in all

ASSUME CaptureAssumption ==
    /\ NoCall \notin Calls /\ NoUser \notin Users
    /\ SegLen \in Nat \ {0} /\ PrerollMax \in Nat /\ TrailingGrace \in Nat
    /\ MaxSeq \in Nat /\ MaxSkew \in Nat
    /\ FailKinds \subseteq {"read", "begin", "push", "end"}

\* "the arm times out after 20 s, so the cap is only ever reached if the detector is
\* wedged" (bound_preroll): 60 segments of pre-roll last longer than an arm.
ASSUME PrerollAssumption == ArmedTimeout < PrerollMax * SegLen

Channels == {"far", "near"}
Streams == Calls \X Channels
OffCap == Larger(TrailingGrace, WrapTime)

VARIABLES det,      \* the detector; its user is the pipeline's user_uid
          sup,      \* the suppressor: session flag, time since the session went inactive
          enc,      \* per channel: next_seq, and the frames in the segment being built
          ready,    \* per channel: the numbers of the finished segments not spooled yet
          cur,      \* current_call
          lastSeq,  \* last_seq, -1 for a channel without an entry
          signedIn, \* the gate: a user is signed in
          standing, \* the gate: device present, not revoked, verified within the grace window
          owner,    \* per call the user in its stored call.start, NoUser if none
          spooled,  \* history, per stream: the sequence numbers handed to the spool
          ended,    \* the calls with a stored call.end
          endSeq,   \* per stream: last_seq as that call.end names it
          failed,   \* history: the kinds of failure so far
          heard,    \* history: call speech on the far channel since the detector armed
          since     \* history, per channel: segments finished since the detector armed

pipeVars == <<det, sup, enc, ready, cur, lastSeq>>
gateVars == <<signedIn, standing>>
bookVars == <<owner, spooled, ended, endSeq>>
histVars == <<failed, heard, since>>
vars == <<pipeVars, gateVars, bookVars, histVars>>

Encoder == [next : Nat, part : Nat]

TypeOK ==
    /\ det \in DetectorState
    /\ sup \in [active : BOOLEAN, off : 0..OffCap]
    /\ enc \in [Channels -> Encoder]
    /\ ready \in [Channels -> SUBSET Nat]
    /\ cur \in Calls \cup {NoCall}
    /\ lastSeq \in [Channels -> Int]
    /\ signedIn \in BOOLEAN /\ standing \in BOOLEAN
    /\ owner \in [Calls -> Users \cup {NoUser}]
    /\ spooled \in [Streams -> SUBSET Nat]
    /\ ended \subseteq Calls
    /\ endSeq \in [Streams -> Int]
    /\ failed \subseteq FailKinds
    /\ heard \in 0..Confirm
    /\ since \in [Channels -> SUBSET Nat]

Fresh == [ch \in Channels |-> [next |-> 0, part |-> 0]]
None == [ch \in Channels |-> {}]
NoLast == [ch \in Channels |-> -1]

\* Agent::new and open_capture have succeeded for some user; nothing is verified yet.
Init ==
    /\ det \in [st : {"Idle"}, age : {0}, active : {FALSE}, speech : {0}, silence : {0},
                reopen : {FALSE}, exhausted : {FALSE}, user : Users]
    /\ sup = [active |-> FALSE, off |-> 0]
    /\ enc = Fresh /\ ready = None /\ cur = NoCall /\ lastSeq = NoLast
    /\ signedIn = TRUE /\ standing = FALSE
    /\ owner = [c \in Calls |-> NoUser]
    /\ spooled = [x \in Streams |-> {}]
    /\ ended = {} /\ endSeq = [x \in Streams |-> -1]
    /\ failed = {} /\ heard = 0 /\ since = None

-----------------------------------------------------------------------------
\* History: what was heard since the detector armed, given whether this step heard call
\* speech and which segments it finished.  It starts over when the detector arms.
Engaged(d) == d.st \in {"Armed", "InCall", "Wrap"}
Remember(voice, finished) ==
    LET goesOn == Engaged(det') /\ (det'.st = "Armed" => det.st = "Armed")
    IN  /\ heard' = IF goesOn /\ voice THEN Later(heard, Confirm)
                    ELSE IF goesOn THEN heard ELSE 0
        /\ since' = IF goesOn THEN [ch \in Channels |-> since[ch] \cup finished[ch]] ELSE None

\* on_session_state: the transition the detector answers with is dropped.
OnSessionState(active) ==
    /\ det' = SessionState(det, active).d
    /\ sup' = IF active = sup.active THEN sup ELSE [active |-> active, off |-> 0]
    /\ Remember(FALSE, None)
    /\ UNCHANGED <<enc, ready, cur, lastSeq, gateVars, bookVars, failed>>

\* on_signed_in: the CallEnded of a user change is dropped.
OnSignedIn(u) ==
    /\ ~signedIn \/ u # det.user
    /\ signedIn' = TRUE
    /\ det' = UserChanged(det, u).d
    /\ Remember(FALSE, None)
    /\ UNCHANGED <<sup, enc, ready, cur, lastSeq, standing, bookVars, failed>>

\* sign_out, from the widget's host call at the end of a tick: the CallEnded of the
\* block is dropped.
SignOut ==
    /\ signedIn
    /\ signedIn' = FALSE /\ standing' = FALSE
    /\ det' = Block(det).d
    /\ Remember(FALSE, None)
    /\ UNCHANGED <<sup, enc, ready, cur, lastSeq, bookVars, failed>>

\* The grace window since the last verification passes, the pinned device goes away, or
\* the tick just ended has learnt that the device is revoked.
StandingLost ==
    /\ standing
    /\ standing' = FALSE
    /\ UNCHANGED <<pipeVars, signedIn, bookVars, histVars>>

-----------------------------------------------------------------------------
\* may_capture: the gate's status is Online or Grace.
MayCapture == signedIn /\ standing

\* The end of a tick that did not fail: the pump or the heartbeat may prove the token
\* verified.
Report ==
    /\ standing' \in {standing, TRUE}
    /\ UNCHANGED signedIn

\* Capture may not run: the detector is blocked, and its transition dropped.
TickBlocked ==
    /\ ~MayCapture
    /\ det' = IF det.st = "Blocked" THEN det ELSE Block(det).d
    /\ Report
    /\ Remember(FALSE, None)
    /\ UNCHANGED <<sup, enc, ready, cur, lastSeq, bookVars, failed>>

\* read_channel on the channels in R: the frame goes to the encoder, which may finish
\* a segment.
Finishes(ch, R) == ch \in R /\ enc[ch].part + 1 >= SegLen
Finished(R) == [ch \in Channels |-> IF Finishes(ch, R) THEN {enc[ch].next} ELSE {}]
Held(R) == [ch \in Channels |-> ready[ch] \cup Finished(R)[ch]]
Encoded(R) ==
    [ch \in Channels |->
        IF Finishes(ch, R) THEN [next |-> enc[ch].next + 1, part |-> 0]
        ELSE IF ch \in R THEN [enc[ch] EXCEPT !.part = @ + 1]
        ELSE enc[ch]]

\* The bounds on reading.
Frames(ch) == enc[ch].next * SegLen + enc[ch].part
Readable(R) ==
    \A ch \in R : /\ enc[ch].next <= MaxSeq
                  /\ \A x \in Channels \ R : Frames(ch) < Frames(x) + MaxSkew

\* Neither channel has audio: step returns early.
TickNothingRead ==
    /\ MayCapture
    /\ det' = Unblock(det).d
    /\ Report
    /\ Remember(FALSE, None)
    /\ UNCHANGED <<sup, enc, ready, cur, lastSeq, bookVars, failed>>

\* The bound on failures.
Fail(kind) ==
    /\ failed = {} /\ kind \in FailKinds
    /\ failed' = {kind}

\* A read fails, for the near channel after the far one was read: the tick ends here.
TickReadFails(R) ==
    /\ MayCapture
    /\ R \subseteq {"far"} /\ Readable(R)
    /\ Fail("read")
    /\ det' = Unblock(det).d
    /\ enc' = Encoded(R) /\ ready' = Held(R)
    /\ Remember(FALSE, Finished(R))
    /\ UNCHANGED <<sup, cur, lastSeq, gateVars, bookVars>>

-----------------------------------------------------------------------------
\* Mutant of Foreign: nothing is suppressed.
NothingForeign(far) == FALSE

\* judge: voice on the far channel once the session has been inactive for longer than
\* the trailing grace is foreign.
OffNow == IF sup.active THEN 0 ELSE Later(sup.off, OffCap)
Foreign(far) == far /\ ~sup.active /\ OffNow >= TrailingGrace

\* What the detector makes of the two observations of a step: of its two transitions
\* the caller keeps the first that is not None.
Heard(far) == FarVoice(Unblock(det).d, far /\ ~Foreign(far))
Judged(far, near) == NearVoice(Heard(far).d, near)
KeptSecond(far, near) == Judged(far, near).t    \* mutant: the first is overwritten
Kept(far, near) == IF Heard(far).t # "none" THEN Heard(far).t ELSE Judged(far, near).t

Observed(far, near) ==
    [d |-> Judged(far, near).d, t |-> Kept(far, near),
     voice |-> far /\ (sup.active \/ OffNow < TrailingGrace)]

\* step, up to and including the detector, with a transition among ts.
Stepping(R, o, ts) ==
    /\ o.t \in ts
    /\ R # {} /\ Readable(R)
    /\ det' = o.d
    /\ sup' = [sup EXCEPT !.off = OffNow]
    /\ Remember(o.voice, Finished(R))

\* Mutant of LastAfter: an entry is inserted, never updated.
LastAfterFirst(last, batch) ==
    [ch \in Channels |-> IF batch[ch] = {} \/ last[ch] # -1 THEN last[ch]
                         ELSE CHOOSE n \in batch[ch] : TRUE]

\* push_segment of every segment of a batch, and last_seq after it.
Highest(S) == CHOOSE n \in S : \A m \in S : m <= n
Push(c, batch) ==
    spooled' = [x \in Streams |-> IF x[1] = c THEN spooled[x] \cup batch[x[2]] ELSE spooled[x]]
LastAfter(last, batch) ==
    [ch \in Channels |-> IF batch[ch] = {} THEN last[ch]
                         ELSE Highest(batch[ch])]

\* Mutant of Bounded: the pre-roll is cleared as well.
BoundedClears(held, d) == None

\* bound_preroll with no call open: an arm keeps the newest segments, anything else none.
Bounded(held, d) ==
    [ch \in Channels |->
        IF d.st # "Armed" THEN {}
        ELSE {n \in held[ch] : Cardinality({m \in held[ch] : m > n}) < PrerollMax}]

\* No call begins or ends: an open call takes what is ready.
StepOn(R, o) ==
    /\ Stepping(R, o, {"none", "WrapStarted"})
    /\ enc' = Encoded(R)
    /\ IF cur # NoCall
       THEN /\ Push(cur, Held(R))
            /\ lastSeq' = LastAfter(lastSeq, Held(R))
            /\ ready' = None
       ELSE /\ ready' = Bounded(Held(R), det')
            /\ UNCHANGED <<lastSeq, spooled>>
    /\ Report
    /\ UNCHANGED <<cur, owner, ended, endSeq, failed>>

\* Armed and ArmDiscarded: both channels restart with a fresh sequence space.
StepRestart(R, o) ==
    /\ Stepping(R, o, {"Armed", "ArmDiscarded"})
    /\ enc' = Fresh /\ ready' = None
    /\ Report
    /\ UNCHANGED <<cur, lastSeq, bookVars, failed>>

\* CallStarted: a new call record, which takes the pre-roll.
StepStart(R, o, c) ==
    /\ Stepping(R, o, {"CallStarted"})
    /\ owner[c] = NoUser
    /\ owner' = [owner EXCEPT ![c] = det.user]
    /\ cur' = c
    /\ Push(c, Held(R))
    /\ lastSeq' = LastAfter(NoLast, Held(R))
    /\ enc' = Encoded(R) /\ ready' = None
    /\ Report
    /\ UNCHANGED <<ended, endSeq, failed>>

\* finish_call: the partial segments are flushed, then call.end is stored.
Unfinished(R, ch) == Encoded(R)[ch].part > 0
\* Mutant of LastBatch: the flushed segment takes the number after the next.
LastBatchSkips(R) == [ch \in Channels |->
    Held(R)[ch] \cup (IF Unfinished(R, ch) THEN {Encoded(R)[ch].next + 1} ELSE {})]
LastBatch(R) == [ch \in Channels |->
    Held(R)[ch] \cup (IF Unfinished(R, ch) THEN {Encoded(R)[ch].next} ELSE {})]
Flushed(R, chs) == [ch \in Channels |->
    IF ch \in chs /\ Unfinished(R, ch) THEN [next |-> Encoded(R)[ch].next + 1, part |-> 0]
    ELSE Encoded(R)[ch]]

StepEnd(R, o) ==
    /\ Stepping(R, o, {"CallEnded"})
    /\ IF cur # NoCall
       THEN /\ Push(cur, LastBatch(R))
            /\ lastSeq' = LastAfter(lastSeq, LastBatch(R))
            /\ endSeq' = [x \in Streams |-> IF x[1] = cur THEN lastSeq'[x[2]] ELSE endSeq[x]]
            /\ ended' = ended \cup {cur}
            /\ enc' = Flushed(R, Channels)
       ELSE /\ enc' = Encoded(R)
            /\ UNCHANGED <<lastSeq, spooled, ended, endSeq>>
    /\ ready' = None
    /\ cur' = NoCall
    /\ Report
    /\ UNCHANGED <<owner, failed>>

-----------------------------------------------------------------------------
\* begin_call fails: the detector is in a call that nobody records.
StepStartFails(R, o) ==
    /\ Stepping(R, o, {"CallStarted"})
    /\ Fail("begin")
    /\ enc' = Encoded(R) /\ ready' = Held(R)
    /\ UNCHANGED <<cur, lastSeq, bookVars, gateVars>>

\* push_segment fails for segment n of channel ch: what came before it is spooled, the
\* rest of that channel's batch is gone, and the near channel is not reached from far.
Before(batch, ch, n) == [x \in Channels |->
    IF x = ch THEN {m \in batch[ch] : m < n} ELSE IF x = "far" THEN batch[x] ELSE {}]
NotReached(R, ch) == [x \in Channels |-> IF x = "near" /\ ch = "far" THEN Held(R)[x] ELSE {}]

DrainFails(R, o, ch, n) ==
    /\ cur # NoCall
    /\ Stepping(R, o, {"none", "WrapStarted"})
    /\ Fail("push")
    /\ n \in Held(R)[ch]
    /\ Push(cur, Before(Held(R), ch, n))
    /\ lastSeq' = LastAfter(lastSeq, Before(Held(R), ch, n))
    /\ enc' = Encoded(R) /\ ready' = NotReached(R, ch)
    /\ UNCHANGED <<cur, owner, ended, endSeq, gateVars>>

\* The same while the pre-roll of a call just begun is spooled.
PrerollFails(R, o, c, ch, n) ==
    /\ Stepping(R, o, {"CallStarted"})
    /\ Fail("push")
    /\ owner[c] = NoUser
    /\ n \in Held(R)[ch]
    /\ owner' = [owner EXCEPT ![c] = det.user]
    /\ cur' = c
    /\ Push(c, Before(Held(R), ch, n))
    /\ lastSeq' = LastAfter(NoLast, Before(Held(R), ch, n))
    /\ enc' = Encoded(R) /\ ready' = NotReached(R, ch)
    /\ UNCHANGED <<ended, endSeq, gateVars>>

\* The same in finish_call: the call is closed without its call.end.
FinishFails(R, o, ch, n) ==
    /\ cur # NoCall
    /\ Stepping(R, o, {"CallEnded"})
    /\ Fail("push")
    /\ n \in LastBatch(R)[ch]
    /\ Push(cur, Before(LastBatch(R), ch, n))
    /\ lastSeq' = LastAfter(lastSeq, Before(LastBatch(R), ch, n))
    /\ enc' = Flushed(R, {"far", ch}) /\ ready' = NotReached(R, ch)
    /\ cur' = NoCall
    /\ UNCHANGED <<owner, ended, endSeq, gateVars>>

\* end_call itself fails: everything is spooled, and the call is closed without its call.end.
EndFails(R, o) ==
    /\ cur # NoCall
    /\ Stepping(R, o, {"CallEnded"})
    /\ Fail("end")
    /\ Push(cur, LastBatch(R))
    /\ lastSeq' = LastAfter(lastSeq, LastBatch(R))
    /\ enc' = Flushed(R, Channels) /\ ready' = None
    /\ cur' = NoCall
    /\ UNCHANGED <<owner, ended, endSeq, gateVars>>

-----------------------------------------------------------------------------
StepWith(R, o) ==
    \/ StepOn(R, o)
    \/ StepRestart(R, o)
    \/ \E c \in Calls : StepStart(R, o, c)
    \/ StepEnd(R, o)
    \/ StepStartFails(R, o)
    \/ EndFails(R, o)
    \/ \E ch \in Channels, n \in 0..MaxSeq :
          \/ DrainFails(R, o, ch, n)
          \/ \E c \in Calls : PrerollFails(R, o, c, ch, n)
          \/ FinishFails(R, o, ch, n)

Step ==
    /\ MayCapture
    /\ \E R \in SUBSET Channels, far, near \in BOOLEAN : StepWith(R, Observed(far, near))

Next ==
    \/ \E active \in BOOLEAN : OnSessionState(active)
    \/ \E u \in Users : OnSignedIn(u)
    \/ SignOut
    \/ StandingLost
    \/ TickBlocked
    \/ TickNothingRead
    \/ \E R \in SUBSET Channels : TickReadFails(R)
    \/ Step

Spec == Init /\ [][Next]_vars

-----------------------------------------------------------------------------
\* step keeps one of the two transitions its two feeds return: no observation ever
\* makes the detector take two, whatever state it is in, so none is lost there
\* (pipeline.rs 264-270).
OneTransitionPerStep ==
    \A far, near \in BOOLEAN : Heard(far).t # "none" => Judged(far, near).t = "none"

\* A call is hung up only after the softphone's session has been inactive without a
\* break for the whole wrap time: a hold, however often it is resumed and whatever
\* is said during it, does not split a call (state.rs 100-102).
HoldKeepsOneCall ==
    [][\A c \in ended' \ ended : ~sup.active /\ sup'.off >= WrapTime]_vars

\* A call is only ever in progress after enough speech on the far channel since the
\* last time the detector armed, not counting foreign audio or anything heard before
\* (state.rs evaluate; pipeline.rs 261-263).
ConfirmedBySpeech == Talking(det) => heard >= Confirm

\* "Keeping it is what stops every call losing its opening words" (pipeline.rs 48-51):
\* whatever was finished since the detector armed is in the record of the call, or about
\* to be, unless a write failed or an earlier call was never closed.
OpeningWordsKept ==
    (/\ Talking(det) /\ cur # NoCall
     /\ failed \cap {"begin", "push"} = {}
     /\ \A c \in Calls \ {cur} : owner[c] # NoUser => c \in ended)
    => \A ch \in Channels : since[ch] \subseteq spooled[<<cur, ch>>] \cup ready[ch]

\* A detector in a call means that the pipeline records one, unless the spool refused its
\* call.start: neither a dropped transition, nor a hold, nor a block and unblock leads
\* into a call without apply_transition having opened a record.
InCallIsRecorded == Talking(det) => cur # NoCall \/ "begin" \in failed

\* What makes these inductive: the detector and the suppressor agree on the session, an arm
\* at rest has not heard enough and history has not heard less than the detector, and
\* a wrap has lasted no longer than the session has been inactive.
DetectorInv ==
    /\ det.active = sup.active
    /\ det.st = "Armed" => det.speech < Confirm /\ heard >= det.speech
    /\ det.st = "Wrap" => ~det.active /\ (sup.off >= det.age \/ sup.off >= WrapTime)

\* A segment that is ready carries a number its encoder has already used.
NumbersUsed == \A ch \in Channels : \A n \in ready[ch] : n < enc[ch].next

CaptureInv == DetectorInv /\ NumbersUsed /\ ConfirmedBySpeech /\ InCallIsRecorded

\* "last_seq must name the highest sequence the client actually produced" (pipeline.rs
\* 422-424), also when reads failed, the call was held, or the pre-roll went first.
LastSeqIsHighest ==
    \A x \in Streams :
        (x[1] \in ended /\ "begin" \notin failed)
        => IF spooled[x] = {} THEN endSeq[x] = -1
           ELSE endSeq[x] \in spooled[x] /\ \A n \in spooled[x] : n <= endSeq[x]

\* The numbers of a stream are consecutive while its call is in progress and once it has
\* ended, over the pre-roll, holds, failed reads and the partial segment flushed last, unless a
\* write failed.  The gateway's contiguous mark relies on it: a number that is never spooled
\* would hold it, and every ack of the stream, back for ever.
NumbersConsecutive ==
    failed \cap {"begin", "push"} = {} =>
        \A x \in Streams :
            x[1] \in ended \/ (x[1] = cur /\ Talking(det)) =>
                \A n, m \in spooled[x] : n..m \subseteq spooled[x]
====
