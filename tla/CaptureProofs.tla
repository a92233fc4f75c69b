---- MODULE CaptureProofs ----
(***************************************************************************)
(* Proofs about Capture, for every set of calls and users and every VAD    *)
(* policy whose durations are at least one step.                           *)
(***************************************************************************)
EXTENDS Capture, WellFoundedInduction, TLAPS

\* No observation that leaves time alone moves this detector.
Quiet(d) ==
    /\ d.age = 0
    /\ d.st = "Armed" => d.speech < Confirm
    /\ d.st = "Finalize" => ~d.active

\* What one evaluation of d may lead to, a detector e and a transition t: where an arm,
\* a call, a wrap and a hang-up come from.
Evaluated(d, e, t) ==
    /\ e \in DetectorState /\ t \in Transition
    /\ e.active = d.active
    /\ d.st = "Armed" /\ t = "none" => e = d
    /\ e.st = "Armed" => \/ d.st = "Armed" /\ e = d /\ d.speech < Confirm
                         \/ d.st # "Armed" /\ t = "Armed" /\ e.speech = 0
    /\ Talking(e) => \/ Talking(d) /\ t \in {"none", "WrapStarted"}
                     \/ d.st = "Armed" /\ d.speech >= Confirm /\ t = "CallStarted"
    /\ e.st = "Wrap" => /\ ~d.active
                        /\ \/ e.age = 0
                           \/ d.st = "Wrap" /\ e.age = d.age /\ d.age < WrapTime
    /\ t = "CallEnded" => d.st = "Wrap" /\ ~d.active /\ d.age >= WrapTime
    /\ t \in {"Armed", "ArmDiscarded", "CallEnded"} => ~Talking(e)
    /\ t # "none" => Quiet(e)

\* The caps are numbers no smaller than what they cap.
LEMMA Caps ==
    /\ AgeCap \in Nat /\ AgeCap >= WrapTime /\ AgeCap >= Debounce
    /\ OffCap \in Nat /\ OffCap >= WrapTime
BY VadAssumption, CaptureAssumption DEF AgeCap, OffCap, Larger

\* The two parts of an answer.
LEMMA Answer ==
    ASSUME NEW d, NEW t
    PROVE  Taken(d, t).d = d /\ Taken(d, t).t = t
BY DEF Taken

\* goto changes the state and restarts its age.
LEMMA GotoFields ==
    ASSUME NEW d \in DetectorState, NEW s \in CallState
    PROVE  /\ Goto(d, s) \in DetectorState
           /\ Goto(d, s).st = s /\ Goto(d, s).age = 0
           /\ Goto(d, s).active = d.active /\ Goto(d, s).speech = d.speech
<1>1. 0 \in 0..AgeCap
  BY Caps
<1>2. Goto(d, s) = [d EXCEPT !.st = s, !.age = 0]
  BY DEF Goto
<1>3. Goto(d, s) \in DetectorState
  BY <1>1, <1>2 DEF DetectorState
<1> QED
  BY <1>2, <1>3 DEF DetectorState

\* Setting the fields evaluate sets beside the state.
LEMMA SetFields ==
    ASSUME NEW d \in DetectorState
    PROVE  /\ [d EXCEPT !.speech = 0] \in DetectorState
           /\ [d EXCEPT !.silence = 0] \in DetectorState
           /\ [d EXCEPT !.exhausted = TRUE] \in DetectorState
           /\ [d EXCEPT !.reopen = FALSE, !.exhausted = FALSE, !.speech = 0] \in DetectorState
<1>1. 0 \in 0..Confirm /\ 0 \in 0..Hangup
  BY VadAssumption
<1> QED
  BY <1>1 DEF DetectorState

\* evaluate does what Evaluated says, in each of its states.
LEMMA EvaluateDoes ==
    ASSUME NEW d \in DetectorState
    PROVE  Evaluated(d, Evaluate(d).d, Evaluate(d).t)
<1> USE VadAssumption, Caps
<1> DEFINE armed == [Goto(d, "Armed") EXCEPT !.speech = 0]
           started == [Goto(d, "InCall") EXCEPT !.silence = 0]
           reopened == [Goto(d, "Armed") EXCEPT !.reopen = FALSE, !.exhausted = FALSE,
                                                !.speech = 0]
           discarded == [Goto(d, "Idle") EXCEPT !.exhausted = TRUE]
<1> HIDE DEF armed, started, reopened, discarded
<1>1. /\ Goto(d, "Idle") \in DetectorState /\ Goto(d, "Wrap") \in DetectorState
      /\ Goto(d, "Finalize") \in DetectorState
      /\ armed \in DetectorState /\ started \in DetectorState
      /\ reopened \in DetectorState /\ discarded \in DetectorState
  BY GotoFields, SetFields DEF CallState, armed, started, reopened, discarded
<1>2. /\ armed.st = "Armed" /\ armed.age = 0 /\ armed.active = d.active /\ armed.speech = 0
      /\ reopened.st = "Armed" /\ reopened.age = 0 /\ reopened.active = d.active
      /\ reopened.speech = 0
  BY GotoFields DEF armed, reopened, CallState, DetectorState
<1>3. /\ started.st = "InCall" /\ started.age = 0 /\ started.active = d.active
      /\ discarded.st = "Idle" /\ discarded.age = 0 /\ discarded.active = d.active
  BY GotoFields DEF started, discarded, CallState, DetectorState
<1>4. \A s \in {"Idle", "Wrap", "Finalize"} :
         Goto(d, s).st = s /\ Goto(d, s).age = 0 /\ Goto(d, s).active = d.active
  BY GotoFields DEF CallState
<1>5. CASE d.st = "Idle"
  <2>1. \/ Evaluate(d) = Taken(armed, "Armed")
        \/ Evaluate(d) = Taken(d, "none")
    BY <1>5 DEF Evaluate, EvalIdle, Stay, armed
  <2> QED
    BY <2>1, <1>1, <1>2, <1>5, Answer DEF Evaluated, Talking, Quiet, Transition
<1>6. CASE d.st = "Armed"
  <2>1. \/ d.speech >= Confirm /\ Evaluate(d) = Taken(started, "CallStarted")
        \/ Evaluate(d) = Taken(Goto(d, "Idle"), "ArmDiscarded")
        \/ Evaluate(d) = Taken(discarded, "ArmDiscarded")
        \/ ~(d.speech >= Confirm) /\ Evaluate(d) = Taken(d, "none")
    BY <1>6 DEF Evaluate, EvalArmed, Stay, started, discarded
  <2>2. d.speech \in Int
    BY DEF DetectorState
  <2> QED
    BY <2>1, <2>2, <1>1, <1>3, <1>4, <1>6, Answer DEF Evaluated, Talking, Quiet, Transition
<1>7. CASE d.st = "InCall"
  <2>1. \/ ~d.active /\ Evaluate(d) = Taken(Goto(d, "Wrap"), "WrapStarted")
        \/ Evaluate(d) = Taken(d, "none")
    BY <1>7 DEF Evaluate, EvalInCall, Stay
  <2> QED
    BY <2>1, <1>1, <1>4, <1>7, Answer DEF Evaluated, Talking, Quiet, Transition
<1>8. CASE d.st = "Wrap"
  <2>1. \/ Evaluate(d) = Taken(started, "none")
        \/ /\ ~d.active /\ d.age >= WrapTime
           /\ Evaluate(d) = Taken(Goto(d, "Finalize"), "CallEnded")
        \/ ~d.active /\ ~(d.age >= WrapTime) /\ Evaluate(d) = Taken(d, "none")
    BY <1>8 DEF Evaluate, EvalWrap, Stay, started
  <2>2. d.age \in Int
    BY DEF DetectorState
  <2> QED
    BY <2>1, <2>2, <1>1, <1>3, <1>4, <1>8, Answer DEF Evaluated, Talking, Quiet, Transition
<1>9. CASE d.st = "Finalize"
  <2>1. \/ Evaluate(d) = Taken(reopened, "Armed")
        \/ Evaluate(d) = Taken(Goto(d, "Idle"), "none")
    BY <1>9 DEF Evaluate, EvalFinalize, Stay, reopened
  <2> QED
    BY <2>1, <1>1, <1>2, <1>4, <1>9, Answer DEF Evaluated, Talking, Quiet, Transition
<1>10. CASE d.st = "Blocked"
  BY <1>10 DEF Evaluate, Evaluated, Stay, Taken, Talking, Quiet, Transition
<1> QED
  BY <1>5, <1>6, <1>7, <1>8, <1>9, <1>10 DEF CallState, DetectorState

\* A quiet detector answers None to the near channel, and stays where it is.
LEMMA QuietStays ==
    ASSUME NEW d \in DetectorState, Quiet(d)
    PROVE  Evaluate(d).t = "none"
<1> USE VadAssumption
<1>1. CASE d.st = "Idle"
  BY <1>1 DEF Quiet, Evaluate, EvalIdle, Stay, Taken, Debounced, DetectorState
<1>2. CASE d.st = "Armed"
  BY <1>2 DEF Quiet, Evaluate, EvalArmed, Stay, Taken, Debounced, DetectorState
<1>3. CASE d.st = "InCall"
  BY <1>3 DEF Quiet, Evaluate, EvalInCall, Stay, Taken, Debounced, DetectorState
<1>4. CASE d.st = "Wrap"
  BY <1>4 DEF Quiet, Evaluate, EvalWrap, Stay, Taken, Debounced, DetectorState
<1>5. CASE d.st = "Finalize"
  BY <1>5 DEF Quiet, Evaluate, EvalFinalize, Stay, Taken, DetectorState
<1>6. CASE d.st = "Blocked"
  BY <1>6 DEF Evaluate, Stay, Taken
<1> QED
  BY <1>1, <1>2, <1>3, <1>4, <1>5, <1>6 DEF CallState, DetectorState

-----------------------------------------------------------------------------
(***************************************************************************)
(* What a step, a session change and the other inputs do to the detector.  *)
(***************************************************************************)

\* The confirmed speech of an arm after a step that heard call speech or not.
SpeechAfter(voice) == IF voice THEN Later(det.speech, Confirm) ELSE det.speech

\* What a step of the pipeline makes of the detector.
Seen(voice, e, t) ==
    /\ e \in DetectorState /\ t \in Transition
    /\ e.active = det.active
    /\ e.st = "Armed" => /\ e.speech < Confirm
                         /\ \/ det.st # "Armed" /\ e.speech = 0
                            \/ det.st = "Armed" /\ e.speech = SpeechAfter(voice)
    /\ Talking(e) => \/ Talking(det) /\ t \in {"none", "WrapStarted"}
                     \/ det.st = "Armed" /\ SpeechAfter(voice) >= Confirm /\ t = "CallStarted"
    /\ e.st = "Wrap" => /\ ~det.active
                        /\ \/ e.age = 0
                           \/ det.st = "Wrap" /\ e.age = Later(det.age, AgeCap)
    /\ t = "CallEnded" => det.st = "Wrap" /\ ~det.active /\ Later(det.age, AgeCap) >= WrapTime
    /\ t \in {"Armed", "ArmDiscarded", "CallEnded"} => ~Talking(e)

\* The detector after the far channel's observation has been put into it.
Clocked(d, voiced) ==
    IF voiced
    THEN [d EXCEPT !.age = Later(@, AgeCap), !.silence = 0, !.speech = Later(@, Confirm)]
    ELSE [d EXCEPT !.age = Later(@, AgeCap), !.silence = Later(@, Hangup)]

LEMMA LaterIn ==
    ASSUME NEW cap \in Nat, NEW n \in 0..cap
    PROVE  Later(n, cap) \in 0..cap /\ Later(n, cap) >= n
BY DEF Later

LEMMA ClockedFields ==
    ASSUME NEW d \in DetectorState, NEW voiced \in BOOLEAN
    PROVE  /\ Clocked(d, voiced) \in DetectorState
           /\ Clocked(d, voiced).st = d.st
           /\ Clocked(d, voiced).active = d.active
           /\ Clocked(d, voiced).age = Later(d.age, AgeCap)
           /\ Clocked(d, voiced).speech = IF voiced THEN Later(d.speech, Confirm) ELSE d.speech
<1>1. /\ Later(d.age, AgeCap) \in 0..AgeCap
      /\ Later(d.speech, Confirm) \in 0..Confirm
      /\ Later(d.silence, Hangup) \in 0..Hangup
      /\ 0 \in 0..Hangup
  BY LaterIn, Caps, VadAssumption DEF DetectorState
<1> QED
  BY <1>1 DEF Clocked, DetectorState

LEMMA UnblockFields ==
    ASSUME NEW d \in DetectorState
    PROVE  /\ Unblock(d).d \in DetectorState
           /\ Unblock(d).d.active = d.active
           /\ d.st # "Blocked" => Unblock(d).d = d
           /\ d.st = "Blocked" => Unblock(d).d.st = "Idle"
BY GotoFields, Answer DEF Unblock, Stay, CallState

\* enter_blocked and on_user_changed leave the detector outside a call, or as it was.
LEMMA BlockFields ==
    ASSUME NEW d \in DetectorState
    PROVE  /\ Block(d).d \in DetectorState
           /\ Block(d).d.active = d.active
           /\ Block(d).d.st = "Blocked"
BY GotoFields, Answer DEF Block, CallState

LEMMA UserChangedFields ==
    ASSUME NEW d \in DetectorState, NEW u \in Users
    PROVE  /\ UserChanged(d, u).d \in DetectorState
           /\ UserChanged(d, u).d.active = d.active
           /\ \/ UserChanged(d, u).d.st = "Idle"
              \/ /\ UserChanged(d, u).d.st = d.st
                 /\ UserChanged(d, u).d.age = d.age
                 /\ UserChanged(d, u).d.speech = d.speech
<1>1. CASE u # d.user /\ Talking(d)
  <2>1. UserChanged(d, u).d = [Goto(d, "Idle") EXCEPT !.user = u, !.reopen = d.active,
                                                       !.exhausted = FALSE]
    BY <1>1, Answer DEF UserChanged
  <2>2. Goto(d, "Idle") \in DetectorState /\ Goto(d, "Idle").st = "Idle"
        /\ Goto(d, "Idle").active = d.active
    BY GotoFields DEF CallState
  <2> QED
    BY <2>1, <2>2 DEF DetectorState
<1>2. CASE ~(u # d.user /\ Talking(d))
  <2>1. UserChanged(d, u).d = [d EXCEPT !.user = u]
    BY <1>2, Answer DEF UserChanged, Stay
  <2> QED
    BY <2>1 DEF DetectorState
<1> QED
  BY <1>1, <1>2

LEMMA StepSees ==
    ASSUME TypeOK, NEW far \in BOOLEAN, NEW near \in BOOLEAN
    PROVE  /\ Seen(Observed(far, near).voice, Observed(far, near).d, Observed(far, near).t)
           /\ Heard(far).t # "none" => Judged(far, near).t = "none"
           /\ Observed(far, near).voice \in BOOLEAN
<1> USE VadAssumption, Caps
<1> DEFINE voice == Observed(far, near).voice
           d0 == Unblock(det).d
           d1 == Clocked(d0, voice)
           e1 == Heard(far).d
           d2 == IF near THEN [e1 EXCEPT !.silence = 0] ELSE e1
           e2 == Judged(far, near).d
<1>1. voice \in BOOLEAN /\ voice = (far /\ ~Foreign(far))
  <2>1. OffNow \in Int /\ TrailingGrace \in Int /\ sup.active \in BOOLEAN
    <3>1. sup.off \in 0..OffCap /\ sup.active \in BOOLEAN
      BY DEF TypeOK
    <3> QED
      BY <3>1, LaterIn, CaptureAssumption DEF OffNow
  <2>2. voice = (far /\ (sup.active \/ OffNow < TrailingGrace))
    BY DEF Observed
  <2> QED
    BY <2>1, <2>2 DEF Foreign
<1>2. d0 \in DetectorState /\ d0.active = det.active /\ det \in DetectorState
  BY UnblockFields DEF TypeOK
<1>3. Heard(far) = Evaluate(d1)
  BY <1>1 DEF Heard, FarVoice, Clocked
<1>4. /\ d1 \in DetectorState /\ d1.st = d0.st /\ d1.active = det.active
      /\ d1.age = Later(d0.age, AgeCap)
      /\ d1.speech = IF voice THEN Later(d0.speech, Confirm) ELSE d0.speech
  BY <1>1, <1>2, ClockedFields
<1> HIDE DEF d1, d0, voice
<1>5. Evaluated(d1, e1, Heard(far).t)
  BY <1>3, <1>4, EvaluateDoes
<1>6. e1 \in DetectorState
  BY <1>5 DEF Evaluated
<1> HIDE DEF e1
<1>7. /\ d2 \in DetectorState /\ d2.st = e1.st /\ d2.active = e1.active
      /\ d2.age = e1.age /\ d2.speech = e1.speech
  BY <1>6, SetFields DEF DetectorState
<1>8. Judged(far, near) = Evaluate(d2)
  BY DEF Judged, NearVoice, e1
<1> HIDE DEF d2
<1>9. Evaluated(d2, e2, Judged(far, near).t)
  BY <1>7, <1>8, EvaluateDoes
<1>10. Heard(far).t # "none" => Judged(far, near).t = "none"
  <2>1. Heard(far).t # "none" => Quiet(d2)
    BY <1>5, <1>7 DEF Evaluated, Quiet
  <2> QED
    BY <2>1, <1>7, <1>8, QuietStays
<1>11. Observed(far, near).d = e2 /\ Observed(far, near).t = Kept(far, near)
  BY DEF Observed
<1> HIDE DEF e2
<1>12. \/ Kept(far, near) = Heard(far).t /\ Judged(far, near).t = "none"
       \/ Kept(far, near) = Judged(far, near).t /\ Heard(far).t = "none"
  BY <1>10 DEF Kept
<1>13. Seen(voice, e2, Kept(far, near))
  <2>1. det.st = "Blocked" => d1.st = "Idle"
    BY <1>2, <1>4, UnblockFields DEF d0
  <2>2. det.st # "Blocked" =>
            d1.st = det.st /\ d1.speech = SpeechAfter(voice) /\ d1.age = Later(det.age, AgeCap)
    BY <1>2, <1>4, UnblockFields DEF d0, SpeechAfter
  <2>3. e2 \in DetectorState /\ Kept(far, near) \in Transition /\ e2.active = det.active
    BY <1>4, <1>5, <1>7, <1>9, <1>12 DEF Evaluated
  <2>4. e2.st = "Armed" => /\ e2.speech < Confirm
                           /\ \/ det.st # "Armed" /\ e2.speech = 0
                              \/ det.st = "Armed" /\ e2.speech = SpeechAfter(voice)
    BY <2>1, <2>2, <1>5, <1>7, <1>9, <1>12 DEF Evaluated, Quiet
  <2>5. Talking(e2) =>
            \/ Talking(det) /\ Kept(far, near) \in {"none", "WrapStarted"}
            \/ /\ det.st = "Armed" /\ SpeechAfter(voice) >= Confirm
               /\ Kept(far, near) = "CallStarted"
    BY <2>1, <2>2, <1>5, <1>7, <1>9, <1>12 DEF Evaluated, Talking
  <2>6. e2.st = "Wrap" => /\ ~det.active
                          /\ \/ e2.age = 0
                             \/ det.st = "Wrap" /\ e2.age = Later(det.age, AgeCap)
    BY <2>1, <2>2, <1>4, <1>5, <1>7, <1>9 DEF Evaluated
  <2>7. Kept(far, near) = "CallEnded" =>
            det.st = "Wrap" /\ ~det.active /\ Later(det.age, AgeCap) >= WrapTime
    BY <2>1, <2>2, <1>4, <1>5, <1>7, <1>9, <1>12 DEF Evaluated, DetectorState
  <2>8. Kept(far, near) \in {"Armed", "ArmDiscarded", "CallEnded"} => ~Talking(e2)
    BY <1>5, <1>7, <1>9, <1>12 DEF Evaluated, Talking
  <2> QED
    BY <2>3, <2>4, <2>5, <2>6, <2>7, <2>8 DEF Seen
<1> QED
  BY <1>1, <1>10, <1>11, <1>13 DEF voice

-----------------------------------------------------------------------------
(***************************************************************************)
(* What Remember keeps, and the detector's part of the invariant.          *)
(***************************************************************************)

LEMMA RememberKeeps ==
    ASSUME TypeOK, NEW voice \in BOOLEAN, NEW finished \in [Channels -> SUBSET Nat],
           Remember(voice, finished)
    PROVE  /\ heard' \in 0..Confirm
           /\ since' \in [Channels -> SUBSET Nat]
           /\ (Engaged(det') /\ (det'.st = "Armed" => det.st = "Armed"))
              => heard' = IF voice THEN Later(heard, Confirm) ELSE heard
<1>1. heard \in 0..Confirm /\ since \in [Channels -> SUBSET Nat] /\ Confirm \in Nat
  BY VadAssumption DEF TypeOK
<1>2. heard' \in 0..Confirm
  BY <1>1, LaterIn DEF Remember
<1>3. since' \in [Channels -> SUBSET Nat]
  BY <1>1 DEF Remember, None
<1> QED
  BY <1>2, <1>3 DEF Remember

LEMMA NoneType == None \in [Channels -> SUBSET Nat]
BY DEF None

\* A change of the detector without the passing of time that neither arms it nor leads
\* it into a call keeps the detector's part.
LEMMA StillKeeps ==
    ASSUME TypeOK, CaptureInv, det' \in DetectorState,
           det'.active = det.active, sup' = sup,
           NEW finished \in [Channels -> SUBSET Nat], Remember(FALSE, finished),
           \/ det'.st \in {"Idle", "Blocked"}
           \/ det'.st = det.st /\ det'.age = det.age /\ det'.speech = det.speech
    PROVE  /\ DetectorInv' /\ ConfirmedBySpeech'
           /\ Talking(det') => Talking(det)
           /\ heard' \in 0..Confirm /\ since' \in [Channels -> SUBSET Nat]
<1>1. /\ heard' \in 0..Confirm /\ since' \in [Channels -> SUBSET Nat]
      /\ (Engaged(det') /\ (det'.st = "Armed" => det.st = "Armed")) => heard' = heard
  BY RememberKeeps
<1>2. DetectorInv'
  BY <1>1 DEF CaptureInv, DetectorInv, Engaged
<1>3. ConfirmedBySpeech'
  BY <1>1 DEF CaptureInv, ConfirmedBySpeech, Engaged, Talking
<1> QED
  BY <1>1, <1>2, <1>3 DEF Talking

\* on_session_state keeps it too.
LEMMA SessionKeeps ==
    ASSUME TypeOK, CaptureInv, NEW active \in BOOLEAN, OnSessionState(active)
    PROVE  /\ det' \in DetectorState
           /\ sup' \in [active : BOOLEAN, off : 0..OffCap]
           /\ DetectorInv' /\ ConfirmedBySpeech'
           /\ Talking(det') => Talking(det)
           /\ heard' \in 0..Confirm /\ since' \in [Channels -> SUBSET Nat]
<1> USE VadAssumption, Caps
<1> DEFINE d1 == [det EXCEPT !.active = active, !.exhausted = @ /\ active]
<1>1. /\ d1 \in DetectorState /\ d1.st = det.st /\ d1.active = active
      /\ d1.age = det.age /\ d1.speech = det.speech
  BY DEF TypeOK, DetectorState
<1>2. det' = Evaluate(d1).d
  BY DEF OnSessionState, SessionState
<1> HIDE DEF d1
<1>3. Evaluated(d1, det', Evaluate(d1).t)
  BY <1>1, <1>2, EvaluateDoes
<1>4. /\ heard' \in 0..Confirm /\ since' \in [Channels -> SUBSET Nat]
      /\ (Engaged(det') /\ (det'.st = "Armed" => det.st = "Armed")) => heard' = heard
  BY RememberKeeps, NoneType DEF OnSessionState
<1>5. /\ sup' \in [active : BOOLEAN, off : 0..OffCap]
      /\ sup'.active = active
      /\ active = sup.active => sup' = sup
  BY DEF OnSessionState, TypeOK
<1>6. Talking(det') => Talking(det)
  BY <1>1, <1>3 DEF Evaluated, Talking, CaptureInv, DetectorInv, TypeOK, DetectorState
<1>7. det'.st = "Armed" => det'.speech < Confirm /\ heard' >= det'.speech
  BY <1>1, <1>3, <1>4 DEF Evaluated, Engaged, CaptureInv, DetectorInv
<1>8. det'.st = "Wrap" => ~det'.active /\ (sup'.off >= det'.age \/ sup'.off >= WrapTime)
  <2> SUFFICES ASSUME det'.st = "Wrap"
               PROVE  ~det'.active /\ (sup'.off >= det'.age \/ sup'.off >= WrapTime)
    OBVIOUS
  <2>1. ~active /\ det'.active = active
    BY <1>1, <1>3 DEF Evaluated
  <2>2. CASE det'.age = 0
    BY <2>1, <2>2, <1>5
  <2>3. CASE det.st = "Wrap" /\ det'.age = det.age
    <3>1. ~sup.active /\ (sup.off >= det.age \/ sup.off >= WrapTime)
      BY <2>3 DEF CaptureInv, DetectorInv
    <3>2. sup' = sup
      BY <2>1, <3>1, <1>5 DEF TypeOK
    <3> QED
      BY <2>1, <2>3, <3>1, <3>2
  <2> QED
    BY <2>2, <2>3, <1>1, <1>3 DEF Evaluated
<1>9. ConfirmedBySpeech'
  BY <1>4, <1>6 DEF CaptureInv, ConfirmedBySpeech, Engaged, Talking
<1>10. DetectorInv'
  BY <1>1, <1>3, <1>5, <1>7, <1>8 DEF Evaluated, DetectorInv
<1> QED
  BY <1>3, <1>4, <1>5, <1>6, <1>9, <1>10 DEF Evaluated

\* A step of the pipeline: time passes, and the detector is fed.
LEMMA SteppingKeeps ==
    ASSUME TypeOK, CaptureInv, NEW far \in BOOLEAN, NEW near \in BOOLEAN,
           NEW R \in SUBSET Channels, NEW ts, Stepping(R, Observed(far, near), ts),
           Finished(R) \in [Channels -> SUBSET Nat]
    PROVE  /\ det' \in DetectorState
           /\ sup' \in [active : BOOLEAN, off : 0..OffCap]
           /\ DetectorInv' /\ ConfirmedBySpeech'
           /\ Talking(det') => \/ Talking(det) /\ Observed(far, near).t \in {"none", "WrapStarted"}
                               \/ Observed(far, near).t = "CallStarted"
           /\ Observed(far, near).t = "CallEnded" => ~sup.active /\ sup'.off >= WrapTime
           /\ heard' \in 0..Confirm /\ since' \in [Channels -> SUBSET Nat]
<1> USE VadAssumption, Caps
<1> DEFINE voice == Observed(far, near).voice
           t == Observed(far, near).t
<1>1. Seen(voice, det', t) /\ voice \in BOOLEAN
  BY StepSees DEF Stepping
<1>2. Remember(voice, Finished(R)) /\ sup' = [sup EXCEPT !.off = OffNow]
  BY DEF Stepping
<1> HIDE DEF voice, t
<1>3. /\ heard' \in 0..Confirm /\ since' \in [Channels -> SUBSET Nat]
      /\ (Engaged(det') /\ (det'.st = "Armed" => det.st = "Armed"))
         => heard' = IF voice THEN Later(heard, Confirm) ELSE heard
  BY <1>1, <1>2, RememberKeeps
<1>4. /\ sup' \in [active : BOOLEAN, off : 0..OffCap]
      /\ sup'.active = sup.active /\ sup'.off = OffNow
      /\ ~sup.active => OffNow = Later(sup.off, OffCap)
  <2>1. sup.off \in 0..OffCap /\ sup \in [active : BOOLEAN, off : 0..OffCap]
    BY DEF TypeOK
  <2>2. OffNow \in 0..OffCap
    BY <2>1, LaterIn DEF OffNow
  <2> QED
    BY <1>2, <2>1, <2>2 DEF OffNow
<1>5. det.speech \in 0..Confirm /\ det.age \in 0..AgeCap /\ sup.off \in 0..OffCap
      /\ heard \in 0..Confirm
  BY DEF TypeOK, DetectorState
<1>6. det'.st = "Armed" => det'.speech < Confirm /\ heard' >= det'.speech
  <2>1. CASE det.st = "Armed"
    <3>1. heard >= det.speech
      BY <2>1 DEF CaptureInv, DetectorInv
    <3> QED
      BY <2>1, <3>1, <1>1, <1>3, <1>5 DEF Seen, SpeechAfter, Later, Engaged
  <2>2. CASE det.st # "Armed"
    BY <2>2, <1>1, <1>3 DEF Seen
  <2> QED
    BY <2>1, <2>2
<1>7. ConfirmedBySpeech'
  <2>1. CASE Talking(det)
    BY <2>1, <1>3, <1>5 DEF CaptureInv, ConfirmedBySpeech, Talking, Engaged, Later
  <2>2. CASE ~Talking(det) /\ Talking(det')
    <3>1. heard >= det.speech /\ SpeechAfter(voice) >= Confirm
      BY <2>2, <1>1 DEF Seen, CaptureInv, DetectorInv
    <3> QED
      BY <2>2, <3>1, <1>3, <1>5 DEF ConfirmedBySpeech, SpeechAfter, Talking, Engaged, Later
  <2> QED
    BY <2>1, <2>2 DEF ConfirmedBySpeech
<1>8. det'.st = "Wrap" => ~det'.active /\ (sup'.off >= det'.age \/ sup'.off >= WrapTime)
  <2> SUFFICES ASSUME det'.st = "Wrap" PROVE sup'.off >= det'.age \/ sup'.off >= WrapTime
    BY <1>1 DEF Seen
  <2>1. CASE det'.age = 0
    BY <2>1, <1>4
  <2>2. CASE det.st = "Wrap" /\ det'.age = Later(det.age, AgeCap)
    BY <2>2, <1>4, <1>5 DEF CaptureInv, DetectorInv, Later
  <2> QED
    BY <2>1, <2>2, <1>1 DEF Seen
<1>9. DetectorInv'
  BY <1>1, <1>4, <1>6, <1>8 DEF Seen, CaptureInv, DetectorInv
<1>10. t = "CallEnded" => ~sup.active /\ sup'.off >= WrapTime
  BY <1>1, <1>4, <1>5 DEF Seen, CaptureInv, DetectorInv, Later
<1> QED
  BY <1>1, <1>3, <1>4, <1>7, <1>9, <1>10 DEF Seen, t

-----------------------------------------------------------------------------
(***************************************************************************)
(* The batches of segments a step handles.                                 *)
(***************************************************************************)

\* A non-empty bounded set of sequence numbers has a highest one.
LEMMA HighestIn ==
    ASSUME NEW S \in SUBSET Nat, S # {}, NEW top \in Nat, \A n \in S : n <= top
    PROVE  Highest(S) \in S /\ \A m \in S : m <= Highest(S)
<1> DEFINE T == {top - n : n \in S}
           less == {ss \in Nat \X Nat : ss[1] < ss[2]}
<1>1. T \subseteq Nat /\ T # {}
  <2>1. \A n \in S : top - n \in Nat
    OBVIOUS
  <2> QED
    BY <2>1
<1>2. PICK x \in T : \A y \in T : ~(<<y, x>> \in less)
  <2>1. IsWellFoundedOn(less, Nat)
    BY NatLessThanWellFounded, Zenon DEF OpToRel
  <2> QED
    BY <1>1, <2>1, WFMin
<1>3. \A y \in T : x <= y
  <2> SUFFICES ASSUME NEW y \in T PROVE x <= y
    OBVIOUS
  <2>1. x \in Nat /\ y \in Nat
    BY <1>1, <1>2
  <2>2. ~(y < x)
    <3> SUFFICES ASSUME y < x PROVE <<y, x>> \in less
      BY <1>2
    <3> HIDE DEF T
    <3> QED
      BY <2>1
  <2> HIDE DEF T, less
  <2> QED
    BY <2>1, <2>2
<1>4. PICK n \in S : x = top - n
  BY <1>2
<1>5. \A m \in S : m <= n
  <2> SUFFICES ASSUME NEW m \in S PROVE m <= n
    OBVIOUS
  <2>1. top - m \in T
    OBVIOUS
  <2>2. top - n <= top - m
    BY <2>1, <1>3, <1>4
  <2>3. m \in Nat /\ n \in Nat /\ top \in Nat
    BY <1>4
  <2> HIDE DEF T, less
  <2> QED
    BY <2>2, <2>3
<1> QED
  BY <1>5 DEF Highest

\* What read_channel leaves: every segment it finished carries a number below the next.
LEMMA ReadTypes ==
    ASSUME TypeOK, NumbersUsed, NEW R \in SUBSET Channels
    PROVE  /\ Finished(R) \in [Channels -> SUBSET Nat]
           /\ Held(R) \in [Channels -> SUBSET Nat]
           /\ Encoded(R) \in [Channels -> Encoder]
           /\ \A ch \in Channels : \A n \in Held(R)[ch] : n < Encoded(R)[ch].next
<1>1. \A ch \in Channels : enc[ch] \in Encoder /\ ready[ch] \in SUBSET Nat
  BY DEF TypeOK
<1>2. Finished(R) \in [Channels -> SUBSET Nat]
  BY <1>1 DEF Finished, Encoder
<1>3. Held(R) \in [Channels -> SUBSET Nat]
  BY <1>1, <1>2 DEF Held
<1>4. \A ch \in Channels : Encoded(R)[ch] \in Encoder /\ Encoded(R)[ch].next >= enc[ch].next
                           /\ (Finishes(ch, R) => Encoded(R)[ch].next = enc[ch].next + 1)
  BY <1>1 DEF Encoded, Encoder
<1>5. Encoded(R) \in [Channels -> Encoder]
  BY <1>4 DEF Encoded
<1>6. ASSUME NEW ch \in Channels, NEW n \in Held(R)[ch]
      PROVE  n < Encoded(R)[ch].next
  <2>1. CASE n \in ready[ch]
    BY <2>1, <1>1, <1>4 DEF NumbersUsed, Encoder
  <2>2. CASE n \in Finished(R)[ch]
    BY <2>2, <1>1, <1>4 DEF Finished, Encoder
  <2> QED
    BY <2>1, <2>2, <1>6 DEF Held
<1> QED
  BY <1>2, <1>3, <1>5, <1>6

\* What flush adds.
LEMMA FlushTypes ==
    ASSUME TypeOK, NumbersUsed, NEW R \in SUBSET Channels, NEW chs
    PROVE  /\ LastBatch(R) \in [Channels -> SUBSET Nat]
           /\ \A ch \in Channels : \A n \in LastBatch(R)[ch] : n <= Encoded(R)[ch].next
           /\ Flushed(R, chs) \in [Channels -> Encoder]
           /\ \A ch \in Channels : Flushed(R, chs)[ch].next >= Encoded(R)[ch].next
<1>1. /\ Held(R) \in [Channels -> SUBSET Nat]
      /\ Encoded(R) \in [Channels -> Encoder]
      /\ \A ch \in Channels : \A n \in Held(R)[ch] : n < Encoded(R)[ch].next
  BY ReadTypes
<1>2. \A ch \in Channels : Encoded(R)[ch].next \in Nat /\ Encoded(R)[ch] \in Encoder
  BY <1>1 DEF Encoder
<1>3. LastBatch(R) \in [Channels -> SUBSET Nat]
  BY <1>1, <1>2 DEF LastBatch
<1>4. ASSUME NEW ch \in Channels, NEW n \in LastBatch(R)[ch]
      PROVE  n <= Encoded(R)[ch].next
  BY <1>1, <1>2, <1>4 DEF LastBatch
<1>5. \A ch \in Channels : Flushed(R, chs)[ch] \in Encoder
                           /\ Flushed(R, chs)[ch].next >= Encoded(R)[ch].next
  BY <1>2 DEF Flushed, Encoder
<1>6. Flushed(R, chs) \in [Channels -> Encoder]
  BY <1>5 DEF Flushed
<1> QED
  BY <1>3, <1>4, <1>5, <1>6

\* last_seq stays a number when a batch is below a bound.
LEMMA LastAfterType ==
    ASSUME NEW last \in [Channels -> Int], NEW batch \in [Channels -> SUBSET Nat],
           NEW e \in [Channels -> Encoder],
           \A ch \in Channels : \A n \in batch[ch] : n <= e[ch].next
    PROVE  LastAfter(last, batch) \in [Channels -> Int]
<1>1. ASSUME NEW ch \in Channels, batch[ch] # {} PROVE Highest(batch[ch]) \in Int
  <2>1. batch[ch] \in SUBSET Nat /\ e[ch].next \in Nat
    BY DEF Encoder
  <2>2. Highest(batch[ch]) \in batch[ch]
    BY <1>1, <2>1, HighestIn
  <2> QED
    BY <2>1, <2>2
<1> QED
  BY <1>1 DEF LastAfter

LEMMA PushType ==
    ASSUME TypeOK, NEW c, NEW batch \in [Channels -> SUBSET Nat], Push(c, batch)
    PROVE  spooled' \in [Streams -> SUBSET Nat]
BY DEF TypeOK, Push, Streams

\* A write that fails leaves part of the batch behind.
LEMMA BeforeTypes ==
    ASSUME NEW batch \in [Channels -> SUBSET Nat], NEW ch \in Channels, NEW n
    PROVE  /\ Before(batch, ch, n) \in [Channels -> SUBSET Nat]
           /\ \A x \in Channels : Before(batch, ch, n)[x] \subseteq batch[x]
BY DEF Before

LEMMA NotReachedTypes ==
    ASSUME NEW R, NEW ch, Held(R) \in [Channels -> SUBSET Nat]
    PROVE  /\ NotReached(R, ch) \in [Channels -> SUBSET Nat]
           /\ \A x \in Channels : NotReached(R, ch)[x] \subseteq Held(R)[x]
BY DEF NotReached

-----------------------------------------------------------------------------
(***************************************************************************)
(* The inductive invariant: type correctness and CaptureInv.               *)
(***************************************************************************)
IInv == TypeOK /\ CaptureInv

LEMMA InitIInv == Init => IInv
<1> SUFFICES ASSUME Init PROVE IInv
  OBVIOUS
<1> USE VadAssumption, CaptureAssumption, Caps
<1>1. det \in DetectorState /\ det.st = "Idle" /\ det.active = FALSE
  <2>1. 0 \in 0..AgeCap /\ 0 \in 0..Confirm /\ 0 \in 0..Hangup
    OBVIOUS
  <2> QED
    BY <2>1 DEF Init, DetectorState, CallState
<1>2. sup \in [active : BOOLEAN, off : 0..OffCap] /\ sup.active = FALSE
  BY DEF Init
<1>3. enc \in [Channels -> Encoder] /\ ready \in [Channels -> SUBSET Nat]
  BY DEF Init, Fresh, None, Encoder
<1>4. TypeOK
  <2>1. lastSeq \in [Channels -> Int] /\ since \in [Channels -> SUBSET Nat]
    BY DEF Init, NoLast, None
  <2>2. /\ owner \in [Calls -> Users \cup {NoUser}] /\ spooled \in [Streams -> SUBSET Nat]
        /\ endSeq \in [Streams -> Int]
    BY DEF Init
  <2>3. heard \in 0..Confirm
    BY DEF Init
  <2> QED
    BY <1>1, <1>2, <1>3, <2>1, <2>2, <2>3 DEF Init, TypeOK
<1>5. CaptureInv
  BY <1>1, <1>2 DEF Init, CaptureInv, DetectorInv, NumbersUsed, ConfirmedBySpeech,
                    InCallIsRecorded, Talking, None
<1> QED
  BY <1>4, <1>5 DEF IInv

\* The steps between ticks, and the ticks that read nothing.
LEMMA BetweenSteps ==
    ASSUME IInv,
           \/ \E active \in BOOLEAN : OnSessionState(active)
           \/ \E u \in Users : OnSignedIn(u)
           \/ SignOut \/ StandingLost \/ TickBlocked \/ TickNothingRead
           \/ UNCHANGED vars
    PROVE  IInv'
<1> USE DEF IInv
<1>1. ASSUME NEW active \in BOOLEAN, OnSessionState(active) PROVE IInv'
  <2>1. /\ det' \in DetectorState
        /\ sup' \in [active : BOOLEAN, off : 0..OffCap]
        /\ DetectorInv' /\ ConfirmedBySpeech'
        /\ Talking(det') => Talking(det)
        /\ heard' \in 0..Confirm /\ since' \in [Channels -> SUBSET Nat]
    BY <1>1, SessionKeeps
  <2>2. UNCHANGED <<enc, ready, cur, lastSeq, gateVars, bookVars, failed>>
    BY <1>1 DEF OnSessionState
  <2>3. TypeOK'
    BY <2>1, <2>2 DEF TypeOK, gateVars, bookVars
  <2> QED
    BY <2>1, <2>2, <2>3 DEF CaptureInv, NumbersUsed, InCallIsRecorded
<1>2. ASSUME /\ det' \in DetectorState /\ det'.active = det.active
             /\ \/ det'.st \in {"Idle", "Blocked"}
                \/ det'.st = det.st /\ det'.age = det.age /\ det'.speech = det.speech,
             Remember(FALSE, None),
             signedIn' \in BOOLEAN, standing' \in BOOLEAN,
             UNCHANGED <<sup, enc, ready, cur, lastSeq, bookVars, failed>>
      PROVE  IInv'
  <2>1. /\ DetectorInv' /\ ConfirmedBySpeech'
        /\ Talking(det') => Talking(det)
        /\ heard' \in 0..Confirm /\ since' \in [Channels -> SUBSET Nat]
    BY <1>2, NoneType, StillKeeps
  <2>2. TypeOK'
    BY <1>2, <2>1 DEF TypeOK, bookVars
  <2> QED
    BY <1>2, <2>1, <2>2 DEF CaptureInv, NumbersUsed, InCallIsRecorded
<1>3. det \in DetectorState /\ signedIn \in BOOLEAN /\ standing \in BOOLEAN
  BY DEF TypeOK
<1>4. ASSUME NEW u \in Users, OnSignedIn(u) PROVE IInv'
  BY <1>2, <1>3, <1>4, UserChangedFields DEF OnSignedIn
<1>5. CASE SignOut
  BY <1>2, <1>3, <1>5, BlockFields DEF SignOut
<1>6. CASE StandingLost
  <2>1. TypeOK'
    BY <1>6 DEF StandingLost, TypeOK, pipeVars, bookVars, histVars
  <2> QED
    BY <1>6, <2>1 DEF StandingLost, pipeVars, histVars, CaptureInv, DetectorInv, NumbersUsed,
                      ConfirmedBySpeech, InCallIsRecorded
<1>7. CASE TickBlocked
  BY <1>2, <1>3, <1>7, BlockFields DEF TickBlocked, Report
<1>8. CASE TickNothingRead
  BY <1>2, <1>3, <1>8, UnblockFields DEF TickNothingRead, Report
<1>9. CASE UNCHANGED vars
  <2>1. TypeOK'
    BY <1>9 DEF vars, TypeOK, pipeVars, gateVars, bookVars, histVars
  <2> QED
    BY <1>9, <2>1 DEF vars, pipeVars, histVars, CaptureInv, DetectorInv, NumbersUsed,
                      ConfirmedBySpeech, InCallIsRecorded
<1> QED
  BY <1>1, <1>4, <1>5, <1>6, <1>7, <1>8, <1>9

\* A failing read: the far channel may have been read before.
LEMMA ReadFailsKeeps ==
    ASSUME IInv, NEW R \in SUBSET Channels, TickReadFails(R)
    PROVE  IInv'
<1> USE DEF IInv
<1>1. /\ Finished(R) \in [Channels -> SUBSET Nat]
      /\ Held(R) \in [Channels -> SUBSET Nat]
      /\ Encoded(R) \in [Channels -> Encoder]
      /\ \A ch \in Channels : \A n \in Held(R)[ch] : n < Encoded(R)[ch].next
  BY ReadTypes DEF CaptureInv
<1>2. /\ det' \in DetectorState /\ det'.active = det.active
      /\ \/ det'.st \in {"Idle", "Blocked"}
         \/ det'.st = det.st /\ det'.age = det.age /\ det'.speech = det.speech
  BY UnblockFields DEF TypeOK, TickReadFails
<1>3. /\ DetectorInv' /\ ConfirmedBySpeech'
      /\ Talking(det') => Talking(det)
      /\ heard' \in 0..Confirm /\ since' \in [Channels -> SUBSET Nat]
  BY <1>1, <1>2, StillKeeps DEF TickReadFails
<1>4. TypeOK'
  BY <1>1, <1>2, <1>3 DEF TypeOK, TickReadFails, Fail, gateVars, bookVars
<1>5. NumbersUsed'
  BY <1>1 DEF NumbersUsed, TickReadFails
<1>6. InCallIsRecorded'
  BY <1>3 DEF CaptureInv, InCallIsRecorded, TickReadFails, Fail
<1> QED
  BY <1>3, <1>4, <1>5, <1>6 DEF CaptureInv

\* The steps of the pipeline.
LEMMA StepKeeps ==
    ASSUME IInv, Step
    PROVE  IInv'
<1> USE DEF IInv
<1>1. PICK R \in SUBSET Channels, far \in BOOLEAN, near \in BOOLEAN :
             StepWith(R, Observed(far, near))
  BY DEF Step
<1> DEFINE o == Observed(far, near)
           t == o.t
<1>2. /\ Finished(R) \in [Channels -> SUBSET Nat]
      /\ Held(R) \in [Channels -> SUBSET Nat]
      /\ Encoded(R) \in [Channels -> Encoder]
      /\ \A ch \in Channels : \A n \in Held(R)[ch] : n < Encoded(R)[ch].next
  BY ReadTypes DEF CaptureInv
<1>3. /\ LastBatch(R) \in [Channels -> SUBSET Nat]
      /\ \A ch \in Channels : \A n \in LastBatch(R)[ch] : n <= Encoded(R)[ch].next
      /\ \A chs : /\ Flushed(R, chs) \in [Channels -> Encoder]
                  /\ \A ch \in Channels : Flushed(R, chs)[ch].next >= Encoded(R)[ch].next
  BY FlushTypes DEF CaptureInv
<1>4. \A ch \in Channels : \A n \in Held(R)[ch] : n <= Encoded(R)[ch].next
  BY <1>2 DEF Encoder
<1>5. det.user \in Users /\ owner \in [Calls -> Users \cup {NoUser}]
  BY DEF TypeOK, DetectorState
<1>6. lastSeq \in [Channels -> Int] /\ NoLast \in [Channels -> Int]
  BY DEF TypeOK, NoLast
<1>7. ASSUME NEW ts, Stepping(R, o, ts)
      PROVE  /\ det' \in DetectorState
             /\ sup' \in [active : BOOLEAN, off : 0..OffCap]
             /\ DetectorInv' /\ ConfirmedBySpeech'
             /\ Talking(det') => \/ Talking(det) /\ t \in {"none", "WrapStarted"}
                                 \/ t = "CallStarted"
             /\ heard' \in 0..Confirm /\ since' \in [Channels -> SUBSET Nat]
             /\ t \in ts
  <2>1. t \in ts
    BY <1>7 DEF Stepping
  <2> QED
    BY <1>2, <1>7, <2>1, SteppingKeeps
<1> HIDE DEF o, t
<1>8. CASE StepOn(R, o)
  <2>1. Stepping(R, o, {"none", "WrapStarted"})
    BY <1>8 DEF StepOn
  <2>2. CASE cur # NoCall
    <3>1. spooled' \in [Streams -> SUBSET Nat]
      BY <1>2, <1>8, <2>2, PushType DEF StepOn
    <3>2. lastSeq' \in [Channels -> Int]
      BY <1>2, <1>4, <1>6, <1>8, <2>2, LastAfterType DEF StepOn
    <3>3. TypeOK'
      BY <1>2, <1>7, <1>8, <2>1, <2>2, <3>1, <3>2, NoneType DEF StepOn, TypeOK, Report
    <3>4. NumbersUsed'
      BY <1>8, <2>2 DEF StepOn, NumbersUsed, None
    <3>5. InCallIsRecorded'
      BY <1>8, <2>2 DEF StepOn, InCallIsRecorded
    <3> QED
      BY <1>7, <2>1, <3>3, <3>4, <3>5 DEF CaptureInv
  <2>3. CASE cur = NoCall
    <3>1. /\ ready' \in [Channels -> SUBSET Nat]
          /\ \A ch \in Channels : ready'[ch] \subseteq Held(R)[ch]
      BY <1>2, <1>8, <2>3 DEF StepOn, Bounded
    <3>2. TypeOK'
      BY <1>2, <1>7, <1>8, <2>1, <2>3, <3>1 DEF StepOn, TypeOK, Report
    <3>3. NumbersUsed'
      BY <1>2, <1>8, <3>1 DEF StepOn, NumbersUsed
    <3>4. InCallIsRecorded'
      BY <1>7, <1>8, <2>1 DEF StepOn, InCallIsRecorded, CaptureInv
    <3> QED
      BY <1>7, <2>1, <3>2, <3>3, <3>4 DEF CaptureInv
  <2> QED
    BY <2>2, <2>3
<1>9. CASE StepRestart(R, o)
  <2>1. Stepping(R, o, {"Armed", "ArmDiscarded"})
    BY <1>9 DEF StepRestart
  <2>2. Fresh \in [Channels -> Encoder]
    BY DEF Fresh, Encoder
  <2>3. TypeOK'
    BY <1>7, <1>9, <2>1, <2>2, NoneType DEF StepRestart, TypeOK, Report, bookVars
  <2>4. NumbersUsed'
    BY <1>9 DEF StepRestart, NumbersUsed, None
  <2>5. InCallIsRecorded'
    BY <1>7, <2>1 DEF InCallIsRecorded
  <2> QED
    BY <1>7, <2>1, <2>3, <2>4, <2>5 DEF CaptureInv
<1>10. ASSUME NEW c \in Calls, StepStart(R, o, c) PROVE IInv'
  <2>1. Stepping(R, o, {"CallStarted"})
    BY <1>10 DEF StepStart
  <2>2. spooled' \in [Streams -> SUBSET Nat]
    BY <1>2, <1>10, PushType DEF StepStart
  <2>3. lastSeq' \in [Channels -> Int]
    BY <1>2, <1>4, <1>6, <1>10, LastAfterType DEF StepStart
  <2>4. owner' \in [Calls -> Users \cup {NoUser}] /\ cur' = c /\ cur' # NoCall
    BY <1>5, <1>10, CaptureAssumption DEF StepStart
  <2>5. TypeOK'
    BY <1>2, <1>7, <1>10, <2>1, <2>2, <2>3, <2>4, NoneType DEF StepStart, TypeOK, Report
  <2>6. NumbersUsed'
    BY <1>10 DEF StepStart, NumbersUsed, None
  <2> QED
    BY <1>7, <2>1, <2>4, <2>5, <2>6 DEF CaptureInv, InCallIsRecorded
<1>11. CASE StepEnd(R, o)
  <2>1. Stepping(R, o, {"CallEnded"})
    BY <1>11 DEF StepEnd
  <2>2. /\ spooled' \in [Streams -> SUBSET Nat]
        /\ lastSeq' \in [Channels -> Int]
        /\ endSeq' \in [Streams -> Int]
        /\ ended' \subseteq Calls
        /\ enc' \in [Channels -> Encoder]
    <3>1. CASE cur # NoCall
      <4>1. spooled' \in [Streams -> SUBSET Nat]
        BY <1>3, <1>11, <3>1, PushType DEF StepEnd
      <4>2. lastSeq' \in [Channels -> Int]
        BY <1>2, <1>3, <1>6, <1>11, <3>1, LastAfterType DEF StepEnd
      <4>3. endSeq' \in [Streams -> Int]
        BY <1>11, <3>1, <4>2 DEF StepEnd, TypeOK, Streams
      <4>4. ended' \subseteq Calls /\ enc' \in [Channels -> Encoder]
        BY <1>3, <1>11, <3>1 DEF StepEnd, TypeOK
      <4> QED
        BY <4>1, <4>2, <4>3, <4>4
    <3>2. CASE cur = NoCall
      BY <1>2, <1>11, <3>2 DEF StepEnd, TypeOK
    <3> QED
      BY <3>1, <3>2
  <2>3. TypeOK'
    BY <1>7, <1>11, <2>1, <2>2, NoneType DEF StepEnd, TypeOK, Report
  <2>4. NumbersUsed'
    BY <1>11 DEF StepEnd, NumbersUsed, None
  <2>5. InCallIsRecorded'
    BY <1>7, <2>1 DEF InCallIsRecorded
  <2> QED
    BY <1>7, <2>1, <2>3, <2>4, <2>5 DEF CaptureInv
<1>12. CASE StepStartFails(R, o)
  <2>1. Stepping(R, o, {"CallStarted"})
    BY <1>12 DEF StepStartFails
  <2>2. TypeOK'
    BY <1>2, <1>7, <1>12, <2>1 DEF StepStartFails, TypeOK, Fail, bookVars, gateVars
  <2>3. NumbersUsed'
    BY <1>2, <1>12 DEF StepStartFails, NumbersUsed
  <2>4. InCallIsRecorded'
    BY <1>12 DEF StepStartFails, Fail, InCallIsRecorded
  <2> QED
    BY <1>7, <2>1, <2>2, <2>3, <2>4 DEF CaptureInv
<1>13. ASSUME NEW ch \in Channels, NEW n \in 0..MaxSeq, DrainFails(R, o, ch, n) PROVE IInv'
  <2>1. Stepping(R, o, {"none", "WrapStarted"})
    BY <1>13 DEF DrainFails
  <2>2. /\ Before(Held(R), ch, n) \in [Channels -> SUBSET Nat]
        /\ \A x \in Channels : Before(Held(R), ch, n)[x] \subseteq Held(R)[x]
        /\ NotReached(R, ch) \in [Channels -> SUBSET Nat]
        /\ \A x \in Channels : NotReached(R, ch)[x] \subseteq Held(R)[x]
    BY <1>2, BeforeTypes, NotReachedTypes
  <2>3. spooled' \in [Streams -> SUBSET Nat]
    BY <1>13, <2>2, PushType DEF DrainFails
  <2>4. lastSeq' \in [Channels -> Int]
    BY <1>2, <1>4, <1>6, <1>13, <2>2, LastAfterType DEF DrainFails
  <2>5. TypeOK'
    BY <1>2, <1>7, <1>13, <2>1, <2>2, <2>3, <2>4 DEF DrainFails, TypeOK, Fail, gateVars
  <2>6. NumbersUsed'
    BY <1>2, <1>13, <2>2 DEF DrainFails, NumbersUsed
  <2>7. InCallIsRecorded'
    BY <1>13 DEF DrainFails, InCallIsRecorded
  <2> QED
    BY <1>7, <2>1, <2>5, <2>6, <2>7 DEF CaptureInv
<1>14. ASSUME NEW c \in Calls, NEW ch \in Channels, NEW n \in 0..MaxSeq,
              PrerollFails(R, o, c, ch, n)
       PROVE  IInv'
  <2>1. Stepping(R, o, {"CallStarted"})
    BY <1>14 DEF PrerollFails
  <2>2. /\ Before(Held(R), ch, n) \in [Channels -> SUBSET Nat]
        /\ \A x \in Channels : Before(Held(R), ch, n)[x] \subseteq Held(R)[x]
        /\ NotReached(R, ch) \in [Channels -> SUBSET Nat]
        /\ \A x \in Channels : NotReached(R, ch)[x] \subseteq Held(R)[x]
    BY <1>2, BeforeTypes, NotReachedTypes
  <2>3. spooled' \in [Streams -> SUBSET Nat]
    BY <1>14, <2>2, PushType DEF PrerollFails
  <2>4. lastSeq' \in [Channels -> Int]
    BY <1>2, <1>4, <1>6, <1>14, <2>2, LastAfterType DEF PrerollFails
  <2>5. owner' \in [Calls -> Users \cup {NoUser}] /\ cur' = c /\ cur' # NoCall
    BY <1>5, <1>14, CaptureAssumption DEF PrerollFails
  <2>6. TypeOK'
    BY <1>2, <1>7, <1>14, <2>1, <2>2, <2>3, <2>4, <2>5 DEF PrerollFails, TypeOK, Fail, gateVars
  <2>7. NumbersUsed'
    BY <1>2, <1>14, <2>2 DEF PrerollFails, NumbersUsed
  <2> QED
    BY <1>7, <2>1, <2>5, <2>6, <2>7 DEF CaptureInv, InCallIsRecorded
<1>15. ASSUME NEW ch \in Channels, NEW n \in 0..MaxSeq, FinishFails(R, o, ch, n) PROVE IInv'
  <2>1. Stepping(R, o, {"CallEnded"})
    BY <1>15 DEF FinishFails
  <2>2. /\ Before(LastBatch(R), ch, n) \in [Channels -> SUBSET Nat]
        /\ \A x \in Channels : Before(LastBatch(R), ch, n)[x] \subseteq LastBatch(R)[x]
        /\ NotReached(R, ch) \in [Channels -> SUBSET Nat]
        /\ \A x \in Channels : NotReached(R, ch)[x] \subseteq Held(R)[x]
    BY <1>2, <1>3, BeforeTypes, NotReachedTypes
  <2>3. spooled' \in [Streams -> SUBSET Nat]
    BY <1>15, <2>2, PushType DEF FinishFails
  <2>4. lastSeq' \in [Channels -> Int]
    BY <1>2, <1>3, <1>6, <1>15, <2>2, LastAfterType DEF FinishFails
  <2>5. TypeOK'
    BY <1>3, <1>7, <1>15, <2>1, <2>2, <2>3, <2>4 DEF FinishFails, TypeOK, Fail, gateVars
  <2>6. NumbersUsed'
    BY <1>2, <1>3, <1>15, <2>2 DEF FinishFails, NumbersUsed, Encoder
  <2>7. InCallIsRecorded'
    BY <1>7, <2>1 DEF InCallIsRecorded
  <2> QED
    BY <1>7, <2>1, <2>5, <2>6, <2>7 DEF CaptureInv
<1>16. CASE EndFails(R, o)
  <2>1. Stepping(R, o, {"CallEnded"})
    BY <1>16 DEF EndFails
  <2>2. spooled' \in [Streams -> SUBSET Nat]
    BY <1>3, <1>16, PushType DEF EndFails
  <2>3. lastSeq' \in [Channels -> Int]
    BY <1>2, <1>3, <1>6, <1>16, LastAfterType DEF EndFails
  <2>4. TypeOK'
    BY <1>3, <1>7, <1>16, <2>1, <2>2, <2>3, NoneType DEF EndFails, TypeOK, Fail, gateVars
  <2>5. NumbersUsed'
    BY <1>16 DEF EndFails, NumbersUsed, None
  <2>6. InCallIsRecorded'
    BY <1>7, <2>1 DEF InCallIsRecorded
  <2> QED
    BY <1>7, <2>1, <2>4, <2>5, <2>6 DEF CaptureInv
<1>17. StepWith(R, o)
  BY <1>1 DEF o
<1> QED
  BY <1>8, <1>9, <1>10, <1>11, <1>12, <1>13, <1>14, <1>15, <1>16, <1>17 DEF StepWith

LEMMA NextIInv == IInv /\ [Next]_vars => IInv'
BY BetweenSteps, ReadFailsKeeps, StepKeeps DEF Next

-----------------------------------------------------------------------------
\* The capture side keeps its types: a detector counter never passes its threshold, a
\* call belongs to a user, and last_seq is a number, not the maximum of nothing.
THEOREM CaptureTypeCorrect == Spec => []TypeOK
<1>1. IInv => TypeOK
  BY DEF IInv
<1> QED
  BY InitIInv, NextIInv, <1>1, PTL DEF Spec

\* No observation makes the detector take two transitions, so the one step keeps is the
\* only one (pipeline.rs step), for every policy whose durations are at least one step.
THEOREM NoTransitionLost == Spec => []OneTransitionPerStep
<1>1. TypeOK => OneTransitionPerStep
  BY StepSees DEF OneTransitionPerStep
<1> QED
  BY CaptureTypeCorrect, <1>1, PTL

\* A call is in progress only after enough call speech since the detector armed (state.rs
\* evaluate), through blocks, sign-ins, holds and dropped transitions.
THEOREM SpeechConfirms == Spec => []ConfirmedBySpeech
<1>1. IInv => ConfirmedBySpeech
  BY DEF IInv, CaptureInv
<1> QED
  BY InitIInv, NextIInv, <1>1, PTL DEF Spec

\* While the detector is in a call the pipeline has a record open for it, unless the
\* spool refused its call.start (pipeline.rs apply_transition).
THEOREM InProgressIsRecorded == Spec => []InCallIsRecorded
<1>1. IInv => InCallIsRecorded
  BY DEF IInv, CaptureInv
<1> QED
  BY InitIInv, NextIInv, <1>1, PTL DEF Spec

\* Only finish_call ends a call, and only in a step that found the hang-up.
LEMMA EndedByStepEnd ==
    ASSUME IInv, [Next]_vars, ended' # ended
    PROVE  \E R \in SUBSET Channels, far, near \in BOOLEAN : StepEnd(R, Observed(far, near))
<1>1. ~UNCHANGED bookVars
  BY DEF bookVars
<1>2. Step
  BY <1>1 DEF Next, OnSessionState, OnSignedIn, SignOut, StandingLost, TickBlocked,
              TickNothingRead, TickReadFails, vars
<1>3. PICK R \in SUBSET Channels, far \in BOOLEAN, near \in BOOLEAN :
             StepWith(R, Observed(far, near))
  BY <1>2 DEF Step
<1>4. StepEnd(R, Observed(far, near))
  BY <1>3, Zenon DEF StepWith, StepOn, StepRestart, StepStart, StepStartFails, DrainFails,
                     PrerollFails, FinishFails, EndFails, bookVars
<1> QED
  BY <1>4

\* A hold does not split a call, however often it is resumed: a call is hung up only after
\* the session has been inactive without a break for the whole wrap time (state.rs evaluate).
THEOREM HoldNeverSplits == Spec => HoldKeepsOneCall
<1>1. ASSUME IInv, [Next]_vars
      PROVE  [\A c \in ended' \ ended : ~sup.active /\ sup'.off >= WrapTime]_vars
  <2>1. CASE ended' = ended
    BY <2>1
  <2>2. CASE ended' # ended
    <3>1. PICK R \in SUBSET Channels, far \in BOOLEAN, near \in BOOLEAN :
             StepEnd(R, Observed(far, near))
      BY <1>1, <2>2, EndedByStepEnd
    <3>2. Stepping(R, Observed(far, near), {"CallEnded"})
      BY <3>1 DEF StepEnd
    <3>3. Observed(far, near).t = "CallEnded"
      BY <3>2 DEF Stepping
    <3>4. Finished(R) \in [Channels -> SUBSET Nat]
      BY <1>1, ReadTypes DEF IInv, CaptureInv
    <3>5. ~sup.active /\ sup'.off >= WrapTime
      BY <1>1, <3>2, <3>3, <3>4, SteppingKeeps DEF IInv
    <3> QED
      BY <3>5
  <2> QED
    BY <2>1, <2>2
<1> QED
  BY InitIInv, NextIInv, <1>1, PTL DEF Spec, HoldKeepsOneCall
====
