---- MODULE Detector ----
(***************************************************************************)
(* The call detector (client/sentinel-core/src/state.rs): a pure machine   *)
(* that is fed observations and answers each with one transition.  A       *)
(* detector is a record; feeding it gives a record with the detector       *)
(* after it and the transition the caller is told.  Time is counted in     *)
(* steps of the pipeline, the only thing that advances its clock; counters *)
(* stop at the threshold they are compared with.                           *)
(***************************************************************************)
EXTENDS Integers

CONSTANTS Users,
          Confirm,      \* speech_ms_to_confirm
          ArmedTimeout, \* armed_timeout_ms
          Hangup,       \* hangup_silence_ms
          WrapTime,     \* wrap_ms
          Debounce      \* debounce_ms

ASSUME VadAssumption ==
    /\ Confirm \in Nat \ {0} /\ ArmedTimeout \in Nat \ {0} /\ Hangup \in Nat \ {0}
    /\ WrapTime \in Nat \ {0} /\ Debounce \in Nat \ {0}

CallState == {"Idle", "Armed", "InCall", "Wrap", "Finalize", "Blocked"}
Transition == {"none", "Armed", "CallStarted", "WrapStarted", "CallEnded",
               "ArmDiscarded", "Blocked", "Unblocked"}

Larger(m, n) == IF m > n THEN m ELSE n
AgeCap == Larger(ArmedTimeout, Larger(WrapTime, Debounce))
Later(n, cap) == IF n < cap THEN n + 1 ELSE cap

\* age is the time since the last transition: entered_at_ms and last_transition_ms
\* are always set together.
DetectorState ==
    [st : CallState, age : 0..AgeCap, active : BOOLEAN, speech : 0..Confirm,
     silence : 0..Hangup, reopen : BOOLEAN, exhausted : BOOLEAN, user : Users]

Fed == [d : DetectorState, t : Transition]

\* goto.
Goto(d, s) == [d EXCEPT !.st = s, !.age = 0]
Taken(d, t) == [d |-> d, t |-> t]
Stay(d) == Taken(d, "none")

Debounced(d) == d.age >= Debounce
Talking(d) == d.st \in {"InCall", "Wrap"}

-----------------------------------------------------------------------------
\* Mutants of evaluate: speech heard before arming counts; a resumed hold is not noticed.
EvalIdleKeepsSpeech(d) ==
    IF d.active /\ ~d.exhausted /\ Debounced(d) THEN Taken(Goto(d, "Armed"), "Armed") ELSE Stay(d)
EvalWrapMissesResume(d) ==
    IF d.age >= WrapTime THEN Taken(Goto(d, "Finalize"), "CallEnded") ELSE Stay(d)

\* evaluate, one operator per state.
EvalIdle(d) ==
    IF d.active /\ ~d.exhausted /\ Debounced(d)
    THEN Taken([Goto(d, "Armed") EXCEPT !.speech = 0], "Armed")
    ELSE Stay(d)

EvalArmed(d) ==
    IF d.speech >= Confirm
    THEN Taken([Goto(d, "InCall") EXCEPT !.silence = 0], "CallStarted")
    ELSE IF ~d.active /\ Debounced(d)
    THEN Taken(Goto(d, "Idle"), "ArmDiscarded")
    ELSE IF d.age >= ArmedTimeout
    THEN Taken([Goto(d, "Idle") EXCEPT !.exhausted = TRUE], "ArmDiscarded")
    ELSE Stay(d)

EvalInCall(d) ==
    IF ~d.active /\ d.silence >= Hangup /\ Debounced(d)
    THEN Taken(Goto(d, "Wrap"), "WrapStarted")
    ELSE Stay(d)

EvalWrap(d) ==
    IF d.active
    THEN Stay([Goto(d, "InCall") EXCEPT !.silence = 0])
    ELSE IF d.age >= WrapTime
    THEN Taken(Goto(d, "Finalize"), "CallEnded")
    ELSE Stay(d)

EvalFinalize(d) ==
    IF d.reopen /\ d.active
    THEN Taken([Goto(d, "Armed") EXCEPT !.reopen = FALSE, !.exhausted = FALSE,
                                        !.speech = 0], "Armed")
    ELSE Stay(Goto(d, "Idle"))

Evaluate(d) ==
    CASE d.st = "Idle"     -> EvalIdle(d)
      [] d.st = "Armed"    -> EvalArmed(d)
      [] d.st = "InCall"   -> EvalInCall(d)
      [] d.st = "Wrap"     -> EvalWrap(d)
      [] d.st = "Finalize" -> EvalFinalize(d)
      [] d.st = "Blocked"  -> Stay(d)

-----------------------------------------------------------------------------
\* feed, one operator per input.  The clock has advanced by one step when far-channel
\* voice activity is fed, and not since for every other input.
FarVoice(d, voiced) ==
    Evaluate(IF voiced
             THEN [d EXCEPT !.age = Later(@, AgeCap), !.silence = 0,
                            !.speech = Later(@, Confirm)]
             ELSE [d EXCEPT !.age = Later(@, AgeCap), !.silence = Later(@, Hangup)])

NearVoice(d, voiced) == Evaluate(IF voiced THEN [d EXCEPT !.silence = 0] ELSE d)

SessionState(d, active) ==
    Evaluate([d EXCEPT !.active = active, !.exhausted = @ /\ active])

\* enter_blocked.
Block(d) == Taken(Goto(d, "Blocked"), IF Talking(d) THEN "CallEnded" ELSE "Blocked")

Unblock(d) ==
    IF d.st = "Blocked" THEN Taken(Goto(d, "Idle"), "Unblocked") ELSE Stay(d)

UserChanged(d, u) ==
    IF u # d.user /\ Talking(d)
    THEN Taken([Goto(d, "Idle") EXCEPT !.user = u, !.reopen = d.active,
                                       !.exhausted = FALSE], "CallEnded")
    ELSE Stay([d EXCEPT !.user = u])
====
