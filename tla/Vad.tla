--------------------------------- MODULE Vad ---------------------------------
(***************************************************************************)
(* The voice activity detector of one channel (sentinel-capture/src/vad.rs)*)
(* fed frame by frame: a noise floor that is the minimum over a window of  *)
(* levels, an onset and a hangover count.  A frame is its level in steps   *)
(* of decibels, with level 0 below the absolute floor, and whether its     *)
(* zero-crossing rate is that of voice; how the two are computed from the  *)
(* samples is left out.                                                    *)
(***************************************************************************)
EXTENDS Naturals, Sequences, FiniteSetsExt

CONSTANTS
    MaxLevel,   \* the loudest level
    Margin,     \* speech_margin_db, in steps
    Onset,      \* onset_frames
    Hangover,   \* hangover_frames
    Window,     \* floor_window_frames
    MaxFrames   \* bound: frames fed

ASSUME VadParamsAssumption ==
    /\ MaxLevel \in Nat /\ Margin \in Nat /\ MaxFrames \in Nat
    /\ Onset \in Nat \ {0} /\ Hangover \in Nat \ {0} /\ Window \in Nat \ {0}

VARIABLES
    levels,     \* levels of the last Window frames, oldest first
    speechRun, silenceRun,
    voiced,
    fed         \* history: every frame fed

vadVars == <<levels, speechRun, silenceRun, voiced, fed>>

\* The absolute floor lies between level 0 and level 1.
AbsoluteFloor == 0

VadInit ==
    /\ levels = <<>>
    /\ speechRun = 0 /\ silenceRun = 0
    /\ voiced = FALSE
    /\ fed = <<>>

Larger(a, b) == IF a > b THEN a ELSE b
Lowest(s) == Min({s[i] : i \in DOMAIN s})

\* Mutant of NoiseFloor: the floor is the level the stream opened on.
NoiseFloorOfFirst(s) == Larger(IF fed = <<>> THEN s[1] ELSE fed[1].level, AbsoluteFloor)

NoiseFloor(s) == Larger(Lowest(s), AbsoluteFloor)

Loud(level, floor) == level > AbsoluteFloor /\ level > floor + Margin

\* push_frame.
PushFrame(f) ==
    LET kept == IF Len(levels) = Window THEN Tail(levels) ELSE levels
        speechlike == f.voice /\ Loud(f.level, NoiseFloor(Append(kept, f.level))) IN
    /\ Len(fed) < MaxFrames
    /\ levels' = Append(kept, f.level)
    /\ speechRun' = IF speechlike THEN speechRun + 1 ELSE 0
    /\ silenceRun' = IF speechlike THEN 0 ELSE silenceRun + 1
    /\ voiced' = IF speechlike THEN voiced \/ speechRun' >= Onset
                 ELSE voiced /\ silenceRun' < Hangover
    /\ fed' = Append(fed, f)

VadNext == \E f \in [level : 0..MaxLevel, voice : BOOLEAN] : PushFrame(f)

VadSpec == VadInit /\ [][VadNext]_vadVars

-----------------------------------------------------------------------------
\* The i-th frame stands out of the quietest of the Window frames up to it.
StandsOut(i) ==
    /\ fed[i].voice
    /\ fed[i].level > 0
    /\ \E j \in 1..i : j + Window > i /\ fed[j].level + Margin < fed[i].level

(***************************************************************************)
(* The detector is neither deaf nor stuck (vad.rs, the comment on          *)
(* `levels`): at any time it says "voiced" exactly when some run of Onset  *)
(* frames that stand out of the quietest frame of their window has been    *)
(* heard and no Hangover frames in a row since did not: so it hears speech *)
(* a window after a gap even when the stream opened in mid-sentence, and a *)
(* steady background is never speech.                                      *)
(***************************************************************************)
VoicedIsSpeech ==
    voiced <=>
      \E i \in Onset..Len(fed) :
        /\ \A k \in (i - Onset + 1)..i : StandsOut(k)
        /\ ~ \E s \in (i + 1)..Len(fed) :
              /\ s + Hangover - 1 <= Len(fed)
              /\ \A k \in s..(s + Hangover - 1) : ~StandsOut(k)
==============================================================================
