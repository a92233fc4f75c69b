---------------------------- MODULE CaptureSource ----------------------------
(***************************************************************************)
(* The adapter that lets the pipeline read one WASAPI stream               *)
(* (sentinel-agent/src/windows/capture_source.rs) over the two streams of  *)
(* sentinel-capture: process loopback, already in the pipeline's format,   *)
(* and endpoint capture, which is downmixed and resampled here.  Audio     *)
(* engine and device are Windows': they produce numbered samples, lose     *)
(* some in a glitch and flag the next packet, or go away.                  *)
(*                                                                         *)
(* One stream of a source; two streams of one source share nothing but the *)
(* downgraded flag.  A sample is its number: levels, downmix and the       *)
(* filter's weights are left out, the positions the resampler reads at are *)
(* kept, with an integer ratio of the two rates.                           *)
(***************************************************************************)
EXTENDS Integers, Sequences, FiniteSets

CONSTANTS
    Frame,      \* FRAME_SAMPLES: the silence inserted for a discontinuity
    BufLen,     \* the caller's buffer
    Ratio,      \* source rate over 16 kHz, for the endpoint stream
    Taps,       \* TAPS: half-width of the resampler's kernel
    MaxPacket,  \* bound: samples in one packet of the engine
    MaxSample   \* bound: samples the engine produces

\* The kernel is wider than a step (16 taps; 192 kHz over 16 kHz makes a step of 12), else
\* `drain` would reach past the history; equal rates are not resampled at all.
ASSUME SourceAssumption ==
    /\ Frame \in Nat /\ BufLen \in Nat /\ Taps \in Nat /\ MaxPacket \in Nat /\ MaxSample \in Nat
    /\ Ratio \in Nat /\ 1 < Ratio /\ Ratio <= 2 * Taps + 1

VARIABLES
    tier,       \* the tier of this machine
    pid,        \* a softphone process was resolved
    dir,        \* the direction opened
    stream,     \* "none" | "Process" | "Endpoint"
    downgraded, \* tier A was asked for and endpoint capture runs
    made,       \* samples the engine has produced or lost
    glitch,     \* samples were lost since the last packet
    packets,    \* packets waiting in the engine
    present,    \* the device is there
    phase,      \* "idle" | "fill" | "drain" | "serve"
    taken,      \* samples of the packets the running read has taken
    gap,        \* it saw a discontinuity flag
    history,    \* the resampler's history of source samples
    pos,        \* its read position in it
    buffered,   \* samples not yet handed to the caller
    pulled,     \* history: source samples that came through a read
    gaps,       \* history: Len(pulled) at each read that saw a flag
    handed      \* history: what the caller was given

sourceVars == <<tier, pid, dir, stream, downgraded, made, glitch, packets,
                present, phase, taken, gap, history, pos, buffered, pulled,
                gaps, handed>>
engineVars == <<made, glitch, packets, present>>
setup == <<tier, pid, dir, stream, downgraded>>

-----------------------------------------------------------------------------
Silence == <<"silence", 0>>
Real(i) == <<"sample", i>>
Zeros(n) == [i \in 1..n |-> 0]

SourceInit ==
    /\ tier \in {"A", "B"}
    /\ pid \in BOOLEAN
    /\ dir \in {"Render", "Capture"}
    /\ stream = "none"
    /\ downgraded = FALSE
    /\ made = 0 /\ glitch = FALSE /\ packets = <<>> /\ present = TRUE
    /\ phase = "idle" /\ taken = <<>> /\ gap = FALSE
    /\ history = Zeros(2 * Taps)
    /\ pos = Taps
    /\ buffered = <<>>
    /\ pulled = <<>> /\ gaps = <<>> /\ handed = <<>>

quiet == <<phase, taken, gap, history, pos, buffered, pulled, gaps, handed>>

\* Process loopback replaces the far channel only, on tier A, unless this
\* session was downgraded before.
WantsProcess == tier = "A" /\ dir = "Render" /\ ~downgraded

OpenProcess ==
    /\ stream = "none"
    /\ WantsProcess
    /\ pid
    /\ stream' = "Process"
    /\ UNCHANGED <<tier, pid, dir, downgraded, engineVars, quiet>>

\* The endpoint directly, or after activation failed or without a pid.
OpenEndpoint ==
    /\ stream = "none"
    /\ present
    /\ stream' = "Endpoint"
    /\ downgraded' = (downgraded \/ WantsProcess)
    /\ UNCHANGED <<tier, pid, dir, engineVars, quiet>>

\* GetDevice or a later call fails; the downgrade of this session stays.
OpenFails ==
    /\ stream = "none"
    /\ downgraded' = (downgraded \/ WantsProcess)
    /\ UNCHANGED <<tier, pid, dir, stream, engineVars, quiet>>

-----------------------------------------------------------------------------
\* The engine delivers a packet; after a loss it is flagged.
EnginePacket ==
    /\ stream # "none"
    /\ present
    /\ \E n \in 1..MaxPacket :
          /\ made + n <= MaxSample
          /\ packets' = Append(packets, [ids |-> [i \in 1..n |-> made + i],
                                         discontinuity |-> glitch])
          /\ made' = made + n
    /\ glitch' = FALSE
    /\ UNCHANGED <<setup, present, quiet>>

EngineLoses ==
    /\ stream # "none"
    /\ present
    /\ made < MaxSample
    /\ made' = made + 1
    /\ glitch' = TRUE
    /\ UNCHANGED <<setup, packets, present, quiet>>

\* The headset is unplugged: what the engine still held is gone.
DeviceGone ==
    /\ present
    /\ present' = FALSE
    /\ packets' = <<>>
    /\ UNCHANGED <<setup, made, glitch, quiet>>

-----------------------------------------------------------------------------
\* read_frames is called.
ReadFrames ==
    /\ stream # "none"
    /\ phase = "idle"
    /\ phase' = "fill"
    /\ UNCHANGED <<setup, engineVars, taken, gap, history, pos, buffered, pulled,
                   gaps, handed>>

\* Enough buffered: no read of the stream.
Filled ==
    /\ phase = "fill"
    /\ Len(buffered) >= BufLen
    /\ phase' = "serve"
    /\ UNCHANGED <<setup, engineVars, taken, gap, history, pos, buffered, pulled,
                   gaps, handed>>

\* The stream's event did not come within READ_TIMEOUT_MS.
ReadTimesOut ==
    /\ phase = "fill"
    /\ Len(buffered) < BufLen
    /\ packets = <<>>
    /\ phase' = "serve"
    /\ UNCHANGED <<setup, engineVars, taken, gap, history, pos, buffered, pulled,
                   gaps, handed>>

\* The event came: drain the engine packet by packet.
ReadStarts ==
    /\ phase = "fill"
    /\ Len(buffered) < BufLen
    /\ packets # <<>> \/ ~present
    /\ phase' = "drain"
    /\ taken' = <<>>
    /\ gap' = FALSE
    /\ UNCHANGED <<setup, engineVars, history, pos, buffered, pulled, gaps, handed>>

TakePacket ==
    /\ phase = "drain"
    /\ packets # <<>>
    /\ taken' = taken \o Head(packets).ids
    /\ gap' = (gap \/ Head(packets).discontinuity)
    /\ packets' = Tail(packets)
    /\ UNCHANGED <<setup, made, glitch, present, phase, history, pos, buffered,
                   pulled, gaps, handed>>

-----------------------------------------------------------------------------
\* Resampler::process: read positions Ratio apart as long as the kernel's
\* right half is there, then drop what lies left of its left half.
Steps(h, p) == LET limit == Len(h) - Taps - 1 IN
               IF p >= limit THEN 0 ELSE (limit - p - 1) \div Ratio + 1
Resampled(h, p) == [j \in 1..Steps(h, p) |-> h[p + (j - 1) * Ratio + 1]]
ReadTo(h, p) == p + Steps(h, p) * Ratio
KeepFrom(h, p) == IF ReadTo(h, p) > Taps THEN ReadTo(h, p) - Taps ELSE 0

Converted == IF stream = "Process" THEN taken ELSE Resampled(history \o taken, pos)

Entries(ids) == [i \in DOMAIN ids |-> Real(ids[i])]

Inserted == IF gap THEN [i \in 1..Frame |-> Silence] ELSE <<>>

\* Mutant of Captured: the gap's silence goes behind the samples.
CapturedLate ==
    /\ buffered' = buffered \o Entries(Converted) \o Inserted
    /\ pulled' = pulled \o taken
    /\ gaps' = IF gap THEN Append(gaps, Len(pulled)) ELSE gaps
    /\ phase' = IF Converted = <<>> THEN "serve" ELSE "fill"
    /\ IF stream = "Process" THEN UNCHANGED <<history, pos>>
       ELSE LET h == history \o taken IN
            /\ history' = SubSeq(h, KeepFrom(h, pos) + 1, Len(h))
            /\ pos' = ReadTo(h, pos) - KeepFrom(h, pos)

\* read_frames with a captured buffer: silence for a flagged gap, then the
\* samples; none after conversion ends the filling.
Captured ==
    /\ buffered' = buffered \o Inserted \o Entries(Converted)
    /\ pulled' = pulled \o taken
    /\ gaps' = IF gap THEN Append(gaps, Len(pulled)) ELSE gaps
    /\ phase' = IF Converted = <<>> THEN "serve" ELSE "fill"
    /\ IF stream = "Process" THEN UNCHANGED <<history, pos>>
       ELSE LET h == history \o taken IN
            /\ history' = SubSeq(h, KeepFrom(h, pos) + 1, Len(h))
            /\ pos' = ReadTo(h, pos) - KeepFrom(h, pos)

\* The engine has no more: hand over what was taken.
ReadEnds ==
    /\ phase = "drain"
    /\ packets = <<>>
    /\ present
    /\ taken # <<>>
    /\ Captured
    /\ taken' = <<>>
    /\ UNCHANGED <<setup, engineVars, gap, handed>>

\* GetBuffer fails for another reason: the endpoint stream keeps what it has
\* taken, the process stream gives it up with an error.
GetBufferFails ==
    /\ phase = "drain"
    /\ present
    /\ taken' = <<>>
    /\ IF stream = "Endpoint" /\ taken # <<>> THEN Captured
       ELSE /\ phase' = IF stream = "Endpoint" THEN "serve" ELSE "idle"
            /\ UNCHANGED <<history, pos, buffered, pulled, gaps>>
    /\ UNCHANGED <<setup, engineVars, gap, handed>>

\* ReleaseBuffer fails after a packet was copied, on either stream: read_frames returns the
\* error without what this read has taken, and the engine may offer the packet again.
ReleaseFails ==
    /\ phase = "drain"
    /\ packets # <<>>
    /\ packets' \in {packets, Tail(packets)}
    /\ phase' = "idle"
    /\ taken' = <<>>
    /\ UNCHANGED <<setup, made, glitch, present, gap, history, pos, buffered, pulled, gaps,
                   handed>>

\* AUDCLNT_E_DEVICE_INVALIDATED: read_frames returns the error, and samples
\* taken by this read are not kept; the buffered ones are.
ReadInvalidated ==
    /\ phase = "drain"
    /\ ~present
    /\ phase' = "idle"
    /\ taken' = <<>>
    /\ UNCHANGED <<setup, engineVars, gap, history, pos, buffered, pulled, gaps, handed>>

\* The caller gets as much as there is, up to its buffer.
Serve ==
    /\ phase = "serve"
    /\ LET n == IF Len(buffered) < BufLen THEN Len(buffered) ELSE BufLen IN
       /\ handed' = handed \o SubSeq(buffered, 1, n)
       /\ buffered' = SubSeq(buffered, n + 1, Len(buffered))
    /\ phase' = "idle"
    /\ UNCHANGED <<setup, engineVars, taken, gap, history, pos, pulled, gaps>>

SourceNext ==
    \/ OpenProcess \/ OpenEndpoint \/ OpenFails
    \/ EnginePacket \/ EngineLoses \/ DeviceGone
    \/ ReadFrames \/ Filled \/ ReadTimesOut \/ ReadStarts \/ TakePacket
    \/ ReadEnds \/ GetBufferFails \/ ReleaseFails \/ ReadInvalidated \/ Serve

SourceSpec == SourceInit /\ [][SourceNext]_sourceVars

-----------------------------------------------------------------------------
\* What the caller has and will be given next.
Output == handed \o buffered

\* Reference: how many samples n source samples make, and where the k-th of
\* them stands in the source; zero and below is the lead-in of silence.
Count(n) == IF stream = "Process" THEN n
            ELSE IF n <= 1 THEN 0 ELSE (n - 2) \div Ratio + 1
Source(k) == IF stream = "Process" THEN k ELSE (k - 1) * Ratio + 1 - Taps

\* The gaps in front of the k-th sample of the output.
GapsBefore(k) == {j \in DOMAIN gaps : Count(gaps[j]) < k}

(***************************************************************************)
(* However the engine's packets, glitches and the caller's reads fall      *)
(* (capture_source.rs read_frames, resample.rs process): the samples the   *)
(* caller is given are exactly those of one pass over everything the reads *)
(* took, in order, none dropped or repeated at a buffer boundary; and for  *)
(* every read that saw a discontinuity a frame of silence stands in front  *)
(* of all samples behind the gap, and none where there was no gap.         *)
(***************************************************************************)
SamplesInOrder ==
    /\ Len(Output) = Count(Len(pulled)) + Frame * Len(gaps)
    /\ \A k \in 1..Count(Len(pulled)) :
          Output[k + Frame * Cardinality(GapsBefore(k))]
             = Real(IF Source(k) < 1 THEN 0 ELSE pulled[Source(k)])
    /\ \A j \in DOMAIN gaps : \A i \in 1..Frame :
          Output[Count(gaps[j]) + Frame * (j - 1) + i] = Silence
==============================================================================
