---- MODULE IngestWire ----
(***************************************************************************)
(* What the agent's uplink and the gateway's ingest session share: the     *)
(* identifiers, the frames and replies of contracts/wire.md as both sides  *)
(* encode them, the two directions of each WebSocket connection, and the   *)
(* budget of failures the environment may inject.                          *)
(*                                                                         *)
(* A stream is one channel of one call.  A cumulative mark "through n" of  *)
(* a stream is the set 0..n of sequence numbers it covers; no mark is {}.  *)
(* The larger of two marks is then their union.                            *)
(***************************************************************************)
EXTENDS Integers, Sequences, FiniteSets

CONSTANTS Calls,      \* call_ids the agent mints, one per conversation
          Channels,   \* channel numbers: 0 far, 1 near
          MaxSeq,     \* bound: highest sequence number of a stream
          Users,      \* user_uids that sign in on this desktop
          Conns,      \* connection slots; a slot is reused once its session ended
          NoCall, NoUser, NoConn,
          FaultKinds, \* the kinds of failure this instance allows
          MaxFaults   \* bound: how many of them happen in one behaviour

ASSUME WireAssumption ==
    /\ Channels \subseteq Nat
    /\ MaxSeq \in Nat
    /\ MaxFaults \in Nat
    /\ NoCall \notin Calls /\ NoUser \notin Users /\ NoConn \notin Conns

Seqs == 0..MaxSeq
Streams == Calls \X Channels
StreamsOf(c) == {x \in Streams : x[1] = c}

\* A set of segments (or a mark) for every stream.
PerStream == [Streams -> SUBSET Seqs]
Nothing == [x \in Streams |-> {}]
Join(f, g) == [x \in Streams |-> f[x] \cup g[x]]
Without(f, g) == [x \in Streams |-> f[x] \ g[x]]
OnlyCall(c, f) == [x \in Streams |-> IF x[1] = c THEN f[x] ELSE {}]
NotCall(c, f) == [x \in Streams |-> IF x[1] = c THEN {} ELSE f[x]]
Holds(c, f) == \E x \in StreamsOf(c) : f[x] # {}

\* Mutants of Prefix: the highest sequence number seen instead of the highest
\* contiguous one; a mark one past what is stored.
HighestSeen(S) == {n \in Seqs : \E m \in S : n <= m}
OnePast(S) == {n \in 0..(MaxSeq + 1) : 0..(n - 1) \subseteq S /\ S # {}}

\* The segments a mark covers when the stored set is S: all n with 0..n stored.
Prefix(S) == {n \in S : 0..n \subseteq S}

\* Client to server: call.start (with its user_uid), one binary message of media
\* records of one call, call.end.
Frame == [t : {"start", "media", "end"}, call : Calls,
          user : Users \cup {NoUser}, recs : PerStream]
StartFrame(c, u) == [t |-> "start", call |-> c, user |-> u, recs |-> Nothing]
MediaFrame(c, r) == [t |-> "media", call |-> c, user |-> NoUser, recs |-> r]
EndFrame(c) == [t |-> "end", call |-> c, user |-> NoUser, recs |-> Nothing]

\* Server to client.  A non-fatal call.error changes nothing on the client and is
\* left out; "ack" carries every stream acknowledged by one handler.
CloseCodes == {"idle", "too_many", "forbidden"}
Reply == [t : {"resume", "fatal"}, call : Calls, marks : PerStream]
         \cup [t : {"ack"} \cup CloseCodes, call : {NoCall}, marks : PerStream]
ResumeReply(c, m) == [t |-> "resume", call |-> c, marks |-> m]
AckReply(m) == [t |-> "ack", call |-> NoCall, marks |-> m]
FatalReply(c) == [t |-> "fatal", call |-> c, marks |-> Nothing]
CloseReply(code) == [t |-> code, call |-> NoCall, marks |-> Nothing]

VARIABLES c2s,    \* [Conns -> Seq(Frame)]: frames the session has not read yet
          s2c,    \* [Conns -> Seq(Reply)]: replies the client has not read yet
          faults  \* failures injected so far

\* One failure of the environment, within the budget.
Fault(kind) ==
    /\ kind \in FaultKinds
    /\ faults < MaxFaults
    /\ faults' = faults + 1

WireTypeOK ==
    /\ c2s \in [Conns -> Seq(Frame)]
    /\ s2c \in [Conns -> Seq(Reply)]
    /\ faults \in Nat

WireInit ==
    /\ c2s = [k \in Conns |-> <<>>]
    /\ s2c = [k \in Conns |-> <<>>]
    /\ faults = 0
====
