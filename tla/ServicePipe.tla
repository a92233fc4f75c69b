----------------------------- MODULE ServicePipe -----------------------------
(***************************************************************************)
(* The control pipe between agents and the service: the accept loop and    *)
(* the per-connection pumps (windows/pipe.rs), the frame reader both ends  *)
(* use (ipc/codec.rs), the agent's client (sentinel-agent/src/ipc.rs) and  *)
(* the request handler with the state it shares with the service loop      *)
(* (service main.rs).                                                      *)
(*                                                                         *)
(* Bytes are cells: a frame is PrefixBytes cells of length prefix and then *)
(* the cells of its body, and a read takes any number of the cells that    *)
(* have arrived.  What a cell of a prefix announces is the length of its   *)
(* own frame; a reader that has lost its place reads a length that is not  *)
(* legal.  The pipe itself, its instances and its busy answer are the      *)
(* operating system's.                                                     *)
(***************************************************************************)
EXTENDS Naturals, Sequences, FiniteSets

CONSTANTS
    Client,        \* processes that talk to the service, one request each
    MaxInstances,  \* MAX_INSTANCES of the pipe
    MaxOpen,       \* the three tries of ipc.rs `open`
    PrefixBytes,   \* LENGTH_PREFIX_BYTES
    MaxFrame,      \* MAX_FRAME_BYTES
    MaxRestart     \* bound: agent restarts the service counts

ASSUME PipeAssumption ==
    /\ PrefixBytes \in Nat \ {0} /\ MaxFrame \in Nat /\ MaxInstances \in Nat
    /\ MaxOpen \in Nat /\ MaxRestart \in Nat

VARIABLES
    host,      \* the accept loop: "create" | "listen" | "returned" | "exited"
    at,        \* each client: "idle" | "connected" | "waiting" | a result
    tries,     \* its open attempts
    asks,      \* its request
    answer,    \* the reply it returned to its caller
    inbound,   \* cells on their way to the service, per connection
    outbound,  \* cells on their way back
    reader,    \* the pump's FrameReader
    creader,   \* the client's FrameReader
    pump,      \* "none" | "read" | "frames"
    restarts,  \* ServiceState.restarts
    updateRequested, \* ServiceState.update_requested
    checking,  \* the service loop is inside an update check
    since,     \* history: the restart count when the client sent its request
    told       \* history: clients told a check is coming, none begun since

pipeVars == <<host, at, tries, asks, answer, inbound, outbound, reader, creader,
              pump, restarts, updateRequested, checking, since, told>>

-----------------------------------------------------------------------------
\* The three kinds of request the handler answers differently (ReportHealth
\* and LogEvent both get Ok), and one of a newer agent it cannot decode.
Request == {"GetConfig", "ReportHealth", "RequestUpdateCheck", "Unknown"}

\* Body lengths, so that frames of different sizes meet.
Size(m) == IF m.t \in {"Config", "UpdateStatus"} THEN 2 ELSE 1

Encode(m) == [i \in 1..(PrefixBytes + Size(m)) |-> [msg |-> m, at |-> i]]

Announced(buf) == IF buf[1].at = 1 THEN Size(buf[1].msg) ELSE MaxFrame + 1

NoFrame(buf) == [is |-> "none", rest |-> buf]

\* FrameReader::next_frame.
NextFrame(buf) ==
    IF Len(buf) < PrefixBytes THEN NoFrame(buf)
    ELSE LET total == PrefixBytes + Announced(buf) IN
         IF Announced(buf) = 0 \/ Announced(buf) > MaxFrame
         THEN [is |-> "error", rest |-> buf]
         ELSE IF Len(buf) < total THEN NoFrame(buf)
         ELSE [is |-> "frame", msg |-> buf[1].msg,
               rest |-> SubSeq(buf, total + 1, Len(buf))]

Response(q) ==
    CASE q.t = "GetConfig" -> [t |-> "Config", restarts |-> restarts]
      [] q.t = "RequestUpdateCheck" -> [t |-> "UpdateStatus", restarts |-> 0]
      [] q.t = "ReportHealth" -> [t |-> "Ok", restarts |-> 0]
      [] OTHER -> [t |-> "Error", restarts |-> 0]

Instances == {c \in Client : pump[c] # "none"}
Closed(c) == at[c] \notin {"connected", "waiting"}

PipeInit ==
    /\ host = "create"
    /\ at = [c \in Client |-> "idle"]
    /\ tries = [c \in Client |-> 0]
    /\ asks \in [Client -> Request]
    /\ answer = [c \in Client |-> "none"]
    /\ inbound = [c \in Client |-> <<>>]
    /\ outbound = [c \in Client |-> <<>>]
    /\ reader = [c \in Client |-> <<>>]
    /\ creader = [c \in Client |-> <<>>]
    /\ pump = [c \in Client |-> "none"]
    /\ restarts = 0
    /\ updateRequested = FALSE
    /\ checking = FALSE
    /\ since = [c \in Client |-> 0]
    /\ told = {}

wires == <<inbound, outbound, reader, creader>>
shared == <<restarts, updateRequested, checking, told>>

-----------------------------------------------------------------------------
\* serve: a new instance to listen on, as long as there is one left ...
HostListens ==
    /\ host = "create"
    /\ Cardinality(Instances) < MaxInstances
    /\ host' = "listen"
    /\ UNCHANGED <<at, tries, asks, answer, wires, pump, shared, since>>

\* ... and with all of them connected CreateNamedPipeW fails and serve
\* returns for good.
HostReturns ==
    /\ host = "create"
    /\ Cardinality(Instances) = MaxInstances
    /\ host' = "returned"
    /\ UNCHANGED <<at, tries, asks, answer, wires, pump, shared, since>>

\* `open` finds the listening instance; serve spawns a pump for it.
Opens(c) ==
    /\ at[c] = "idle"
    /\ host = "listen"
    /\ at' = [at EXCEPT ![c] = "connected"]
    /\ pump' = [pump EXCEPT ![c] = "read"]
    /\ host' = "create"
    /\ UNCHANGED <<tries, asks, answer, wires, shared, since>>

\* ERROR_PIPE_BUSY: wait for an instance and try again, three times in all.
OpenBusy(c) ==
    /\ at[c] = "idle"
    /\ host \in {"create", "returned"}
    /\ Instances # {}
    /\ tries' = [tries EXCEPT ![c] = @ + 1]
    /\ at' = [at EXCEPT ![c] = IF tries[c] + 1 = MaxOpen THEN "unavailable" ELSE @]
    /\ UNCHANGED <<host, asks, answer, wires, pump, shared, since>>

\* No instance at all: the service is not running, or serve has returned.
OpenRefused(c) ==
    /\ at[c] = "idle"
    /\ host # "listen"
    /\ Instances = {}
    /\ at' = [at EXCEPT ![c] = "unavailable"]
    /\ UNCHANGED <<host, tries, asks, answer, wires, pump, shared, since>>

Sends(c) ==
    /\ at[c] = "connected"
    /\ at' = [at EXCEPT ![c] = IF pump[c] = "none" THEN "failed" ELSE "waiting"]
    /\ inbound' = [inbound EXCEPT ![c] = IF pump[c] = "none" THEN @
                                         ELSE @ \o Encode([t |-> asks[c], restarts |-> 0])]
    /\ since' = [since EXCEPT ![c] = restarts]
    /\ UNCHANGED <<host, tries, asks, answer, outbound, reader, creader, pump, shared>>

\* pump: one read of any part of what has arrived.
PumpReads(c) ==
    /\ pump[c] = "read"
    /\ \E n \in 1..Len(inbound[c]) :
          /\ reader' = [reader EXCEPT ![c] = @ \o SubSeq(inbound[c], 1, n)]
          /\ inbound' = [inbound EXCEPT ![c] = SubSeq(@, n + 1, Len(@))]
    /\ pump' = [pump EXCEPT ![c] = "frames"]
    /\ UNCHANGED <<host, at, tries, asks, answer, outbound, creader, shared, since>>

\* A complete frame is decoded, handled and answered.  A reply written to a
\* peer that is gone ends the pump; what the handler did stays done.
PumpHandles(c) ==
    LET f == NextFrame(reader[c]) IN
    /\ pump[c] = "frames"
    /\ f.is = "frame"
    /\ reader' = [reader EXCEPT ![c] = f.rest]
    /\ updateRequested' = (updateRequested \/ f.msg.t = "RequestUpdateCheck")
    /\ told' = IF f.msg.t = "RequestUpdateCheck" THEN told \cup {c} ELSE told
    /\ outbound' = [outbound EXCEPT ![c] =
                       IF Closed(c) THEN @ ELSE @ \o Encode(Response(f.msg))]
    /\ pump' = [pump EXCEPT ![c] = IF Closed(c) THEN "none" ELSE @]
    /\ UNCHANGED <<host, at, tries, asks, answer, inbound, creader, restarts,
                   checking, since>>

\* No complete frame: read on.  A length that cannot be, or more bytes than
\* one frame can hold, and the pump gives the connection up.
PumpWaits(c) ==
    LET f == NextFrame(reader[c]) IN
    /\ pump[c] = "frames"
    /\ f.is # "frame"
    /\ pump' = [pump EXCEPT ![c] = IF f.is = "error" \/ Len(reader[c]) > MaxFrame
                                   THEN "none" ELSE "read"]
    /\ UNCHANGED <<host, at, tries, asks, answer, wires, shared, since>>

\* The peer closed its end: the read returns zero and the instance is freed.
PumpEnds(c) ==
    /\ pump[c] = "read"
    /\ Closed(c)
    /\ inbound[c] = <<>>
    /\ pump' = [pump EXCEPT ![c] = "none"]
    /\ UNCHANGED <<host, at, tries, asks, answer, wires, shared, since>>

\* The client reads any part of the reply; the first complete frame is it.
ClientReads(c) ==
    /\ at[c] = "waiting"
    /\ \E n \in 1..Len(outbound[c]) :
          LET f == NextFrame(creader[c] \o SubSeq(outbound[c], 1, n)) IN
          /\ outbound' = [outbound EXCEPT ![c] = SubSeq(@, n + 1, Len(@))]
          /\ creader' = [creader EXCEPT ![c] = f.rest]
          /\ at' = [at EXCEPT ![c] = CASE f.is = "none" -> "waiting"
                                       [] f.is = "error" -> "failed"
                                       [] OTHER -> "answered"]
          /\ answer' = [answer EXCEPT ![c] = IF f.is = "frame" THEN f.msg ELSE @]
    /\ UNCHANGED <<host, tries, asks, inbound, reader, pump, shared, since>>

\* The other end is gone: an error to the caller.
ClientCutOff(c) ==
    /\ at[c] = "waiting"
    /\ pump[c] = "none"
    /\ outbound[c] = <<>>
    /\ at' = [at EXCEPT ![c] = "failed"]
    /\ UNCHANGED <<host, tries, asks, answer, wires, pump, shared, since>>

\* The agent is killed in the middle of a request.
ClientDies(c) ==
    /\ at[c] \in {"connected", "waiting"}
    /\ at' = [at EXCEPT ![c] = "dead"]
    /\ UNCHANGED <<host, tries, asks, answer, wires, pump, shared, since>>

-----------------------------------------------------------------------------
\* The service loop counts a restarted agent (set_restarts).
CountRestart ==
    /\ host # "exited"
    /\ restarts < MaxRestart
    /\ restarts' = restarts + 1
    /\ UNCHANGED <<host, at, tries, asks, answer, wires, pump, updateRequested,
                   checking, since, told>>

\* take_update_request swaps the flag, then the staged version is looked at.
TakeUpdateRequest ==
    /\ host # "exited"
    /\ ~checking
    /\ updateRequested
    /\ updateRequested' = FALSE
    /\ checking' = TRUE
    /\ told' = {}
    /\ UNCHANGED <<host, at, tries, asks, answer, wires, pump, restarts, since>>

\* Mutant of UpdateChecked: the flag is cleared again once the check is done.
UpdateCheckedClears ==
    /\ host # "exited"
    /\ checking
    /\ checking' = FALSE
    /\ updateRequested' = FALSE
    /\ UNCHANGED <<host, at, tries, asks, answer, wires, pump, restarts, since, told>>

\* The decision is logged; nothing is applied.
UpdateChecked ==
    /\ host # "exited"
    /\ checking
    /\ checking' = FALSE
    /\ UNCHANGED <<host, at, tries, asks, answer, wires, pump, restarts,
                   updateRequested, since, told>>

\* The service process ends, every connection with it.
ServiceExits ==
    /\ host # "exited"
    /\ host' = "exited"
    /\ pump' = [c \in Client |-> "none"]
    /\ UNCHANGED <<at, tries, asks, answer, wires, shared, since>>

PipeNext ==
    \/ HostListens \/ HostReturns
    \/ \E c \in Client :
          \/ Opens(c) \/ OpenBusy(c) \/ OpenRefused(c) \/ Sends(c)
          \/ PumpReads(c) \/ PumpHandles(c) \/ PumpWaits(c) \/ PumpEnds(c)
          \/ ClientReads(c) \/ ClientCutOff(c) \/ ClientDies(c)
    \/ CountRestart \/ TakeUpdateRequest \/ UpdateChecked \/ ServiceExits

PipeSpec == PipeInit /\ [][PipeNext]_pipeVars

-----------------------------------------------------------------------------
\* The reply each request is entitled to.
ReplyTo(q) == CASE q = "GetConfig" -> "Config"
                [] q = "RequestUpdateCheck" -> "UpdateStatus"
                [] q = "ReportHealth" -> "Ok"
                [] OTHER -> "Error"

(***************************************************************************)
(* A request is honoured however its bytes are split and whoever else is   *)
(* connected (pipe.rs pump, ipc.rs request, main.rs handle): a client that *)
(* gets an answer gets the answer to its own request, a restart count it   *)
(* reads is one the service held since it asked, and a client that was     *)
(* told a check is coming is not forgotten: until a check begins after its *)
(* request was handled, update_requested stays set.                        *)
(***************************************************************************)
RequestsHonoured ==
    /\ \A c \in Client : at[c] = "answered" =>
          /\ answer[c].t = ReplyTo(asks[c])
          /\ answer[c].t = "Config" => answer[c].restarts \in since[c]..restarts
    /\ told # {} => updateRequested
==============================================================================
