---- MODULE PartsProofs ----
(***************************************************************************)
(* Proofs about parts of the client that share no state: the configuration *)
(* store for every set of configurations and policies, the control pipe    *)
(* for every number of clients, frame limit and split of the bytes, the    *)
(* voice activity detector for every window, margin, onset and hangover,   *)
(* the telemetry exporter for every number of threads and queue, the       *)
(* capture source for every buffer, packet and ratio of sample rates, and  *)
(* the decisions for every input.                                          *)
(***************************************************************************)
EXTENDS ConfigStore, ServicePipe, Vad, Telemetry, CaptureSource, Decisions, SequenceTheorems,
        FiniteSetTheorems, WellFoundedInduction, TLAPS

-----------------------------------------------------------------------------
(***************************************************************************)
(* The configuration store.  A file that no power loss took holds what it  *)
(* was last given; and what it was given is a value that parses, so the    *)
(* next start reads it.                                                    *)
(***************************************************************************)
ConfigInv ==
    /\ good \in Policies \cup {Nothing}
    /\ cached \in Config \cup {Default, Nothing}
    /\ registry \in Config \cup {Nothing}
    /\ local \in Config \cup {Default}
    /\ "policy" \notin spoiled => policyFile = good
    /\ "config" \notin spoiled => configFile = cached
    /\ configFile \in Config \cup {Default, Nothing, Corrupt}
    /\ running \in {"fetched", "renamed"} => fresh \in Policies
    /\ running = "renamed" => fresh = good

\* The store begins with nothing kept and nothing lost.
LEMMA ConfigStarts == ConfigInit => ConfigInv /\ ConfigKept
BY DEF ConfigInit, ConfigInv, ConfigKept

\* Opening reads back what was written.
LEMMA OpenReads ==
    ASSUME ConfigInv, ConfigKept, OpenStore
    PROVE  ConfigInv' /\ ConfigKept'
<1>1. local' \in Config \cup {Default}
  BY DEF OpenStore, ConfigInv, Readable
<1>2. "policy" \notin spoiled => policy' = good
  BY ConfigAssumption DEF OpenStore, ConfigInv, Readable
<1>3. cached # Nothing /\ "config" \notin spoiled => local' = cached
  BY ConfigAssumption DEF OpenStore, ConfigInv, Readable
<1> QED
  BY <1>1, <1>2, <1>3 DEF OpenStore, ConfigInv, ConfigKept

\* Every step of the store, a crash included, keeps its configuration.
LEMMA ConfigStep == ConfigInv /\ ConfigKept /\ [ConfigNext]_configVars => ConfigInv' /\ ConfigKept'
<1> SUFFICES ASSUME ConfigInv, ConfigKept, [ConfigNext]_configVars
             PROVE  ConfigInv' /\ ConfigKept'
  OBVIOUS
<1> USE DEF ConfigInv, ConfigKept
<1>1. CASE OpenStore
  BY <1>1, OpenReads
<1>2. CASE PersistLocal
  BY <1>2 DEF PersistLocal
<1>3. CASE PersistLocalFails
  BY <1>3 DEF PersistLocalFails
<1>4. CASE Fetch
  BY <1>4 DEF Fetch
<1>5. CASE PersistPolicy
  BY <1>5 DEF PersistPolicy
<1>6. CASE PersistPolicyFails
  BY <1>6 DEF PersistPolicyFails
<1>7. CASE HoldPolicy
  BY <1>7 DEF HoldPolicy
<1>8. CASE Repair
  BY <1>8 DEF Repair
<1>9. CASE FilesFlushed
  BY <1>9 DEF FilesFlushed
<1>10. CASE ServiceCrash
  BY <1>10 DEF ServiceCrash
<1>11. CASE PowerLoss
  BY <1>11 DEF PowerLoss
<1>12. CASE UNCHANGED configVars
  BY <1>12 DEF configVars
<1> QED
  BY <1>1, <1>2, <1>3, <1>4, <1>5, <1>6, <1>7, <1>8, <1>9, <1>10, <1>11, <1>12 DEF ConfigNext

\* A running service holds the last policy and the last configuration that were written
\* (config_sync.rs open, refresh), whatever fetch, write or restart failed in between,
\* unless a power loss took the file.
THEOREM ConfigurationSurvives == ConfigSpec => []ConfigKept
BY ConfigStarts, ConfigStep, PTL DEF ConfigSpec

-----------------------------------------------------------------------------
(***************************************************************************)
(* The control pipe.  What is on the wire of a client, or in a reader, is  *)
(* cut from its own request or from a reply to it, wherever it was cut.    *)
(***************************************************************************)
Cells(M) == [msg : M, at : Nat]
Queries(c) == {[t |-> asks[c], restarts |-> 0]}
Replies(c) == {m \in [t : {"Config", "UpdateStatus", "Ok", "Error"}, restarts : Nat] :
                  /\ m.t = ReplyTo(asks[c])
                  /\ m.t = "Config" => m.restarts \in since[c]..restarts}

ClientInv(c) ==
    /\ asks[c] \in Request
    /\ since[c] \in Nat /\ since[c] <= restarts
    /\ inbound[c] \in Seq(Cells(Queries(c))) /\ reader[c] \in Seq(Cells(Queries(c)))
    /\ outbound[c] \in Seq(Cells(Replies(c))) /\ creader[c] \in Seq(Cells(Replies(c)))
    /\ at[c] \in {"idle", "connected"} =>
          inbound[c] = <<>> /\ reader[c] = <<>> /\ outbound[c] = <<>> /\ creader[c] = <<>>
    /\ at[c] = "answered" => answer[c] \in Replies(c)

PipeInv ==
    /\ DOMAIN at = Client /\ DOMAIN answer = Client /\ DOMAIN since = Client
    /\ DOMAIN inbound = Client /\ DOMAIN outbound = Client
    /\ DOMAIN reader = Client /\ DOMAIN creader = Client
    /\ restarts \in Nat
    /\ \A c \in Client : ClientInv(c)
    /\ told # {} => updateRequested

\* A larger set of messages has more sequences of cells.
LEMMA CellsGrow ==
    ASSUME NEW M, NEW N, M \subseteq N, NEW s \in Seq(Cells(M))
    PROVE  s \in Seq(Cells(N))
<1>1. Len(s) \in Nat /\ s \in [1..Len(s) -> Cells(M)]
  OBVIOUS
<1>2. Cells(M) \subseteq Cells(N)
  BY DEF Cells
<1>3. s \in [1..Len(s) -> Cells(N)]
  BY <1>1, <1>2
<1> QED
  BY <1>1, <1>3, SeqDef

\* encode: every cell of a frame carries its message.
LEMMA EncodeCells ==
    ASSUME NEW M, NEW m \in M
    PROVE  Encode(m) \in Seq(Cells(M))
<1> DEFINE k == PrefixBytes + Size(m)
<1>1. k \in Nat
  BY PipeAssumption DEF Size
<1> HIDE DEF k
<1>2. [i \in 1..k |-> [msg |-> m, at |-> i]] \in [1..k -> Cells(M)]
  BY DEF Cells
<1>3. [i \in 1..k |-> [msg |-> m, at |-> i]] \in Seq(Cells(M))
  BY <1>1, <1>2, SeqDef
<1> QED
  BY <1>3 DEF Encode, k

\* next_frame: the message of a frame is one the bytes were cut from, and so are the rest.
LEMMA FrameCut ==
    ASSUME NEW M, NEW buf \in Seq(Cells(M))
    PROVE  /\ NextFrame(buf).rest \in Seq(Cells(M))
           /\ NextFrame(buf).is = "frame" => NextFrame(buf).msg \in M /\ buf # <<>>
<1> USE PipeAssumption
<1>1. CASE Len(buf) < PrefixBytes
  <2>1. NextFrame(buf) = [is |-> "none", rest |-> buf]
    BY <1>1 DEF NextFrame, NoFrame
  <2> QED
    BY <2>1
<1>2. CASE ~(Len(buf) < PrefixBytes)
  <2>1. buf # <<>> /\ buf[1] \in Cells(M) /\ Len(buf) \in Nat
    BY <1>2
  <2> DEFINE total == PrefixBytes + Announced(buf)
  <2>2. Announced(buf) \in Nat /\ total \in Nat
    BY DEF Announced, Size
  <2>3. \/ NextFrame(buf) = [is |-> "error", rest |-> buf]
        \/ NextFrame(buf) = [is |-> "none", rest |-> buf]
        \/ NextFrame(buf) = [is |-> "frame", msg |-> buf[1].msg,
                             rest |-> SubSeq(buf, total + 1, Len(buf))]
    BY <1>2 DEF NextFrame, NoFrame
  <2>4. SubSeq(buf, total + 1, Len(buf)) \in Seq(Cells(M))
    <3>1. total + 1 \in Int /\ Len(buf) \in Int
      BY <2>1, <2>2
    <3>2. \A i \in (total + 1)..Len(buf) : buf[i] \in Cells(M)
      BY <2>1, <2>2
    <3> HIDE DEF total
    <3> QED
      BY <3>1, <3>2, SubSeqProperties
  <2>5. buf[1].msg \in M
    BY <2>1 DEF Cells
  <2> DEFINE rest == SubSeq(buf, total + 1, Len(buf))
             first == buf[1].msg
  <2>6. rest \in Seq(Cells(M)) /\ first \in M
    BY <2>4, <2>5
  <2>7. \/ NextFrame(buf) = [is |-> "error", rest |-> buf]
        \/ NextFrame(buf) = [is |-> "none", rest |-> buf]
        \/ NextFrame(buf) = [is |-> "frame", msg |-> first, rest |-> rest]
    BY <2>3
  <2> HIDE DEF rest, first
  <2>8. CASE NextFrame(buf) = [is |-> "frame", msg |-> first, rest |-> rest]
    BY <2>1, <2>6, <2>8
  <2>9. CASE NextFrame(buf).is # "frame" /\ NextFrame(buf).rest = buf
    BY <2>9
  <2> QED
    BY <2>7, <2>8, <2>9
<1> QED
  BY <1>1, <1>2

\* A read takes cells off the front and leaves the others.
LEMMA ReadCut ==
    ASSUME NEW M, NEW s \in Seq(Cells(M)), NEW n \in 1..Len(s)
    PROVE  /\ SubSeq(s, 1, n) \in Seq(Cells(M))
           /\ SubSeq(s, n + 1, Len(s)) \in Seq(Cells(M))
<1>1. n \in Int /\ n + 1 \in Int /\ Len(s) \in Int /\ n >= 1 /\ n <= Len(s) /\ 1 \in Int
  OBVIOUS
<1>2. \A i \in 1..n : s[i] \in Cells(M)
  BY <1>1
<1>3. \A i \in (n + 1)..Len(s) : s[i] \in Cells(M)
  BY <1>1
<1>4. SubSeq(s, 1, n) \in Seq(Cells(M))
  BY <1>1, <1>2, SubSeqProperties
<1>5. SubSeq(s, n + 1, Len(s)) \in Seq(Cells(M))
  BY <1>1, <1>3, SubSeqProperties
<1> QED
  BY <1>4, <1>5

\* The handler's reply to a client's request is one it is entitled to.
LEMMA ResponseIsReply ==
    ASSUME PipeInv, NEW c \in Client, NEW m \in Queries(c)
    PROVE  Response(m) \in Replies(c)
<1>1. m = [t |-> asks[c], restarts |-> 0] /\ asks[c] \in Request
  BY DEF PipeInv, ClientInv, Queries
<1>2. since[c] \in Nat /\ since[c] <= restarts /\ restarts \in Nat
  BY DEF PipeInv, ClientInv
<1>3. m.t = asks[c]
  BY <1>1
<1>4. CASE asks[c] = "GetConfig"
  <2>1. Response(m) = [t |-> "Config", restarts |-> restarts] /\ ReplyTo(asks[c]) = "Config"
    BY <1>3, <1>4 DEF Response, ReplyTo
  <2> QED
    BY <1>2, <2>1 DEF Replies
<1>5. CASE asks[c] = "RequestUpdateCheck"
  <2>1. Response(m) = [t |-> "UpdateStatus", restarts |-> 0] /\ ReplyTo(asks[c]) = "UpdateStatus"
    BY <1>3, <1>5 DEF Response, ReplyTo
  <2> QED
    BY <2>1 DEF Replies
<1>6. CASE asks[c] = "ReportHealth"
  <2>1. Response(m) = [t |-> "Ok", restarts |-> 0] /\ ReplyTo(asks[c]) = "Ok"
    BY <1>3, <1>6 DEF Response, ReplyTo
  <2> QED
    BY <2>1 DEF Replies
<1>7. CASE asks[c] = "Unknown"
  <2>1. Response(m) = [t |-> "Error", restarts |-> 0] /\ ReplyTo(asks[c]) = "Error"
    BY <1>3, <1>7 DEF Response, ReplyTo
  <2> QED
    BY <2>1 DEF Replies
<1> QED
  BY <1>1, <1>4, <1>5, <1>6, <1>7 DEF Request

\* A client whose connection a step leaves alone, while restarts are counted.
LEMMA ClientRests ==
    ASSUME PipeInv, NEW c \in Client, restarts' \in Nat, restarts' >= restarts,
           asks'[c] = asks[c], since'[c] = since[c], inbound'[c] = inbound[c],
           reader'[c] = reader[c], outbound'[c] = outbound[c], creader'[c] = creader[c],
           \/ at'[c] = at[c] \/ at'[c] \notin {"idle", "connected", "answered"}
           \/ at[c] = "idle" /\ at'[c] = "connected",
           answer'[c] = answer[c]
    PROVE  ClientInv(c)'
<1>1. /\ asks[c] \in Request /\ since[c] \in Nat /\ since[c] <= restarts /\ restarts \in Nat
      /\ ClientInv(c)
  BY DEF PipeInv, ClientInv
<1>2. Replies(c) \subseteq Replies(c)'
  BY <1>1 DEF Replies
<1>3. Queries(c)' = Queries(c)
  BY DEF Queries
<1>4. /\ outbound'[c] \in Seq(Cells(Replies(c)')) /\ creader'[c] \in Seq(Cells(Replies(c)'))
  BY <1>1, <1>2, CellsGrow DEF ClientInv
<1>5. /\ inbound'[c] \in Seq(Cells(Queries(c)')) /\ reader'[c] \in Seq(Cells(Queries(c)'))
  BY <1>1, <1>3 DEF ClientInv
<1>6. (outbound[c] \in Seq(Cells(Replies(c))))' /\ (creader[c] \in Seq(Cells(Replies(c))))'
  BY <1>4 DEF Cells
<1>7. (inbound[c] \in Seq(Cells(Queries(c))))' /\ (reader[c] \in Seq(Cells(Queries(c))))'
  BY <1>5 DEF Cells
<1>8. (answer[c] \in Replies(c))' \/ at'[c] # "answered"
  BY <1>1, <1>2 DEF ClientInv
<1> QED
  BY <1>1, <1>6, <1>7, <1>8 DEF ClientInv

\* Steps that move no cell: at most one client opens, or gives up.
LEMMA WiresRest ==
    ASSUME PipeInv, UNCHANGED <<asks, answer, wires, since>>, restarts' \in Nat,
           restarts' >= restarts, DOMAIN at' = Client,
           \A c \in Client : \/ at'[c] = at[c]
                             \/ at'[c] \notin {"idle", "connected", "answered"}
                             \/ at[c] = "idle" /\ at'[c] = "connected",
           told' # {} => updateRequested'
    PROVE  PipeInv'
<1>1. \A c \in Client : ClientInv(c)'
  BY ClientRests DEF wires
<1> QED
  BY <1>1 DEF PipeInv, wires

\* The steps that move none.
LEMMA QuietStep ==
    ASSUME PipeInv,
           \/ HostListens \/ HostReturns \/ ServiceExits
           \/ CountRestart \/ TakeUpdateRequest \/ UpdateChecked
           \/ \E c \in Client : \/ Opens(c) \/ OpenBusy(c) \/ OpenRefused(c) \/ PumpWaits(c)
                                \/ PumpEnds(c) \/ ClientCutOff(c) \/ ClientDies(c)
           \/ UNCHANGED pipeVars
    PROVE  PipeInv'
<1>1. restarts \in Nat /\ DOMAIN at = Client /\ (told # {} => updateRequested)
  BY DEF PipeInv
<1>2. CASE HostListens \/ HostReturns \/ ServiceExits
  BY <1>1, <1>2, WiresRest DEF HostListens, HostReturns, ServiceExits, shared
<1>3. CASE CountRestart
  BY <1>1, <1>3, WiresRest DEF CountRestart
<1>4. CASE TakeUpdateRequest \/ UpdateChecked
  BY <1>1, <1>4, WiresRest DEF TakeUpdateRequest, UpdateChecked
<1>5. ASSUME NEW c \in Client, PumpWaits(c) \/ PumpEnds(c)
      PROVE  PipeInv'
  BY <1>1, <1>5, WiresRest DEF PumpWaits, PumpEnds, shared
<1>6. ASSUME NEW c \in Client,
             Opens(c) \/ OpenBusy(c) \/ OpenRefused(c) \/ ClientCutOff(c) \/ ClientDies(c)
      PROVE  PipeInv'
  <2>1. /\ UNCHANGED <<asks, answer, wires, since, shared>> /\ DOMAIN at' = Client
        /\ \A x \in Client : \/ at'[x] = at[x]
                             \/ at'[x] \notin {"idle", "connected", "answered"}
                             \/ at[x] = "idle" /\ at'[x] = "connected"
    BY <1>1, <1>6 DEF Opens, OpenBusy, OpenRefused, ClientCutOff, ClientDies
  <2> QED
    BY <1>1, <2>1, WiresRest DEF shared
<1>7. CASE UNCHANGED pipeVars
  <2>1. UNCHANGED <<asks, answer, wires, since, restarts, at, told, updateRequested>>
    BY <1>7 DEF pipeVars, wires
  <2> QED
    BY <1>1, <2>1, WiresRest
<1> QED
  BY <1>2, <1>3, <1>4, <1>5, <1>6, <1>7

\* A step of client c's connection leaves the other clients as they were.
LEMMA OthersRest ==
    ASSUME PipeInv, NEW c \in Client, UNCHANGED <<asks, restarts>>,
           \A x \in Client \ {c} :
               /\ at'[x] = at[x] /\ answer'[x] = answer[x] /\ since'[x] = since[x]
               /\ inbound'[x] = inbound[x] /\ reader'[x] = reader[x]
               /\ outbound'[x] = outbound[x] /\ creader'[x] = creader[x],
           DOMAIN at' = Client, DOMAIN answer' = Client, DOMAIN since' = Client,
           DOMAIN inbound' = Client, DOMAIN outbound' = Client,
           DOMAIN reader' = Client, DOMAIN creader' = Client,
           ClientInv(c)', told' # {} => updateRequested'
    PROVE  PipeInv'
<1>1. restarts' \in Nat /\ restarts' >= restarts
  BY DEF PipeInv
<1>2. \A x \in Client \ {c} : ClientInv(x)'
  BY <1>1, ClientRests
<1> QED
  BY <1>1, <1>2 DEF PipeInv

\* A request is written when nothing is under way.
LEMMA SendsKeeps ==
    ASSUME PipeInv, NEW c \in Client, Sends(c)
    PROVE  PipeInv'
<1>1. /\ ClientInv(c) /\ at[c] = "connected" /\ restarts \in Nat
      /\ inbound[c] = <<>> /\ reader[c] = <<>> /\ outbound[c] = <<>> /\ creader[c] = <<>>
  BY DEF PipeInv, ClientInv, Sends
<1>2. /\ asks' = asks /\ restarts' = restarts /\ at'[c] \in {"failed", "waiting"}
      /\ since'[c] = restarts /\ UNCHANGED <<outbound, reader, creader, answer, shared>>
      /\ DOMAIN at' = Client /\ DOMAIN since' = Client /\ DOMAIN inbound' = Client
  BY DEF Sends, shared, PipeInv
<1> DEFINE query == [t |-> asks[c], restarts |-> 0]
<1>3. inbound'[c] \in {<<>>, <<>> \o Encode(query)}
  BY <1>1 DEF Sends, PipeInv
<1>4. Encode(query) \in Seq(Cells(Queries(c)))
  BY EncodeCells DEF Queries
<1>5. inbound'[c] \in Seq(Cells(Queries(c)))
  <2>1. <<>> \in Seq(Cells(Queries(c)))
    OBVIOUS
  <2> HIDE DEF query
  <2>2. <<>> \o Encode(query) \in Seq(Cells(Queries(c)))
    BY <1>4, <2>1, ConcatProperties
  <2> QED
    BY <1>3, <2>1, <2>2
<1>6. Queries(c)' = Queries(c)
  BY <1>2 DEF Queries
<1>7. ClientInv(c)'
  <2>1. asks'[c] \in Request /\ since'[c] \in Nat /\ since'[c] <= restarts'
    BY <1>1, <1>2 DEF ClientInv
  <2>2. (inbound[c] \in Seq(Cells(Queries(c))))'
    BY <1>5, <1>6 DEF Cells
  <2>3. reader'[c] = <<>> /\ outbound'[c] = <<>> /\ creader'[c] = <<>>
    BY <1>1, <1>2
  <2> QED
    BY <1>2, <2>1, <2>2, <2>3 DEF ClientInv
<1>8. \A x \in Client \ {c} : /\ at'[x] = at[x] /\ since'[x] = since[x] /\ inbound'[x] = inbound[x]
  BY DEF Sends, PipeInv
<1> QED
  BY <1>2, <1>7, <1>8, OthersRest DEF PipeInv, shared

\* A read of any length moves cells of the request into the reader.
LEMMA PumpReadsKeeps ==
    ASSUME PipeInv, NEW c \in Client, PumpReads(c)
    PROVE  PipeInv'
<1>1. ClientInv(c)
  BY DEF PipeInv
<1>2. PICK n \in 1..Len(inbound[c]) :
          /\ reader' = [reader EXCEPT ![c] = @ \o SubSeq(inbound[c], 1, n)]
          /\ inbound' = [inbound EXCEPT ![c] = SubSeq(@, n + 1, Len(@))]
  BY DEF PumpReads
<1>3. /\ reader'[c] = reader[c] \o SubSeq(inbound[c], 1, n)
      /\ inbound'[c] = SubSeq(inbound[c], n + 1, Len(inbound[c]))
      /\ DOMAIN reader' = Client /\ DOMAIN inbound' = Client
      /\ \A x \in Client \ {c} : reader'[x] = reader[x] /\ inbound'[x] = inbound[x]
  BY <1>2 DEF PipeInv
<1>4. UNCHANGED <<at, asks, answer, outbound, creader, since, restarts, told, updateRequested>>
  BY DEF PumpReads, shared
<1>5. at[c] \notin {"idle", "connected"}
  <2>1. inbound[c] # <<>>
    BY <1>2
  <2> QED
    BY <1>1, <2>1 DEF ClientInv
<1>6. /\ SubSeq(inbound[c], 1, n) \in Seq(Cells(Queries(c)))
      /\ SubSeq(inbound[c], n + 1, Len(inbound[c])) \in Seq(Cells(Queries(c)))
  BY <1>1, ReadCut DEF ClientInv
<1>7. reader'[c] \in Seq(Cells(Queries(c))) /\ inbound'[c] \in Seq(Cells(Queries(c)))
  <2>1. reader[c] \in Seq(Cells(Queries(c)))
    BY <1>1 DEF ClientInv
  <2>2. reader[c] \o SubSeq(inbound[c], 1, n) \in Seq(Cells(Queries(c)))
    BY <1>6, <2>1, ConcatProperties
  <2> QED
    BY <1>3, <1>6, <2>2
<1>8. (inbound[c] \in Seq(Cells(Queries(c))) /\ reader[c] \in Seq(Cells(Queries(c))))'
  BY <1>4, <1>7 DEF Queries, Cells
<1>9. (outbound[c] \in Seq(Cells(Replies(c))) /\ creader[c] \in Seq(Cells(Replies(c))))'
  BY <1>1, <1>4 DEF ClientInv, Replies, Cells
<1>10. (at[c] = "answered" => answer[c] \in Replies(c))'
  BY <1>1, <1>4 DEF ClientInv, Replies
<1>11. ClientInv(c)'
  BY <1>1, <1>4, <1>5, <1>8, <1>9, <1>10 DEF ClientInv
<1> QED
  BY <1>3, <1>4, <1>11, OthersRest DEF PipeInv

\* The request is handled: the reply is its client's own.
LEMMA PumpHandlesKeeps ==
    ASSUME PipeInv, NEW c \in Client, PumpHandles(c)
    PROVE  PipeInv'
<1> DEFINE f == NextFrame(reader[c])
<1>1. ClientInv(c)
  BY DEF PipeInv
<1>2. /\ f.is = "frame"
      /\ reader' = [reader EXCEPT ![c] = f.rest]
      /\ updateRequested' = (updateRequested \/ f.msg.t = "RequestUpdateCheck")
      /\ told' = IF f.msg.t = "RequestUpdateCheck" THEN told \cup {c} ELSE told
      /\ outbound' = [outbound EXCEPT ![c] =
                         IF Closed(c) THEN @ ELSE @ \o Encode(Response(f.msg))]
      /\ UNCHANGED <<at, asks, answer, inbound, creader, restarts, since>>
  BY DEF PumpHandles
<1>3. f.rest \in Seq(Cells(Queries(c))) /\ f.msg \in Queries(c) /\ reader[c] # <<>>
  BY <1>1, <1>2, FrameCut DEF ClientInv
<1> DEFINE reply == Response(f.msg)
           rest == f.rest
<1>4. reply \in Replies(c)
  BY <1>3, ResponseIsReply
<1>5. told' # {} => updateRequested'
  BY <1>2 DEF PipeInv
<1>6. reader' = [reader EXCEPT ![c] = rest] /\ rest \in Seq(Cells(Queries(c)))
  BY <1>2, <1>3
<1>7. outbound' = [outbound EXCEPT ![c] = IF Closed(c) THEN @ ELSE @ \o Encode(reply)]
  BY <1>2
<1> HIDE DEF f, reply, rest
<1>8. /\ reader'[c] = rest /\ DOMAIN reader' = Client
      /\ \A x \in Client \ {c} : reader'[x] = reader[x]
  BY <1>6 DEF PipeInv
<1>9. /\ outbound'[c] \in {outbound[c], outbound[c] \o Encode(reply)} /\ DOMAIN outbound' = Client
      /\ \A x \in Client \ {c} : outbound'[x] = outbound[x]
  BY <1>7 DEF PipeInv
<1>10. outbound'[c] \in Seq(Cells(Replies(c)))
  <2>1. Encode(reply) \in Seq(Cells(Replies(c))) /\ outbound[c] \in Seq(Cells(Replies(c)))
    BY <1>1, <1>4, EncodeCells DEF ClientInv
  <2>2. outbound[c] \o Encode(reply) \in Seq(Cells(Replies(c)))
    BY <2>1, ConcatProperties
  <2> QED
    BY <1>9, <2>1, <2>2
<1>11. at[c] \notin {"idle", "connected"}
  BY <1>1, <1>3 DEF ClientInv
<1>12. UNCHANGED <<at, asks, answer, inbound, creader, restarts, since>>
  BY <1>2
<1>13. (inbound[c] \in Seq(Cells(Queries(c))) /\ reader[c] \in Seq(Cells(Queries(c))))'
  BY <1>1, <1>6, <1>8, <1>12 DEF ClientInv, Queries, Cells
<1>14. (outbound[c] \in Seq(Cells(Replies(c))) /\ creader[c] \in Seq(Cells(Replies(c))))'
  BY <1>1, <1>10, <1>12 DEF ClientInv, Replies, Cells
<1>15. (at[c] = "answered" => answer[c] \in Replies(c))'
  BY <1>1, <1>12 DEF ClientInv, Replies
<1>16. ClientInv(c)'
  BY <1>1, <1>11, <1>12, <1>13, <1>14, <1>15 DEF ClientInv
<1> QED
  BY <1>5, <1>8, <1>9, <1>12, <1>16, OthersRest DEF PipeInv

\* The client takes any part of a reply, and returns the first whole frame.
LEMMA ClientReadsKeeps ==
    ASSUME PipeInv, NEW c \in Client, ClientReads(c)
    PROVE  PipeInv'
<1>1. ClientInv(c)
  BY DEF PipeInv
<1>2. PICK n \in 1..Len(outbound[c]) :
          LET f == NextFrame(creader[c] \o SubSeq(outbound[c], 1, n)) IN
          /\ outbound' = [outbound EXCEPT ![c] = SubSeq(@, n + 1, Len(@))]
          /\ creader' = [creader EXCEPT ![c] = f.rest]
          /\ at' = [at EXCEPT ![c] = CASE f.is = "none" -> "waiting"
                                       [] f.is = "error" -> "failed"
                                       [] OTHER -> "answered"]
          /\ answer' = [answer EXCEPT ![c] = IF f.is = "frame" THEN f.msg ELSE @]
  BY DEF ClientReads
<1> DEFINE buf == creader[c] \o SubSeq(outbound[c], 1, n)
           is == NextFrame(buf).is
           rest == NextFrame(buf).rest
           msg == NextFrame(buf).msg
<1>3. /\ SubSeq(outbound[c], 1, n) \in Seq(Cells(Replies(c)))
      /\ SubSeq(outbound[c], n + 1, Len(outbound[c])) \in Seq(Cells(Replies(c)))
  BY <1>1, ReadCut DEF ClientInv
<1>4. buf \in Seq(Cells(Replies(c)))
  BY <1>1, <1>3, ConcatProperties DEF ClientInv
<1>5. outbound' = [outbound EXCEPT ![c] = SubSeq(outbound[c], n + 1, Len(outbound[c]))]
  BY <1>2
<1>6. creader' = [creader EXCEPT ![c] = rest]
  BY <1>2
<1>7. at' = [at EXCEPT ![c] = CASE is = "none" -> "waiting" [] is = "error" -> "failed"
                                [] OTHER -> "answered"]
  BY <1>2
<1>8. answer' = [answer EXCEPT ![c] = IF is = "frame" THEN msg ELSE answer[c]]
  BY <1>2
<1>9. is \in {"none", "error", "frame"}
  BY DEF NextFrame, NoFrame
<1> HIDE DEF buf
<1>10. rest \in Seq(Cells(Replies(c))) /\ (is = "frame" => msg \in Replies(c))
  BY <1>4, FrameCut
<1> HIDE DEF is, rest, msg
<1>11. /\ outbound'[c] \in Seq(Cells(Replies(c))) /\ creader'[c] \in Seq(Cells(Replies(c)))
       /\ at'[c] \notin {"idle", "connected"}
       /\ at'[c] = "answered" => answer'[c] \in Replies(c)
  BY <1>3, <1>5, <1>6, <1>7, <1>8, <1>9, <1>10 DEF PipeInv
<1>12. UNCHANGED <<asks, inbound, reader, restarts, since, told, updateRequested>>
  BY DEF ClientReads, shared
<1>13. /\ DOMAIN outbound' = Client /\ DOMAIN creader' = Client /\ DOMAIN at' = Client
       /\ DOMAIN answer' = Client
       /\ \A x \in Client \ {c} : /\ outbound'[x] = outbound[x] /\ creader'[x] = creader[x]
                                  /\ at'[x] = at[x] /\ answer'[x] = answer[x]
  BY <1>5, <1>6, <1>7, <1>8 DEF PipeInv
<1>14. (inbound[c] \in Seq(Cells(Queries(c))) /\ reader[c] \in Seq(Cells(Queries(c))))'
  BY <1>1, <1>12 DEF ClientInv, Queries, Cells
<1>15. (outbound[c] \in Seq(Cells(Replies(c))) /\ creader[c] \in Seq(Cells(Replies(c))))'
  BY <1>11, <1>12 DEF Replies, Cells
<1>16. (at[c] = "answered" => answer[c] \in Replies(c))'
  BY <1>11, <1>12 DEF Replies
<1>17. ClientInv(c)'
  BY <1>1, <1>11, <1>12, <1>14, <1>15, <1>16 DEF ClientInv
<1> QED
  BY <1>12, <1>13, <1>17, OthersRest DEF PipeInv

\* The pipe begins with every client idle.
LEMMA PipeStarts == PipeInit => PipeInv
<1> SUFFICES ASSUME PipeInit PROVE PipeInv
  OBVIOUS
<1>1. \A c \in Client : ClientInv(c)
  BY DEF PipeInit, ClientInv
<1> QED
  BY <1>1 DEF PipeInit, PipeInv

\* Every step of the service's pump and of its clients keeps the pipe's invariant.
LEMMA PipeStep == PipeInv /\ [PipeNext]_pipeVars => PipeInv'
BY QuietStep, SendsKeeps, PumpReadsKeeps, PumpHandlesKeeps, ClientReadsKeeps DEF PipeNext

\* A client that gets an answer gets the one to its own request, with a restart count the
\* service held since it asked, and a promised update check is not forgotten (pipe.rs pump,
\* ipc.rs request, main.rs handle): however the bytes are split and whoever else is
\* connected, dies or is cut off.
THEOREM EveryRequestHonoured == PipeSpec => []RequestsHonoured
<1>1. PipeInv => RequestsHonoured
  BY DEF PipeInv, ClientInv, Replies, RequestsHonoured
<1> QED
  BY PipeStarts, PipeStep, <1>1, PTL DEF PipeSpec

-----------------------------------------------------------------------------
(***************************************************************************)
(* The voice activity detector.  Its counters are the lengths of the runs  *)
(* of frames that stand out, and of those that do not, up to now; what the *)
(* counters make of `voiced` is then a fact about sets of frame numbers.   *)
(***************************************************************************)

\* Of the frames 1..len those in A stand out: the last run of them is r long, the last
\* run of others q, and the detector should say voiced.
SpeechRun(A, len, r) ==
    r \in 0..len /\ (len - r + 1)..len \subseteq A /\ (r < len => len - r \notin A)
SilenceRun(A, len, q) ==
    q \in 0..len /\ (\A k \in (len - q + 1)..len : k \notin A) /\ (q < len => len - q \in A)
Voiced(A, len) ==
    \E i \in Onset..len :
        /\ \A k \in (i - Onset + 1)..i : k \in A
        /\ ~ \E s \in (i + 1)..len : /\ s + Hangover - 1 <= len
                                     /\ \A k \in s..(s + Hangover - 1) : k \notin A

\* One more frame that stands out: voiced goes on, or begins with the onset.
LEMMA VoicedOn ==
    ASSUME NEW len \in Nat, NEW A \in SUBSET (1..len), NEW r, SpeechRun(A, len, r)
    PROVE  Voiced(A \cup {len + 1}, len + 1) <=> Voiced(A, len) \/ r + 1 >= Onset
<1> USE VadParamsAssumption
<1> DEFINE B == A \cup {len + 1}
<1>1. /\ \A k \in Int : k <= len => (k \in B <=> k \in A)
      /\ len + 1 \in B /\ r \in Nat /\ r <= len
  BY DEF SpeechRun
<1> HIDE DEF B
<1>2. ASSUME Voiced(A, len) PROVE Voiced(B, len + 1)
  <2>1. PICK i \in Onset..len :
           /\ \A k \in (i - Onset + 1)..i : k \in A
           /\ ~ \E s \in (i + 1)..len : /\ s + Hangover - 1 <= len
                                        /\ \A k \in s..(s + Hangover - 1) : k \notin A
    BY <1>2 DEF Voiced
  <2>2. i \in Onset..(len + 1) /\ \A k \in (i - Onset + 1)..i : k \in B
    BY <1>1, <2>1
  <2>3. ASSUME NEW s \in (i + 1)..(len + 1), s + Hangover - 1 <= len + 1,
               \A k \in s..(s + Hangover - 1) : k \notin B
        PROVE  FALSE
    <3>1. CASE s + Hangover - 1 <= len
      <4>1. s \in (i + 1)..len
        BY <2>3, <3>1
      <4>2. \A k \in s..(s + Hangover - 1) : k \notin A
        BY <1>1, <2>3, <3>1
      <4> QED
        BY <2>1, <3>1, <4>1, <4>2
    <3>2. CASE s + Hangover - 1 = len + 1
      <4>1. len + 1 \in s..(s + Hangover - 1)
        BY <3>2
      <4> QED
        BY <1>1, <2>3, <4>1
    <3> QED
      BY <2>3, <3>1, <3>2
  <2> QED
    BY <2>2, <2>3 DEF Voiced
<1>3. ASSUME r + 1 >= Onset PROVE Voiced(B, len + 1)
  <2>1. len + 1 \in Onset..(len + 1)
    BY <1>1, <1>3
  <2>2. \A k \in (len + 1 - Onset + 1)..(len + 1) : k \in B
    <3> SUFFICES ASSUME NEW k \in (len + 1 - Onset + 1)..(len + 1) PROVE k \in B
      OBVIOUS
    <3>1. k <= len => k \in (len - r + 1)..len
      BY <1>1, <1>3
    <3> QED
      BY <1>1, <3>1 DEF SpeechRun
  <2>3. ~ \E s \in (len + 1 + 1)..(len + 1) : TRUE
    OBVIOUS
  <2> QED
    BY <2>1, <2>2, <2>3 DEF Voiced
<1>4. ASSUME Voiced(B, len + 1), ~(r + 1 >= Onset) PROVE Voiced(A, len)
  <2>1. PICK i \in Onset..(len + 1) :
           /\ \A k \in (i - Onset + 1)..i : k \in B
           /\ ~ \E s \in (i + 1)..(len + 1) : /\ s + Hangover - 1 <= len + 1
                                              /\ \A k \in s..(s + Hangover - 1) : k \notin B
    BY <1>4 DEF Voiced
  <2>2. i # len + 1
    <3> SUFFICES ASSUME i = len + 1 PROVE FALSE
      OBVIOUS
    <3>1. len - r \in (i - Onset + 1)..i /\ len - r <= len /\ r < len
      BY <1>1, <1>4, <2>1
    <3>2. len - r \in A
      BY <1>1, <2>1, <3>1
    <3> QED
      BY <3>1, <3>2 DEF SpeechRun
  <2>3. i \in Onset..len /\ \A k \in (i - Onset + 1)..i : k \in A
    BY <1>1, <2>1, <2>2
  <2>4. ASSUME NEW s \in (i + 1)..len, s + Hangover - 1 <= len,
               \A k \in s..(s + Hangover - 1) : k \notin A
        PROVE  FALSE
    <3>1. s \in (i + 1)..(len + 1) /\ s + Hangover - 1 <= len + 1
      BY <2>4
    <3>2. \A k \in s..(s + Hangover - 1) : k \notin B
      BY <1>1, <2>4
    <3> QED
      BY <2>1, <3>1, <3>2
  <2> QED
    BY <2>3, <2>4 DEF Voiced
<1> QED
  BY <1>2, <1>3, <1>4 DEF B

\* One more frame that does not: voiced ends with the hangover.
LEMMA VoicedOff ==
    ASSUME NEW len \in Nat, NEW A \in SUBSET (1..len), NEW q, SilenceRun(A, len, q)
    PROVE  Voiced(A, len + 1) <=> Voiced(A, len) /\ q + 1 < Hangover
<1> USE VadParamsAssumption
<1>1. len + 1 \notin A /\ q \in Nat /\ q <= len
  BY DEF SilenceRun
<1>2. ASSUME Voiced(A, len), q + 1 < Hangover PROVE Voiced(A, len + 1)
  <2>1. PICK i \in Onset..len :
           /\ \A k \in (i - Onset + 1)..i : k \in A
           /\ ~ \E s \in (i + 1)..len : /\ s + Hangover - 1 <= len
                                        /\ \A k \in s..(s + Hangover - 1) : k \notin A
    BY <1>2 DEF Voiced
  <2>2. i \in Onset..(len + 1)
    BY <2>1
  <2>3. ASSUME NEW s \in (i + 1)..(len + 1), s + Hangover - 1 <= len + 1,
               \A k \in s..(s + Hangover - 1) : k \notin A
        PROVE  FALSE
    <3>1. CASE s + Hangover - 1 <= len
      <4>1. s \in (i + 1)..len
        BY <2>3, <3>1
      <4> QED
        BY <2>1, <2>3, <3>1, <4>1
    <3>2. CASE s + Hangover - 1 = len + 1
      <4>1. len - q \in s..(s + Hangover - 1) /\ q < len
        BY <1>1, <1>2, <2>1, <2>3, <3>2
      <4> QED
        BY <2>3, <4>1 DEF SilenceRun
    <3> QED
      BY <2>3, <3>1, <3>2
  <2> QED
    BY <2>1, <2>2, <2>3 DEF Voiced
<1>3. ASSUME Voiced(A, len + 1) PROVE Voiced(A, len) /\ q + 1 < Hangover
  <2>1. PICK i \in Onset..(len + 1) :
           /\ \A k \in (i - Onset + 1)..i : k \in A
           /\ ~ \E s \in (i + 1)..(len + 1) : /\ s + Hangover - 1 <= len + 1
                                              /\ \A k \in s..(s + Hangover - 1) : k \notin A
    BY <1>3 DEF Voiced
  <2>2. i \in A /\ i # len + 1 /\ i \in Nat
    <3>1. i \in (i - Onset + 1)..i
      OBVIOUS
    <3> QED
      BY <1>1, <2>1, <3>1
  <2>3. i \in Onset..len
    BY <2>1, <2>2
  <2>4. ASSUME NEW s \in (i + 1)..len, s + Hangover - 1 <= len,
               \A k \in s..(s + Hangover - 1) : k \notin A
        PROVE  FALSE
    <3>1. s \in (i + 1)..(len + 1) /\ s + Hangover - 1 <= len + 1
      BY <2>4
    <3> QED
      BY <2>1, <2>4, <3>1
  <2>5. Voiced(A, len)
    BY <2>1, <2>3, <2>4 DEF Voiced
  <2>6. q + 1 < Hangover
    <3> SUFFICES ASSUME ~(q + 1 < Hangover) PROVE FALSE
      BY <1>1
    <3> DEFINE s == len + 1 - Hangover + 1
    <3>1. s + Hangover - 1 = len + 1 /\ s \in Int /\ s <= len + 1 /\ s >= len - q + 1
      BY <1>1
    <3>2. s > i
      <4> SUFFICES ASSUME s <= i PROVE FALSE
        BY <3>1, <2>3
      <4>1. i \in (len - q + 1)..len
        BY <1>1, <2>3, <3>1
      <4> QED
        BY <2>2, <4>1 DEF SilenceRun
    <3> HIDE DEF s
    <3>3. \A k \in s..(s + Hangover - 1) : k \notin A
      <4> SUFFICES ASSUME NEW k \in s..(s + Hangover - 1) PROVE k \notin A
        OBVIOUS
      <4>1. k = len + 1 \/ k \in (len - q + 1)..len
        BY <1>1, <3>1
      <4> QED
        BY <1>1, <4>1 DEF SilenceRun
    <3>4. s \in (i + 1)..(len + 1)
      BY <2>3, <3>1, <3>2
    <3> QED
      BY <2>1, <3>1, <3>3, <3>4
  <2> QED
    BY <2>5, <2>6
<1> QED
  BY <1>2, <1>3

\* The minimum over a window of levels.
LEMMA LowestIn ==
    ASSUME NEW w \in Seq(Nat), w # <<>>
    PROVE  /\ Lowest(w) \in Nat
           /\ \E i \in 1..Len(w) : w[i] = Lowest(w)
           /\ \A i \in 1..Len(w) : Lowest(w) <= w[i]
<1> DEFINE T == {w[i] : i \in DOMAIN w}
           less == {ss \in Nat \X Nat : ss[1] < ss[2]}
<1>1. DOMAIN w = 1..Len(w) /\ Len(w) \in Nat /\ Len(w) >= 1
  OBVIOUS
<1>2. T \subseteq Nat /\ T # {}
  BY <1>1
<1>3. PICK x \in T : \A y \in T : ~(<<y, x>> \in less)
  <2>1. IsWellFoundedOn(less, Nat)
    BY NatLessThanWellFounded, Zenon DEF OpToRel
  <2> HIDE DEF T, less
  <2> QED
    BY <1>2, <2>1, WFMin
<1>4. x \in T /\ \A y \in T : x =< y
  <2> SUFFICES ASSUME NEW y \in T PROVE x =< y
    BY <1>3
  <2>1. x \in Nat /\ y \in Nat
    BY <1>2, <1>3
  <2>2. ~(y < x)
    <3> SUFFICES ASSUME y < x PROVE <<y, x>> \in less
      BY <1>3
    <3> HIDE DEF T
    <3> QED
      BY <2>1
  <2> HIDE DEF T, less
  <2> QED
    BY <2>1, <2>2
<1> HIDE DEF less
<1>5. Min(T) \in T /\ \A y \in T : Min(T) =< y
  <2> HIDE DEF T
  <2> QED
    BY <1>4 DEF Min
<1>6. Lowest(w) = Min(T)
  BY DEF Lowest
<1> QED
  BY <1>1, <1>2, <1>5, <1>6

\* A frame, and the frames fed that stand out.
Frames == [level : 0..MaxLevel, voice : BOOLEAN]
Out == {k \in 1..Len(fed) : StandsOut(k)}

\* levels is the end of what was fed, at most a window of it.
WindowInv ==
    /\ levels \in Seq(0..MaxLevel)
    /\ Len(levels) = IF Len(fed) < Window THEN Len(fed) ELSE Window
    /\ \A k \in 1..Len(levels) : levels[k] = fed[Len(fed) - Len(levels) + k].level

VadInv ==
    /\ fed \in Seq(Frames)
    /\ WindowInv
    /\ SpeechRun(Out, Len(fed), speechRun)
    /\ SilenceRun(Out, Len(fed), silenceRun)
    /\ voiced \in BOOLEAN
    /\ voiced <=> Voiced(Out, Len(fed))

\* push_frame keeps the window.
LEMMA WindowStep ==
    ASSUME VadInv, NEW f \in Frames, PushFrame(f)
    PROVE  /\ fed' \in Seq(Frames) /\ Len(fed') = Len(fed) + 1
           /\ \A i \in 1..Len(fed) : fed'[i] = fed[i]
           /\ fed'[Len(fed) + 1] = f
           /\ WindowInv'
<1> USE VadParamsAssumption
<1> DEFINE kept == IF Len(levels) = Window THEN Tail(levels) ELSE levels
           L == Len(fed)
<1>1. /\ fed' \in Seq(Frames) /\ Len(fed') = L + 1 /\ L \in Nat
      /\ \A i \in 1..L : fed'[i] = fed[i]
      /\ fed'[L + 1] = f
  BY AppendProperties DEF PushFrame, VadInv
<1>2. levels' = Append(kept, f.level) /\ f.level \in 0..MaxLevel
  BY DEF PushFrame, Frames
<1>3. /\ levels \in Seq(0..MaxLevel)
      /\ Len(levels) = IF L < Window THEN L ELSE Window
      /\ \A k \in 1..Len(levels) : levels[k] = fed[L - Len(levels) + k].level
  BY DEF VadInv, WindowInv
<1> HIDE DEF L
<1>4. /\ kept \in Seq(0..MaxLevel)
      /\ Len(kept) = IF L < Window THEN L ELSE Window - 1
      /\ \A k \in 1..Len(kept) : kept[k] = fed[L - Len(kept) + k].level
  <2>1. CASE Len(levels) = Window
    <3>1. levels # <<>> /\ Len(levels) >= 1 /\ L >= Window
      BY <1>1, <1>3, <2>1
    <3>2. kept = Tail(levels)
      BY <2>1
    <3> HIDE DEF kept
    <3>3. /\ kept \in Seq(0..MaxLevel) /\ Len(kept) = Len(levels) - 1
          /\ \A k \in 1..Len(kept) : kept[k] = levels[k + 1]
      BY <1>3, <3>1, <3>2, HeadTailProperties
    <3>4. ASSUME NEW k \in 1..Len(kept) PROVE kept[k] = fed[L - Len(kept) + k].level
      <4>1. k + 1 \in 1..Len(levels) /\ L - Len(levels) + (k + 1) = L - Len(kept) + k
        BY <1>1, <3>1, <3>3, <2>1
      <4> QED
        BY <1>3, <3>3, <4>1
    <3>5. Len(kept) = IF L < Window THEN L ELSE Window - 1
      BY <1>1, <2>1, <3>1, <3>3
    <3>6. kept \in Seq(0..MaxLevel)
      BY <3>3
    <3> QED
      BY <3>4, <3>5, <3>6
  <2>2. CASE Len(levels) # Window
    BY <1>1, <1>3, <2>2
  <2> QED
    BY <2>1, <2>2
<1> HIDE DEF kept
<1>5. /\ levels' \in Seq(0..MaxLevel) /\ Len(levels') = Len(kept) + 1
      /\ \A k \in 1..Len(kept) : levels'[k] = kept[k]
      /\ levels'[Len(kept) + 1] = f.level
  BY <1>2, <1>4, AppendProperties
<1>6. Len(levels') = IF Len(fed') < Window THEN Len(fed') ELSE Window
  BY <1>1, <1>4, <1>5
<1>7. ASSUME NEW k \in 1..Len(levels')
      PROVE  levels'[k] = fed'[Len(fed') - Len(levels') + k].level
  <2>1. CASE k = Len(kept) + 1
    <3>1. Len(fed') - Len(levels') + k = L + 1
      BY <1>1, <1>4, <1>5, <2>1
    <3> QED
      BY <1>1, <1>5, <2>1, <3>1
  <2>2. CASE k # Len(kept) + 1
    <3> DEFINE n == Len(kept)
    <3>1. n \in Nat /\ Len(levels') = n + 1
      BY <1>4, <1>5
    <3>2. k \in 1..(n + 1) /\ k # n + 1
      BY <1>7, <2>2, <3>1
    <3>3. k \in 1..Len(kept) /\ Len(fed') - Len(levels') + k = L - Len(kept) + k
      <4> HIDE DEF n
      <4>1. k \in 1..n /\ Len(fed') - Len(levels') + k = L - n + k
        BY <1>1, <3>1, <3>2
      <4> QED
        BY <4>1 DEF n
    <3>4. L - Len(kept) + k \in 1..L
      BY <1>1, <1>4, <3>3
    <3> QED
      BY <1>1, <1>4, <1>5, <3>3, <3>4
  <2> QED
    BY <2>1, <2>2
<1> QED
  BY <1>1, <1>5, <1>6, <1>7 DEF WindowInv, L

\* Whether the new frame is above the floor is whether it stands out of its window.
LEMMA StandsOutNow ==
    ASSUME VadInv, NEW f \in Frames, PushFrame(f), NEW e, e = Len(fed) + 1
    PROVE  StandsOut(e)' <=> f.voice /\ Loud(f.level, NoiseFloor(levels'))
<1> USE VadParamsAssumption
<1> DEFINE w == levels'
           n == Len(levels')
<1>1. fed' \in Seq(Frames) /\ Len(fed') = e /\ e \in Nat /\ e >= 1 /\ fed'[e] = f /\ WindowInv'
  BY WindowStep DEF VadInv
<1>2. /\ w \in Seq(0..MaxLevel) /\ n \in Nat /\ Len(w) = n
      /\ n = IF e < Window THEN e ELSE Window
      /\ \A k \in 1..n : w[k] = fed'[e - n + k].level
  BY <1>1 DEF WindowInv
<1>3. f.level \in Nat /\ \A j \in 1..e : fed'[j].level \in Nat
  <2>1. \A j \in 1..e : fed'[j] \in Frames
    BY <1>1
  <2> QED
    BY <2>1 DEF Frames
<1> HIDE DEF w, n
<1>r. e \in Nat /\ n \in Nat /\ Window \in Nat /\ n <= e /\ n <= Window /\ (n < e => n = Window)
  BY <1>1, <1>2
<1>4. w \in Seq(Nat) /\ w # <<>>
  <2>1. w \in [1..Len(w) -> Nat] /\ Len(w) >= 1
    BY <1>1, <1>2
  <2> QED
    BY <1>2, <2>1, SeqDef
<1>5. /\ Lowest(w) \in Nat
      /\ \E i \in 1..n : w[i] = Lowest(w)
      /\ \A i \in 1..n : Lowest(w) <= w[i]
  BY <1>2, <1>4, LowestIn
<1>6. NoiseFloor(w) = Lowest(w)
  BY <1>5 DEF NoiseFloor, Larger, AbsoluteFloor
<1>7. (f.level > Lowest(w) + Margin)
      <=> \E j \in 1..e : j + Window > e /\ fed'[j].level + Margin < f.level
  <2>1. ASSUME f.level > Lowest(w) + Margin
        PROVE  \E j \in 1..e : j + Window > e /\ fed'[j].level + Margin < f.level
    <3>1. PICK i \in 1..n : w[i] = Lowest(w)
      BY <1>5
    <3> DEFINE j == e - n + i
    <3>i. i \in Nat /\ 1 <= i /\ i <= n
      BY <1>r
    <3>2. j \in 1..e /\ j + Window > e
      BY <1>r, <3>i
    <3>3. fed'[j].level = Lowest(w)
      BY <1>2, <3>1
    <3>4. fed'[j].level + Margin < f.level
      BY <1>3, <1>5, <2>1, <3>3
    <3> HIDE DEF j
    <3> QED
      BY <3>2, <3>4
  <2>2. ASSUME NEW j \in 1..e, j + Window > e, fed'[j].level + Margin < f.level
        PROVE  f.level > Lowest(w) + Margin
    <3> DEFINE i == j - (e - n)
    <3>j. j \in Nat /\ 1 <= j /\ j <= e
      BY <1>r
    <3>1. i \in 1..n /\ e - n + i = j
      BY <1>r, <2>2, <3>j
    <3> HIDE DEF i
    <3>2. w[i] = fed'[j].level /\ Lowest(w) <= w[i]
      BY <1>2, <1>5, <3>1
    <3> QED
      BY <1>3, <1>5, <2>2, <3>2
  <2> QED
    BY <2>1, <2>2
<1>8. Loud(f.level, NoiseFloor(w)) <=> f.level > 0 /\ f.level > Lowest(w) + Margin
  BY <1>6 DEF Loud, AbsoluteFloor
<1>9. StandsOut(e)' <=> /\ f.voice /\ f.level > 0
                        /\ \E j \in 1..e : j + Window > e /\ fed'[j].level + Margin < f.level
  BY <1>1 DEF StandsOut
<1> QED
  BY <1>7, <1>8, <1>9 DEF w

\* The frames fed before stand out as they did.
LEMMA OutStep ==
    ASSUME VadInv, NEW f \in Frames, PushFrame(f)
    PROVE  /\ Out \in SUBSET (1..Len(fed))
           /\ Out' = IF f.voice /\ Loud(f.level, NoiseFloor(levels'))
                     THEN Out \cup {Len(fed) + 1} ELSE Out
<1>1. /\ Len(fed') = Len(fed) + 1 /\ Len(fed) \in Nat
      /\ \A i \in 1..Len(fed) : fed'[i] = fed[i]
  BY WindowStep DEF VadInv
<1>2. ASSUME NEW i \in 1..Len(fed) PROVE StandsOut(i)' <=> StandsOut(i)
  <2>1. \A j \in 1..i : fed'[j] = fed[j]
    BY <1>1
  <2>2. fed'[i] = fed[i]
    BY <1>1
  <2> QED
    BY <2>1, <2>2 DEF StandsOut
<1>3. ASSUME NEW e, e = Len(fed) + 1
      PROVE  StandsOut(e)' <=> f.voice /\ Loud(f.level, NoiseFloor(levels'))
  BY <1>3, StandsOutNow
<1>4. ASSUME NEW k
      PROVE  k \in Out' <=> \/ k \in Out
                            \/ /\ k = Len(fed) + 1
                               /\ f.voice /\ Loud(f.level, NoiseFloor(levels'))
  <2>1. k \in Out' <=> k \in 1..Len(fed') /\ StandsOut(k)'
    BY DEF Out
  <2>2. k \in 1..Len(fed') <=> k \in 1..Len(fed) \/ k = Len(fed) + 1
    BY <1>1
  <2>3. CASE k \in 1..Len(fed)
    BY <1>1, <1>2, <2>1, <2>2, <2>3 DEF Out
  <2>4. CASE k = Len(fed) + 1
    BY <1>1, <1>3, <2>1, <2>2, <2>4 DEF Out
  <2> QED
    BY <2>1, <2>2, <2>3, <2>4 DEF Out
<1>5. Out \in SUBSET (1..Len(fed))
  BY DEF Out
<1> DEFINE new == f.voice /\ Loud(f.level, NoiseFloor(levels'))
           S == Out'
<1>6. \A k : k \in S <=> k \in Out \/ (k = Len(fed) + 1 /\ new)
  BY <1>4
<1> HIDE DEF new, S
<1>7. S = IF new THEN Out \cup {Len(fed) + 1} ELSE Out
  BY <1>6
<1> QED
  BY <1>5, <1>7 DEF new, S

\* push_frame keeps the invariant.
LEMMA FrameStep ==
    ASSUME VadInv, NEW f \in Frames, PushFrame(f)
    PROVE  VadInv'
<1> USE VadParamsAssumption
<1> DEFINE L == Len(fed)
           kept == IF Len(levels) = Window THEN Tail(levels) ELSE levels
           speechlike == f.voice /\ Loud(f.level, NoiseFloor(Append(kept, f.level)))
<1>1. /\ fed' \in Seq(Frames) /\ Len(fed') = L + 1 /\ L \in Nat /\ WindowInv'
  BY WindowStep DEF VadInv
<1>2. /\ levels' = Append(kept, f.level)
      /\ speechRun' = IF speechlike THEN speechRun + 1 ELSE 0
      /\ silenceRun' = IF speechlike THEN 0 ELSE silenceRun + 1
      /\ voiced' = IF speechlike THEN voiced \/ speechRun' >= Onset
                   ELSE voiced /\ silenceRun' < Hangover
  BY DEF PushFrame
<1>3. speechlike <=> f.voice /\ Loud(f.level, NoiseFloor(levels'))
  BY <1>2
<1> HIDE DEF speechlike, kept
<1>4. Out \in SUBSET (1..L) /\ Out' = IF speechlike THEN Out \cup {L + 1} ELSE Out
  BY <1>3, OutStep
<1>5. /\ SpeechRun(Out, L, speechRun) /\ SilenceRun(Out, L, silenceRun)
      /\ voiced \in BOOLEAN /\ (voiced <=> Voiced(Out, L))
      /\ speechRun \in 0..L /\ silenceRun \in 0..L
  BY DEF VadInv, SpeechRun, SilenceRun
<1>6. CASE speechlike
  <2>1. SpeechRun(Out', L + 1, speechRun + 1)
    BY <1>1, <1>4, <1>5, <1>6 DEF SpeechRun
  <2>2. SilenceRun(Out', L + 1, 0)
    BY <1>1, <1>4, <1>6 DEF SilenceRun
  <2>3. Voiced(Out \cup {L + 1}, L + 1) <=> Voiced(Out, L) \/ speechRun + 1 >= Onset
    BY <1>1, <1>4, <1>5, VoicedOn
  <2>4. voiced' \in BOOLEAN /\ (voiced' <=> Voiced(Out', L + 1))
    BY <1>2, <1>4, <1>5, <1>6, <2>3
  <2> QED
    BY <1>1, <1>2, <1>6, <2>1, <2>2, <2>4 DEF VadInv, SpeechRun, SilenceRun, Voiced
<1>7. CASE ~speechlike
  <2>1. SpeechRun(Out', L + 1, 0)
    BY <1>1, <1>4, <1>7 DEF SpeechRun
  <2>2. SilenceRun(Out', L + 1, silenceRun + 1)
    BY <1>1, <1>4, <1>5, <1>7 DEF SilenceRun
  <2>3. Voiced(Out, L + 1) <=> Voiced(Out, L) /\ silenceRun + 1 < Hangover
    BY <1>1, <1>4, <1>5, VoicedOff
  <2>4. voiced' \in BOOLEAN /\ (voiced' <=> Voiced(Out', L + 1))
    BY <1>2, <1>4, <1>5, <1>7, <2>3
  <2> QED
    BY <1>1, <1>2, <1>7, <2>1, <2>2, <2>4 DEF VadInv, SpeechRun, SilenceRun, Voiced
<1> QED
  BY <1>6, <1>7

\* The detector begins with nothing fed and nothing counted.
LEMMA VadStarts == VadInit => VadInv
<1> SUFFICES ASSUME VadInit PROVE VadInv
  OBVIOUS
<1>1. Len(fed) = 0 /\ Len(levels) = 0 /\ Out = {} /\ fed \in Seq(Frames)
      /\ levels \in Seq(0..MaxLevel)
  BY DEF VadInit, Out
<1>2. ~Voiced(Out, 0)
  BY VadParamsAssumption DEF Voiced
<1>3. WindowInv
  BY <1>1, VadParamsAssumption DEF WindowInv
<1>4. SpeechRun(Out, 0, 0) /\ SilenceRun(Out, 0, 0)
  BY DEF SpeechRun, SilenceRun
<1> QED
  BY <1>1, <1>2, <1>3, <1>4 DEF VadInit, VadInv

\* Every frame keeps the detector's invariant.
LEMMA VadStep == VadInv /\ [VadNext]_vadVars => VadInv'
<1> SUFFICES ASSUME VadInv, [VadNext]_vadVars PROVE VadInv'
  OBVIOUS
<1>1. CASE VadNext
  BY <1>1, FrameStep DEF VadNext, Frames
<1>2. CASE UNCHANGED vadVars
  BY <1>2, ZenonT(40) DEF vadVars, VadInv, WindowInv, Out, StandsOut, SpeechRun, SilenceRun, Voiced
<1> QED
  BY <1>1, <1>2

\* The detector says "voiced" exactly when an onset was heard and no hangover since
\* (vad.rs push_frame), for every window, margin, onset and hangover and every sequence
\* of frames.
THEOREM VoicedMeansSpeech == VadSpec => []VoicedIsSpeech
<1>1. VadInv => VoicedIsSpeech
  <2> SUFFICES ASSUME VadInv PROVE VoicedIsSpeech
    OBVIOUS
  <2>1. \A k \in 1..Len(fed) : k \in Out <=> StandsOut(k)
    BY DEF Out
  <2>2. Len(fed) \in Nat
    BY DEF VadInv
  <2>3. \A i \in Onset..Len(fed) : \A k \in (i - Onset + 1)..i : k \in Out <=> StandsOut(k)
    BY <2>1, <2>2, VadParamsAssumption
  <2>4. \A i \in Onset..Len(fed) : \A s \in (i + 1)..Len(fed) :
           s + Hangover - 1 <= Len(fed)
           => \A k \in s..(s + Hangover - 1) : k \in Out <=> StandsOut(k)
    BY <2>1, <2>2, VadParamsAssumption
  <2>5. Voiced(Out, Len(fed)) <=>
          \E i \in Onset..Len(fed) :
            /\ \A k \in (i - Onset + 1)..i : StandsOut(k)
            /\ ~ \E s \in (i + 1)..Len(fed) :
                  /\ s + Hangover - 1 <= Len(fed)
                  /\ \A k \in s..(s + Hangover - 1) : ~StandsOut(k)
    BY <2>3, <2>4 DEF Voiced
  <2> QED
    BY <2>5, Zenon DEF VadInv, VoicedIsSpeech
<1> QED
  BY VadStarts, VadStep, <1>1, PTL DEF VadSpec

-----------------------------------------------------------------------------
(***************************************************************************)
(* The telemetry exporter.  What the threads emitted is the stream of      *)
(* requests, batch and queue together with what was dropped; the drops not *)
(* counted yet are the newest record of each refused thread, so whatever a *)
(* request shows, the dropped records behind it have been counted.         *)
(***************************************************************************)

\* A record, with the attribute of any thread.
Records == [from : Emitter, n : Nat, attribute : {Visit(FieldOf[e]) : e \in Emitter}]

\* What a stream s of records and the dropped records g hold of the em[e] records each
\* thread e has emitted: all of them, each once and in one of the two, in order.
Orderly(s, g, em) ==
    /\ s \in Seq(Records) /\ g \in SUBSET Records /\ em \in [Emitter -> Nat]
    /\ \A i \in 1..Len(s) : s[i].n <= em[s[i].from]
    /\ \A d \in g : d.n <= em[d.from]
    /\ \A i, j \in 1..Len(s) : i < j /\ s[i].from = s[j].from => s[i].n < s[j].n
    /\ \A e \in Emitter : \A n \in 1..em[e] :
          (\E i \in 1..Len(s) : s[i].from = e /\ s[i].n = n)
             <=> ~ \E d \in g : d.from = e /\ d.n = n

\* The dropped records that came before one of the first u of s in the same thread.
Before(g, s, u) == {d \in g : \E r \in {s[j] : j \in 1..u} : r.from = d.from /\ r.n > d.n}

\* A drop is counted, or its thread is about to count it and has emitted nothing since.
DropInv ==
    /\ IsFiniteSet(gone) /\ IsFiniteSet(refused) /\ refused \in SUBSET Emitter
    /\ dropped \in Nat
    /\ Cardinality(gone) = dropped + Cardinality(refused)
    /\ \A e \in refused : \E d \in gone : d.from = e /\ d.n = emitted[e]

\* What is kept of a request.
Payloads == [upto : Nat, drops : Nat, total : Nat]

\* The requests have told of everything the exporter has read off the counter, and each of
\* them of everything missing in front of what it shows.
ReportInv ==
    /\ payloads \in Seq(Payloads) /\ reported \in Nat /\ reported <= dropped
    /\ reported = IF payloads = <<>> THEN 0 ELSE payloads[Len(payloads)].total
    /\ \A i \in 1..Len(payloads) :
          /\ payloads[i].upto <= Len(shipped)
          /\ payloads[i].total <= reported
          /\ payloads[i].total =
                payloads[i].drops + IF i = 1 THEN 0 ELSE payloads[i - 1].total
          /\ Cardinality(Before(gone, shipped, payloads[i].upto)) <= payloads[i].total

\* The inductive invariant of threads and exporter.
TelemetryInv ==
    /\ channel \in Seq(Records) /\ batch \in Seq(Records) /\ shipped \in Seq(Records)
    /\ Orderly(Stream, gone, emitted)
    /\ DropInv /\ ReportInv

\* What a record is.
LEMMA RecordFields == \A d \in Records : d.from \in Emitter /\ d.n \in Nat
BY DEF Records

\* The fields of a request.
LEMMA PayloadFields ==
    \A p \in Payloads : p.upto \in Nat /\ p.drops \in Nat /\ p.total \in Nat
BY DEF Payloads

\* The next record of a thread.
LEMMA RecordNext ==
    ASSUME NEW e \in Emitter, emitted \in [Emitter -> Nat]
    PROVE  Record(e) \in Records /\ Record(e).from = e /\ Record(e).n = emitted[e] + 1
BY DEF Record, Records

\* A thread's next record joins the stream.
LEMMA JoinsStream ==
    ASSUME NEW s, NEW g, NEW em, Orderly(s, g, em), NEW e \in Emitter,
           NEW r \in Records, r.from = e, r.n = em[e] + 1
    PROVE  Orderly(Append(s, r), g, [em EXCEPT ![e] = @ + 1])
<1> DEFINE t == Append(s, r)
           fm == [em EXCEPT ![e] = @ + 1]
<1>1. /\ s \in Seq(Records) /\ g \in SUBSET Records /\ em \in [Emitter -> Nat]
      /\ Len(s) \in Nat
  BY DEF Orderly
<1>2. /\ t \in Seq(Records) /\ Len(t) = Len(s) + 1
      /\ \A i \in 1..Len(s) : t[i] = s[i]
      /\ t[Len(s) + 1] = r
  BY <1>1
<1>3. /\ fm \in [Emitter -> Nat] /\ fm[e] = em[e] + 1
      /\ \A x \in Emitter : x # e => fm[x] = em[x]
      /\ \A x \in Emitter : em[x] <= fm[x] /\ em[x] \in Nat /\ fm[x] \in Nat
  BY <1>1
<1>4. /\ \A d \in Records : d.from \in Emitter /\ d.n \in Nat
      /\ \A i \in 1..Len(s) : s[i] \in Records
      /\ \A d \in g : d \in Records
  BY <1>1, RecordFields
<1> HIDE DEF t, fm
<1>5. \A i \in 1..Len(t) : i \in 1..Len(s) \/ i = Len(s) + 1
  BY <1>1, <1>2
<1>6. \A i \in 1..Len(t) : t[i].n <= fm[t[i].from]
  <2> TAKE i \in 1..Len(t)
  <2>1. ASSUME i \in 1..Len(s) PROVE t[i].n <= fm[t[i].from]
    <3>1. s[i].n <= em[s[i].from]
      BY <2>1 DEF Orderly
    <3>2. s[i].from \in Emitter /\ s[i].n \in Nat
      BY <1>4, <2>1
    <3> QED
      BY <1>2, <1>3, <2>1, <3>1, <3>2
  <2>2. ASSUME i = Len(s) + 1 PROVE t[i].n <= fm[t[i].from]
    BY <1>2, <1>3, <2>2
  <2> QED
    BY <1>5, <2>1, <2>2
<1>7. \A d \in g : d.n <= fm[d.from]
  <2> TAKE d \in g
  <2>1. d.n <= em[d.from]
    BY DEF Orderly
  <2>2. d.from \in Emitter /\ d.n \in Nat
    BY <1>4
  <2> QED
    BY <1>3, <2>1, <2>2
<1>8. \A i, j \in 1..Len(t) : i < j /\ t[i].from = t[j].from => t[i].n < t[j].n
  <2> TAKE i, j \in 1..Len(t)
  <2> HAVE i < j /\ t[i].from = t[j].from
  <2>1. i \in 1..Len(s)
    BY <1>1, <1>2
  <2>2. ASSUME j \in 1..Len(s) PROVE t[i].n < t[j].n
    <3>1. t[i] = s[i] /\ t[j] = s[j]
      BY <1>2, <2>1, <2>2
    <3> QED
      BY <2>1, <2>2, <3>1 DEF Orderly
  <2>3. ASSUME j = Len(s) + 1 PROVE t[i].n < t[j].n
    <3>1. t[i] = s[i] /\ t[j] = r
      BY <1>2, <2>1, <2>3
    <3>2. s[i].from = e
      BY <3>1
    <3>3. s[i].n <= em[e] /\ s[i].n \in Nat /\ em[e] \in Nat
      BY <1>3, <1>4, <2>1, <3>2 DEF Orderly
    <3> QED
      BY <3>1, <3>3
  <2> QED
    BY <1>5, <2>2, <2>3
<1>9. \A x \in Emitter : \A n \in 1..fm[x] :
        (\E i \in 1..Len(t) : t[i].from = x /\ t[i].n = n)
          <=> ~ \E d \in g : d.from = x /\ d.n = n
  <2> TAKE x \in Emitter
  <2> TAKE n \in 1..fm[x]
  <2>1. ASSUME n \in 1..em[x]
        PROVE  (\E i \in 1..Len(t) : t[i].from = x /\ t[i].n = n)
                 <=> ~ \E d \in g : d.from = x /\ d.n = n
    <3>1. (\E i \in 1..Len(s) : s[i].from = x /\ s[i].n = n)
            <=> ~ \E d \in g : d.from = x /\ d.n = n
      BY <2>1 DEF Orderly
    <3>2. \A i \in 1..Len(s) : i \in 1..Len(t) /\ t[i] = s[i]
      BY <1>1, <1>2
    <3>3. ~(t[Len(s) + 1].from = x /\ t[Len(s) + 1].n = n)
      BY <1>2, <1>3, <2>1
    <3> QED
      BY <1>5, <3>1, <3>2, <3>3
  <2>2. ASSUME x = e, n = em[e] + 1
        PROVE  (\E i \in 1..Len(t) : t[i].from = x /\ t[i].n = n)
                 <=> ~ \E d \in g : d.from = x /\ d.n = n
    <3>1. Len(s) + 1 \in 1..Len(t) /\ t[Len(s) + 1].from = x /\ t[Len(s) + 1].n = n
      BY <1>1, <1>2, <2>2
    <3>2. ASSUME NEW d \in g, d.from = x, d.n = n PROVE FALSE
      <4>1. d.n <= em[d.from]
        BY DEF Orderly
      <4> QED
        BY <1>3, <2>2, <3>2, <4>1
    <3> QED
      BY <3>1, <3>2
  <2>3. n \in 1..em[x] \/ (x = e /\ n = em[e] + 1)
    BY <1>3
  <2> QED
    BY <2>1, <2>2, <2>3
<1> QED
  BY <1>1, <1>2, <1>3, <1>6, <1>7, <1>8, <1>9 DEF Orderly, t, fm

\* A thread's next record is dropped instead.
LEMMA JoinsGone ==
    ASSUME NEW s, NEW g, NEW em, Orderly(s, g, em), NEW e \in Emitter,
           NEW r \in Records, r.from = e, r.n = em[e] + 1
    PROVE  /\ Orderly(s, g \cup {r}, [em EXCEPT ![e] = @ + 1])
           /\ r \notin g
<1> DEFINE fm == [em EXCEPT ![e] = @ + 1]
<1>1. /\ s \in Seq(Records) /\ g \in SUBSET Records /\ em \in [Emitter -> Nat]
      /\ Len(s) \in Nat
  BY DEF Orderly
<1>3. /\ fm \in [Emitter -> Nat] /\ fm[e] = em[e] + 1
      /\ \A x \in Emitter : x # e => fm[x] = em[x]
      /\ \A x \in Emitter : em[x] <= fm[x] /\ em[x] \in Nat /\ fm[x] \in Nat
  BY <1>1
<1>4. /\ \A d \in Records : d.from \in Emitter /\ d.n \in Nat
      /\ \A i \in 1..Len(s) : s[i] \in Records
      /\ \A d \in g : d \in Records
  BY <1>1, RecordFields
<1> HIDE DEF fm
<1>5. \A i \in 1..Len(s) : s[i].n <= em[s[i].from] /\ s[i].from \in Emitter /\ s[i].n \in Nat
  BY <1>4 DEF Orderly
<1>6. \A d \in g : d.n <= em[d.from] /\ d.from \in Emitter /\ d.n \in Nat
  BY <1>4 DEF Orderly
<1>7. r \notin g
  BY <1>3, <1>6
<1>8. \A i \in 1..Len(s) : s[i].n <= fm[s[i].from]
  BY <1>3, <1>5
<1>9. \A d \in g \cup {r} : d.n <= fm[d.from]
  BY <1>3, <1>6
<1>10. \A x \in Emitter : \A n \in 1..fm[x] :
        (\E i \in 1..Len(s) : s[i].from = x /\ s[i].n = n)
          <=> ~ \E d \in g \cup {r} : d.from = x /\ d.n = n
  <2> TAKE x \in Emitter
  <2> TAKE n \in 1..fm[x]
  <2>1. ASSUME n \in 1..em[x]
        PROVE  (\E i \in 1..Len(s) : s[i].from = x /\ s[i].n = n)
                 <=> ~ \E d \in g \cup {r} : d.from = x /\ d.n = n
    <3>1. (\E i \in 1..Len(s) : s[i].from = x /\ s[i].n = n)
            <=> ~ \E d \in g : d.from = x /\ d.n = n
      BY <2>1 DEF Orderly
    <3>2. ~(r.from = x /\ r.n = n)
      BY <1>3, <2>1
    <3> QED
      BY <3>1, <3>2
  <2>2. ASSUME x = e, n = em[e] + 1
        PROVE  (\E i \in 1..Len(s) : s[i].from = x /\ s[i].n = n)
                 <=> ~ \E d \in g \cup {r} : d.from = x /\ d.n = n
    <3>1. \A i \in 1..Len(s) : ~(s[i].from = x /\ s[i].n = n)
      BY <1>3, <1>5, <2>2
    <3> QED
      BY <2>2, <3>1
  <2>3. n \in 1..em[x] \/ (x = e /\ n = em[e] + 1)
    BY <1>3
  <2> QED
    BY <2>1, <2>2, <2>3
<1>12. Orderly(s, g, em)
  OBVIOUS
<1> QED
  BY <1>1, <1>3, <1>7, <1>8, <1>9, <1>10, <1>12 DEF Orderly, fm

\* No record of the stream came after it.
LEMMA GoneUnseen ==
    ASSUME NEW s, NEW g, NEW em, Orderly(s, g, em), NEW e \in Emitter,
           NEW r \in Records, r.from = e, r.n = em[e] + 1, NEW u \in 0..Len(s)
    PROVE  Before(g \cup {r}, s, u) = Before(g, s, u)
<1>1. s \in Seq(Records) /\ em[e] \in Nat /\ Len(s) \in Nat
  BY DEF Orderly
<1>2. \A i \in 1..Len(s) : s[i].n <= em[s[i].from] /\ s[i].n \in Nat
  BY <1>1, RecordFields DEF Orderly
<1>3. \A j \in 1..u : ~(s[j].from = r.from /\ s[j].n > r.n)
  <2> TAKE j \in 1..u
  <2>1. j \in 1..Len(s)
    BY <1>1
  <2> QED
    BY <1>1, <1>2, <2>1
<1> QED
  BY <1>3 DEF Before

\* What the first u records say does not change when the stream goes on.
LEMMA SameBefore ==
    ASSUME NEW s \in Seq(Records), NEW b \in Seq(Records), NEW g, NEW u \in 0..Len(s)
    PROVE  Before(g, s \o b, u) = Before(g, s, u)
<1>1. \A j \in 1..u : (s \o b)[j] = s[j]
  OBVIOUS
<1> QED
  BY <1>1 DEF Before

\* However far the stream has gone, the missing records were counted: a refused thread
\* emits nothing before it has counted its drop.
LEMMA MissingCounted ==
    ASSUME NEW s, NEW u \in 0..Len(s), Orderly(s, gone, emitted), DropInv
    PROVE  Cardinality(Before(gone, s, u)) <= dropped
<1> DEFINE f == [e \in refused |-> CHOOSE d \in gone : d.from = e /\ d.n = emitted[e]]
           T == {f[e] : e \in refused}
           B == Before(gone, s, u)
<1>1. \A e \in refused : f[e] \in gone /\ f[e].from = e /\ f[e].n = emitted[e]
  BY DEF DropInv
<1> HIDE DEF f
<1>2. f \in Injection(refused, T)
  <2>1. f \in [refused -> T]
    BY DEF f
  <2>2. \A a, b \in refused : f[a] = f[b] => a = b
    BY <1>1
  <2> QED
    BY <2>1, <2>2 DEF Injection, IsInjective
<1>3. f \in Surjection(refused, T)
  BY DEF f, Surjection
<1>4. IsFiniteSet(T) /\ Cardinality(T) = Cardinality(refused)
  BY <1>2, <1>3, FS_Surjection DEF DropInv
<1>5. T \in SUBSET gone /\ B \in SUBSET gone
  BY <1>1 DEF Before
<1>6. T \cap B = {}
  <2> SUFFICES ASSUME NEW e \in refused, f[e] \in B PROVE FALSE
    OBVIOUS
  <2>1. PICK j \in 1..u : s[j].from = f[e].from /\ s[j].n > f[e].n
    BY DEF Before
  <2>2. j \in 1..Len(s) /\ s[j] \in Records
    BY DEF Orderly
  <2>3. s[j].n <= emitted[e] /\ s[j].n \in Nat /\ emitted[e] \in Nat
    BY <1>1, <2>1, <2>2, SMTT(30) DEF Orderly, Records
  <2> QED
    BY <1>1, <2>1, <2>3
<1>7. IsFiniteSet(B) /\ Cardinality(B) \in Nat /\ Cardinality(T) \in Nat
  BY <1>4, <1>5, FS_Subset, FS_CardinalityType DEF DropInv
<1> HIDE DEF T, B
<1>8. IsFiniteSet(T \cup B) /\ Cardinality(T \cup B) = Cardinality(T) + Cardinality(B)
  <2>1. Cardinality(T \cup B) = Cardinality(T) + Cardinality(B) - Cardinality(T \cap B)
    BY <1>4, <1>7, FS_Union
  <2>2. Cardinality(T \cap B) = 0
    BY <1>6, FS_EmptySet
  <2> QED
    BY <1>4, <1>7, <2>1, <2>2, FS_Union
<1>9. Cardinality(T \cup B) <= Cardinality(gone)
  BY <1>5, FS_Subset DEF DropInv
<1>10. Cardinality(gone) = dropped + Cardinality(T) /\ dropped \in Nat
  BY <1>4 DEF DropInv
<1> QED
  BY <1>7, <1>8, <1>9, <1>10 DEF B

\* The parts of the stream are sequences of records.
LEMMA StreamIs ==
    ASSUME TelemetryInv
    PROVE  /\ shipped \in Seq(Records) /\ batch \in Seq(Records) /\ channel \in Seq(Records)
           /\ shipped \o batch \in Seq(Records)
           /\ Len(shipped \o batch) = Len(shipped) + Len(batch)
           /\ Len(shipped \o batch) \in 0..Len(Stream)
           /\ \A j \in 1..Len(shipped \o batch) : Stream[j] = (shipped \o batch)[j]
<1>1. shipped \in Seq(Records) /\ batch \in Seq(Records) /\ channel \in Seq(Records)
  BY DEF TelemetryInv
<1> DEFINE front == shipped \o batch
<1>2. front \in Seq(Records) /\ Len(front) = Len(shipped) + Len(batch)
  BY <1>1
<1> HIDE DEF front
<1>3. /\ Len(front) \in 0..Len(front \o channel)
      /\ \A j \in 1..Len(front) : (front \o channel)[j] = front[j]
  BY <1>1, <1>2
<1> QED
  BY <1>1, <1>2, <1>3, Zenon DEF front, Stream

\* The stream moves through channel, batch and requests without being touched: a record joins
\* it at the end of the channel, and the head of the channel moves to the end of the batch.
LEMMA StreamJoined ==
    ASSUME TelemetryInv, NEW r \in Records
    PROVE  shipped \o batch \o Append(channel, r) = Append(Stream, r)
<1> DEFINE front == shipped \o batch
<1>1. front \in Seq(Records) /\ channel \in Seq(Records)
  BY StreamIs, Zenon
<1> HIDE DEF front
<1>2. front \o Append(channel, r) = Append(front \o channel, r)
  BY <1>1
<1> QED
  BY <1>2, Zenon DEF front, Stream

LEMMA StreamMoves ==
    ASSUME TelemetryInv, channel # <<>>
    PROVE  /\ Append(batch, Head(channel)) \in Seq(Records) /\ Tail(channel) \in Seq(Records)
           /\ shipped \o Append(batch, Head(channel)) \o Tail(channel) = Stream
<1> DEFINE h == Head(channel)
           t == Tail(channel)
<1>1. shipped \in Seq(Records) /\ batch \in Seq(Records)
  BY DEF TelemetryInv
<1>2. h \in Records /\ t \in Seq(Records) /\ channel = <<h>> \o t
  BY DEF TelemetryInv
<1> HIDE DEF h, t
<1>3. Append(batch, h) = batch \o <<h>> /\ Append(batch, h) \in Seq(Records) /\ <<h>> \in Seq(Records)
  BY <1>1, <1>2
<1>4. shipped \o (batch \o <<h>>) = (shipped \o batch) \o <<h>> /\ (shipped \o batch) \in Seq(Records)
  BY <1>1, <1>3, ConcatAssociative
<1>5. ((shipped \o batch) \o <<h>>) \o t = (shipped \o batch) \o (<<h>> \o t)
  BY <1>2, <1>3, <1>4, ConcatAssociative
<1>6. shipped \o Append(batch, h) \o t = Stream
  BY <1>2, <1>3, <1>4, <1>5, Zenon DEF Stream
<1> QED
  BY <1>2, <1>3, <1>6, Zenon DEF h, t

\* A thread whose record the queue took.
LEMMA QueuedKeeps ==
    ASSUME TelemetryInv, NEW e \in Emitter, EmitQueued(e)
    PROVE  TelemetryInv'
<1>1. Record(e) \in Records /\ Record(e).from = e /\ Record(e).n = emitted[e] + 1
  BY RecordNext DEF TelemetryInv, Orderly
<1>2. channel' \in Seq(Records) /\ Stream' = Append(Stream, Record(e))
  <2>1. channel' = Append(channel, Record(e)) /\ UNCHANGED <<shipped, batch>>
    BY DEF EmitQueued, requestVars
  <2>2. channel' \in Seq(Records)
    BY <1>1, <2>1 DEF TelemetryInv
  <2>3. shipped \o batch \o Append(channel, Record(e)) = Append(Stream, Record(e))
    BY <1>1, StreamJoined
  <2> QED
    BY <2>1, <2>2, <2>3, Zenon DEF Stream
<1>3. Orderly(Stream, gone, emitted)'
  BY <1>1, <1>2, JoinsStream DEF TelemetryInv, EmitQueued, Emits
<1>4. DropInv'
  <2>1. UNCHANGED <<gone, refused, dropped>> /\ \A x \in refused : emitted'[x] = emitted[x]
    BY DEF EmitQueued, Emits, TelemetryInv, Orderly, DropInv
  <2> QED
    BY <2>1 DEF TelemetryInv, DropInv
<1> QED
  BY <1>2, <1>3, <1>4 DEF TelemetryInv, ReportInv, EmitQueued, requestVars

\* A thread whose record found the queue full.
LEMMA RefusedKeeps ==
    ASSUME TelemetryInv, NEW e \in Emitter, EmitRefused(e)
    PROVE  TelemetryInv'
<1>1. Record(e) \in Records /\ Record(e).from = e /\ Record(e).n = emitted[e] + 1
  BY RecordNext DEF TelemetryInv, Orderly
<1>2. /\ UNCHANGED <<channel, batch, shipped, payloads, reported, dropped>>
      /\ Stream' = Stream
      /\ emitted' = [emitted EXCEPT ![e] = @ + 1] /\ gone' = gone \cup {Record(e)}
      /\ refused' = refused \cup {e} /\ e \notin refused
  BY DEF EmitRefused, Emits, Stream, requestVars
<1>3. /\ Orderly(Stream, gone', emitted') /\ Record(e) \notin gone
      /\ \A u \in 0..Len(Stream) : Before(gone', Stream, u) = Before(gone, Stream, u)
  <2>1. Orderly(Stream, gone, emitted)
    BY DEF TelemetryInv
  <2>2. /\ Orderly(Stream, gone \cup {Record(e)}, [emitted EXCEPT ![e] = @ + 1])
        /\ Record(e) \notin gone
        /\ \A u \in 0..Len(Stream) : Before(gone \cup {Record(e)}, Stream, u) = Before(gone, Stream, u)
    <3>1. /\ Orderly(Stream, gone \cup {Record(e)}, [emitted EXCEPT ![e] = @ + 1])
          /\ Record(e) \notin gone
      BY <1>1, <2>1, JoinsGone
    <3>2. \A u \in 0..Len(Stream) :
            Before(gone \cup {Record(e)}, Stream, u) = Before(gone, Stream, u)
      BY <1>1, <2>1, GoneUnseen
    <3> QED
      BY <3>1, <3>2
  <2> QED
    BY <1>2, <2>2, Zenon
<1>4. DropInv'
  <2>1. /\ IsFiniteSet(gone') /\ Cardinality(gone') = Cardinality(gone) + 1
        /\ IsFiniteSet(refused') /\ Cardinality(refused') = Cardinality(refused) + 1
        /\ Cardinality(refused) \in Nat
    BY <1>2, <1>3, FS_AddElement, FS_CardinalityType DEF TelemetryInv, DropInv
  <2>2. \A x \in refused' : \E d \in gone' : d.from = x /\ d.n = emitted'[x]
    <3> TAKE x \in refused'
    <3>1. ASSUME x = e PROVE \E d \in gone' : d.from = x /\ d.n = emitted'[x]
      <4>1. emitted'[e] = emitted[e] + 1
        BY <1>2 DEF TelemetryInv, Orderly
      <4> QED
        BY <1>1, <1>2, <3>1, <4>1
    <3>2. ASSUME x # e PROVE \E d \in gone' : d.from = x /\ d.n = emitted'[x]
      <4>1. x \in refused /\ emitted'[x] = emitted[x]
        BY <1>2, <3>2 DEF TelemetryInv, DropInv, Orderly
      <4>2. PICK d \in gone : d.from = x /\ d.n = emitted[x]
        BY <4>1 DEF TelemetryInv, DropInv
      <4> QED
        BY <1>2, <4>1, <4>2
    <3> QED
      BY <3>1, <3>2
  <2>3. /\ dropped \in Nat /\ refused' \in SUBSET Emitter
        /\ Cardinality(gone) = dropped + Cardinality(refused)
    BY <1>2 DEF TelemetryInv, DropInv
  <2>4. Cardinality(gone') = dropped' + Cardinality(refused')
    BY <1>2, <2>1, <2>3
  <2> QED
    BY <1>2, <2>1, <2>2, <2>3, <2>4 DEF DropInv
<1>5. ReportInv'
  <2>1. ASSUME NEW u \in Nat, u <= Len(shipped)
        PROVE  Before(gone', shipped, u) = Before(gone, shipped, u)
    <3> DEFINE rest == batch \o channel
    <3>1. rest \in Seq(Records) /\ shipped \in Seq(Records) /\ Stream = shipped \o rest
      BY DEF TelemetryInv, Stream
    <3> HIDE DEF rest
    <3>2. u \in 0..Len(shipped) /\ u \in 0..Len(Stream)
      BY <2>1, <3>1
    <3> QED
      BY <1>3, <3>1, <3>2, SameBefore
  <2>2. \A i \in 1..Len(payloads) : payloads[i].upto \in Nat
    BY PayloadFields DEF TelemetryInv, ReportInv
  <2> QED
    BY <1>2, <2>1, <2>2 DEF TelemetryInv, ReportInv
<1> QED
  BY <1>2, <1>3, <1>4, <1>5 DEF TelemetryInv

\* The drop is counted.
LEMMA CountKeeps ==
    ASSUME TelemetryInv, NEW e \in Emitter, CountDrop(e)
    PROVE  TelemetryInv'
<1>1. /\ UNCHANGED <<channel, batch, shipped, payloads, reported, gone, emitted>>
      /\ Stream' = Stream
      /\ dropped' = dropped + 1 /\ refused' = refused \ {e} /\ e \in refused
  BY DEF CountDrop, Stream, requestVars
<1>2. /\ IsFiniteSet(refused') /\ Cardinality(refused') = Cardinality(refused) - 1
      /\ Cardinality(refused) \in Nat
  BY <1>1, FS_RemoveElement, FS_CardinalityType DEF TelemetryInv, DropInv
<1>3. DropInv'
  <2>1. /\ dropped \in Nat /\ refused' \in SUBSET Emitter
        /\ Cardinality(gone) = dropped + Cardinality(refused)
        /\ \A x \in refused' : \E d \in gone : d.from = x /\ d.n = emitted[x]
        /\ IsFiniteSet(gone)
    BY <1>1 DEF TelemetryInv, DropInv
  <2>2. Cardinality(gone) = dropped' + Cardinality(refused')
    BY <1>1, <1>2, <2>1
  <2> QED
    BY <1>1, <1>2, <2>1, <2>2 DEF DropInv
<1>4. ReportInv'
  <2>1. reported' \in Nat /\ reported' <= dropped'
    BY <1>1 DEF TelemetryInv, ReportInv, DropInv
  <2> QED
    BY <1>1, <2>1 DEF TelemetryInv, ReportInv
<1> QED
  BY <1>1, <1>3, <1>4 DEF TelemetryInv

\* The exporter takes a record.
LEMMA ReceiveKeeps ==
    ASSUME TelemetryInv, Receive
    PROVE  TelemetryInv'
<1>1. /\ UNCHANGED <<shipped, payloads, reported, gone, emitted, refused, dropped>>
      /\ batch' = Append(batch, Head(channel)) /\ channel' = Tail(channel) /\ channel # <<>>
  BY DEF Receive, requestVars
<1>2. batch' \in Seq(Records) /\ channel' \in Seq(Records) /\ Stream' = Stream
  <2>1. /\ Append(batch, Head(channel)) \in Seq(Records) /\ Tail(channel) \in Seq(Records)
        /\ shipped \o Append(batch, Head(channel)) \o Tail(channel) = Stream
    BY <1>1, StreamMoves
  <2>2. Stream' = shipped' \o batch' \o channel'
    BY DEF Stream
  <2> QED
    BY <1>1, <2>1, <2>2, Zenon
<1>3. DropInv' /\ ReportInv'
  BY <1>1 DEF TelemetryInv, DropInv, ReportInv
<1> QED
  BY <1>1, <1>2, <1>3 DEF TelemetryInv

\* A flush tells of every drop counted so far, which are at least the missing ones.
LEMMA FlushKeeps ==
    ASSUME TelemetryInv, Flush
    PROVE  TelemetryInv'
<1> DEFINE drops == dropped - reported
           content == [upto |-> Len(shipped) + Len(batch), drops |-> drops, total |-> dropped]
           L == Len(payloads)
<1>1. /\ UNCHANGED <<gone, emitted, refused, dropped, channel>>
      /\ shipped' = shipped \o batch /\ batch' = <<>> /\ reported' = dropped
      /\ payloads' = IF batch = <<>> /\ drops = 0 THEN payloads ELSE Append(payloads, content)
  BY DEF Flush
<1>2. /\ shipped' \in Seq(Records) /\ batch' \in Seq(Records) /\ channel' \in Seq(Records)
      /\ Len(shipped') = Len(shipped) + Len(batch) /\ Len(shipped') \in 0..Len(Stream)
      /\ Len(shipped) \in Nat /\ Len(batch) \in Nat
      /\ \A j \in 1..Len(shipped') : Stream[j] = shipped'[j]
      /\ Stream' = Stream
  <2>1. /\ shipped' \in Seq(Records) /\ batch' \in Seq(Records) /\ channel' \in Seq(Records)
        /\ Len(shipped') = Len(shipped) + Len(batch) /\ Len(shipped') \in 0..Len(Stream)
        /\ Len(shipped) \in Nat /\ Len(batch) \in Nat
    BY <1>1, StreamIs
  <2>2. \A j \in 1..Len(shipped') : Stream[j] = shipped'[j]
    BY <1>1, StreamIs
  <2>3. (shipped \o batch) \o <<>> = shipped \o batch
    BY StreamIs, ConcatEmptySeq
  <2>4. Stream' = shipped' \o batch' \o channel'
    BY DEF Stream
  <2> QED
    BY <1>1, <2>1, <2>2, <2>3, <2>4, Zenon DEF Stream
<1>3. DropInv'
  BY <1>1 DEF TelemetryInv, DropInv
<1>4. /\ dropped \in Nat /\ reported \in Nat /\ reported <= dropped /\ drops \in Nat
      /\ payloads \in Seq(Payloads) /\ L \in Nat
      /\ reported = IF payloads = <<>> THEN 0 ELSE payloads[L].total
  BY DEF TelemetryInv, DropInv, ReportInv
<1>5. \A i \in 1..L :
        /\ payloads[i] \in Payloads
        /\ payloads[i].upto \in Nat /\ payloads[i].total \in Nat
        /\ payloads[i].upto <= Len(shipped)
        /\ payloads[i].total <= reported
        /\ payloads[i].total = payloads[i].drops + IF i = 1 THEN 0 ELSE payloads[i - 1].total
        /\ Cardinality(Before(gone, shipped, payloads[i].upto)) <= payloads[i].total
  BY PayloadFields DEF TelemetryInv, ReportInv
<1>6. \A i \in 1..L :
        /\ payloads[i].upto <= Len(shipped') /\ payloads[i].total <= dropped
        /\ Before(gone, shipped', payloads[i].upto) = Before(gone, shipped, payloads[i].upto)
  <2> TAKE i \in 1..L
  <2>1. payloads[i].upto \in 0..Len(shipped)
    BY <1>2, <1>5
  <2>2. Before(gone, shipped \o batch, payloads[i].upto) = Before(gone, shipped, payloads[i].upto)
    BY <2>1, SameBefore DEF TelemetryInv
  <2>3. payloads[i].upto <= Len(shipped')
    BY <1>2, <2>1
  <2>4. payloads[i].total <= dropped
    BY <1>4, <1>5
  <2> QED
    BY <1>1, <2>2, <2>3, <2>4
<1>7. Cardinality(Before(gone, shipped', Len(shipped'))) <= dropped
  <2>1. Before(gone, Stream, Len(shipped')) = Before(gone, shipped', Len(shipped'))
    BY <1>2 DEF Before
  <2>2. Cardinality(Before(gone, Stream, Len(shipped'))) <= dropped
    BY <1>2, MissingCounted DEF TelemetryInv
  <2> QED
    BY <2>1, <2>2
<1>8. /\ content \in Payloads /\ content.upto = Len(shipped') /\ content.total = dropped
      /\ content.drops = drops
  BY <1>2, <1>4 DEF Payloads
<1> HIDE DEF content
<1>9. ReportInv'
  <2>1. ASSUME batch = <<>> /\ drops = 0 PROVE ReportInv'
    <3>1. payloads' = payloads /\ reported' = reported
      BY <1>1, <1>4, <2>1
    <3> QED
      BY <1>1, <1>4, <1>5, <1>6, <3>1 DEF ReportInv
  <2>2. ASSUME ~(batch = <<>> /\ drops = 0) PROVE ReportInv'
    <3>1. payloads' = Append(payloads, content)
      BY <1>1, <2>2
    <3>2. /\ payloads' \in Seq(Payloads) /\ Len(payloads') = L + 1 /\ payloads' # <<>>
          /\ payloads'[L + 1] = content /\ \A i \in 1..L : payloads'[i] = payloads[i]
      BY <1>4, <1>8, <3>1
    <3>3. ASSUME NEW i \in 1..L
          PROVE  /\ payloads'[i].upto <= Len(shipped')
                 /\ payloads'[i].total <= reported'
                 /\ payloads'[i].total =
                       payloads'[i].drops + IF i = 1 THEN 0 ELSE payloads'[i - 1].total
                 /\ Cardinality(Before(gone', shipped', payloads'[i].upto)) <= payloads'[i].total
      <4>1. payloads'[i] = payloads[i] /\ (i # 1 => payloads'[i - 1] = payloads[i - 1])
        <5>1. i # 1 => i - 1 \in 1..L
          BY <1>4
        <5> QED
          BY <3>2, <5>1
      <4> QED
        BY <1>1, <1>5, <1>6, <4>1
    <3>4. /\ content.upto <= Len(shipped') /\ content.total <= reported'
          /\ content.total = content.drops + IF L + 1 = 1 THEN 0 ELSE payloads'[L].total
          /\ Cardinality(Before(gone', shipped', content.upto)) <= content.total
      <4>1. reported = IF L + 1 = 1 THEN 0 ELSE payloads'[L].total
        <5>1. ASSUME L = 0 PROVE payloads = <<>>
          BY <1>4, <5>1
        <5>2. ASSUME L # 0 PROVE payloads # <<>> /\ payloads'[L] = payloads[L]
          BY <1>4, <3>2, <5>2
        <5> QED
          BY <1>4, <5>1, <5>2
      <4> QED
        BY <1>1, <1>2, <1>4, <1>7, <1>8, <4>1
    <3>5. \A i \in 1..Len(payloads') : i \in 1..L \/ i = L + 1
      BY <1>4, <3>2
    <3>6. (L + 1) - 1 = L
      BY <1>4
    <3>7. \A i \in 1..Len(payloads') :
             /\ payloads'[i].upto <= Len(shipped')
             /\ payloads'[i].total <= reported'
             /\ payloads'[i].total =
                   payloads'[i].drops + IF i = 1 THEN 0 ELSE payloads'[i - 1].total
             /\ Cardinality(Before(gone', shipped', payloads'[i].upto)) <= payloads'[i].total
      <4> HIDE DEF L
      <4> QED
        BY <3>2, <3>3, <3>4, <3>5, <3>6
    <3>8. reported' \in Nat /\ reported' <= dropped' /\ reported' = payloads'[Len(payloads')].total
      BY <1>1, <1>4, <1>8, <3>2
    <3> QED
      BY <3>2, <3>7, <3>8 DEF ReportInv
  <2> QED
    BY <2>1, <2>2
<1> QED
  BY <1>1, <1>2, <1>3, <1>9 DEF TelemetryInv

\* A step that moves no record.
LEMMA TelemetryRests ==
    ASSUME TelemetryInv,
           UNCHANGED <<emitted, refused, channel, dropped, gone, batch, reported, shipped,
                       payloads>>
    PROVE  TelemetryInv'
BY DEF TelemetryInv, DropInv, ReportInv, Stream

\* The exporter begins with nothing emitted.
LEMMA TelemetryStarts == TelemetryInit => TelemetryInv
<1> SUFFICES ASSUME TelemetryInit PROVE TelemetryInv
  OBVIOUS
<1>1. /\ emitted = [e \in Emitter |-> 0] /\ refused = {} /\ channel = <<>> /\ dropped = 0
      /\ gone = {} /\ batch = <<>> /\ reported = 0 /\ shipped = <<>> /\ payloads = <<>>
  BY DEF TelemetryInit
<1>2. Stream = <<>> /\ <<>> \in Seq(Records) /\ Len(<<>>) = 0
  BY <1>1 DEF Stream
<1>3. Orderly(<<>>, {}, emitted)
  BY <1>1, <1>2 DEF Orderly
<1>4. DropInv
  BY <1>1, FS_EmptySet DEF DropInv
<1>5. ReportInv
  BY <1>1, <1>2 DEF ReportInv
<1> QED
  BY <1>1, <1>2, <1>3, <1>4, <1>5 DEF TelemetryInv

\* Every step of emitters and exporter keeps the invariant.
LEMMA TelemetryStep == TelemetryInv /\ [TelemetryNext]_telemetryVars => TelemetryInv'
<1> SUFFICES ASSUME TelemetryInv, [TelemetryNext]_telemetryVars PROVE TelemetryInv'
  OBVIOUS
<1>1. ASSUME FlushInterval \/ Ship \/ StopExporter \/ ProcessExits
             \/ UNCHANGED telemetryVars
      PROVE  TelemetryInv'
  BY <1>1, TelemetryRests
     DEF FlushInterval, Ship, StopExporter, ProcessExits, telemetryVars, requestVars
<1> QED
  BY <1>1, QueuedKeeps, RefusedKeeps, CountKeeps, ReceiveKeeps, FlushKeeps DEF TelemetryNext

\* What the invariant says of the requests.
LEMMA HolesSaid == TelemetryInv => HolesAreSaid
<1> SUFFICES ASSUME TelemetryInv PROVE HolesAreSaid
  OBVIOUS
<1>1. /\ DOMAIN Stream = 1..Len(Stream) /\ DOMAIN payloads = 1..Len(payloads)
      /\ DOMAIN shipped = 1..Len(shipped) /\ \A i \in 1..Len(shipped) : shipped[i] \in Records
  BY DEF TelemetryInv, Orderly, ReportInv
<1>2. ASSUME NEW i \in DOMAIN payloads
      PROVE  /\ Cardinality(Missing(i)) <= payloads[i].total
             /\ payloads[i].total <= Cardinality(gone)
             /\ payloads[i].total =
                   payloads[i].drops + IF i = 1 THEN 0 ELSE payloads[i - 1].total
  <2>1. Missing(i) = Before(gone, shipped, payloads[i].upto)
    BY DEF Missing, Shown, Before
  <2>0. i \in 1..Len(payloads) /\ payloads[i] \in Payloads
    BY <1>1 DEF TelemetryInv, ReportInv
  <2>2. /\ payloads[i].total \in Nat /\ payloads[i].total <= reported
        /\ payloads[i].total =
              payloads[i].drops + IF i = 1 THEN 0 ELSE payloads[i - 1].total
        /\ Cardinality(Before(gone, shipped, payloads[i].upto)) <= payloads[i].total
    BY <2>0, PayloadFields DEF TelemetryInv, ReportInv
  <2>3. /\ reported \in Nat /\ reported <= dropped /\ dropped \in Nat
        /\ Cardinality(gone) = dropped + Cardinality(refused) /\ Cardinality(refused) \in Nat
    BY FS_CardinalityType DEF TelemetryInv, ReportInv, DropInv
  <2>4. payloads[i].total <= Cardinality(gone)
    BY <2>2, <2>3
  <2> QED
    BY <2>1, <2>2, <2>4
<1>3. \A e \in Emitter : \A n \in 1..emitted[e] : InStream(e, n) <=> ~IsGone(e, n)
  <2>1. \A e \in Emitter : \A n \in 1..emitted[e] :
          (\E i \in 1..Len(Stream) : Stream[i].from = e /\ Stream[i].n = n)
             <=> ~ \E d \in gone : d.from = e /\ d.n = n
    BY DEF TelemetryInv, Orderly
  <2> QED
    BY <1>1, <2>1 DEF InStream, IsGone
<1>4. \A i, j \in DOMAIN Stream :
        i < j /\ Stream[i].from = Stream[j].from => Stream[i].n < Stream[j].n
  BY <1>1 DEF TelemetryInv, Orderly
<1>5. ASSUME NEW i \in DOMAIN shipped, shipped[i].attribute.value
      PROVE  Last(shipped[i].attribute.key) \notin {"user_uid", "email"}
  <2>1. PICK e \in Emitter : shipped[i].attribute = Visit(FieldOf[e])
    BY <1>1 DEF Records
  <2> DEFINE k == FieldOf[e]
  <2> HIDE DEF k
  <2>2. shipped[i].attribute.key = k /\ AttributePermitted(k)
    BY <1>5, <2>1 DEF Visit, k
  <2>3. <<Last(k)>> \notin FORBIDDEN
    BY <2>2 DEF AttributePermitted
  <2> DEFINE last == Last(k)
  <2>4. <<last>> \notin FORBIDDEN
    BY <2>3
  <2> HIDE DEF last
  <2>5. last # "user_uid" /\ last # "email"
    BY <2>4 DEF FORBIDDEN
  <2> QED
    BY <2>2, <2>5 DEF last
<1> QED
  BY <1>2, <1>3, <1>4, <1>5 DEF HolesAreSaid

\* A request that shows a record behind a dropped one was sent with, or after, a count of
\* at least as many drops; the counts add up to no more than was dropped, and every record
\* is dropped or sent once, in order (layer.rs on_event, flush), for any number of threads
\* and any queue, batch and order of the refused sends and their counting.
THEOREM HolesAlwaysSaid == TelemetrySpec => []HolesAreSaid
BY TelemetryStarts, TelemetryStep, HolesSaid, PTL DEF TelemetrySpec

-----------------------------------------------------------------------------
(***************************************************************************)
(* The capture source.  After n source samples the endpoint stream has     *)
(* made the least number c of samples with n - 1 <= c * Ratio, so that a   *)
(* pass over part of the source and one over the rest make what one pass   *)
(* over all makes; the resampler stands Taps behind the front of its       *)
(* history, which is the line of lead-in and source from c * Ratio on.     *)
(* Each read then lays its silence and its samples behind the output.      *)
(***************************************************************************)
\* Products with the same factor are ordered as the other factors are.
LEMMA TimesOrder ==
    ASSUME NEW a \in Int, NEW b \in Int, NEW r \in Nat \ {0}
    PROVE  a * r \in Int /\ (a * r < b * r => a < b) /\ (a <= b => a * r <= b * r)
           /\ (a + 1) * r = a * r + r
OBVIOUS

\* Products with the same factor add up.
LEMMA TimesSum ==
    ASSUME NEW a \in Int, NEW b \in Int, NEW r \in Int
    PROVE  (a + b) * r = a * r + b * r /\ a * r \in Int /\ b * r \in Int
OBVIOUS

\* c steps of r are just enough for m.
Enough(c, r, m) == c \in Nat /\ m <= c * r /\ (c > 0 => (c - 1) * r < m)

\* Rounding up gives just enough.
LEMMA RoundUp ==
    ASSUME NEW m \in Nat \ {0}, NEW r \in Nat \ {0}
    PROVE  Enough((m - 1) \div r + 1, r, m)
<1> DEFINE q == (m - 1) \div r
<1>1. q \in Nat /\ q * r <= m - 1 /\ m - 1 < (q + 1) * r
  OBVIOUS
<1> HIDE DEF q
<1> QED
  BY <1>1 DEF Enough, q

\* No other number is just enough.
LEMMA EnoughUnique ==
    ASSUME NEW r \in Nat \ {0}, NEW m \in Int, NEW a, NEW b, Enough(a, r, m), Enough(b, r, m)
    PROVE  a = b
<1>1. a \in Nat /\ b \in Nat
  BY DEF Enough
<1>2. ASSUME NEW x \in Nat, NEW y \in Nat, Enough(x, r, m), Enough(y, r, m), x < y PROVE FALSE
  <2>1. (y - 1) * r \in Int /\ x * r \in Int /\ (y - 1) * r < m /\ m <= x * r
    BY <1>2, TimesOrder DEF Enough
  <2>2. (y - 1) * r < x * r
    BY <2>1
  <2>3. y - 1 < x
    BY <2>2, TimesOrder
  <2> QED
    BY <1>2, <2>3
<1> QED
  BY <1>1, <1>2

\* Count and Source of a stream.
CountIn(st, n) == IF st = "Process" THEN n ELSE IF n <= 1 THEN 0 ELSE (n - 2) \div Ratio + 1
SourceIn(st, k) == IF st = "Process" THEN k ELSE (k - 1) * Ratio + 1 - Taps

\* Where a sample of the endpoint stream comes from.
LEMMA EndpointSource ==
    ASSUME NEW k \in Int
    PROVE  SourceIn("Endpoint", k) = (k - 1) * Ratio + 1 - Taps
BY SourceAssumption DEF SourceIn

\* The same for the j-th sample behind c.
LEMMA EndpointNext ==
    ASSUME NEW c \in Nat, NEW j \in Nat
    PROVE  SourceIn("Endpoint", c + j) = (c + j - 1) * Ratio + 1 - Taps
<1>1. c + j \in Int
  OBVIOUS
<1> QED
  BY <1>1, EndpointSource

\* How many samples there are so far, and that none of them lies ahead of the source.
LEMMA CountFacts ==
    ASSUME NEW st, NEW n \in Nat
    PROVE  /\ CountIn(st, n) \in Nat
           /\ st # "Process" => Enough(CountIn(st, n), Ratio, n - 1)
<1> USE SourceAssumption
<1>1. ASSUME st # "Process", n > 1 PROVE Enough(CountIn(st, n), Ratio, n - 1)
  <2>1. n - 1 \in Nat \ {0} /\ (n - 1) - 1 = n - 2 /\ Ratio \in Nat \ {0}
    BY <1>1
  <2>2. Enough(((n - 1) - 1) \div Ratio + 1, Ratio, n - 1)
    BY <2>1, RoundUp
  <2> QED
    BY <1>1, <2>1, <2>2 DEF CountIn
<1>2. ASSUME st # "Process", n <= 1 PROVE Enough(CountIn(st, n), Ratio, n - 1)
  <2>1. CountIn(st, n) = 0 /\ 0 * Ratio = 0 /\ n - 1 <= 0
    BY <1>2 DEF CountIn
  <2> QED
    BY <2>1 DEF Enough
<1> QED
  BY <1>1, <1>2 DEF Enough, CountIn

LEMMA SourceWithin ==
    ASSUME NEW st, NEW n \in Nat, NEW k \in 1..CountIn(st, n)
    PROVE  SourceIn(st, k) \in Int /\ SourceIn(st, k) <= n
<1> USE SourceAssumption
<1>1. CASE st = "Process"
  BY <1>1 DEF CountIn, SourceIn
<1>2. CASE st # "Process"
  <2> DEFINE c == CountIn(st, n)
  <2>1. c \in Nat /\ Enough(c, Ratio, n - 1)
    BY <1>2, CountFacts
  <2> HIDE DEF c
  <2>2. k \in Nat /\ 1 <= k /\ k <= c
    BY <2>1 DEF c
  <2>3. (c - 1) * Ratio < n - 1 /\ (c - 1) * Ratio \in Int
    BY <2>1, <2>2, TimesOrder DEF Enough
  <2>4. (k - 1) * Ratio \in Int /\ (k - 1) * Ratio <= (c - 1) * Ratio
    BY <2>1, <2>2, TimesOrder
  <2> HIDE DEF c
  <2>5. SourceIn(st, k) = (k - 1) * Ratio + 1 - Taps
    BY <1>2 DEF SourceIn
  <2> QED
    BY <2>3, <2>4, <2>5
<1> QED
  BY <1>1, <1>2

-----------------------------------------------------------------------------
\* The a-th sample of the lead-in followed by the source samples pl.
Line(pl, a) == IF a <= 2 * Taps THEN 0 ELSE pl[a - 2 * Taps]

\* h is what lies from the x-th sample on.
LinedAt(h, pl, x) ==
    /\ h \in Seq(Nat) /\ pl \in Seq(Nat)
    /\ Len(h) = 2 * Taps + Len(pl) - x
    /\ \A i \in 1..Len(h) : h[i] = Line(pl, x + i)

\* The resampler after pl: it stands at the next sample, with the kernel's left half and
\* all that came behind it.
Lined(h, p, pl) == p = Taps /\ LinedAt(h, pl, CountIn("Endpoint", Len(pl)) * Ratio)

\* Where the i-th of the samples lies, behind a history of a samples or in it.
LEMMA Behind ==
    ASSUME NEW a \in Nat, NEW n \in Nat, NEW l \in Nat, NEW x \in Nat, NEW d \in Nat,
           a = d + n - x, NEW i \in Nat, 1 <= i, i <= a + l
    PROVE  /\ i <= a /\ x + i > d => x + i - d \in 1..(n + l) /\ x + i - d <= n
           /\ i > a => /\ x + i > d /\ x + i - d \in 1..(n + l) /\ x + i - d > n
                       /\ x + i - d - n = i - a
OBVIOUS

\* What came in lines up behind the history.
LEMMA LineGoesOn ==
    ASSUME NEW h, NEW pl, NEW x \in Nat, LinedAt(h, pl, x), NEW t \in Seq(Nat)
    PROVE  /\ h \o t \in Seq(Nat) /\ pl \o t \in Seq(Nat)
           /\ Len(pl \o t) = Len(pl) + Len(t)
           /\ Len(h \o t) = 2 * Taps + Len(pl \o t) - x
           /\ \A i \in 1..Len(h \o t) : (h \o t)[i] = Line(pl \o t, x + i)
<1>1. /\ h \in Seq(Nat) /\ pl \in Seq(Nat) /\ Len(h) = 2 * Taps + Len(pl) - x
      /\ \A i \in 1..Len(h) : h[i] = Line(pl, x + i)
      /\ Len(h) \in Nat /\ Len(pl) \in Nat /\ Len(t) \in Nat
  BY DEF LinedAt
<1> DEFINE a == Len(h)
           n == Len(pl)
           l == Len(t)
           d == 2 * Taps
           ht == h \o t
           pt == pl \o t
<1>2. /\ ht \in Seq(Nat) /\ pt \in Seq(Nat) /\ Len(ht) = a + l /\ Len(pt) = n + l
      /\ \A i \in 1..(a + l) : ht[i] = IF i <= a THEN h[i] ELSE t[i - a]
      /\ \A i \in 1..(n + l) : pt[i] = IF i <= n THEN pl[i] ELSE t[i - n]
  BY <1>1, ConcatProperties
<1>3. a \in Nat /\ n \in Nat /\ l \in Nat /\ d \in Nat /\ a = d + n - x
  BY <1>1, SourceAssumption
<1>4. \A i \in 1..a : h[i] = Line(pl, x + i)
  BY <1>1
<1> HIDE DEF a, n, l, d, ht, pt
<1>5. Len(ht) = d + Len(pt) - x
  BY <1>2, <1>3
<1>6. ASSUME NEW i \in Nat, 1 <= i, i <= a + l PROVE ht[i] = Line(pt, x + i)
  <2> DEFINE y == x + i - d
  <2>1. /\ i <= a /\ x + i > d => y \in 1..(n + l) /\ y <= n
        /\ i > a => x + i > d /\ y \in 1..(n + l) /\ y > n /\ y - n = i - a
    BY <1>3, <1>6, Behind
  <2>2. i \in 1..(a + l) /\ y \in Int /\ x + i \in Nat
    BY <1>3, <1>6
  <2>3. \A s : Line(s, x + i) = IF x + i <= d THEN 0 ELSE s[y]
    BY SourceAssumption DEF Line, d
  <2> HIDE DEF y
  <2>4. ASSUME i <= a PROVE ht[i] = Line(pt, x + i)
    <3>1. i \in 1..a
      BY <1>3, <1>6, <2>4
    <3>2. ht[i] = Line(pl, x + i)
      BY <1>2, <1>4, <2>2, <2>4, <3>1
    <3>3. ASSUME x + i > d PROVE pt[y] = pl[y]
      BY <1>2, <2>1, <2>4, <3>3
    <3>4. x + i <= d \/ x + i > d
      BY <1>3, <2>2
    <3> QED
      BY <2>3, <3>2, <3>3, <3>4
  <2>5. ASSUME i > a PROVE ht[i] = Line(pt, x + i)
    <3>1. ~(i <= a) /\ ~(x + i <= d) /\ ~(y <= n)
      BY <1>3, <1>6, <2>1, <2>2, <2>5
    <3>2. ht[i] = t[i - a]
      BY <1>2, <2>2, <3>1
    <3>3. pt[y] = t[i - a]
      BY <1>2, <2>1, <2>5, <3>1
    <3> QED
      BY <2>3, <3>1, <3>2, <3>3
  <2> QED
    BY <1>3, <1>6, <2>4, <2>5
<1>7. \A i \in 1..Len(ht) : ht[i] = Line(pt, x + i)
  <2> TAKE i \in 1..Len(ht)
  <2>1. i \in Nat /\ 1 <= i /\ i <= a + l
    BY <1>2, <1>3
  <2> QED
    BY <1>6, <2>1
<1> QED
  BY <1>2, <1>5, <1>7 DEF ht, pt, d, n, l

\* Just enough for n, and just enough more for the rest, is just enough for all.
LEMMA EnoughMore ==
    ASSUME NEW r \in Nat \ {0}, NEW c, NEW s, NEW n \in Nat, NEW m \in Nat, n <= m,
           Enough(c, r, n - 1), Enough(s, r, m - 1 - c * r)
    PROVE  Enough(c + s, r, m - 1) /\ (c + s) * r = c * r + s * r
<1>1. c \in Nat /\ s \in Nat
  BY DEF Enough
<1>2. c * r \in Int /\ s * r \in Int /\ (c + s) * r = c * r + s * r
  BY <1>1
<1>3. m - 1 <= (c + s) * r
  BY <1>1, <1>2 DEF Enough
<1>4. ASSUME s > 0 PROVE (c + s - 1) * r < m - 1
  <2>1. (s - 1) * r < m - 1 - c * r /\ (s - 1) * r \in Int
    BY <1>1, <1>4 DEF Enough
  <2>2. (c + s - 1) * r = c * r + (s - 1) * r
    BY <1>1
  <2> QED
    BY <1>2, <2>1, <2>2
<1>5. ASSUME s = 0, c > 0 PROVE (c + s - 1) * r < m - 1
  <2>1. (c - 1) * r < n - 1 /\ (c - 1) * r \in Int /\ c + s - 1 = c - 1
    BY <1>1, <1>5 DEF Enough
  <2> QED
    BY <2>1
<1> QED
  BY <1>1, <1>2, <1>3, <1>4, <1>5 DEF Enough

\* What is left of a history behind its first y samples.
LEMMA Rest ==
    ASSUME NEW h \in Seq(Nat), NEW y \in Nat, y <= Len(h)
    PROVE  /\ SubSeq(h, y + 1, Len(h)) \in Seq(Nat) /\ Len(SubSeq(h, y + 1, Len(h))) = Len(h) - y
           /\ \A i \in 1..(Len(h) - y) : SubSeq(h, y + 1, Len(h))[i] = h[y + i]
<1> DEFINE n == Len(h)
<1>1. n \in Nat
  OBVIOUS
<1>2. \A i \in (y + 1)..n : h[i] \in Nat
  <2>1. \A i \in (y + 1)..n : i \in 1..n
    BY <1>1
  <2>2. \A i \in 1..n : h[i] \in Nat
    OBVIOUS
  <2> QED
    BY <2>1, <2>2, Zenon
<1>9. y <= n
  OBVIOUS
<1> HIDE DEF n
<1>3. y + 1 \in Int /\ n \in Int
  BY <1>1
<1>4. /\ SubSeq(h, y + 1, n) \in Seq(Nat)
      /\ Len(SubSeq(h, y + 1, n)) = IF y + 1 <= n THEN n - (y + 1) + 1 ELSE 0
      /\ \A i \in 1..(n - (y + 1) + 1) : SubSeq(h, y + 1, n)[i] = h[(y + 1) + i - 1]
  BY <1>2, <1>3, SubSeqProperties
<1>5. n - (y + 1) + 1 = n - y /\ (~(y + 1 <= n) => n - y = 0)
  BY <1>1, <1>9
<1>6. \A i \in 1..(n - y) : (y + 1) + i - 1 = y + i
  BY <1>1
<1>7. Len(SubSeq(h, y + 1, n)) = n - y
  BY <1>4, <1>5
<1>8. \A i \in 1..(n - y) : SubSeq(h, y + 1, n)[i] = h[y + i]
  BY <1>4, <1>5, <1>6
<1> QED
  BY <1>4, <1>7, <1>8 DEF n

\* One pass of the resampler: the samples are the next ones of the source, and it stands at
\* the one after them.
LEMMA Resamples ==
    ASSUME NEW h0, NEW p, NEW pl, Lined(h0, p, pl), NEW t \in Seq(Nat),
           NEW h, h = h0 \o t, NEW c, c = CountIn("Endpoint", Len(pl))
    PROVE  /\ CountIn("Endpoint", Len(pl \o t)) = c + Steps(h, p)
           /\ Resampled(h, p) \in Seq(Nat) /\ Len(Resampled(h, p)) = Steps(h, p)
           /\ \A j \in 1..Steps(h, p) :
                 Resampled(h, p)[j] = Line(pl \o t, SourceIn("Endpoint", c + j) + 2 * Taps)
           /\ Lined(SubSeq(h, KeepFrom(h, p) + 1, Len(h)), ReadTo(h, p) - KeepFrom(h, p), pl \o t)
<1> DEFINE n == Len(pl)
           pt == pl \o t
           m == Len(pl \o t)
           x == c * Ratio
           s == Steps(h, p)
           L == Len(h)
           y == s * Ratio
<1>1. p = Taps /\ Taps \in Nat /\ Ratio \in Nat \ {0} /\ Ratio <= 2 * Taps + 1
  BY SourceAssumption DEF Lined
<1>2. n \in Nat /\ c \in Nat /\ Enough(c, Ratio, n - 1) /\ x \in Nat
  BY <1>1, CountFacts DEF Lined, LinedAt
<1>3. /\ h \in Seq(Nat) /\ pt \in Seq(Nat) /\ m = n + Len(t) /\ Len(t) \in Nat
      /\ L = 2 * Taps + m - x /\ L \in Nat
      /\ \A i \in 1..L : h[i] = Line(pt, x + i)
  BY <1>2, LineGoesOn DEF Lined
<1>4. m \in Nat /\ n <= m
  BY <1>2, <1>3
<1> HIDE DEF n, m, x, L, pt
<1>5. s = IF m - 1 - x <= 0 THEN 0 ELSE (m - 1 - x - 1) \div Ratio + 1
  <2>1. L - Taps - 1 - p = m - 1 - x /\ (p >= L - Taps - 1 <=> m - 1 - x <= 0)
    BY <1>1, <1>2, <1>3, <1>4, SMTT(30)
  <2> QED
    BY <2>1 DEF Steps, L
<1> HIDE DEF s, y
<1>6. Enough(s, Ratio, m - 1 - x)
  <2>1. ASSUME m - 1 - x <= 0 PROVE Enough(s, Ratio, m - 1 - x)
    <3>1. s = 0 /\ 0 * Ratio = 0
      BY <1>1, <1>5, <2>1
    <3> QED
      BY <2>1, <3>1 DEF Enough
  <2>2. ASSUME m - 1 - x > 0 PROVE Enough(s, Ratio, m - 1 - x)
    <3>1. m - 1 - x \in Nat \ {0} /\ ~(m - 1 - x <= 0)
      BY <1>2, <1>4, <2>2
    <3> QED
      BY <1>1, <1>5, <3>1, RoundUp
  <2> QED
    BY <1>2, <1>4, <2>1, <2>2
<1>7. Enough(c + s, Ratio, m - 1) /\ (c + s) * Ratio = x + y
  BY <1>1, <1>2, <1>4, <1>6, EnoughMore DEF x, y
<1>8. CountIn("Endpoint", m) = c + s
  BY <1>1, <1>4, <1>7, CountFacts, EnoughUnique
<1>9. s \in Nat /\ y \in Nat
  BY <1>1, <1>6 DEF Enough, y
<1>10. \A j \in 1..s : (j - 1) * Ratio \in Nat /\ (j - 1) * Ratio < m - 1 - x
  <2> TAKE j \in 1..s
  <2>1. (s - 1) * Ratio < m - 1 - x /\ (s - 1) * Ratio \in Int
    BY <1>1, <1>6, <1>9 DEF Enough
  <2>2. (j - 1) * Ratio \in Nat /\ (j - 1) * Ratio <= (s - 1) * Ratio
    BY <1>1, <1>9, TimesOrder
  <2> QED
    BY <1>2, <1>4, <2>1, <2>2
<1>11. \A j \in 1..s :
         /\ p + (j - 1) * Ratio + 1 \in 1..L
         /\ x + (p + (j - 1) * Ratio + 1) = SourceIn("Endpoint", c + j) + 2 * Taps
  <2> TAKE j \in 1..s
  <2> DEFINE z == (j - 1) * Ratio
  <2>1. z \in Nat /\ z < m - 1 - x
    BY <1>10
  <2>2. (c + j - 1) * Ratio = x + z
    <3>1. c \in Int /\ j - 1 \in Int /\ Ratio \in Int /\ c + (j - 1) = c + j - 1
      BY <1>1, <1>2, <1>9
    <3>2. (c + (j - 1)) * Ratio = c * Ratio + (j - 1) * Ratio
      BY <3>1, TimesSum
    <3> QED
      BY <3>1, <3>2 DEF x
  <2>3. SourceIn("Endpoint", c + j) = (c + j - 1) * Ratio + 1 - Taps
    <3>1. c \in Nat /\ j \in Nat
      BY <1>2, <1>9
    <3> QED
      BY <3>1, EndpointNext
  <2> HIDE DEF z
  <2>4. p + z + 1 \in 1..L
    BY <1>1, <1>2, <1>3, <1>4, <2>1, SMTT(30)
  <2>5. x + (p + z + 1) = SourceIn("Endpoint", c + j) + 2 * Taps
    BY <1>1, <1>2, <2>1, <2>2, <2>3
  <2> QED
    BY <2>4, <2>5 DEF z
<1>12. /\ Resampled(h, p) \in Seq(Nat) /\ Len(Resampled(h, p)) = s
       /\ \A j \in 1..s :
             Resampled(h, p)[j] = Line(pt, SourceIn("Endpoint", c + j) + 2 * Taps)
  <2>1. Resampled(h, p) = [j \in 1..s |-> h[p + (j - 1) * Ratio + 1]]
    BY DEF Resampled, s
  <2>2. \A j \in 1..s : h[p + (j - 1) * Ratio + 1] \in Nat
    BY <1>3, <1>11, SMTT(30) DEF L
  <2>3. Resampled(h, p) \in [1..s -> Nat]
    BY <2>1, <2>2
  <2>4. Resampled(h, p) \in Seq(Nat) /\ Len(Resampled(h, p)) = s
    BY <1>9, <2>3
  <2>5. \A j \in 1..s : h[p + (j - 1) * Ratio + 1]
                           = Line(pt, SourceIn("Endpoint", c + j) + 2 * Taps)
    BY <1>3, <1>11
  <2> QED
    BY <2>1, <2>4, <2>5
<1>13. ReadTo(h, p) = Taps + y /\ KeepFrom(h, p) = y
  BY <1>1, <1>9 DEF ReadTo, KeepFrom, s, y
<1>14. y <= L
  <2>1. x + y <= 2 * Taps + m
    <3>1. ASSUME c + s = 0 PROVE x + y <= 2 * Taps + m
      <4>1. (c + s) * Ratio = 0
        BY <1>1, <3>1
      <4> QED
        BY <1>1, <1>4, <1>7, <4>1
    <3>2. ASSUME c + s > 0 PROVE x + y <= 2 * Taps + m
      <4> DEFINE q == c + s - 1
      <4>0. q \in Int /\ c + s = q + 1
        BY <1>2, <1>9
      <4>1. q * Ratio < m - 1
        BY <1>1, <1>2, <1>4, <1>7, <1>9, <3>2 DEF Enough
      <4> HIDE DEF q
      <4>2. q * Ratio \in Int /\ (c + s) * Ratio = q * Ratio + Ratio
        BY <1>1, <4>0, TimesOrder
      <4> QED
        BY <1>1, <1>2, <1>4, <1>7, <1>9, <4>1, <4>2
    <3> QED
      BY <1>2, <1>9, <3>1, <3>2
  <2> QED
    BY <1>1, <1>2, <1>3, <1>4, <1>9, <2>1
<1>15. Lined(SubSeq(h, y + 1, L), Taps, pt)
  <2> DEFINE g == SubSeq(h, y + 1, L)
  <2>1. /\ g \in Seq(Nat) /\ Len(g) = L - y
        /\ \A i \in 1..(L - y) : g[i] = h[y + i]
    BY <1>3, <1>9, <1>14, Rest DEF L
  <2> HIDE DEF g
  <2>2. Len(g) = 2 * Taps + m - (x + y)
    BY <1>1, <1>2, <1>3, <1>4, <1>9, <2>1
  <2>3. ASSUME NEW i \in 1..Len(g) PROVE g[i] = Line(pt, (x + y) + i)
    <3>1. i \in 1..(L - y) /\ y + i \in 1..L /\ x + (y + i) = (x + y) + i
      BY <1>2, <1>3, <1>9, <1>14, <2>1
    <3> QED
      BY <1>3, <2>1, <3>1
  <2>4. x + y = CountIn("Endpoint", Len(pt)) * Ratio
    BY <1>7, <1>8 DEF m, pt
  <2> QED
    BY <1>3, <2>1, <2>2, <2>3, <2>4 DEF Lined, LinedAt, g, m, pt
<1> QED
  BY <1>1, <1>8, <1>9, <1>12, <1>13, <1>15 DEF s, m, pt, L

-----------------------------------------------------------------------------
\* The first samples of a concatenation are those of its first part.
LEMMA FirstOf ==
    ASSUME NEW S, NEW a \in Seq(S), NEW b \in Seq(S), NEW i \in Int, 1 <= i, i <= Len(a)
    PROVE  (a \o b)[i] = a[i]
<1>1. i \in 1..(Len(a) + Len(b)) /\ i <= Len(a)
  OBVIOUS
<1> QED
  BY <1>1, ConcatProperties

\* The others are those of its second part.
LEMMA SecondOf ==
    ASSUME NEW S, NEW a \in Seq(S), NEW b \in Seq(S), NEW i \in Int, 1 <= i, i <= Len(b)
    PROVE  (a \o b)[Len(a) + i] = b[i]
<1> DEFINE n == Len(a)
           m == Len(b)
<1>1. n \in Nat /\ m \in Nat /\ i <= m
  OBVIOUS
<1>2. \A x \in 1..(n + m) : (a \o b)[x] = IF x <= n THEN a[x] ELSE b[x - n]
  BY ConcatProperties
<1> HIDE DEF n, m
<1>3. n + i \in 1..(n + m) /\ ~(n + i <= n) /\ (n + i) - n = i
  BY <1>1
<1> QED
  BY <1>2, <1>3 DEF n

\* What a caller can be given.
Sound == {Silence} \cup {Real(i) : i \in Nat}

\* GapsBefore and SamplesInOrder of a stream, an output, what was pulled and the gaps.
GapsAhead(st, gs, k) == {j \in DOMAIN gs : CountIn(st, gs[j]) < k}
SampleOf(st, pl, k) == IF SourceIn(st, k) < 1 THEN 0 ELSE pl[SourceIn(st, k)]
Laid(st, out, pl, gs) ==
    /\ Len(out) = CountIn(st, Len(pl)) + Frame * Len(gs)
    /\ \A k \in 1..CountIn(st, Len(pl)) :
          out[k + Frame * Cardinality(GapsAhead(st, gs, k))] = Real(SampleOf(st, pl, k))
    /\ \A j \in DOMAIN gs : \A i \in 1..Frame :
          out[CountIn(st, gs[j]) + Frame * (j - 1) + i] = Silence

\* There are at most as many gaps in front of a sample as there are gaps.
LEMMA BeforeBound ==
    ASSUME NEW st, NEW gs \in Seq(Nat), NEW k
    PROVE  /\ Cardinality(GapsAhead(st, gs, k)) \in Nat
           /\ Cardinality(GapsAhead(st, gs, k)) <= Len(gs)
           /\ (\A j \in 1..Len(gs) : CountIn(st, gs[j]) < k)
                 => Cardinality(GapsAhead(st, gs, k)) = Len(gs)
<1> DEFINE n == Len(gs)
           B == GapsAhead(st, gs, k)
<1>1. n \in Nat /\ DOMAIN gs = 1..n
  OBVIOUS
<1>2. B \subseteq 1..n /\ ((\A j \in 1..n : CountIn(st, gs[j]) < k) => B = 1..n)
  BY <1>1 DEF GapsAhead
<1> HIDE DEF n, B
<1>3. IsFiniteSet(1..n) /\ Cardinality(1..n) = n
  <2>1. /\ IsFiniteSet(1..n)
        /\ Cardinality(1..n) = IF 1 > n THEN 0 ELSE n - 1 + 1
    BY <1>1, FS_Interval
  <2> QED
    BY <1>1, <2>1
<1>4. IsFiniteSet(B) /\ Cardinality(B) <= Cardinality(1..n)
  BY <1>2, <1>3, FS_Subset
<1>5. Cardinality(B) \in Nat
  BY <1>4, FS_CardinalityType
<1> QED
  BY <1>2, <1>3, <1>4, <1>5 DEF n, B

\* MoreFrames of silence: one more, or fewer.
LEMMA MoreFrames ==
    ASSUME NEW a \in Nat, NEW b \in Nat
    PROVE  /\ Frame \in Nat /\ Frame * a \in Nat
           /\ Frame * (a + 1) = Frame * a + Frame
           /\ a <= b => Frame * a <= Frame * b
BY SourceAssumption

\* The sample k of what was pulled before stays where it was.
LEMMA SampleStays ==
    ASSUME NEW st, NEW pl \in Seq(Nat), NEW t \in Seq(Nat), NEW k \in 1..CountIn(st, Len(pl))
    PROVE  SampleOf(st, pl \o t, k) = SampleOf(st, pl, k)
<1> DEFINE z == SourceIn(st, k)
<1>1. Len(pl) \in Nat
  OBVIOUS
<1>2. z \in Int /\ z <= Len(pl)
  BY <1>1, SourceWithin
<1> HIDE DEF z
<1>3. ASSUME ~(z < 1) PROVE (pl \o t)[z] = pl[z]
  BY <1>2, <1>3, FirstOf
<1> QED
  BY <1>3 DEF SampleOf, z

\* The i-th sample of a gap's silence lies in the output: x samples and y of silence are in
\* front of it, of c and z.
LEMMA GapFits ==
    ASSUME NEW x \in Nat, NEW y \in Nat, NEW c \in Nat, NEW z \in Nat, NEW f \in Nat,
           NEW i \in Nat, 1 <= i, i <= f, x <= c, y + f <= z
    PROVE  x + y + i \in Int /\ 1 <= x + y + i /\ x + y + i <= c + z
OBVIOUS

\* A read that saw no gap: the samples go behind the output.
LEMMA LaidSamples ==
    ASSUME NEW st, NEW out \in Seq(Sound), NEW pl \in Seq(Nat), NEW gs \in Seq(Nat),
           NEW t \in Seq(Nat), NEW new \in Seq(Sound),
           \A j \in 1..Len(gs) : CountIn(st, gs[j]) <= CountIn(st, Len(pl)),
           Laid(st, out, pl, gs),
           CountIn(st, Len(pl \o t)) = CountIn(st, Len(pl)) + Len(new),
           \A j \in 1..Len(new) :
              new[j] = Real(SampleOf(st, pl \o t, CountIn(st, Len(pl)) + j))
    PROVE  Laid(st, out \o new, pl \o t, gs)
<1> DEFINE c == CountIn(st, Len(pl))
           pt == pl \o t
           G == Len(gs)
           o == out \o new
           l == Len(new)
<1>1. c \in Nat /\ G \in Nat /\ l \in Nat /\ Len(out) \in Nat /\ DOMAIN gs = 1..G
  BY CountFacts
<1>2. /\ Len(out) = c + Frame * G
      /\ \A k \in 1..c : out[k + Frame * Cardinality(GapsAhead(st, gs, k))] = Real(SampleOf(st, pl, k))
      /\ \A j \in 1..G : \A i \in 1..Frame :
             out[CountIn(st, gs[j]) + Frame * (j - 1) + i] = Silence
  BY <1>1 DEF Laid
<1>3. /\ CountIn(st, Len(pt)) = c + l
      /\ \A j \in 1..l : new[j] = Real(SampleOf(st, pt, c + j))
      /\ \A j \in 1..G : CountIn(st, gs[j]) <= c
  OBVIOUS
<1>4. o \in Seq(Sound) /\ Len(o) = Len(out) + l
  BY ConcatProperties
<1>5. Frame \in Nat /\ Frame * G \in Nat
  BY <1>1, MoreFrames
<1>6. \A j \in 1..G : CountIn(st, gs[j]) \in Nat
  BY CountFacts
<1> HIDE DEF c, pt, G, o, l
<1>7. Len(o) = CountIn(st, Len(pt)) + Frame * G
  BY <1>1, <1>2, <1>3, <1>4, <1>5
<1>8. ASSUME NEW k \in 1..c
      PROVE  o[k + Frame * Cardinality(GapsAhead(st, gs, k))] = Real(SampleOf(st, pt, k))
  <2> DEFINE b == Cardinality(GapsAhead(st, gs, k))
             w == k + Frame * b
  <2>1. b \in Nat /\ b <= G
    BY BeforeBound DEF G
  <2> HIDE DEF b
  <2>2. Frame * b \in Nat /\ Frame * b <= Frame * G
    BY <1>1, <2>1, MoreFrames
  <2>3. w \in Int /\ 1 <= w /\ w <= Len(out)
    BY <1>1, <1>2, <1>5, <2>2, SMTT(30)
  <2> HIDE DEF w
  <2>4. o[w] = out[w]
    BY <2>3, FirstOf DEF o
  <2>5. SampleOf(st, pt, k) = SampleOf(st, pl, k)
    BY SampleStays DEF pt, c
  <2> QED
    BY <1>2, <2>4, <2>5 DEF w, b
<1>9. ASSUME NEW j \in 1..l
      PROVE  o[(c + j) + Frame * Cardinality(GapsAhead(st, gs, c + j))]
                = Real(SampleOf(st, pt, c + j))
  <2>1. \A x \in 1..G : CountIn(st, gs[x]) < c + j
    <3> TAKE x \in 1..G
    <3>1. CountIn(st, gs[x]) \in Nat /\ CountIn(st, gs[x]) <= c
      BY <1>3, <1>6
    <3> QED
      BY <1>1, <3>1
  <2>2. Cardinality(GapsAhead(st, gs, c + j)) = G
    BY <2>1, BeforeBound DEF G
  <2>3. (c + j) + Frame * G = Len(out) + j /\ j \in Int /\ 1 <= j /\ j <= l
    BY <1>1, <1>2, <1>5
  <2>4. o[Len(out) + j] = new[j]
    BY <2>3, SecondOf DEF o, l
  <2> QED
    BY <1>3, <2>2, <2>3, <2>4
<1>10. ASSUME NEW k \in 1..(c + l)
       PROVE  o[k + Frame * Cardinality(GapsAhead(st, gs, k))] = Real(SampleOf(st, pt, k))
  <2>1. CASE k <= c
    <3>1. k \in 1..c
      BY <1>1, <2>1
    <3> QED
      BY <1>8, <3>1
  <2>2. CASE k > c
    <3> DEFINE j == k - c
    <3>1. j \in 1..l /\ c + j = k
      BY <1>1, <2>2
    <3> HIDE DEF j
    <3>2. o[(c + j) + Frame * Cardinality(GapsAhead(st, gs, c + j))]
             = Real(SampleOf(st, pt, c + j))
      BY <1>9, <3>1
    <3> QED
      BY <3>1, <3>2
  <2> QED
    BY <1>1, <2>1, <2>2
<1>11. ASSUME NEW j \in 1..G, NEW i \in 1..Frame
       PROVE  o[CountIn(st, gs[j]) + Frame * (j - 1) + i] = Silence
  <2> DEFINE w == CountIn(st, gs[j]) + Frame * (j - 1) + i
             a == j - 1
  <2>1. a \in Nat /\ a + 1 \in Nat /\ a + 1 <= G
    BY <1>1
  <2>2. Frame * a \in Nat /\ Frame * (a + 1) = Frame * a + Frame /\ Frame * (a + 1) <= Frame * G
    BY <1>1, <2>1, MoreFrames
  <2>3. w \in Int /\ 1 <= w /\ w <= Len(out)
    <3>1. CountIn(st, gs[j]) \in Nat /\ CountIn(st, gs[j]) <= c
      BY <1>3, <1>6
    <3> HIDE DEF a
    <3>2. w = CountIn(st, gs[j]) + Frame * a + i /\ i \in Nat /\ 1 <= i /\ i <= Frame
      BY SourceAssumption DEF a
    <3> HIDE DEF w
    <3>3. Frame * a + Frame <= Frame * G
      BY <2>2
    <3> DEFINE y == Frame * a
               z == Frame * G
               x == CountIn(st, gs[j])
    <3>4. x \in Nat /\ y \in Nat /\ z \in Nat /\ c \in Nat /\ Frame \in Nat /\ x <= c /\ y + Frame <= z
      BY <1>1, <1>5, <2>2, <3>1, <3>3
    <3>5. w = x + y + i /\ Len(out) = c + z
      BY <1>2, <3>2
    <3> HIDE DEF x, y, z
    <3>6. x + y + i \in Int /\ 1 <= x + y + i /\ x + y + i <= c + z
      BY <3>2, <3>4, GapFits
    <3> QED
      BY <3>5, <3>6
  <2>4. out[w] = Silence
    BY <1>2
  <2> HIDE DEF w
  <2>5. o[w] = out[w]
    BY <2>3, FirstOf DEF o
  <2> QED
    BY <2>4, <2>5 DEF w
<1> QED
  BY <1>1, <1>3, <1>7, <1>10, <1>11 DEF Laid, c, pt, G, o, l

\* A gap: a frame of silence goes behind the output.
LEMMA LaidSilence ==
    ASSUME NEW st, NEW out \in Seq(Sound), NEW pl \in Seq(Nat), NEW gs \in Seq(Nat),
           \A j \in 1..Len(gs) : CountIn(st, gs[j]) <= CountIn(st, Len(pl)),
           Laid(st, out, pl, gs)
    PROVE  Laid(st, out \o [i \in 1..Frame |-> Silence], pl, Append(gs, Len(pl)))
<1> DEFINE c == CountIn(st, Len(pl))
           G == Len(gs)
           sil == [i \in 1..Frame |-> Silence]
           o == out \o sil
           g2 == Append(gs, Len(pl))
<1>1. c \in Nat /\ G \in Nat /\ Len(out) \in Nat /\ DOMAIN gs = 1..G /\ Len(pl) \in Nat
  BY CountFacts
<1>2. /\ Len(out) = c + Frame * G
      /\ \A k \in 1..c : out[k + Frame * Cardinality(GapsAhead(st, gs, k))] = Real(SampleOf(st, pl, k))
      /\ \A j \in 1..G : \A i \in 1..Frame :
             out[CountIn(st, gs[j]) + Frame * (j - 1) + i] = Silence
  BY <1>1 DEF Laid
<1>3. \A j \in 1..G : CountIn(st, gs[j]) <= c /\ CountIn(st, gs[j]) \in Nat
  BY CountFacts
<1>4. Frame \in Nat /\ Frame * G \in Nat /\ Frame * (G + 1) = Frame * G + Frame
  BY <1>1, MoreFrames
<1>5. /\ sil \in Seq(Sound) /\ Len(sil) = Frame
      /\ \A i \in 1..Frame : sil[i] = Silence
  BY <1>4 DEF Sound
<1>6. /\ g2 \in Seq(Nat) /\ Len(g2) = G + 1 /\ DOMAIN g2 = 1..(G + 1)
      /\ g2[G + 1] = Len(pl)
      /\ \A j \in 1..G : g2[j] = gs[j]
  BY <1>1, AppendProperties
<1> HIDE DEF sil
<1>7. o \in Seq(Sound) /\ Len(o) = Len(out) + Frame
  BY <1>5, ConcatProperties
<1>8. CountIn(st, g2[G + 1]) = c
  BY <1>6
<1> HIDE DEF c, G, o, g2
<1>9. Len(o) = c + Frame * Len(g2)
  BY <1>1, <1>2, <1>4, <1>6, <1>7
<1>10. ASSUME NEW k \in 1..c
       PROVE  o[k + Frame * Cardinality(GapsAhead(st, g2, k))] = Real(SampleOf(st, pl, k))
  <2> DEFINE b == Cardinality(GapsAhead(st, gs, k))
             w == k + Frame * b
  <2>0. ~(CountIn(st, g2[G + 1]) < k)
    BY <1>1, <1>8
  <2>1. GapsAhead(st, g2, k) = GapsAhead(st, gs, k)
    <3>1. \A j \in 1..(G + 1) : j \in 1..G \/ j = G + 1
      BY <1>1
    <3>2. \A j \in 1..G : j \in 1..(G + 1)
      BY <1>1
    <3> QED
      BY <1>1, <1>6, <2>0, <3>1, <3>2 DEF GapsAhead
  <2>2. b \in Nat /\ b <= G
    BY BeforeBound DEF G
  <2> HIDE DEF b
  <2>3. Frame * b \in Nat /\ Frame * b <= Frame * G
    BY <1>1, <2>2, MoreFrames
  <2>4. w \in Int /\ 1 <= w /\ w <= Len(out)
    BY <1>1, <1>2, <1>4, <2>3, SMTT(30)
  <2> HIDE DEF w
  <2>5. o[w] = out[w]
    BY <1>5, <2>4, FirstOf DEF o
  <2> QED
    BY <1>2, <2>1, <2>5 DEF w, b
<1>11. ASSUME NEW j \in 1..G, NEW i \in 1..Frame
       PROVE  o[CountIn(st, g2[j]) + Frame * (j - 1) + i] = Silence
  <2> DEFINE w == CountIn(st, gs[j]) + Frame * (j - 1) + i
             a == j - 1
  <2>1. a \in Nat /\ a + 1 \in Nat /\ a + 1 <= G
    BY <1>1
  <2>2. Frame * a \in Nat /\ Frame * (a + 1) = Frame * a + Frame /\ Frame * (a + 1) <= Frame * G
    BY <1>1, <2>1, MoreFrames
  <2>3. w \in Int /\ 1 <= w /\ w <= Len(out)
    <3>1. CountIn(st, gs[j]) \in Nat /\ CountIn(st, gs[j]) <= c
      BY <1>3
    <3> HIDE DEF a
    <3>2. w = CountIn(st, gs[j]) + Frame * a + i /\ i \in Nat /\ 1 <= i /\ i <= Frame
      BY SourceAssumption DEF a
    <3> HIDE DEF w
    <3>3. Frame * a + Frame <= Frame * G
      BY <2>2
    <3> DEFINE y == Frame * a
               z == Frame * G
               x == CountIn(st, gs[j])
    <3>4. x \in Nat /\ y \in Nat /\ z \in Nat /\ c \in Nat /\ Frame \in Nat /\ x <= c /\ y + Frame <= z
      BY <1>1, <1>4, <2>2, <3>1, <3>3
    <3>5. w = x + y + i /\ Len(out) = c + z
      BY <1>2, <3>2
    <3> HIDE DEF x, y, z
    <3>6. x + y + i \in Int /\ 1 <= x + y + i /\ x + y + i <= c + z
      BY <3>2, <3>4, GapFits
    <3> QED
      BY <3>5, <3>6
  <2>4. out[w] = Silence /\ g2[j] = gs[j]
    BY <1>2, <1>6
  <2> HIDE DEF w
  <2>5. o[w] = out[w]
    BY <1>5, <2>3, FirstOf DEF o
  <2> QED
    BY <2>4, <2>5 DEF w
<1>12. ASSUME NEW i \in 1..Frame
       PROVE  o[CountIn(st, g2[G + 1]) + Frame * ((G + 1) - 1) + i] = Silence
  <2>1. CountIn(st, g2[G + 1]) + Frame * ((G + 1) - 1) + i = Len(out) + i
    <3>1. (G + 1) - 1 = G
      BY <1>1
    <3> QED
      BY <1>1, <1>2, <1>4, <1>8, <3>1
  <2>2. i \in Int /\ 1 <= i /\ i <= Len(sil)
    BY <1>4, <1>5
  <2>3. o[Len(out) + i] = sil[i]
    BY <1>5, <2>2, SecondOf DEF o
  <2> QED
    BY <1>5, <2>1, <2>3
<1>13. \A j \in 1..(G + 1) : \A i \in 1..Frame :
          o[CountIn(st, g2[j]) + Frame * (j - 1) + i] = Silence
  <2>1. \A j \in 1..(G + 1) : j \in 1..G \/ j = G + 1
    BY <1>1
  <2> QED
    BY <1>11, <1>12, <2>1
<1> QED
  BY <1>6, <1>9, <1>10, <1>13 DEF Laid, c, o, g2, sil

-----------------------------------------------------------------------------
\* The inductive invariant of the source.
SourceTypes ==
    /\ stream \in {"none", "Process", "Endpoint"}
    /\ made \in Nat /\ glitch \in BOOLEAN /\ gap \in BOOLEAN
    /\ packets \in Seq([ids : Seq(Nat), discontinuity : BOOLEAN])
    /\ taken \in Seq(Nat) /\ pulled \in Seq(Nat) /\ gaps \in Seq(Nat)
    /\ handed \in Seq(Sound) /\ buffered \in Seq(Sound)

Unopened == stream = "none" => /\ phase = "idle" /\ pulled = <<>> /\ gaps = <<>>
                               /\ Output = <<>>
Standing == stream # "Process" => Lined(history, pos, pulled)
GapsReached ==
    \A j \in 1..Len(gaps) : CountIn(stream, gaps[j]) <= CountIn(stream, Len(pulled))
AllLaid == Laid(stream, Output, pulled, gaps)

SourceInv == SourceTypes /\ Unopened /\ Standing /\ GapsReached /\ AllLaid

\* The place of a sample in the line with its lead-in.
LEMMA LineIs ==
    ASSUME NEW pt, NEW st, NEW k, SourceIn(st, k) \in Int
    PROVE  Line(pt, SourceIn(st, k) + 2 * Taps) = SampleOf(st, pt, k)
<1>1. ASSUME NEW z \in Int
      PROVE  Line(pt, z + 2 * Taps) = IF z < 1 THEN 0 ELSE pt[z]
  <2>1. (z + 2 * Taps <= 2 * Taps <=> z < 1) /\ (z + 2 * Taps) - 2 * Taps = z
    BY SourceAssumption
  <2> QED
    BY <2>1 DEF Line
<1> QED
  BY <1>1 DEF SampleOf

\* Concatenations group either way.
LEMMA Grouped ==
    \A a, b, d \in Seq(Sound) : a \o (b \o d) = (a \o b) \o d
BY ConcatAssociative

\* The samples a read makes of what it took are the next ones.
LEMMA ConvertedIsNext ==
    ASSUME SourceInv, stream # "none"
    PROVE  /\ Converted \in Seq(Nat)
           /\ CountIn(stream, Len(pulled \o taken)) = CountIn(stream, Len(pulled)) + Len(Converted)
           /\ \A j \in 1..Len(Converted) :
                 Converted[j] = SampleOf(stream, pulled \o taken, CountIn(stream, Len(pulled)) + j)
           /\ stream = "Endpoint" =>
                 LET h == history \o taken IN
                 Lined(SubSeq(h, KeepFrom(h, pos) + 1, Len(h)), ReadTo(h, pos) - KeepFrom(h, pos),
                       pulled \o taken)
<1>1. pulled \in Seq(Nat) /\ taken \in Seq(Nat) /\ stream \in {"none", "Process", "Endpoint"}
  BY DEF SourceInv, SourceTypes
<1>2. CASE stream = "Process"
  <2> DEFINE n == Len(pulled)
             pt == pulled \o taken
  <2>1. Converted = taken /\ CountIn(stream, n) = n /\ CountIn(stream, Len(pt)) = Len(pt)
        /\ Len(pt) = n + Len(taken) /\ n \in Nat /\ Len(taken) \in Nat
    BY <1>1, <1>2, ConcatProperties DEF Converted, CountIn
  <2>2. ASSUME NEW j \in 1..Len(taken) PROVE taken[j] = SampleOf(stream, pt, n + j)
    <3>1. pt[n + j] = taken[j]
      BY <1>1, SecondOf
    <3> HIDE DEF n, pt
    <3>2. SourceIn(stream, n + j) = n + j /\ ~(n + j < 1)
      BY <1>2, <2>1 DEF SourceIn
    <3> QED
      BY <3>1, <3>2 DEF SampleOf
  <2> QED
    BY <1>1, <1>2, <2>1, <2>2
<1>3. CASE stream = "Endpoint"
  <2> DEFINE h == history \o taken
             c == CountIn("Endpoint", Len(pulled))
             pt == pulled \o taken
  <2>1. Lined(history, pos, pulled)
    BY <1>3 DEF SourceInv, Standing
  <2>2. /\ CountIn("Endpoint", Len(pt)) = c + Steps(h, pos)
        /\ Resampled(h, pos) \in Seq(Nat) /\ Len(Resampled(h, pos)) = Steps(h, pos)
        /\ \A j \in 1..Steps(h, pos) :
              Resampled(h, pos)[j] = Line(pt, SourceIn("Endpoint", c + j) + 2 * Taps)
        /\ Lined(SubSeq(h, KeepFrom(h, pos) + 1, Len(h)), ReadTo(h, pos) - KeepFrom(h, pos), pt)
    BY <1>1, <2>1, Resamples
  <2>3. Converted = Resampled(h, pos)
    BY <1>3 DEF Converted
  <2>4. c \in Nat
    BY <1>1, CountFacts
  <2>5. Steps(h, pos) \in Nat
    BY <2>2
  <2> HIDE DEF h, c, pt
  <2>6. ASSUME NEW j \in 1..Steps(h, pos)
        PROVE  Line(pt, SourceIn("Endpoint", c + j) + 2 * Taps) = SampleOf("Endpoint", pt, c + j)
    <3> DEFINE z == SourceIn("Endpoint", c + j)
    <3>1. z \in Int
      <4>1. j \in Nat /\ c + j - 1 \in Int /\ z = (c + j - 1) * Ratio + 1 - Taps
        BY <2>4, <2>5, EndpointNext
      <4>2. (c + j - 1) * Ratio \in Int
        BY <4>1, SourceAssumption, TimesOrder
      <4> QED
        BY <4>1, <4>2, SourceAssumption
    <3> QED
      BY <3>1, LineIs
  <2> QED
    BY <1>3, <2>2, <2>3, <2>6 DEF h, c, pt
<1> QED
  BY <1>1, <1>2, <1>3

\* Entries keeps order and number.
LEMMA EntriesAre ==
    ASSUME NEW ids \in Seq(Nat)
    PROVE  /\ Entries(ids) \in Seq(Sound) /\ Len(Entries(ids)) = Len(ids)
           /\ \A j \in 1..Len(ids) : Entries(ids)[j] = Real(ids[j])
<1> DEFINE n == Len(ids)
           e == Entries(ids)
<1>1. n \in Nat /\ DOMAIN ids = 1..n /\ \A j \in 1..n : ids[j] \in Nat
  OBVIOUS
<1>2. e = [j \in 1..n |-> Real(ids[j])]
  BY <1>1 DEF Entries
<1>3. \A j \in 1..n : Real(ids[j]) \in Sound
  BY <1>1 DEF Sound
<1> HIDE DEF n, e
<1>4. e \in [1..n -> Sound] /\ \A j \in 1..n : e[j] = Real(ids[j])
  BY <1>2, <1>3
<1>5. e \in Seq(Sound) /\ Len(e) = n
  BY <1>1, <1>4
<1> QED
  BY <1>4, <1>5 DEF n, e

\* A gap is reached when it is noted.
LEMMA ReachedMore ==
    ASSUME NEW st, NEW gs \in Seq(Nat), NEW pl \in Seq(Nat), NEW n \in Nat,
           CountIn(st, Len(pl)) <= CountIn(st, n),
           \A j \in 1..Len(gs) : CountIn(st, gs[j]) <= CountIn(st, Len(pl))
    PROVE  /\ \A j \in 1..Len(gs) : CountIn(st, gs[j]) <= CountIn(st, n)
           /\ \A j \in 1..Len(Append(gs, Len(pl))) :
                 CountIn(st, Append(gs, Len(pl))[j]) <= CountIn(st, n)
<1> DEFINE c == CountIn(st, Len(pl))
           d == CountIn(st, n)
           G == Len(gs)
           g2 == Append(gs, Len(pl))
<1>1. c \in Nat /\ d \in Nat /\ c <= d /\ G \in Nat /\ Len(pl) \in Nat
  BY CountFacts
<1>2. \A j \in 1..G : CountIn(st, gs[j]) \in Nat /\ CountIn(st, gs[j]) <= c
  BY CountFacts
<1>3. Len(g2) = G + 1 /\ g2[G + 1] = Len(pl) /\ \A j \in 1..G : g2[j] = gs[j]
  BY <1>1, AppendProperties
<1>4. CountIn(st, g2[G + 1]) = c
  BY <1>3
<1> HIDE DEF c, d, G, g2
<1>5. ASSUME NEW j \in 1..G PROVE CountIn(st, gs[j]) <= d
  <2>1. CountIn(st, gs[j]) \in Nat /\ CountIn(st, gs[j]) <= c
    BY <1>2
  <2> QED
    BY <1>1, <2>1
<1>6. ASSUME NEW j \in 1..(G + 1) PROVE CountIn(st, g2[j]) <= d
  <2>1. j \in 1..G \/ j = G + 1
    BY <1>1
  <2> QED
    BY <1>1, <1>3, <1>4, <1>5, <2>1
<1> QED
  BY <1>3, <1>5, <1>6 DEF d, G, g2

\* A buffer captured.
LEMMA CapturedKeeps ==
    ASSUME SourceInv, stream # "none", Captured, UNCHANGED <<stream, handed>>
    PROVE  /\ pulled' \in Seq(Nat) /\ gaps' \in Seq(Nat) /\ buffered' \in Seq(Sound)
           /\ Standing' /\ GapsReached' /\ AllLaid'
<1> DEFINE pt == pulled \o taken
           e == Entries(Converted)
           sil == [i \in 1..Frame |-> Silence]
           g2 == Append(gaps, Len(pulled))
<1>1. /\ pulled \in Seq(Nat) /\ taken \in Seq(Nat) /\ gaps \in Seq(Nat)
      /\ handed \in Seq(Sound) /\ buffered \in Seq(Sound)
      /\ stream \in {"Process", "Endpoint"} /\ Len(pulled) \in Nat
  BY DEF SourceInv, SourceTypes
<1>2. /\ buffered' = (buffered \o Inserted) \o e /\ pulled' = pt
      /\ gaps' = (IF gap THEN g2 ELSE gaps)
      /\ Inserted = (IF gap THEN sil ELSE <<>>)
      /\ stream' = stream /\ handed' = handed
  BY DEF Captured, Inserted
<1>3. /\ Converted \in Seq(Nat)
      /\ CountIn(stream, Len(pt)) = CountIn(stream, Len(pulled)) + Len(Converted)
      /\ \A j \in 1..Len(Converted) :
            Converted[j] = SampleOf(stream, pt, CountIn(stream, Len(pulled)) + j)
  BY ConvertedIsNext
<1>4. /\ e \in Seq(Sound) /\ Len(e) = Len(Converted)
      /\ \A j \in 1..Len(e) : e[j] = Real(SampleOf(stream, pt, CountIn(stream, Len(pulled)) + j))
  BY <1>3, EntriesAre
<1>5. pt \in Seq(Nat) /\ g2 \in Seq(Nat) /\ sil \in Seq(Sound) /\ Len(pt) \in Nat
  <2>1. sil \in [1..Frame -> Sound] /\ Frame \in Nat
    BY SourceAssumption DEF Sound
  <2>2. sil \in Seq(Sound)
    BY <2>1
  <2> QED
    BY <1>1, <2>2, ConcatProperties, AppendProperties
<1>6. Standing'
  <2>1. ASSUME stream = "Endpoint" PROVE Lined(history', pos', pulled')
    BY <1>2, <2>1, ConvertedIsNext DEF Captured
  <2> QED
    BY <1>1, <1>2, <2>1 DEF Standing
<1>7. CountIn(stream, Len(pulled)) <= CountIn(stream, Len(pt)) /\ CountIn(stream, Len(pulled)) \in Nat
  BY <1>1, <1>3, <1>5, CountFacts
<1> HIDE DEF pt, e, sil, g2
<1>8. /\ \A j \in 1..Len(gaps) : CountIn(stream, gaps[j]) <= CountIn(stream, Len(pulled))
      /\ \A j \in 1..Len(gaps) : CountIn(stream, gaps[j]) <= CountIn(stream, Len(pt))
      /\ \A j \in 1..Len(g2) : CountIn(stream, g2[j]) <= CountIn(stream, Len(pt))
      /\ \A j \in 1..Len(g2) : CountIn(stream, g2[j]) <= CountIn(stream, Len(pulled))
  <2>1. \A j \in 1..Len(gaps) : CountIn(stream, gaps[j]) <= CountIn(stream, Len(pulled))
    BY DEF SourceInv, GapsReached
  <2>2. CountIn(stream, Len(pulled)) <= CountIn(stream, Len(pulled))
    BY <1>7
  <2> QED
    BY <1>1, <1>5, <1>7, <2>1, <2>2, ReachedMore DEF g2
<1>9. GapsReached'
  BY <1>2, <1>8 DEF GapsReached
<1>10. Output \in Seq(Sound) /\ Laid(stream, Output, pulled, gaps)
  BY <1>1, ConcatProperties DEF SourceInv, AllLaid, Output
<1>11. CASE gap
  <2> DEFINE o == Output \o sil
  <2>1. o \in Seq(Sound)
    BY <1>5, <1>10, ConcatProperties
  <2>2. Laid(stream, o, pulled, g2)
    BY <1>1, <1>8, <1>10, LaidSilence DEF sil, g2
  <2> HIDE DEF o
  <2>3. Laid(stream, o \o e, pt, g2)
    BY <1>1, <1>3, <1>4, <1>5, <1>8, <2>1, <2>2, LaidSamples DEF pt
  <2>4. buffered \o sil \in Seq(Sound) /\ buffered' = (buffered \o sil) \o e
    BY <1>1, <1>2, <1>5, <1>11, ConcatProperties
  <2>5. handed \o ((buffered \o sil) \o e) = o \o e
    <3>1. handed \in Seq(Sound) /\ buffered \in Seq(Sound) /\ sil \in Seq(Sound) /\ e \in Seq(Sound)
      BY <1>1, <1>4, <1>5
    <3>2. handed \o ((buffered \o sil) \o e) = (handed \o (buffered \o sil)) \o e
      BY <2>4, <3>1, Grouped, ZenonT(60)
    <3>3. handed \o (buffered \o sil) = (handed \o buffered) \o sil
      BY <3>1, Grouped, ZenonT(60)
    <3> QED
      BY <3>2, <3>3 DEF o, Output
  <2>6. buffered' \in Seq(Sound)
    BY <1>4, <2>4, ConcatProperties
  <2>7. AllLaid'
    BY <1>2, <1>11, <2>3, <2>4, <2>5 DEF AllLaid, Output
  <2> QED
    BY <1>2, <1>5, <1>6, <1>9, <1>11, <2>6, <2>7
<1>12. CASE ~gap
  <2>1. buffered \o <<>> = buffered
    BY <1>1, ConcatEmptySeq
  <2>2. buffered' = buffered \o e /\ gaps' = gaps
    BY <1>2, <1>12, <2>1
  <2>3. Laid(stream, Output \o e, pt, gaps)
    BY <1>1, <1>3, <1>4, <1>5, <1>8, <1>10, LaidSamples DEF pt
  <2>4. handed \o (buffered \o e) = Output \o e
    <3>1. handed \in Seq(Sound) /\ buffered \in Seq(Sound) /\ e \in Seq(Sound)
      BY <1>1, <1>4
    <3>2. handed \o (buffered \o e) = (handed \o buffered) \o e
      BY <3>1, Grouped, Zenon
    <3> QED
      BY <3>2 DEF Output
  <2>5. buffered' \in Seq(Sound)
    BY <1>1, <1>4, <2>2, ConcatProperties
  <2>6. AllLaid'
    BY <1>2, <2>2, <2>3, <2>4 DEF AllLaid, Output
  <2> QED
    BY <1>1, <1>2, <1>5, <1>6, <1>9, <2>2, <2>5, <2>6
<1> QED
  BY <1>11, <1>12

\* Nothing pulled, nothing to lay.
LEMMA NothingLaid ==
    ASSUME NEW st, NEW out, NEW pl, NEW gs, out = <<>>, pl = <<>>, gs = <<>>
    PROVE  Laid(st, out, pl, gs) /\ \A j \in 1..Len(gs) : CountIn(st, gs[j]) <= CountIn(st, Len(pl))
<1>1. Len(out) = 0 /\ Len(pl) = 0 /\ Len(gs) = 0 /\ DOMAIN gs = {} /\ 1..0 = {}
  OBVIOUS
<1>2. CountIn(st, Len(pl)) = 0 /\ Frame * 0 = 0
  BY <1>1, SourceAssumption DEF CountIn
<1> QED
  BY <1>1, <1>2 DEF Laid

LEMMA SourceInvInit ==
    ASSUME SourceInit
    PROVE  SourceInv
<1>1. /\ stream = "none" /\ phase = "idle" /\ pulled = <<>> /\ gaps = <<>> /\ handed = <<>>
      /\ buffered = <<>> /\ history = Zeros(2 * Taps) /\ pos = Taps
      /\ made = 0 /\ glitch = FALSE /\ packets = <<>> /\ taken = <<>> /\ gap = FALSE
  BY DEF SourceInit
<1>2. SourceTypes
  <2>1. gap \in BOOLEAN /\ glitch \in BOOLEAN
    BY <1>1, Zenon
  <2>2. /\ stream \in {"none", "Process", "Endpoint"} /\ made \in Nat
        /\ packets \in Seq([ids : Seq(Nat), discontinuity : BOOLEAN])
        /\ taken \in Seq(Nat) /\ pulled \in Seq(Nat) /\ gaps \in Seq(Nat)
        /\ handed \in Seq(Sound) /\ buffered \in Seq(Sound)
    BY <1>1
  <2> QED
    BY <2>1, <2>2 DEF SourceTypes
<1>3. Output = <<>>
  BY <1>1, ConcatEmptySeq DEF Output
<1>4. Lined(history, pos, pulled)
  <2> DEFINE z == Zeros(2 * Taps)
  <2>1. /\ 2 * Taps \in Nat /\ CountIn("Endpoint", 0) = 0 /\ 0 * Ratio = 0
    BY SourceAssumption DEF CountIn
  <2>2. z \in [1..(2 * Taps) -> Nat] /\ \A i \in 1..(2 * Taps) : z[i] = 0
    BY <2>1 DEF Zeros
  <2>3. z \in Seq(Nat) /\ Len(z) = 2 * Taps
    BY <2>1, <2>2
  <2>4. pulled \in Seq(Nat) /\ Len(pulled) = 0
    BY <1>1
  <2>5. \A i \in 1..(2 * Taps) : Line(pulled, 0 + i) = 0
    BY <2>1 DEF Line
  <2>6. 2 * Taps + 0 - 0 = 2 * Taps
    BY <2>1
  <2> HIDE DEF z
  <2>7. LinedAt(z, pulled, 0)
    BY <2>2, <2>3, <2>4, <2>5, <2>6 DEF LinedAt
  <2> QED
    BY <1>1, <2>1, <2>4, <2>7 DEF Lined, z
<1> QED
  BY <1>1, <1>2, <1>3, <1>4, NothingLaid
     DEF SourceInv, Unopened, Standing, GapsReached, AllLaid

\* A stream is opened, or is not.
LEMMA OpenKeeps ==
    ASSUME SourceInv, OpenProcess \/ OpenEndpoint \/ OpenFails
    PROVE  SourceInv'
<1>1. /\ stream = "none" /\ stream' \in {"none", "Process", "Endpoint"}
      /\ UNCHANGED <<engineVars, quiet>>
  BY DEF OpenProcess, OpenEndpoint, OpenFails, SourceInv, SourceTypes
<1>2. /\ phase' = "idle" /\ pulled' = <<>> /\ gaps' = <<>> /\ Output' = <<>>
  BY <1>1 DEF SourceInv, Unopened, quiet, Output
<1>3. SourceTypes'
  BY <1>1 DEF SourceInv, SourceTypes, quiet, engineVars
<1>4. Standing'
  <2>1. Lined(history, pos, pulled)
    BY <1>1 DEF SourceInv, Standing
  <2> QED
    BY <1>1, <2>1 DEF Standing, quiet
<1>5. GapsReached' /\ AllLaid'
  BY <1>2, NothingLaid DEF GapsReached, AllLaid
<1> QED
  BY <1>2, <1>3, <1>4, <1>5 DEF SourceInv, Unopened

\* A step that leaves the stream's samples alone.
Untouched == UNCHANGED <<stream, history, pos, pulled, gaps>> /\ Output' = Output
LEMMA UntouchedKeeps ==
    ASSUME SourceInv, Untouched, SourceTypes', stream # "none" \/ phase' = phase
    PROVE  SourceInv'
<1>1. Unopened'
  BY DEF SourceInv, Unopened, Untouched
<1>2. Standing'
  BY DEF SourceInv, Standing, Untouched
<1>3. GapsReached' /\ AllLaid'
  BY DEF SourceInv, GapsReached, AllLaid, Untouched
<1> QED
  BY <1>1, <1>2, <1>3 DEF SourceInv

\* Packets of the engine.
LEMMA PacketTypes ==
    ASSUME SourceTypes, EnginePacket
    PROVE  SourceTypes'
<1> DEFINE P == [ids : Seq(Nat), discontinuity : BOOLEAN]
<1>1. PICK n \in 1..MaxPacket :
         /\ packets' = Append(packets, [ids |-> [i \in 1..n |-> made + i],
                                        discontinuity |-> glitch])
         /\ made' = made + n
  BY DEF EnginePacket
<1>2. n \in Nat /\ made \in Nat /\ made' \in Nat
  BY <1>1, SourceAssumption DEF SourceTypes
<1>3. [i \in 1..n |-> made + i] \in Seq(Nat)
  <2>1. [i \in 1..n |-> made + i] \in [1..n -> Nat]
    BY <1>2
  <2> QED
    BY <1>2, <2>1
<1>4. [ids |-> [i \in 1..n |-> made + i], discontinuity |-> glitch] \in P
  BY <1>3 DEF SourceTypes
<1>5. packets' \in Seq(P)
  BY <1>1, <1>4, AppendProperties DEF SourceTypes
<1>6. UNCHANGED <<stream, gap, taken, pulled, gaps, handed, buffered>> /\ glitch' = FALSE
  BY DEF EnginePacket, setup, quiet
<1> QED
  BY <1>2, <1>5, <1>6 DEF SourceTypes

\* A packet is taken.
LEMMA TakeTypes ==
    ASSUME SourceTypes, TakePacket
    PROVE  SourceTypes'
<1> DEFINE P == [ids : Seq(Nat), discontinuity : BOOLEAN]
<1>1. packets \in Seq(P) /\ packets # <<>> /\ taken \in Seq(Nat) /\ gap \in BOOLEAN
  BY DEF SourceTypes, TakePacket
<1>2. Head(packets) \in P /\ Tail(packets) \in Seq(P)
  BY <1>1, HeadTailProperties
<1>3. Head(packets).ids \in Seq(Nat) /\ Head(packets).discontinuity \in BOOLEAN
  BY <1>2
<1>4. taken \o Head(packets).ids \in Seq(Nat)
  BY <1>1, <1>3, ConcatProperties
<1>5. taken' = taken \o Head(packets).ids /\ packets' = Tail(packets)
      /\ gap' = (gap \/ Head(packets).discontinuity)
      /\ UNCHANGED <<stream, made, glitch, pulled, gaps, handed, buffered>>
  BY DEF TakePacket, setup
<1>6. gap' \in BOOLEAN
  BY <1>1, <1>3, <1>5, Zenon
<1> QED
  BY <1>2, <1>4, <1>5, <1>6 DEF SourceTypes

\* The caller is given the front of the buffer.
LEMMA ServeKeeps ==
    ASSUME SourceInv, Serve, stream # "none"
    PROVE  SourceInv'
<1> DEFINE n == IF Len(buffered) < BufLen THEN Len(buffered) ELSE BufLen
           a == SubSeq(buffered, 1, n)
           b == SubSeq(buffered, n + 1, Len(buffered))
<1>1. buffered \in Seq(Sound) /\ handed \in Seq(Sound) /\ Len(buffered) \in Nat
  BY DEF SourceInv, SourceTypes
<1>2. n \in Nat /\ n <= Len(buffered)
  BY <1>1, SourceAssumption
<1>3. handed' = handed \o a /\ buffered' = b
  BY DEF Serve
<1> HIDE DEF n
<1>4. a \in Seq(Sound) /\ b \in Seq(Sound)
  <2>1. \A i \in 1..Len(buffered) : buffered[i] \in Sound
    BY <1>1
  <2>2. 1 \in Int /\ n \in Int /\ n + 1 \in Int /\ Len(buffered) \in Int
    BY <1>1, <1>2
  <2>3. \A i \in 1..n : buffered[i] \in Sound
    BY <1>1, <1>2, <2>1
  <2>4. \A i \in (n + 1)..Len(buffered) : buffered[i] \in Sound
    BY <1>1, <1>2, <2>1
  <2>5. a \in Seq(Sound)
    BY <2>2, <2>3, SubSeqProperties
  <2>6. b \in Seq(Sound)
    BY <2>2, <2>4, SubSeqProperties
  <2> QED
    BY <2>5, <2>6
<1>5. a \o b = buffered
  <2>1. 1 \in 1..(Len(buffered) + 1) /\ n \in (1 - 1)..Len(buffered) /\ Len(buffered) \in n..Len(buffered)
    BY <1>1, <1>2
  <2>2. a \o b = SubSeq(buffered, 1, Len(buffered))
    BY <1>1, <2>1, ConcatAdjacentSubSeq
  <2> QED
    BY <1>1, <2>2, SubSeqFull
<1> HIDE DEF a, b
<1>6. Output' = Output
  <2>1. handed \o (a \o b) = (handed \o a) \o b
    BY <1>1, <1>4, Grouped, Zenon
  <2> QED
    BY <1>3, <1>5, <2>1 DEF Output
<1>7. handed' \in Seq(Sound) /\ buffered' \in Seq(Sound)
  BY <1>1, <1>3, <1>4, ConcatProperties
<1>8. UNCHANGED <<stream, made, glitch, packets, taken, gap, history, pos, pulled, gaps>>
  BY DEF Serve, setup, engineVars
<1>9. SourceTypes'
  BY <1>7, <1>8 DEF SourceInv, SourceTypes
<1> QED
  BY <1>6, <1>8, <1>9, UntouchedKeeps DEF Untouched

\* Every step keeps the invariant.
LEMMA SourceInvNext ==
    ASSUME SourceInv, [SourceNext]_sourceVars
    PROVE  SourceInv'
<1>0. SourceTypes /\ (stream = "none" => phase = "idle")
  BY DEF SourceInv, Unopened
<1>1. CASE OpenProcess \/ OpenEndpoint \/ OpenFails
  BY <1>1, OpenKeeps
<1>2. CASE EnginePacket
  <2>1. Untouched /\ phase' = phase
    BY <1>2 DEF EnginePacket, setup, quiet, Untouched, Output
  <2> QED
    BY <1>0, <1>2, <2>1, PacketTypes, UntouchedKeeps
<1>3. CASE EngineLoses
  <2>1. Untouched /\ phase' = phase
    BY <1>3 DEF EngineLoses, setup, quiet, Untouched, Output
  <2>2. SourceTypes'
    BY <1>0, <1>3 DEF EngineLoses, setup, quiet, SourceTypes
  <2> QED
    BY <2>1, <2>2, UntouchedKeeps
<1>4. CASE DeviceGone
  <2>1. Untouched /\ phase' = phase
    BY <1>4 DEF DeviceGone, setup, quiet, Untouched, Output
  <2>2. SourceTypes'
    BY <1>0, <1>4 DEF DeviceGone, setup, quiet, SourceTypes
  <2> QED
    BY <2>1, <2>2, UntouchedKeeps
<1>5. CASE ReadFrames \/ Filled \/ ReadTimesOut \/ ReadStarts \/ ReadInvalidated
  <2>1. Untouched /\ stream # "none"
    BY <1>0, <1>5 DEF ReadFrames, Filled, ReadTimesOut, ReadStarts, ReadInvalidated, setup,
                      Untouched, Output
  <2>2. SourceTypes'
    <3>1. /\ UNCHANGED <<stream, made, glitch, packets, pulled, gaps, handed, buffered>>
          /\ taken' = taken \/ taken' = <<>>
          /\ gap' = gap \/ gap' = FALSE
      BY <1>5 DEF ReadFrames, Filled, ReadTimesOut, ReadStarts, ReadInvalidated, setup,
                  engineVars
    <3>2. gap' \in BOOLEAN
      BY <1>0, <3>1, Zenon DEF SourceTypes
    <3>3. taken' \in Seq(Nat)
      <4>1. <<>> \in Seq(Nat)
        OBVIOUS
      <4> QED
        BY <1>0, <3>1, <4>1, Zenon DEF SourceTypes
    <3> QED
      BY <1>0, <3>1, <3>2, <3>3 DEF SourceTypes
  <2> QED
    BY <2>1, <2>2, UntouchedKeeps
<1>6. CASE TakePacket
  <2>1. Untouched /\ phase' = phase
    BY <1>6 DEF TakePacket, setup, Untouched, Output
  <2> QED
    BY <1>0, <1>6, <2>1, TakeTypes, UntouchedKeeps
<1>7. ASSUME Captured, stream # "none", taken' = <<>>, UNCHANGED <<setup, engineVars, gap, handed>>
      PROVE  SourceInv'
  <2>1. UNCHANGED <<stream, handed, made, glitch, packets, gap>>
    BY <1>7 DEF setup, engineVars
  <2>2. /\ pulled' \in Seq(Nat) /\ gaps' \in Seq(Nat) /\ buffered' \in Seq(Sound)
        /\ Standing' /\ GapsReached' /\ AllLaid'
    BY <1>7, <2>1, CapturedKeeps
  <2>3. SourceTypes'
    BY <1>0, <1>7, <2>1, <2>2 DEF SourceTypes
  <2>4. Unopened'
    BY <1>7, <2>1 DEF Unopened
  <2> QED
    BY <2>2, <2>3, <2>4 DEF SourceInv
<1>8. CASE ReadEnds
  <2>1. stream # "none"
    BY <1>0, <1>8 DEF ReadEnds
  <2> QED
    BY <1>7, <1>8, <2>1 DEF ReadEnds
<1>9. CASE GetBufferFails
  <2>1. stream # "none"
    BY <1>0, <1>9 DEF GetBufferFails
  <2>2. CASE stream = "Endpoint" /\ taken # <<>>
    BY <1>7, <1>9, <2>1, <2>2 DEF GetBufferFails
  <2>3. CASE ~(stream = "Endpoint" /\ taken # <<>>)
    <3>1. UNCHANGED <<history, pos, buffered, pulled, gaps, setup, engineVars, gap, handed>> /\ taken' = <<>>
      BY <1>9, <2>3 DEF GetBufferFails
    <3>2. Untouched
      BY <3>1 DEF setup, Untouched, Output
    <3>3. SourceTypes'
      BY <1>0, <3>1 DEF setup, engineVars, SourceTypes
    <3> QED
      BY <2>1, <3>2, <3>3, UntouchedKeeps
  <2> QED
    BY <2>2, <2>3
<1>12. CASE ReleaseFails
  <2>1. Untouched /\ stream # "none"
    BY <1>0, <1>12 DEF ReleaseFails, setup, Untouched, Output
  <2>2. SourceTypes'
    <3> DEFINE P == [ids : Seq(Nat), discontinuity : BOOLEAN]
    <3>1. packets \in Seq(P) /\ packets # <<>>
      BY <1>0, <1>12 DEF SourceTypes, ReleaseFails
    <3>2. Tail(packets) \in Seq(P)
      BY <3>1, HeadTailProperties
    <3>3. packets' \in Seq(P)
      BY <1>12, <3>1, <3>2 DEF ReleaseFails
    <3>4. /\ UNCHANGED <<stream, made, glitch, gap, pulled, gaps, handed, buffered>>
          /\ taken' = <<>>
      BY <1>12 DEF ReleaseFails, setup
    <3> QED
      BY <1>0, <3>3, <3>4 DEF SourceTypes
  <2> QED
    BY <2>1, <2>2, UntouchedKeeps
<1>10. CASE Serve
  <2>1. stream # "none"
    BY <1>0, <1>10 DEF Serve
  <2> QED
    BY <1>10, <2>1, ServeKeeps
<1>11. CASE UNCHANGED sourceVars
  <2>1. Untouched /\ phase' = phase
    BY <1>11 DEF sourceVars, Untouched, Output
  <2>2. SourceTypes'
    BY <1>0, <1>11 DEF sourceVars, SourceTypes
  <2> QED
    BY <2>1, <2>2, UntouchedKeeps
<1> QED
  BY <1>1, <1>2, <1>3, <1>4, <1>5, <1>6, <1>8, <1>9, <1>10, <1>11, <1>12 DEF SourceNext

\* (capture_source.rs read_frames, resample.rs process) However packets, glitches, timeouts,
\* failures and reads fall, the caller is given the samples of one pass over everything the
\* reads took, in order, and a frame of silence in front of what follows each gap: for every
\* buffer and frame length, every ratio of rates the kernel covers and every packet size.
THEOREM SamplesAlwaysInOrder == SourceSpec => []SamplesInOrder
<1>1. SourceInit => SourceInv
  BY SourceInvInit
<1>2. SourceInv /\ [SourceNext]_sourceVars => SourceInv'
  BY SourceInvNext
<1>3. SourceInv => SamplesInOrder
  <2> SUFFICES ASSUME SourceInv PROVE SamplesInOrder
    OBVIOUS
  <2>1. Laid(stream, Output, pulled, gaps)
    BY DEF SourceInv, AllLaid
  <2>2. /\ \A n : Count(n) = CountIn(stream, n)
        /\ \A k : Source(k) = SourceIn(stream, k)
        /\ \A k : GapsBefore(k) = GapsAhead(stream, gaps, k)
    BY DEF Count, CountIn, Source, SourceIn, GapsBefore, GapsAhead
  <2> QED
    BY <2>1, <2>2 DEF Laid, SampleOf, SamplesInOrder
<1> QED
  BY <1>1, <1>2, <1>3, PTL DEF SourceSpec

-----------------------------------------------------------------------------
(***************************************************************************)
(* The decisions, for every input.  What they look for is the first or the *)
(* last of a set of positions.                                             *)
(***************************************************************************)
\* A set of positions has a first one.
LEMMA FirstIs ==
    ASSUME NEW S, S \subseteq Nat, S # {}
    PROVE  First(S) \in S /\ \A j \in S : First(S) <= j
<1> DEFINE less == {ss \in Nat \X Nat : ss[1] < ss[2]}
<1>1. PICK x \in S : \A y \in S : ~(<<y, x>> \in less)
  <2>1. IsWellFoundedOn(less, Nat)
    BY NatLessThanWellFounded, Zenon DEF OpToRel
  <2> HIDE DEF less
  <2> QED
    BY <2>1, WFMin
<1>2. \A y \in S : x <= y
  <2> SUFFICES ASSUME NEW y \in S PROVE x <= y
    OBVIOUS
  <2>1. x \in Nat /\ y \in Nat
    OBVIOUS
  <2>2. ~(y < x)
    <3> SUFFICES ASSUME y < x PROVE <<y, x>> \in less
      BY <1>1
    <3> QED
      BY <2>1
  <2> HIDE DEF less
  <2> QED
    BY <2>1, <2>2
<1> HIDE DEF less
<1> QED
  BY <1>2 DEF First

\* main.rs sentinel_capture_tier and tier.rs classify agree on every x64 Windows 10 or later that
\* is no Server Core, whatever its build.
THEOREM TiersAgree ==
    ASSUME NEW os, os.major \in Nat, os.build \in Nat
    PROVE  TierRight(os, SentinelCaptureTier(os))
<1> SUFFICES ASSUME os.arch = "X64", os.major >= 10, os.sku # "ServerCore"
             PROVE  SentinelCaptureTier(os) = Classify(os)
  BY DEF TierRight
<1>1. ~(os.major < 10)
  OBVIOUS
<1>2. CASE os.sku = "Server"
  BY <1>1, <1>2 DEF SentinelCaptureTier, Classify
<1>3. CASE os.sku # "Server"
  BY <1>1, <1>3 DEF SentinelCaptureTier, Classify
<1> QED
  BY <1>2, <1>3

\* snap_to_edge keeps the widget on the work area if it fits and at its start if it does not, and
\* leaves it alone away from the edges, for every window, area and threshold.
THEOREM WidgetStaysVisible ==
    ASSUME NEW w, w.at \in Int, w.size \in Nat, w.start \in Int, w.length \in Nat,
           w.threshold \in Nat
    PROVE  SnapRight(w, SnapToEdge(w))
BY DEF SnapRight, SnapToEdge, Clamp, Abs

-----------------------------------------------------------------------------
\* If an entry selects a device, FirstFound is a device that an entry selects.
LEMMA FoundFirst ==
    ASSUME NEW c, NEW P, NEW D, c.pinned \in Seq(P), c.devices \in Seq(D), NEW by, Wanted(c, by) # {}
    PROVE  \E i \in DOMAIN c.pinned : FirstFound(c, by) \in Found(c, by, i)
<1> DEFINE i == First(Wanted(c, by))
<1>1. DOMAIN c.pinned \subseteq Nat /\ DOMAIN c.devices \subseteq Nat
  OBVIOUS
<1>2. Wanted(c, by) \subseteq Nat /\ \A x : Found(c, by, x) \subseteq Nat
  BY <1>1 DEF Wanted, Found
<1>3. i \in Wanted(c, by)
  BY <1>2, FirstIs
<1> HIDE DEF i
<1>4. i \in DOMAIN c.pinned /\ Found(c, by, i) # {}
  BY <1>3 DEF Wanted
<1>5. First(Found(c, by, i)) \in Found(c, by, i)
  BY <1>2, <1>4, FirstIs
<1> QED
  BY <1>4, <1>5 DEF FirstFound, i

\* resolve_pinned returns an active render device the policy names, one by container if there is
\* one, and none only if there is none, for every list of entries and devices.  A device always
\* has a name; an entry need not.
THEOREM PinnedNeverAnother ==
    ASSUME NEW c, NEW P, NEW D, c.pinned \in Seq(P), c.devices \in Seq(D),
           \A k \in DOMAIN c.devices : c.devices[k].name # 0
    PROVE  PinnedRight(c, ResolvePinned(c))
<1> DEFINE k == ResolvePinned(c)
<1>1. DOMAIN c.devices \subseteq Nat \ {0}
  OBVIOUS
<1>2. \A by, i : Found(c, by, i) \subseteq DOMAIN c.devices
  BY DEF Found
<1>3. ASSUME NEW by, Wanted(c, by) # {}
      PROVE  \E i \in DOMAIN c.pinned : FirstFound(c, by) \in Found(c, by, i)
  BY <1>3, FoundFirst
<1>4. ASSUME NEW by, Wanted(c, by) # {} PROVE FirstFound(c, by) # 0
  BY <1>1, <1>2, <1>3, <1>4
<1>5. ASSUME NEW by, Wanted(c, by) = {} PROVE FirstFound(c, by) = 0
  BY <1>5 DEF FirstFound
<1>6. CASE Wanted(c, "container") # {}
  <2>1. k = FirstFound(c, "container") /\ k # 0
    BY <1>4, <1>6 DEF ResolvePinned
  <2>2. PICK i \in DOMAIN c.pinned : k \in Found(c, "container", i)
    BY <1>3, <1>6, <2>1
  <2>3. k \in DOMAIN c.devices /\ Usable(c.devices[k])
        /\ c.devices[k].container = c.pinned[i].container
    BY <2>2 DEF Found, Selects
  <2> QED
    BY <2>1, <2>3 DEF PinnedRight, Matching, Exact
<1>7. CASE Wanted(c, "container") = {}
  <2>1. \A j \in DOMAIN c.devices : ~(Usable(c.devices[j]) /\ Exact(c, c.devices[j]))
    BY <1>7 DEF Wanted, Found, Selects, Exact
  <2>2. k = FirstFound(c, "name")
    BY <1>5, <1>7 DEF ResolvePinned
  <2>3. CASE Wanted(c, "name") # {}
    <3>1. PICK i \in DOMAIN c.pinned : k \in Found(c, "name", i)
      BY <1>3, <2>2, <2>3
    <3>2. k \in DOMAIN c.devices /\ Usable(c.devices[k]) /\ c.devices[k].name = c.pinned[i].name
      BY <3>1 DEF Found, Selects
    <3>3. k # 0
      BY <1>4, <2>2, <2>3
    <3> QED
      BY <2>1, <3>2, <3>3 DEF PinnedRight, Matching
  <2>4. CASE Wanted(c, "name") = {}
    <3>1. k = 0
      BY <1>5, <2>2, <2>4
    <3>2. \A j \in DOMAIN c.devices, i \in DOMAIN c.pinned :
             ~(Usable(c.devices[j]) /\ c.devices[j].name = c.pinned[i].name)
      BY <2>4 DEF Wanted, Found, Selects
    <3>3. Matching(c) = {}
      BY <2>1, <3>2 DEF Matching
    <3> QED
      BY <3>1, <3>3 DEF PinnedRight
  <2> QED
    BY <2>3, <2>4
<1> QED
  BY <1>6, <1>7

-----------------------------------------------------------------------------
\* What UpTo cuts off: the longest front without a stop.
LEMMA UpToIs ==
    ASSUME NEW s \in Seq(Nat), NEW stops
    PROVE  \E m \in 0..Len(s) :
              /\ UpTo(s, stops) = SubSeq(s, 1, m)
              /\ \A i \in 1..m : s[i] \notin stops
              /\ m < Len(s) => s[m + 1] \in stops
<1> DEFINE hits == {i \in DOMAIN s : s[i] \in stops}
<1>1. DOMAIN s = 1..Len(s) /\ Len(s) \in Nat
  OBVIOUS
<1>2. CASE hits = {}
  <2>1. UpTo(s, stops) = SubSeq(s, 1, Len(s))
    BY <1>2, SubSeqFull DEF UpTo
  <2>2. \A i \in 1..Len(s) : s[i] \notin stops
    BY <1>1, <1>2
  <2>3. Len(s) \in 0..Len(s) /\ ~(Len(s) < Len(s))
    BY <1>1
  <2> QED
    BY <2>1, <2>2, <2>3
<1>3. CASE hits # {}
  <2> DEFINE f == First(hits)
             m == f - 1
  <2>1. f \in hits /\ \A j \in hits : f <= j
    <3>1. hits \subseteq Nat
      BY <1>1
    <3> HIDE DEF hits
    <3> QED
      BY <1>3, <3>1, FirstIs
  <2>2. UpTo(s, stops) = SubSeq(s, 1, m)
    BY <1>3 DEF UpTo
  <2> HIDE DEF f
  <2>3. f \in 1..Len(s) /\ s[f] \in stops
    BY <1>1, <2>1
  <2>4. m \in 0..Len(s) /\ m + 1 = f
    BY <1>1, <2>3
  <2>5. \A i \in 1..m : s[i] \notin stops
    BY <1>1, <2>1, <2>3
  <2> QED
    BY <2>2, <2>3, <2>4, <2>5
<1> QED
  BY <1>2, <1>3

\* A front of a sequence.
LEMMA FrontIs ==
    ASSUME NEW s \in Seq(Nat), NEW m \in 0..Len(s)
    PROVE  /\ SubSeq(s, 1, m) \in Seq(Nat) /\ Len(SubSeq(s, 1, m)) = m
           /\ \A i \in 1..m : SubSeq(s, 1, m)[i] = s[i]
OBVIOUS

\* validate_url and host_port read a URL differently, but for every URL the host that
\* WsTransport::connect dials is the one that was checked, and without TLS it is 127.0.0.1 or
\* localhost: [::1], which is split at its first colon, is not dialled.
THEOREM DialsOnlyItself ==
    ASSUME NEW u, u.tokens \in Seq(Nat)
    PROVE  DialledRight(u, Dialled(u))
<1> DEFINE s == u.tokens
           n == Len(s)
           a == Dialled(u)
           b == UpTo(s, {Slash})
           h == UpTo(s, {Slash, Colon})
<1> SUFFICES ASSUME a # <<>>
             PROVE  /\ u.scheme \in {"ws", "wss"}
                    /\ UpTo(a, {Colon}) = h
                    /\ u.scheme = "ws" => UpTo(a, {Colon}) = <<Local>>
  BY DEF DialledRight
<1>1. ValidateUrl(u) /\ a = HostPort(u)
  BY DEF Dialled
<1>2. u.scheme \in {"ws", "wss"}
  BY <1>1 DEF ValidateUrl
<1>3. n \in Nat /\ s \in Seq(Nat)
  OBVIOUS
<1>4. PICK m \in 0..n : /\ b = SubSeq(s, 1, m)
                        /\ \A i \in 1..m : s[i] \notin {Slash}
                        /\ m < n => s[m + 1] \in {Slash}
  BY <1>3, UpToIs
<1>5. b \in Seq(Nat) /\ Len(b) = m /\ \A i \in 1..m : b[i] = s[i]
  BY <1>3, <1>4, FrontIs
<1> DEFINE port == IF u.scheme = "wss" THEN 443 ELSE Port
           e == b \o <<Colon, port>>
<1>6. a = (IF b = <<>> \/ Colon \in ToSet(b) THEN b ELSE e)
  BY <1>1 DEF HostPort
<1>7. b # <<>> /\ m \in Nat
  <2>1. b # <<>>
    BY <1>6
  <2> QED
    BY <1>3, <2>1
<1>8. /\ e \in Seq(Nat) /\ Len(e) = m + 2 /\ e[m + 1] = Colon
      /\ \A i \in 1..m : e[i] = b[i]
  <2>1. port \in Nat /\ Colon \in Nat
    BY DEF Port, Colon
  <2> HIDE DEF b, port
  <2> QED
    BY <1>5, <1>7, <2>1
\* The address begins with the authority, and holds a colon after it when none is in it.
<1>9. /\ a \in Seq(Nat) /\ Len(a) \in Nat /\ m <= Len(a) /\ \A i \in 1..m : a[i] = s[i]
      /\ (\A i \in 1..m : s[i] # Colon) => m < Len(a) /\ a[m + 1] = Colon
  <2>1. CASE Colon \in ToSet(b)
    <3>1. a = b
      BY <1>6, <2>1
    <3>2. DOMAIN b = 1..m
      <4> HIDE DEF b
      <4> QED
        BY <1>5
    <3>3. PICK i \in 1..m : b[i] = Colon
      <4> HIDE DEF b
      <4> QED
        BY <2>1, <3>2 DEF ToSet
    <3>4. s[i] = Colon
      BY <1>5, <3>3
    <3> HIDE DEF a, b, s
    <3> QED
      BY <1>5, <1>7, <3>1, <3>4
  <2>2. CASE Colon \notin ToSet(b)
    <3>1. a = e
      BY <1>6, <1>7, <2>2
    <3> HIDE DEF a, b, e, s
    <3> QED
      BY <1>5, <1>7, <1>8, <3>1
  <2> QED
    BY <2>1, <2>2
<1>10. PICK x \in 0..n : /\ h = SubSeq(s, 1, x)
                         /\ \A i \in 1..x : s[i] \notin {Slash, Colon}
                         /\ x < n => s[x + 1] \in {Slash, Colon}
  BY <1>3, UpToIs
<1>11. PICK y \in 0..Len(a) : /\ UpTo(a, {Colon}) = SubSeq(a, 1, y)
                              /\ \A i \in 1..y : a[i] \notin {Colon}
                              /\ y < Len(a) => a[y + 1] \in {Colon}
  <2> HIDE DEF a
  <2> QED
    BY <1>9, UpToIs
<1>12. Slash # Colon
  BY DEF Slash, Colon
<1>13. x \in Nat /\ y \in Nat /\ x <= m
  <2>1. x \in Nat /\ y \in Nat
    BY <1>3, <1>9
  <2>2. ASSUME m < x PROVE FALSE
    <3>1. m < n /\ m + 1 \in 1..x
      BY <1>3, <1>7, <2>1, <2>2
    <3> QED
      BY <1>4, <1>10, <3>1
  <2> HIDE DEF a, s
  <2> QED
    BY <1>7, <2>1, <2>2
<1>14. y = x
  <2> HIDE DEF a, s, b, h
  <2>1. ASSUME y < x PROVE FALSE
    <3>1. y < Len(a) /\ y + 1 \in 1..x /\ y + 1 \in 1..m
      BY <1>7, <1>9, <1>13, <2>1
    <3>2. a[y + 1] = Colon /\ a[y + 1] = s[y + 1]
      BY <1>9, <1>11, <3>1
    <3> QED
      BY <1>10, <3>1, <3>2
  <2>2. ASSUME x < y PROVE FALSE
    <3>1. x + 1 \in 1..y
      BY <1>13, <2>2
    <3>2. a[x + 1] # Colon
      BY <1>11, <3>1
    <3>3. CASE x < m
      <4>1. x < n /\ x + 1 \in 1..m
        BY <1>3, <1>4, <1>7, <1>13, <3>3
      <4>2. s[x + 1] = Colon
        BY <1>4, <1>10, <4>1
      <4> QED
        BY <1>9, <3>2, <4>1, <4>2
    <3>4. CASE x = m
      BY <1>9, <1>10, <3>2, <3>4
    <3> QED
      BY <1>7, <1>13, <3>3, <3>4
  <2> QED
    BY <1>13, <2>1, <2>2
<1>15. UpTo(a, {Colon}) = h
  <2> HIDE DEF a, b, s, h
  <2>1. x \in 0..Len(a) /\ x \in 0..Len(s) /\ s \in Seq(Nat) /\ a \in Seq(Nat)
    BY <1>3, <1>9, <1>11, <1>14
  <2>2. /\ SubSeq(a, 1, x) \in Seq(Nat) /\ Len(SubSeq(a, 1, x)) = x
        /\ \A i \in 1..x : SubSeq(a, 1, x)[i] = a[i]
    BY <2>1, FrontIs
  <2>3. /\ SubSeq(s, 1, x) \in Seq(Nat) /\ Len(SubSeq(s, 1, x)) = x
        /\ \A i \in 1..x : SubSeq(s, 1, x)[i] = s[i]
    BY <2>1, FrontIs
  <2>4. \A i \in 1..x : a[i] = s[i]
    BY <1>7, <1>9, <1>13
  <2>5. SubSeq(a, 1, x) = SubSeq(s, 1, x)
    <3> DEFINE f == SubSeq(a, 1, x)
               g == SubSeq(s, 1, x)
    <3>1. /\ f \in Seq(Nat) /\ g \in Seq(Nat) /\ Len(f) = Len(g)
          /\ \A i \in 1..Len(f) : f[i] = g[i]
      BY <2>2, <2>3, <2>4
    <3>2. f = g
      <4> HIDE DEF f, g
      <4> QED
        BY <3>1, SeqEqual
    <3> QED
      BY <3>2
  <2> QED
    BY <1>10, <1>11, <1>14, <2>5
<1>16. ASSUME u.scheme = "ws" PROVE h = <<Local>>
  <2>1. h \in {<<Local>>, Bracketed}
    BY <1>1, <1>16 DEF ValidateUrl
  <2>2. ASSUME h = Bracketed PROVE FALSE
    <3>1. Len(Bracketed) = 5 /\ Bracketed[2] = Colon
      BY DEF Bracketed
    <3>2. Len(SubSeq(s, 1, x)) = x /\ \A i \in 1..x : SubSeq(s, 1, x)[i] = s[i]
      BY <1>3, FrontIs
    <3>3. Len(h) = x /\ \A i \in 1..x : h[i] = s[i]
      BY <1>10, <3>2
    <3> HIDE DEF h, s
    <3>4. x = 5
      BY <2>2, <3>1, <3>3
    <3>5. 2 \in 1..x
      BY <3>4
    <3> QED
      BY <1>10, <2>2, <3>1, <3>3, <3>5
  <2> QED
    BY <2>1, <2>2
<1> QED
  BY <1>2, <1>15, <1>16

-----------------------------------------------------------------------------
\* A bounded set of positions has a last one.
LEMMA LastIs ==
    ASSUME NEW S, NEW n \in Nat, S \subseteq 1..n, S # {}
    PROVE  LET l == CHOOSE i \in S : \A j \in S : j <= i
           IN  l \in S /\ \A j \in S : j <= l
<1> DEFINE T == {n - i : i \in S}
<1>1. T \subseteq Nat /\ T # {}
  <2>1. \A i \in S : n - i \in Nat
    OBVIOUS
  <2> QED
    BY <2>1
<1>2. First(T) \in T /\ \A j \in T : First(T) <= j
  <2> HIDE DEF T
  <2> QED
    BY <1>1, FirstIs
<1>3. PICK x \in S : First(T) = n - x
  BY <1>2
<1>4. \A j \in S : j <= x
  <2> SUFFICES ASSUME NEW j \in S PROVE j <= x
    OBVIOUS
  <2>1. n - j \in T
    OBVIOUS
  <2>2. n - x <= n - j
    BY <1>2, <1>3, <2>1
  <2>3. x \in Nat /\ j \in Nat
    OBVIOUS
  <2> QED
    BY <2>2, <2>3
<1> HIDE DEF T
<1> QED
  BY <1>4

\* The value LastValue finds is that of a pair.
LEMMA LastValueIs ==
    ASSUME NEW pairs \in Seq(STRING \X Nat), NEW k
    PROVE  /\ LastValue(pairs, k) = -1 <=> \A i \in DOMAIN pairs : pairs[i][1] # k
           /\ LastValue(pairs, k) # -1 =>
                 \E i \in DOMAIN pairs : pairs[i][1] = k /\ pairs[i][2] = LastValue(pairs, k)
<1> DEFINE hits == {i \in DOMAIN pairs : pairs[i][1] = k}
           l == CHOOSE i \in hits : \A j \in hits : j <= i
<1>1. DOMAIN pairs = 1..Len(pairs) /\ Len(pairs) \in Nat
      /\ \A i \in DOMAIN pairs : pairs[i][2] \in Nat
  OBVIOUS
<1>2. CASE hits = {}
  BY <1>2 DEF LastValue
<1>3. CASE hits # {}
  <2>1. hits \subseteq 1..Len(pairs)
    BY <1>1
  <2>2. LastValue(pairs, k) = pairs[l][2]
    BY <1>3 DEF LastValue
  <2>3. l \in hits
    <3> HIDE DEF hits
    <3> QED
      BY <1>1, <1>3, <2>1, LastIs
  <2> HIDE DEF l
  <2>4. pairs[l][2] # -1
    BY <1>1, <2>3
  <2> QED
    BY <2>2, <2>3, <2>4
<1> QED
  BY <1>2, <1>3

\* What is exchanged when a callback ends the wait.
LEMMA CallbackExchanges ==
    ASSUME NEW requests, NEW q, NEW c, NEW s, NEW x,
           WaitForCallback(requests) = ParseCallback(q),
           c = LastValue(q.pairs, "code"), s = LastValue(q.pairs, "state"),
           x = LastValue(q.pairs, "error")
    PROVE  ExchangedCode(requests) = IF (x = -1 /\ s # -1 /\ c > 0) /\ s = 1 THEN c ELSE -1
<1>1. ParseCallback(q) = [ok |-> x = -1 /\ s # -1 /\ c > 0, code |-> c, state |-> s]
  BY DEF ParseCallback
<1> DEFINE ok == x = -1 /\ s # -1 /\ c > 0
           w == WaitForCallback(requests)
<1>2. w = [ok |-> ok, code |-> c, state |-> s]
  BY <1>1
<1>3. ExchangedCode(requests) = IF w.ok /\ w.state = 1 THEN w.code ELSE -1
  BY DEF ExchangedCode
<1> HIDE DEF ok, w
<1>4. w.ok = ok /\ w.code = c /\ w.state = s
  BY <1>2
<1>5. ExchangedCode(requests) = IF ok /\ s = 1 THEN c ELSE -1
  BY <1>3, <1>4
<1> QED
  BY <1>5 DEF ok

\* wait_for_callback, parse_callback and validate: for every sequence of requests on the loopback
\* port, a code is exchanged only if the request that carried it names this attempt, has no error
\* and had only requests for other paths before it; and a plain answer is exchanged.
THEOREM OnlyThisAttemptExchanges ==
    ASSUME NEW R, NEW requests \in Seq(R),
           \A i \in DOMAIN requests : requests[i].pairs \in Seq(STRING \X Nat)
    PROVE  RedirectRight(requests, ExchangedCode(requests))
<1> DEFINE ending == {i \in DOMAIN requests : requests[i].path # "other"}
           f == First(ending)
           q == requests[f]
           code == ExchangedCode(requests)
           first(i) == \A j \in 1..(i - 1) : requests[j].path = "other"
           plain(i) == /\ requests[i].path = "callback"
                       /\ {<<"code", 1>>, <<"state", 1>>} = ToSet(requests[i].pairs)
           c == LastValue(q.pairs, "code")
           s == LastValue(q.pairs, "state")
           x == LastValue(q.pairs, "error")
<1>1. DOMAIN requests = 1..Len(requests) /\ Len(requests) \in Nat
  OBVIOUS
<1>2. ASSUME ending = {} PROVE code = -1 /\ \A i \in DOMAIN requests : ~plain(i)
  <2>1. WaitForCallback(requests) = Failed
    BY <1>2 DEF WaitForCallback
  <2>2. code = -1
    BY <2>1 DEF ExchangedCode, Failed
  <2> QED
    BY <1>2, <2>2
<1>3. ASSUME ending # {}
      PROVE  f \in DOMAIN requests /\ q.path # "other" /\ first(f)
             /\ \A i \in DOMAIN requests : first(i) /\ requests[i].path # "other" => i = f
             /\ WaitForCallback(requests) = ServeOne(q)
  <2>1. f \in ending /\ \A j \in ending : f <= j
    <3>1. ending \subseteq Nat
      BY <1>1
    <3> HIDE DEF ending
    <3> QED
      BY <1>3, <3>1, FirstIs
  <2>2. WaitForCallback(requests) = ServeOne(q)
    BY <1>3 DEF WaitForCallback
  <2> HIDE DEF f
  <2>3. f \in DOMAIN requests /\ q.path # "other" /\ f \in Nat /\ f >= 1
    BY <1>1, <2>1
  <2>4. first(f)
    <3> SUFFICES ASSUME NEW j \in 1..(f - 1), requests[j].path # "other" PROVE FALSE
      OBVIOUS
    <3>1. j \in ending /\ j < f /\ j \in Nat
      BY <1>1, <2>3
    <3> QED
      BY <2>1, <2>3, <3>1
  <2>5. ASSUME NEW i \in DOMAIN requests, first(i), requests[i].path # "other" PROVE i = f
    <3>1. f <= i /\ i \in Nat
      BY <1>1, <2>1, <2>5
    <3>2. ~(f < i)
      <4> SUFFICES ASSUME f < i PROVE FALSE
        OBVIOUS
      <4>1. f \in 1..(i - 1)
        BY <2>3, <3>1
      <4> QED
        BY <2>3, <2>5, <4>1
    <3> QED
      BY <2>3, <3>1, <3>2
  <2> QED
    BY <2>2, <2>3, <2>4, <2>5
<1>4. ASSUME ending # {}, code # -1
      PROVE  q.path = "callback" /\ c = code /\ s = 1 /\ x = -1
  <2>1. q.path = "callback"
    BY <1>3, <1>4 DEF ExchangedCode, ServeOne, Failed
  <2>2. WaitForCallback(requests) = ParseCallback(q)
    BY <1>3, <1>4, <2>1 DEF ServeOne
  <2>3. code = IF (x = -1 /\ s # -1 /\ c > 0) /\ s = 1 THEN c ELSE -1
    BY <2>2, CallbackExchanges
  <2> HIDE DEF code, c, s, x, q
  <2> QED
    BY <1>4, <2>1, <2>3
<1>5. ASSUME ending # {}, q.path = "callback", c = 1, s = 1, x = -1 PROVE code = 1
  <2>1. WaitForCallback(requests) = ParseCallback(q)
    BY <1>3, <1>5 DEF ServeOne
  <2>2. code = IF (x = -1 /\ s # -1 /\ c > 0) /\ s = 1 THEN c ELSE -1
    BY <2>1, CallbackExchanges
  <2> HIDE DEF code, c, s, x, q
  <2> QED
    BY <1>5, <2>2
<1>6. ASSUME code # -1
      PROVE  \E i \in DOMAIN requests :
                /\ {<<"code", code>>, <<"state", 1>>} \subseteq ToSet(requests[i].pairs)
                /\ \A pair \in ToSet(requests[i].pairs) : pair[1] # "error"
                /\ first(i)
  <2>1. ending # {}
    BY <1>2, <1>6
  <2>2. f \in DOMAIN requests /\ first(f) /\ q.pairs \in Seq(STRING \X Nat)
    BY <1>3, <2>1
  <2>3. q.path = "callback" /\ c = code /\ s = 1 /\ x = -1
    BY <1>4, <1>6, <2>1
  <2> DEFINE ps == q.pairs
  <2> HIDE DEF q, code, f
  <2>4. \A i \in DOMAIN ps : ps[i] = <<ps[i][1], ps[i][2]>>
    BY <2>2
  <2>10. ps \in Seq(STRING \X Nat)
    BY <2>2
  <2>11. LastValue(ps, "code") = code /\ LastValue(ps, "state") = 1 /\ LastValue(ps, "error") = -1
    BY <2>3
  <2> HIDE DEF ps
  <2>5. \E i \in DOMAIN ps : ps[i][1] = "code" /\ ps[i][2] = code
    <3>1. LastValue(ps, "code") # -1
      BY <1>6, <2>11
    <3>2. \E i \in DOMAIN ps : ps[i][1] = "code" /\ ps[i][2] = LastValue(ps, "code")
      BY <2>10, <3>1, LastValueIs
    <3> QED
      BY <2>11, <3>2
  <2>6. \E i \in DOMAIN ps : ps[i][1] = "state" /\ ps[i][2] = 1
    <3>1. LastValue(ps, "state") # -1
      BY <2>11
    <3>2. \E i \in DOMAIN ps : ps[i][1] = "state" /\ ps[i][2] = LastValue(ps, "state")
      BY <2>10, <3>1, LastValueIs
    <3> QED
      BY <2>11, <3>2
  <2>7. \A i \in DOMAIN ps : ps[i][1] # "error"
    BY <2>10, <2>11, LastValueIs
  <2>8. {<<"code", code>>, <<"state", 1>>} \subseteq ToSet(ps)
    BY <2>4, <2>5, <2>6 DEF ToSet
  <2>9. \A pair \in ToSet(ps) : pair[1] # "error"
    BY <2>7 DEF ToSet
  <2> QED
    BY <2>2, <2>8, <2>9 DEF q, ps
<1>7. ASSUME NEW i \in DOMAIN requests, plain(i), first(i) PROVE code = 1
  <2>1. ending # {} /\ requests[i].path # "other"
    BY <1>7
  <2>2. i = f
    BY <1>3, <1>7, <2>1
  <2>3. q.path = "callback" /\ {<<"code", 1>>, <<"state", 1>>} = ToSet(q.pairs)
        /\ q.pairs \in Seq(STRING \X Nat)
    BY <1>7, <2>2
  <2> DEFINE ps == q.pairs
  <2>9. ps \in Seq(STRING \X Nat) /\ {<<"code", 1>>, <<"state", 1>>} = ToSet(ps)
    BY <2>3
  <2> HIDE DEF q, f, ps
  <2>4. \A k \in DOMAIN ps : ps[k] = <<"code", 1>> \/ ps[k] = <<"state", 1>>
    BY <2>9 DEF ToSet
  <2>5. (\E k \in DOMAIN ps : ps[k] = <<"code", 1>>) /\ (\E k \in DOMAIN ps : ps[k] = <<"state", 1>>)
    BY <2>9 DEF ToSet
  <2>10. \A k \in DOMAIN ps : ps[k][1] # "error" /\ ps[k][2] = 1
    BY <2>4
  <2>11. (\E k \in DOMAIN ps : ps[k][1] = "code") /\ (\E k \in DOMAIN ps : ps[k][1] = "state")
    BY <2>5
  <2>6. LastValue(ps, "error") = -1
    BY <2>9, <2>10, LastValueIs
  <2>7. LastValue(ps, "code") = 1
    <3>1. LastValue(ps, "code") # -1
      BY <2>9, <2>11, LastValueIs
    <3>2. \E k \in DOMAIN ps : ps[k][1] = "code" /\ ps[k][2] = LastValue(ps, "code")
      BY <2>9, <3>1, LastValueIs
    <3> QED
      BY <2>10, <3>2
  <2>8. LastValue(ps, "state") = 1
    <3>1. LastValue(ps, "state") # -1
      BY <2>9, <2>11, LastValueIs
    <3>2. \E k \in DOMAIN ps : ps[k][1] = "state" /\ ps[k][2] = LastValue(ps, "state")
      BY <2>9, <3>1, LastValueIs
    <3> QED
      BY <2>10, <3>2
  <2>12. c = 1 /\ s = 1 /\ x = -1
    BY <2>6, <2>7, <2>8 DEF ps
  <2> QED
    BY <1>5, <2>1, <2>3, <2>12
<1> QED
  BY <1>6, <1>7 DEF RedirectRight

-----------------------------------------------------------------------------
\* A version that parses is a vector of at least three numbers, of exactly three when it was
\* written with no more.
LEMMA ParseIs ==
    ASSUME NEW v \in Seq(Nat \cup {Bad}), NEW base \in Nat \ {0},
           \A i \in DOMAIN v : v[i] < base, Parse(v) # <<>>
    PROVE  /\ Parse(v) \in Seq(Nat)
           /\ Len(v) <= 3 => Len(Parse(v)) = 3
           /\ \A i \in DOMAIN Parse(v) : Parse(v)[i] < base
<1> DEFINE n == IF Len(v) < 3 THEN 3 ELSE Len(v)
           f == [i \in 1..n |-> IF i <= Len(v) THEN v[i] ELSE 0]
<1>1. /\ v # <<>> /\ \A i \in DOMAIN v : v[i] # Bad
      /\ Parse(v) = f
  BY DEF Parse
<1>2. Len(v) \in Nat /\ DOMAIN v = 1..Len(v) /\ \A i \in 1..Len(v) : v[i] \in Nat /\ v[i] < base
  BY <1>1
<1>3. n \in Nat /\ (Len(v) <= 3 => n = 3)
  BY <1>2
<1> HIDE DEF n
<1>4. \A i \in 1..n : f[i] \in Nat /\ f[i] < base
  BY <1>2
<1>5. DOMAIN f = 1..n
  OBVIOUS
<1> HIDE DEF f
<1>6. f \in Seq(Nat) /\ Len(f) = n
  <2>1. f = [i \in 1..n |-> f[i]]
    BY <1>5 DEF f
  <2>2. f \in [1..n -> Nat]
    BY <1>4, <2>1
  <2> QED
    BY <1>3, <2>2
<1> QED
  BY <1>1, <1>3, <1>4, <1>5, <1>6

\* Two vectors are equal or one is below the other.
LEMMA VectorsCompare ==
    ASSUME NEW a \in Seq(Nat), NEW b \in Seq(Nat)
    PROVE  a = b \/ Below(a, b) \/ Below(b, a)
<1> DEFINE D == {i \in DOMAIN a \cap DOMAIN b : a[i] # b[i]}
<1>1. /\ Len(a) \in Nat /\ DOMAIN a = 1..Len(a) /\ Len(b) \in Nat /\ DOMAIN b = 1..Len(b)
      /\ \A i \in DOMAIN a : a[i] \in Nat
      /\ \A i \in DOMAIN b : b[i] \in Nat
  OBVIOUS
<1>2. CASE D # {}
  <2> DEFINE f == First(D)
  <2>1. D \subseteq Nat
    BY <1>1
  <2>2. f \in D /\ \A j \in D : f <= j
    <3> HIDE DEF D
    <3> QED
      BY <1>2, <2>1, FirstIs
  <2> HIDE DEF f
  <2>3. f \in DOMAIN a \cap DOMAIN b /\ a[f] # b[f] /\ f \in Nat
    BY <2>1, <2>2
  <2>4. \A j \in 1..(f - 1) : a[j] = b[j]
    <3> SUFFICES ASSUME NEW j \in 1..(f - 1), a[j] # b[j] PROVE FALSE
      OBVIOUS
    <3>1. j \in DOMAIN a \cap DOMAIN b /\ j < f /\ j \in Nat
      BY <1>1, <2>3
    <3>2. f <= j
      BY <2>2, <3>1
    <3> QED
      BY <2>3, <3>1, <3>2
  <2>5. a[f] < b[f] \/ b[f] < a[f]
    BY <1>1, <2>3
  <2> QED
    BY <2>3, <2>4, <2>5 DEF Below
<1>3. CASE D = {}
  <2>1. \A i \in DOMAIN a \cap DOMAIN b : a[i] = b[i]
    BY <1>3
  <2>2. CASE Len(a) < Len(b)
    <3>1. \A j \in DOMAIN a : a[j] = b[j]
      BY <1>1, <2>1, <2>2
    <3> QED
      BY <2>2, <3>1 DEF Below
  <2>3. CASE Len(b) < Len(a)
    <3>1. \A j \in DOMAIN b : b[j] = a[j]
      BY <1>1, <2>1, <2>3
    <3> QED
      BY <2>3, <3>1 DEF Below
  <2>4. CASE Len(a) = Len(b)
    <3>1. \A i \in 1..Len(a) : a[i] = b[i]
      BY <1>1, <2>1, <2>4
    <3>2. a = b
      BY <2>4, <3>1, SeqEqual, SMTT(30)
    <3> QED
      BY <3>2
  <2>5. Len(a) < Len(b) \/ Len(b) < Len(a) \/ Len(a) = Len(b)
    <3>1. ASSUME NEW m \in Nat, NEW n \in Nat PROVE m < n \/ n < m \/ m = n
      OBVIOUS
    <3> QED
      BY <1>1, <3>1
  <2> QED
    BY <2>2, <2>3, <2>4, <2>5
<1> QED
  BY <1>2, <1>3

\* A larger leading digit outweighs whatever follows it.
LEMMA LeadingDigit ==
    ASSUME NEW B \in Nat, NEW x \in Nat, NEW y \in Nat, NEW r \in Nat, NEW s \in Nat,
           x < y, r < B
    PROVE  x * B + r < y * B + s
<1> DEFINE d == y - x - 1
<1>1. d \in Nat /\ y = x + 1 + d
  OBVIOUS
<1>2. (x + 1 + d) * B = x * B + B + d * B
  BY <1>1
<1>3. d * B \in Nat /\ x * B \in Nat /\ y * B \in Nat
  BY <1>1
<1> HIDE DEF d
<1>4. y * B = x * B + B + d * B
  BY <1>1, <1>2
<1> DEFINE X == x * B
           Y == y * B
           Z == d * B
<1>5. X \in Nat /\ Y \in Nat /\ Z \in Nat /\ Y = X + B + Z
  BY <1>3, <1>4
<1> HIDE DEF X, Y, Z
<1>6. X + r < Y + s
  BY <1>5
<1> QED
  BY <1>6 DEF X, Y

\* The fields of a vector of three, and its number.
LEMMA ThreeFields ==
    ASSUME NEW v \in Seq(Nat), NEW base \in Nat, Len(v) = 3
    PROVE  /\ DOMAIN v = 1..3
           /\ v[1] \in Nat /\ v[2] \in Nat /\ v[3] \in Nat
           /\ v[1] * base + v[2] \in Nat /\ Number(v, base) \in Nat
<1>1. DOMAIN v = 1..3 /\ \A i \in 1..3 : v[i] \in Nat
  <2>1. DOMAIN v = 1..Len(v)
    BY LenProperties
  <2>2. \A i \in 1..Len(v) : v[i] \in Nat
    BY ElementOfSeq
  <2> QED
    BY <2>1, <2>2
<1>2. 1 \in 1..3 /\ 2 \in 1..3 /\ 3 \in 1..3
  OBVIOUS
<1>3. v[1] \in Nat /\ v[2] \in Nat /\ v[3] \in Nat
  BY <1>1, <1>2
<1> DEFINE x == v[1]
           y == v[2]
           z == v[3]
<1>4. x \in Nat /\ y \in Nat /\ z \in Nat
  BY <1>3
<1> HIDE DEF x, y, z
<1> DEFINE w == x * base + y
<1>5. w \in Nat
  BY <1>4
<1> HIDE DEF w
<1>6. w * base + z \in Nat
  BY <1>4, <1>5
<1> QED
  BY <1>1, <1>3, <1>5, <1>6 DEF Number, w, x, y, z

\* Of vectors of three fields the one below is the smaller number.
LEMMA BelowIsSmaller ==
    ASSUME NEW a \in Seq(Nat), NEW b \in Seq(Nat), NEW base \in Nat,
           Len(a) = 3, Len(b) = 3, \A i \in DOMAIN a : a[i] < base, Below(a, b)
    PROVE  Number(a, base) < Number(b, base)
<1>1. DOMAIN a = 1..3 /\ DOMAIN b = 1..3
  BY ThreeFields
<1>2. /\ a[1] \in Nat /\ a[2] \in Nat /\ a[3] \in Nat /\ b[1] \in Nat /\ b[2] \in Nat /\ b[3] \in Nat
      /\ a[2] < base /\ a[3] < base
  <2>1. 2 \in DOMAIN a /\ 3 \in DOMAIN a
    BY <1>1
  <2> QED
    BY <2>1, ThreeFields
<1>3. \/ a[1] < b[1]
      \/ a[1] = b[1] /\ a[2] < b[2]
      \/ a[1] = b[1] /\ a[2] = b[2] /\ a[3] < b[3]
  BY <1>1 DEF Below
<1> DEFINE x == a[1] * base + a[2]
           y == b[1] * base + b[2]
<1>4. x \in Nat /\ y \in Nat
  BY ThreeFields
<1>5. CASE a[1] < b[1]
  <2>1. x < y
    BY <1>2, <1>5, LeadingDigit
  <2> HIDE DEF x, y
  <2>2. x * base + a[3] < y * base + b[3]
    BY <1>2, <1>4, <2>1, LeadingDigit
  <2> QED
    BY <2>2 DEF Number, x, y
<1>6. CASE a[1] = b[1] /\ a[2] < b[2]
  <2>1. x < y
    <3> DEFINE p == a[1] * base
    <3>1. p \in Nat /\ x = p + a[2] /\ y = p + b[2]
      BY <1>2, <1>6
    <3> HIDE DEF p, x, y
    <3> QED
      BY <1>2, <1>6, <3>1
  <2> HIDE DEF x, y
  <2>2. x * base + a[3] < y * base + b[3]
    BY <1>2, <1>4, <2>1, LeadingDigit
  <2> QED
    BY <2>2 DEF Number, x, y
<1>7. CASE a[1] = b[1] /\ a[2] = b[2] /\ a[3] < b[3]
  <2> DEFINE p == x * base
  <2>1. x = y
    BY <1>7
  <2>2. Number(a, base) = p + a[3] /\ Number(b, base) = p + b[3]
    BY <1>7, <2>1 DEF Number
  <2>3. p \in Nat
    BY <1>2, <1>4
  <2> HIDE DEF p
  <2> QED
    BY <1>2, <1>7, <2>2, <2>3
<1> QED
  BY <1>3, <1>5, <1>6, <1>7

\* decide applies an update only outside a call, never one that the version it replaces would be
\* an update for, and of versions of up to three fields exactly the newer ones, for every version.
THEOREM UpdatesOnlyForward ==
    ASSUME NEW o, NEW base \in Nat \ {0}, o.inCall \in BOOLEAN,
           o.staged \in Seq(Nat \cup {Bad}), o.current \in Seq(Nat \cup {Bad}),
           \A i \in DOMAIN o.staged : o.staged[i] < base,
           \A i \in DOMAIN o.current : o.current[i] < base
    PROVE  UpdateRight(o, base, Decide(o))
<1> DEFINE s == Parse(o.staged)
           c == Parse(o.current)
           d == Decide(o)
           sw == Swapped(o)
<1>1. d # "Nothing" <=> s # <<>> /\ c # <<>> /\ ~AtMost(s, c)
  BY DEF Decide
<1>2. d = "Apply" => ~o.inCall
  BY DEF Decide
<1>3. ASSUME s # <<>> PROVE /\ s \in Seq(Nat) /\ (Len(o.staged) <= 3 => Len(s) = 3)
                            /\ \A i \in DOMAIN s : s[i] < base
  BY <1>3, ParseIs
<1>4. ASSUME c # <<>> PROVE /\ c \in Seq(Nat) /\ (Len(o.current) <= 3 => Len(c) = 3)
                            /\ \A i \in DOMAIN c : c[i] < base
  BY <1>4, ParseIs
<1>5. ASSUME d # "Nothing" PROVE Decide(Swapped(o)) = "Nothing"
  <2>1. s # <<>> /\ c # <<>> /\ ~AtMost(s, c)
    BY <1>1, <1>5
  <2>2. AtMost(c, s)
    <3>1. s \in Seq(Nat) /\ c \in Seq(Nat)
      BY <1>3, <1>4, <2>1
    <3> HIDE DEF s, c
    <3> QED
      BY <2>1, <3>1, VectorsCompare DEF AtMost
  <2>3. sw.staged = o.current /\ sw.current = o.staged
    BY DEF Swapped
  <2> HIDE DEF sw
  <2>4. Decide(sw) = "Nothing"
    BY <2>1, <2>2, <2>3 DEF Decide
  <2> QED
    BY <2>4 DEF sw
<1>6. ASSUME Len(o.staged) <= 3, Len(o.current) <= 3, s # <<>>, c # <<>>
      PROVE  ~AtMost(s, c) <=> Number(s, base) > Number(c, base)
  <2>1. /\ s \in Seq(Nat) /\ Len(s) = 3 /\ \A i \in DOMAIN s : s[i] < base
        /\ c \in Seq(Nat) /\ Len(c) = 3 /\ \A i \in DOMAIN c : c[i] < base
    BY <1>3, <1>4, <1>6
  <2> HIDE DEF s, c
  <2>2. Below(s, c) => Number(s, base) < Number(c, base)
    BY <2>1, BelowIsSmaller
  <2>3. Below(c, s) => Number(c, base) < Number(s, base)
    BY <2>1, BelowIsSmaller
  <2>4. s = c \/ Below(s, c) \/ Below(c, s)
    BY <2>1, VectorsCompare
  <2>5. Number(s, base) \in Nat /\ Number(c, base) \in Nat
    BY <2>1, ThreeFields
  <2> DEFINE S == Number(s, base)
             C == Number(c, base)
  <2>6. S \in Nat /\ C \in Nat /\ (Below(s, c) => S < C) /\ (Below(c, s) => C < S) /\ (s = c => S = C)
    BY <2>2, <2>3, <2>5
  <2> HIDE DEF S, C
  <2>7. ~AtMost(s, c) <=> S > C
    BY <2>4, <2>6 DEF AtMost
  <2> QED
    BY <2>7 DEF S, C
<1> HIDE DEF s, c, d
<1>7. Len(o.staged) <= 3 /\ Len(o.current) <= 3 =>
        (d # "Nothing" <=> s # <<>> /\ c # <<>> /\ Number(s, base) > Number(c, base))
  BY <1>1, <1>6
<1> QED
  BY <1>2, <1>5, <1>7 DEF UpdateRight, s, c, d

-----------------------------------------------------------------------------
\* A path that has a part has the part's first character.
LEMMA HasFirst ==
    ASSUME NEW p \in Seq(Nat), NEW t \in Seq(Nat), Len(t) >= 1, Has(p, t)
    PROVE  \E k \in DOMAIN p : p[k] = t[1]
<1>1. Len(p) \in Nat /\ DOMAIN p = 1..Len(p) /\ Len(t) \in Nat
  OBVIOUS
<1>2. PICK i \in 0..(Len(p) - Len(t)) : \A j \in 1..Len(t) : p[i + j] = t[j]
  BY DEF Has
<1> DEFINE m == Len(p)
           n == Len(t)
<1>3. m \in Nat /\ n \in Nat /\ n >= 1 /\ i \in 0..(m - n)
  BY <1>1
<1> HIDE DEF m, n
<1>4. 1 \in 1..n /\ i + 1 \in 1..m
  BY <1>3
<1>5. 1 \in 1..Len(t) /\ i + 1 \in DOMAIN p
  BY <1>1, <1>4 DEF m, n
<1>6. p[i + 1] = t[1]
  BY <1>2, <1>5
<1> QED
  BY <1>5, <1>6

\* A character that is no slash lies between two adjacent cuts.
LEMMA BetweenCuts ==
    ASSUME NEW p \in Seq(Nat), NEW k \in DOMAIN p, p[1] = Slash, p[k] # Slash
    PROVE  \E i, j \in Cuts(p) : Adjacent(p, i, j) /\ k \in (i + 1)..(j - 1)
<1> DEFINE n == Len(p)
           C == Cuts(p)
           low == {c \in C : c < k}
           high == {c \in C : c > k}
           i == CHOOSE x \in low : \A y \in low : y <= x
           j == First(high)
<1>1. n \in Nat /\ DOMAIN p = 1..n /\ k \in Nat /\ k >= 1 /\ k <= n
  OBVIOUS
<1>2. C \subseteq 1..(n + 1) /\ 1 \in C /\ n + 1 \in C /\ k \notin C
  <2>1. C = {c \in 1..n : p[c] = Slash} \cup {n + 1}
    BY <1>1 DEF Cuts
  <2> HIDE DEF C, n
  <2> QED
    BY <1>1, <2>1
<1> HIDE DEF C, n
<1>3. k # 1
  OBVIOUS
<1>4. low \subseteq 1..(n + 1) /\ 1 \in low /\ n + 1 \in Nat
  <2>1. 1 < k /\ n + 1 \in Nat
    BY <1>1, <1>3
  <2> QED
    BY <1>2, <2>1
<1>5. high \subseteq Nat /\ n + 1 \in high
  <2>1. n + 1 > k /\ 1..(n + 1) \subseteq Nat
    BY <1>1
  <2> QED
    BY <1>2, <2>1
<1>6. i \in low /\ \A y \in low : y <= i
  <2>1. low # {}
    BY <1>4
  <2> HIDE DEF low
  <2> QED
    BY <1>4, <2>1, LastIs
<1>7. j \in high /\ \A y \in high : j <= y
  <2>1. high # {}
    BY <1>5
  <2> HIDE DEF high
  <2> QED
    BY <1>5, <2>1, FirstIs
<1> HIDE DEF i, j
<1>8. i \in C /\ j \in C /\ i < k /\ k < j /\ i \in Nat /\ j \in Nat
  BY <1>2, <1>6, <1>7
<1>9. ~\E c \in C : i < c /\ c < j
  <2> SUFFICES ASSUME NEW c \in C, i < c, c < j PROVE FALSE
    OBVIOUS
  <2>1. c \in Nat /\ c # k
    BY <1>2
  <2>2. CASE c < k
    <3>1. c <= i
      BY <1>6, <2>2
    <3> QED
      BY <1>8, <2>1, <3>1
  <2>3. CASE c > k
    <3>1. j <= c
      BY <1>7, <2>3
    <3> QED
      BY <1>8, <2>1, <3>1
  <2> QED
    BY <1>1, <2>1, <2>2, <2>3
<1>10. i < j /\ k \in (i + 1)..(j - 1)
  BY <1>1, <1>8
<1>11. Adjacent(p, i, j)
  BY <1>8, <1>9, <1>10 DEF Adjacent, C
<1> QED
  BY <1>8, <1>10, <1>11 DEF C

\* The parts ValidatePortalPath looks for.
LEMMA Parts ==
    /\ <<Colon, Slash, Slash>> \in Seq(Nat) /\ Len(<<Colon, Slash, Slash>>) = 3
    /\ <<Colon, Slash, Slash>>[1] = Colon
    /\ <<Backslash>> \in Seq(Nat) /\ Len(<<Backslash>>) = 1 /\ <<Backslash>>[1] = Backslash
    /\ <<Dot, Dot>> \in Seq(Nat) /\ Len(<<Dot, Dot>>) = 2
    /\ <<Dot, Dot>>[1] = Dot /\ <<Dot, Dot>>[2] = Dot
BY DEF Colon, Slash, Backslash, Dot

\* validate_portal_path: every path it lets through begins at the root, names no host and has no
\* segment that climbs, and every plain path of letters is let through, for every path.
THEOREM PortalStaysOnSite ==
    ASSUME NEW p \in Seq(Nat)
    PROVE  PortalRight(p, ValidatePortalPath(p))
<1> DEFINE n == Len(p)
           ok == ValidatePortalPath(p)
<1>1. n \in Nat /\ DOMAIN p = 1..n /\ \A k \in 1..n : p[k] \in Nat
  OBVIOUS
<1>2. ok <=> /\ Len(p) >= 1 /\ p[1] = Slash
             /\ ~(Len(p) >= 2 /\ p[1] = Slash /\ p[2] = Slash)
             /\ ~Has(p, <<Colon, Slash, Slash>>) /\ ~Has(p, <<Backslash>>) /\ ~Has(p, <<Dot, Dot>>)
  BY DEF ValidatePortalPath
<1> HIDE DEF ok
<1>3. ASSUME ok, Len(p) >= 2 PROVE p[2] \notin {Slash, Backslash}
  <2>1. p[2] # Slash
    BY <1>2, <1>3
  <2>2. p[2] # Backslash
    <3> SUFFICES ASSUME p[2] = Backslash PROVE Has(p, <<Backslash>>)
      BY <1>2, <1>3
    <3>1. 1 \in 0..(Len(p) - 1)
      BY <1>1, <1>3
    <3>2. \A j \in 1..1 : p[1 + j] = <<Backslash>>[j]
      BY Parts
    <3> QED
      BY <3>1, <3>2, Parts DEF Has
  <2> QED
    BY <2>1, <2>2
<1>4. ASSUME ok, NEW i \in Cuts(p), NEW j \in Cuts(p), Adjacent(p, i, j), Segment(p, i, j) = <<Dot, Dot>>
      PROVE  FALSE
  <2>1. i \in 1..(n + 1) /\ j \in 1..(n + 1) /\ i < j
    BY <1>1, <1>4 DEF Cuts, Adjacent
  <2> DEFINE g == SubSeq(p, i + 1, j - 1)
  <2>2. g = <<Dot, Dot>>
    BY <1>4 DEF Segment
  <2>3. Len(g) = j - 1 - i /\ \A x \in 1..(j - 1 - i) : g[x] = p[i + x]
    BY <1>1, <2>1
  <2> HIDE DEF g
  <2>4. j - 1 - i = 2 /\ g[1] = Dot /\ g[2] = Dot
    BY <2>2, <2>3, Parts
  <2>5. p[i + 1] = Dot /\ p[i + 2] = Dot
    BY <2>1, <2>3, <2>4, SMTT(30)
  <2>6. i \in 0..(Len(p) - 2)
    BY <1>1, <2>1, <2>4
  <2>7. \A x \in 1..2 : p[i + x] = <<Dot, Dot>>[x]
    <3> SUFFICES ASSUME NEW x \in 1..2 PROVE p[i + x] = <<Dot, Dot>>[x]
      OBVIOUS
    <3>1. x = 1 \/ x = 2
      OBVIOUS
    <3> QED
      BY <2>5, <3>1, Parts
  <2>8. Has(p, <<Dot, Dot>>)
    BY <2>6, <2>7, Parts DEF Has
  <2> QED
    BY <1>2, <1>4, <2>8
<1>5. ASSUME p # <<>>, p[1] = Slash,
             \A i, j \in Cuts(p) :
                Adjacent(p, i, j) => i + 1 < j /\ \A k \in (i + 1)..(j - 1) : p[k] = Letter
      PROVE  ok
  <2>1. \A k \in DOMAIN p : p[k] = Slash \/ p[k] = Letter
    <3> SUFFICES ASSUME NEW k \in DOMAIN p, p[k] # Slash PROVE p[k] = Letter
      OBVIOUS
    <3>1. PICK i, j \in Cuts(p) : Adjacent(p, i, j) /\ k \in (i + 1)..(j - 1)
      BY <1>5, BetweenCuts
    <3> QED
      BY <1>5, <3>1
  <2>2. ~Has(p, <<Colon, Slash, Slash>>)
    <3> SUFFICES ASSUME Has(p, <<Colon, Slash, Slash>>) PROVE FALSE
      OBVIOUS
    <3> DEFINE t == <<Colon, Slash, Slash>>
    <3>2. t \in Seq(Nat) /\ Len(t) >= 1 /\ t[1] = Colon /\ Has(p, t)
      BY Parts
    <3> HIDE DEF t
    <3>1. \E k \in DOMAIN p : p[k] = Colon
      BY <3>2, HasFirst
    <3> QED
      BY <2>1, <3>1, SMTT(30) DEF Colon, Slash, Letter
  <2>3. ~Has(p, <<Backslash>>)
    <3> SUFFICES ASSUME Has(p, <<Backslash>>) PROVE FALSE
      OBVIOUS
    <3> DEFINE t == <<Backslash>>
    <3>2. t \in Seq(Nat) /\ Len(t) >= 1 /\ t[1] = Backslash /\ Has(p, t)
      BY Parts
    <3> HIDE DEF t
    <3>1. \E k \in DOMAIN p : p[k] = Backslash
      BY <3>2, HasFirst
    <3> QED
      BY <2>1, <3>1 DEF Backslash, Slash, Letter
  <2>4. ~Has(p, <<Dot, Dot>>)
    <3> SUFFICES ASSUME Has(p, <<Dot, Dot>>) PROVE FALSE
      OBVIOUS
    <3> DEFINE t == <<Dot, Dot>>
    <3>2. t \in Seq(Nat) /\ Len(t) >= 1 /\ t[1] = Dot /\ Has(p, t)
      BY Parts
    <3> HIDE DEF t
    <3>1. \E k \in DOMAIN p : p[k] = Dot
      BY <3>2, HasFirst
    <3> QED
      BY <2>1, <3>1 DEF Dot, Slash, Letter
  <2>5. Len(p) >= 1
    BY <1>1, <1>5
  <2>6. ~(Len(p) >= 2 /\ p[2] = Slash)
    <3> SUFFICES ASSUME Len(p) >= 2, p[2] = Slash PROVE FALSE
      OBVIOUS
    <3>1. 1 \in Cuts(p) /\ 2 \in Cuts(p) /\ Cuts(p) \subseteq Nat
      BY <1>1, <1>5 DEF Cuts
    <3>2. Adjacent(p, 1, 2)
      BY <3>1 DEF Adjacent
    <3>3. 1 + 1 < 2
      BY <1>5, <3>1, <3>2
    <3> QED
      BY <3>3
  <2> QED
    BY <1>2, <1>5, <2>2, <2>3, <2>4, <2>5, <2>6
<1> QED
  BY <1>2, <1>3, <1>4, <1>5 DEF PortalRight, ok
====
