------------------------------ MODULE Telemetry ------------------------------
(***************************************************************************)
(* The telemetry exporter of the two client processes                      *)
(* (sentinel-service/src/telemetry): threads that emit records, the        *)
(* bounded queue, and the exporter thread that batches and ships them.     *)
(*                                                                         *)
(* A record is its emitting thread, its number in that thread and the      *)
(* attributes the field visitor left on it; time, severity and wording are *)
(* left out, and so is the `endpoint_failing` flag, which only decides     *)
(* whether a local log line is written.  Records on other targets than     *)
(* TARGET never reach the exporter and are no step at all.                 *)
(***************************************************************************)
EXTENDS Naturals, Sequences, FiniteSets, SequencesExt

CONSTANTS
    Emitter,       \* the threads that emit telemetry
    FieldOf,       \* the field each thread attaches: its name's dotted segments
    QueueCapacity, \* QUEUE_CAPACITY: records held for the exporter thread
    MaxBatch,      \* MAX_BATCH: records per request
    MaxEmit        \* bound: records each thread emits

ASSUME TelemetryAssumption == QueueCapacity \in Nat /\ MaxBatch \in Nat \ {0} /\ MaxEmit \in Nat

VARIABLES
    emitted,   \* how many records each thread has emitted
    refused,   \* threads whose try_send found the queue full, not counted yet
    channel,   \* the queue between the layer and the exporter
    dropped,   \* the shared counter of dropped records
    gone,      \* history: the records dropped
    batch,     \* the exporter's batch
    reported,  \* reported_drops: how many drops the exporter has told of
    exporter,  \* "recv" | "flush" | "ship" | "ended"
    shipped,   \* history: the records of all requests, in order
    payloads,  \* history: per request, the records up to it, the drops it tells of and
               \* what reported_drops came to
    held       \* main still holds the TelemetryHandle

telemetryVars == <<emitted, refused, channel, dropped, gone, batch, reported,
                   exporter, shipped, payloads, held>>
requestVars == <<reported, shipped, payloads>>

-----------------------------------------------------------------------------
FORBIDDEN == { <<"user_uid">>, <<"email">>, <<"user", "id">> }

\* The whole name or its last segment on the list: the field must not leave.
AttributePermitted(key) ==
    /\ key \notin FORBIDDEN
    /\ <<Last(key)>> \notin FORBIDDEN

\* The visitor keeps a permitted field and leaves only the name of another.
Visit(key) == IF AttributePermitted(key) THEN [key |-> key, value |-> TRUE]
              ELSE [key |-> key, value |-> FALSE]

Record(e) == [from |-> e, n |-> emitted[e] + 1, attribute |-> Visit(FieldOf[e])]

TelemetryInit ==
    /\ emitted = [e \in Emitter |-> 0]
    /\ refused = {}
    /\ channel = <<>>
    /\ dropped = 0
    /\ gone = {}
    /\ batch = <<>>
    /\ reported = 0
    /\ exporter = "recv"
    /\ shipped = <<>>
    /\ payloads = <<>>
    /\ held = TRUE

\* on_event: try_send never blocks the emitting thread.
Emits(e) == /\ exporter # "ended"
            /\ e \notin refused
            /\ emitted[e] < MaxEmit
            /\ emitted' = [emitted EXCEPT ![e] = @ + 1]

EmitQueued(e) ==
    /\ Emits(e)
    /\ Len(channel) < QueueCapacity
    /\ channel' = Append(channel, Record(e))
    /\ UNCHANGED <<refused, dropped, gone, batch, exporter, requestVars, held>>

EmitRefused(e) ==
    /\ Emits(e)
    /\ Len(channel) = QueueCapacity
    /\ refused' = refused \cup {e}
    /\ gone' = gone \cup {Record(e)}
    /\ UNCHANGED <<channel, dropped, batch, exporter, requestVars, held>>

\* The fetch_add that follows a refused try_send, a step of its own.
CountDrop(e) ==
    /\ exporter # "ended"
    /\ e \in refused
    /\ refused' = refused \ {e}
    /\ dropped' = dropped + 1
    /\ UNCHANGED <<emitted, channel, gone, batch, exporter, requestVars, held>>

\* export_loop takes a record; a full batch is flushed, any other waits on.
Receive ==
    /\ exporter = "recv"
    /\ channel # <<>>
    /\ batch' = Append(batch, Head(channel))
    /\ channel' = Tail(channel)
    /\ exporter' = IF Len(batch') < MaxBatch THEN "recv" ELSE "flush"
    /\ UNCHANGED <<emitted, refused, dropped, gone, requestVars, held>>

\* recv_timeout elapsed with nothing in the queue: a partial batch goes out.
FlushInterval ==
    /\ exporter = "recv"
    /\ channel = <<>>
    /\ exporter' = "flush"
    /\ UNCHANGED <<emitted, refused, channel, dropped, gone, batch, requestVars, held>>

\* Mutant of Flush: drops are reported with partial batches only.
FlushSilently ==
    /\ exporter = "flush"
    /\ LET drops == IF Len(batch) < MaxBatch THEN dropped - reported ELSE 0
           content == [upto |-> Len(shipped) + Len(batch), drops |-> drops,
                       total |-> reported + drops] IN
       /\ payloads' = IF batch = <<>> /\ drops = 0 THEN payloads
                      ELSE Append(payloads, content)
       /\ exporter' = IF batch = <<>> /\ drops = 0 THEN "recv" ELSE "ship"
       /\ reported' = reported + drops
    /\ shipped' = shipped \o batch
    /\ batch' = <<>>
    /\ UNCHANGED <<emitted, refused, channel, dropped, gone, held>>

\* flush: read the counter, add a record for the drops nobody has been told
\* of, encode, empty the batch.  With nothing to say nothing is shipped.
Flush ==
    /\ exporter = "flush"
    /\ LET drops == dropped - reported
           content == [upto |-> Len(shipped) + Len(batch), drops |-> drops,
                       total |-> dropped] IN
       /\ payloads' = IF batch = <<>> /\ drops = 0 THEN payloads
                      ELSE Append(payloads, content)
       /\ exporter' = IF batch = <<>> /\ drops = 0 THEN "recv" ELSE "ship"
    /\ reported' = dropped
    /\ shipped' = shipped \o batch
    /\ batch' = <<>>
    /\ UNCHANGED <<emitted, refused, channel, dropped, gone, held>>

\* The request ends, answered or failed: the batch is not kept either way.
\* Meanwhile the emitting threads fill the queue.
Ship ==
    /\ exporter = "ship"
    /\ exporter' = "recv"
    /\ UNCHANGED <<emitted, refused, channel, dropped, gone, batch, requestVars, held>>

\* main returns: the handle drops its sender and waits SHUTDOWN_GRACE for the
\* thread.  The layer installed in the subscriber holds a second sender, so
\* the channel does not close and the thread goes on as before ...
StopExporter ==
    /\ held
    /\ exporter # "ended"
    /\ held' = FALSE
    /\ UNCHANGED <<emitted, refused, channel, dropped, gone, batch, exporter,
                   requestVars>>

\* ... until the deadline, when the process exits with what is queued.
ProcessExits ==
    /\ ~held
    /\ exporter # "ended"
    /\ exporter' = "ended"
    /\ UNCHANGED <<emitted, refused, channel, dropped, gone, batch, requestVars, held>>

TelemetryNext ==
    \/ \E e \in Emitter : EmitQueued(e) \/ EmitRefused(e) \/ CountDrop(e)
    \/ Receive \/ FlushInterval \/ Flush \/ Ship
    \/ StopExporter \/ ProcessExits

TelemetrySpec == TelemetryInit /\ [][TelemetryNext]_telemetryVars

-----------------------------------------------------------------------------
\* Every record on its way or away, oldest first.
Stream == shipped \o batch \o channel

\* The records the first i requests carry, and the dropped ones that came before one of
\* them in the same thread.
Shown(i) == {shipped[j] : j \in 1..payloads[i].upto}
Missing(i) == {d \in gone : \E r \in Shown(i) : r.from = d.from /\ r.n > d.n}

\* Where a thread's n-th record is.
InStream(e, n) == \E i \in DOMAIN Stream : Stream[i].from = e /\ Stream[i].n = n
IsGone(e, n) == \E d \in gone : d.from = e /\ d.n = n

(***************************************************************************)
(* A stream of requests with a hole in it says so (layer.rs, flush): when  *)
(* a request carries a record its thread emitted after a dropped one, that *)
(* request or an earlier one has reported at least as many drops, whatever *)
(* the order of the emitting threads, the counter and the exporter.  And   *)
(* the report is honest: the drops the requests tell of add up to no more  *)
(* than was dropped, every record emitted is dropped or in the stream and  *)
(* never both, once and in the order of its thread, and no value of a      *)
(* forbidden field leaves.                                                 *)
(***************************************************************************)
HolesAreSaid ==
    /\ \A i \in DOMAIN payloads :
          /\ Cardinality(Missing(i)) <= payloads[i].total
          /\ payloads[i].total <= Cardinality(gone)
          /\ payloads[i].total =
                payloads[i].drops + IF i = 1 THEN 0 ELSE payloads[i - 1].total
    /\ \A i, j \in DOMAIN Stream :
          i < j /\ Stream[i].from = Stream[j].from => Stream[i].n < Stream[j].n
    /\ \A e \in Emitter : \A n \in 1..emitted[e] : InStream(e, n) <=> ~IsGone(e, n)
    /\ \A i \in DOMAIN shipped :
          shipped[i].attribute.value
             => Last(shipped[i].attribute.key) \notin {"user_uid", "email"}
==============================================================================
