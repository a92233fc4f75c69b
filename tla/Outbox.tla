---- MODULE Outbox ----
(***************************************************************************)
(* The hand-over from the gateway to the pipeline: the finalize outbox in  *)
(* the database that holds the call record, the drainers of the gateway    *)
(* replicas and the JetStream stream they publish to.  Time is abstract: a *)
(* claimed row becomes due again, and a message id leaves the stream's     *)
(* duplicate window, at any later moment.  The attempt number and the last *)
(* error of a row are carried for operators and are left out.              *)
(***************************************************************************)
EXTENDS CallRecord, Sequences

CONSTANTS
    Strays,      \* messages of other publishers, about no call the tenant has
    Gateways,    \* gateway replicas, each with its own drainer
    Batch,       \* rows one claim takes at most
    MaxDeliver,  \* deliveries the broker makes of one message
    MaxStored,   \* bound: messages the stream ever stores
    MaxFaults,   \* bound: failures of the environment in one behaviour
    NoCall       \* no published row waits for its mark

ASSUME OutboxAssumption ==
    /\ Calls \cap Strays = {}
    /\ NoCall \notin Calls
    /\ Batch \in Nat \ {0}
    /\ MaxDeliver \in Nat \ {0}
    /\ MaxStored \in Nat
    /\ MaxFaults \in Nat

VARIABLES
    row,      \* the call's outbox row: none, due, waiting (claimed) or published
    held,     \* per drainer, the claimed entries it has not published yet
    sending,  \* per drainer, the entry published and not marked yet
    stream,   \* the stream's messages, each with its deliveries and state
    faults    \* failures so far

outboxVars == <<row, held, sending>>

Subjects == Calls \cup Strays
RowStates == {"none", "due", "waiting", "published"}
MessageStates == {"ready", "out", "acked", "dropped"}
Messages == [call : Subjects, deliveries : 0..MaxDeliver, state : MessageStates]

OutboxInit ==
    /\ row = [c \in Calls |-> "none"]
    /\ held = [g \in Gateways |-> {}]
    /\ sending = [g \in Gateways |-> NoCall]
    /\ stream = <<>>
    /\ faults = 0

OutboxTypeOK ==
    /\ row \in [Calls -> RowStates]
    /\ held \in [Gateways -> SUBSET Calls]
    /\ sending \in [Gateways -> Calls \cup {NoCall}]
    /\ stream \in Seq(Messages)
    /\ faults \in 0..MaxFaults

Fault == faults < MaxFaults /\ faults' = faults + 1

----------------------------------------------------------------------------
\* JetStream.  A repeat of a message id inside the duplicate window stores nothing;
\* the window may have passed since the first copy was stored, or not.
Copies(m) == {i \in DOMAIN stream : stream[i].call = m}

Store(m) ==
    \/ Copies(m) # {} /\ UNCHANGED stream
    \/ /\ Len(stream) < MaxStored
       /\ stream' = Append(stream, [call |-> m, deliveries |-> 0, state |-> "ready"])

StrayArrives(m) ==
    /\ Copies(m) = {}
    /\ Store(m)
    /\ UNCHANGED <<outboxVars, faults>>

\* An unacknowledged message goes back to the stream while it has deliveries left.
Returned(m) == [m EXCEPT !.state = IF m.deliveries < MaxDeliver THEN "ready" ELSE "dropped"]

----------------------------------------------------------------------------
\* Mutant of Claim: the query lacks its published_at IS NULL.
ClaimAny(g) ==
    /\ held[g] = {} /\ sending[g] = NoCall
    /\ \E S \in SUBSET {c \in Calls : row[c] \in {"due", "published"}} :
          /\ S # {} /\ Cardinality(S) <= Batch
          /\ row' = [c \in Calls |-> IF c \in S THEN "waiting" ELSE row[c]]
          /\ held' = [held EXCEPT ![g] = S]
    /\ UNCHANGED <<sending, stream, faults>>

\* ClaimFinalize: rows that are due, their next attempt pushed out by the claim itself.
Claim(g) ==
    /\ held[g] = {} /\ sending[g] = NoCall
    /\ \E S \in SUBSET {c \in Calls : row[c] = "due"} :
          /\ S # {} /\ Cardinality(S) <= Batch
          /\ row' = [c \in Calls |-> IF c \in S THEN "waiting" ELSE row[c]]
          /\ held' = [held EXCEPT ![g] = S]
    /\ UNCHANGED <<sending, stream, faults>>

\* Mutant of BackoffEnds: a claim whose holder gave up is never due again.
NeverDueAgain(c) ==
    /\ row[c] = "waiting" /\ \E g \in Gateways : c \in held[g]
    /\ row' = [row EXCEPT ![c] = "due"]
    /\ UNCHANGED <<held, sending, stream, faults>>

\* next_attempt_at passes.
BackoffEnds(c) ==
    /\ row[c] = "waiting"
    /\ row' = [row EXCEPT ![c] = "due"]
    /\ UNCHANGED <<held, sending, stream, faults>>

Publish(g, c) ==
    /\ c \in held[g] /\ sending[g] = NoCall
    /\ Store(c)
    /\ held' = [held EXCEPT ![g] = @ \ {c}]
    /\ sending' = [sending EXCEPT ![g] = c]
    /\ UNCHANGED <<row, faults>>

\* Mutant of PublishFails: the row is marked before the publish is known to have worked.
MarkedAnyway(g, c) ==
    /\ c \in held[g] /\ sending[g] = NoCall
    /\ Fault
    /\ held' = [held EXCEPT ![g] = @ \ {c}]
    /\ row' = [row EXCEPT ![c] = "published"]
    /\ Store(c) \/ UNCHANGED stream
    /\ UNCHANGED sending

\* The broker refuses the message, or stores it and the acknowledgement never comes.
PublishFails(g, c) ==
    /\ c \in held[g] /\ sending[g] = NoCall
    /\ Fault
    /\ held' = [held EXCEPT ![g] = @ \ {c}]
    /\ Store(c) \/ UNCHANGED stream
    /\ UNCHANGED <<row, sending>>

MarkPublished(g) ==
    /\ sending[g] # NoCall
    /\ row' = [row EXCEPT ![sending[g]] = "published"]
    /\ sending' = [sending EXCEPT ![g] = NoCall]
    /\ UNCHANGED <<held, stream, faults>>

\* Published but not marked: the row stays claimable.
MarkFails(g) ==
    /\ sending[g] # NoCall
    /\ Fault
    /\ sending' = [sending EXCEPT ![g] = NoCall]
    /\ UNCHANGED <<row, held, stream>>

\* The replica stops or dies with claimed entries in hand.
GatewayStops(g) ==
    /\ held[g] # {} \/ sending[g] # NoCall
    /\ Fault
    /\ held' = [held EXCEPT ![g] = {}]
    /\ sending' = [sending EXCEPT ![g] = NoCall]
    /\ UNCHANGED <<row, stream>>

OutboxNext ==
    \/ \E g \in Gateways :
          \/ Claim(g)
          \/ MarkPublished(g)
          \/ MarkFails(g)
          \/ GatewayStops(g)
          \/ \E c \in Calls : Publish(g, c) \/ PublishFails(g, c)
    \/ \E c \in Calls : BackoffEnds(c)
    \/ \E m \in Strays : StrayArrives(m)
====
