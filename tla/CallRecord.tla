---- MODULE CallRecord ----
(***************************************************************************)
(* What Postgres keeps about a finalized call and who writes it: the sink  *)
(* of the pipeline, one transaction per method, and the people who review  *)
(* flags, answer them and correct an extracted promise to pay.  Evidence,  *)
(* wording and amounts are data the pipeline owns; what is kept of a row   *)
(* is that it exists and what a human wrote into it.                       *)
(***************************************************************************)
EXTENDS Naturals, FiniteSets

CONSTANTS
    Calls,       \* the calls that end and are handed over
    Channels,    \* the two sides of a call
    Rules,       \* tier-1 rules
    JudgeRules,  \* the rules whose findings go to the tier-2 judge
    Amounts,     \* promises the analysis may extract
    NoAmount,    \* the promise row holds no extraction
    Decisions,   \* statuses a reviewer sends; "" leaves the status alone
    MaxActs      \* bound: human writes in one behaviour

Statuses == {"open", "assigned", "upheld", "dismissed"}

ASSUME RecordAssumption ==
    /\ JudgeRules \subseteq Rules
    /\ NoAmount \notin Amounts
    /\ Decisions \subseteq Statuses \cup {""}
    /\ MaxActs \in Nat

VARIABLES
    status,      \* calls.status
    transcript,  \* the channels with a transcripts row
    analysed,    \* calls with an analyses row
    ptp,         \* the call's promise-to-pay row
    flags,       \* the call's flags by rule and tier
    handled,     \* history: the flags a human has ever written to
    ruled,       \* history: calls whose findings have been saved
    done,        \* history: calls a finalize has carried to complete
    acts         \* human writes so far

resultVars == <<transcript, analysed, ptp, flags, ruled, done>>
recordVars == <<status, resultVars, handled, acts>>

CallStatuses == {"ingesting", "transcribing", "analyzing", "complete", "failed"}
Tiers == {1, 2}
Keys == Rules \X Tiers

FlagRows == [status : Statuses \cup {"none"}, trail : BOOLEAN, answered : BOOLEAN]
NoFlag == [status |-> "none", trail |-> FALSE, answered |-> FALSE]
FreshFlag == [status |-> "open", trail |-> FALSE, answered |-> FALSE]
Present(f) == f.status # "none"

\* The columns the stale-flag delete looks at: status, reviewer and note, agent response.
Untouched(f) == f.status = "open" /\ ~f.trail /\ ~f.answered

\* What counts as a human decision on a flag.
Decided(f) == Present(f) /\ (f.status # "open" \/ f.trail \/ f.answered)

Promises == [amount : Amounts \cup {NoAmount}, state : {"none", "extracted", "corrected"}]
NoPromise == [amount |-> NoAmount, state |-> "none"]

RecordInit ==
    /\ status = [c \in Calls |-> "ingesting"]
    /\ transcript = [c \in Calls |-> {}]
    /\ analysed = {}
    /\ ptp = [c \in Calls |-> NoPromise]
    /\ flags = [c \in Calls |-> [k \in Keys |-> NoFlag]]
    /\ handled = {} /\ ruled = {} /\ done = {} /\ acts = 0

RecordTypeOK ==
    /\ status \in [Calls -> CallStatuses]
    /\ transcript \in [Calls -> SUBSET Channels]
    /\ analysed \in SUBSET Calls
    /\ ptp \in [Calls -> Promises]
    /\ flags \in [Calls -> [Keys -> FlagRows]]
    /\ handled \in SUBSET (Calls \X Keys)
    /\ ruled \in SUBSET Calls
    /\ done \in SUBSET Calls
    /\ acts \in 0..MaxActs

----------------------------------------------------------------------------
\* PostgresSink, one transaction each.
SetStatus(c, s) == status' = [status EXCEPT ![c] = s]

\* Channels this run did not transcribe keep the row of an earlier one.
SaveTranscript(c, heard) == transcript' = [transcript EXCEPT ![c] = @ \cup heard]

\* Mutant of Extracted: the upsert lacks its corrected_at IS NULL guard.
AlwaysExtracted(p, a) ==
    IF a = NoAmount THEN NoPromise ELSE [amount |-> a, state |-> "extracted"]

\* The extraction, or its retraction, never reaches a corrected row.
Extracted(p, a) ==
    IF p.state = "corrected" THEN p
    ELSE IF a = NoAmount THEN NoPromise
    ELSE [amount |-> a, state |-> "extracted"]

SaveAnalysis(c, a) ==
    /\ analysed' = analysed \cup {c}
    /\ ptp' = [ptp EXCEPT ![c] = Extracted(@, a)]

\* save_findings is one transaction of two statements: upsert what this run found, then
\* delete what it did not find and nobody touched.  The delete sees the rows committed when
\* it starts, and looks again at each of them when it can lock it; the upsert of a row
\* that another transaction has inserted or deleted waits for that transaction.
Stale(c, found) == {k \in Keys \ found : Untouched(flags[c][k])}

\* Mutant of Reconciled: the stale rows are not deleted.
OnlyUpserted(f, isFound, isStale) == IF isFound /\ ~Present(f) THEN FreshFlag ELSE f

Reconciled(f, isFound, isStale) ==
    IF isFound THEN (IF Present(f) THEN f ELSE FreshFlag)
    ELSE IF isStale /\ Untouched(f) THEN NoFlag
    ELSE f

SaveFindings(c, found, stale) ==
    /\ flags' = [flags EXCEPT ![c] =
                    [k \in Keys |-> Reconciled(@[k], k \in found, k \in stale)]]
    /\ ruled' = ruled \cup {c}

\* What one run may find: a rule's finding is dismissed by the judge, stands as a
\* tier-1 finding (not judged, inconclusive, judge unavailable) or is upheld as tier 2.
Findings ==
    {F \in SUBSET Keys :
        /\ \A k \in F : k[2] = 2 => k[1] \in JudgeRules
        /\ \A j, k \in F : j[1] = k[1] => j = k}

----------------------------------------------------------------------------
\* People.
Act == acts < MaxActs /\ acts' = acts + 1

\* UpdateFlag: empty fields leave their columns alone.
Reviewed(f, s, isSigned) ==
    [status |-> IF s = "" THEN f.status ELSE s, trail |-> f.trail \/ isSigned,
     answered |-> f.answered]

UpdateFlag(c, k, s, isSigned) ==
    /\ Present(flags[c][k])
    /\ s # "" \/ isSigned
    /\ Act
    /\ flags' = [flags EXCEPT ![c][k] = Reviewed(@, s, isSigned)]
    /\ handled' = handled \cup {<<c, k>>}
    /\ UNCHANGED <<status, transcript, analysed, ptp, ruled, done>>

Answered(f) == [status |-> f.status, trail |-> f.trail, answered |-> TRUE]

RespondToFlag(c, k) ==
    /\ Present(flags[c][k])
    /\ Act
    /\ flags' = [flags EXCEPT ![c][k] = Answered(@)]
    /\ handled' = handled \cup {<<c, k>>}
    /\ UNCHANGED <<status, transcript, analysed, ptp, ruled, done>>

\* The agent's columns and corrected_at; the extraction stays beside them.
Corrected(p) == [amount |-> p.amount, state |-> "corrected"]

ConfirmCall(c) ==
    /\ Act
    /\ ptp' = [ptp EXCEPT ![c] = Corrected(@)]
    /\ UNCHANGED <<status, transcript, analysed, flags, handled, ruled, done>>

HumanNext ==
    \E c \in Calls :
        \/ ConfirmCall(c)
        \/ \E k \in Keys :
              \/ RespondToFlag(c, k)
              \/ \E s \in Decisions, isSigned \in BOOLEAN : UpdateFlag(c, k, s, isSigned)
====
