---------------------------- MODULE StripeWebhook ----------------------------
(***************************************************************************)
(* The claim protocol of the Stripe webhook endpoint.                      *)
(*                                                                         *)
(* Stripe delivers an event at least once.  Every delivery is handled by   *)
(* BillingWebhookService.handleWebhook: it claims the row of the event in  *)
(* stripe_webhook_events, processes the event, and marks the row processed *)
(* or failed.  The row is the only thing two deliveries of one event       *)
(* share; each database statement is one step, so handlers interleave      *)
(* between the claim, the processing and the mark.                         *)
(***************************************************************************)
EXTENDS Integers, FiniteSets

CONSTANTS
    Events,          \* Stripe event ids
    None,            \* no event
    Handlers,        \* deliveries the API servers can have in flight at once
    ReclaimAfter,    \* processingReclaimAfterMs, in clock ticks
    MaxTime,         \* bound: the clock stops here
    MaxFailures,     \* bound: how many processings or marks throw
    MaxLostMarks,    \* bound: how many failures go unrecorded too
    MaxCrashes,      \* bound: how many handlers die without a catch block
    Overlapping      \* TRUE if Stripe may redeliver an event before it has
                     \* an answer to the delivery in flight

ASSUME NoneAssumption == None \notin Events
ASSUME ReclaimAfterAssumption == ReclaimAfter \in Nat
ASSUME BoundsAssumption == /\ MaxTime \in Nat
                           /\ MaxFailures \in Nat
                           /\ MaxLostMarks \in Nat
                           /\ MaxCrashes \in Nat
                           /\ Overlapping \in BOOLEAN

RowStatus == {"processing", "processed", "failed"}
Pcs == {"idle", "conflict", "processing", "markProcessed", "markFailed"}

NoRow == [status |-> "none", processedAt |-> 0]

VARIABLES
    row,        \* row[e]: the row of e in stripe_webhook_events, or NoRow
    handler,    \* handler[h]: where delivery h stands and its event
    now,        \* the clock
    answered,   \* the events Stripe has had a 2xx answer for
    failures, lostMarks, crashes    \* how much of the bounds is used up

VARIABLES       \* history, read by properties only
    applied,    \* applied[e]: how often processEvent(e) has completed
    overran     \* events some handler still held when another reclaimed it

program == <<row, handler, now, answered, failures, lostMarks, crashes>>
history == <<applied, overran>>
vars == <<program, history>>

-----------------------------------------------------------------------------
Idle == [pc |-> "idle", event |-> None]

Init ==
    /\ row = [e \in Events |-> NoRow]
    /\ handler = [h \in Handlers |-> Idle]
    /\ now = 0
    /\ answered = {}
    /\ failures = 0
    /\ lostMarks = 0
    /\ crashes = 0
    /\ applied = [e \in Events |-> 0]
    /\ overran = {}

Goto(h, pc) == handler' = [handler EXCEPT ![h].pc = pc]
Return(h) == handler' = [handler EXCEPT ![h] = Idle]

InFlight(e) == {h \in Handlers : handler[h].pc # "idle" /\ handler[h].event = e}
Holders(e) == {h \in InFlight(e) : handler[h].pc # "conflict"}

\* Stripe sends an event until it has a 2xx answer; it may also send it
\* again while an earlier delivery is still being handled.
MayDeliver(e) == /\ e \notin answered
                 /\ Overlapping \/ InFlight(e) = {}

\* Mutant: only the insert sets the status, not the take-over of a row.
Claim_statusOfInsert(h, e) ==
    /\ row' = [row EXCEPT ![e].processedAt = now,
                          ![e].status = IF @ = "none" THEN "processing" ELSE @]
    /\ handler' = [handler EXCEPT ![h] = [pc |-> "processing", event |-> e]]

Claim(h, e) ==
    /\ row' = [row EXCEPT ![e] = [status |-> "processing", processedAt |-> now]]
    /\ handler' = [handler EXCEPT ![h] = [pc |-> "processing", event |-> e]]

\* claimStripeWebhookEvent, the insert: the first delivery creates the row.
ClaimNew(h, e) ==
    /\ handler[h].pc = "idle"
    /\ MayDeliver(e)
    /\ row[e] = NoRow
    /\ Claim(h, e)
    /\ UNCHANGED <<now, answered, failures, lostMarks, crashes, applied, overran>>

\* ... or meets the unique constraint of another delivery.
ClaimConflict(h, e) ==
    /\ handler[h].pc = "idle"
    /\ MayDeliver(e)
    /\ row[e] # NoRow
    /\ handler' = [handler EXCEPT ![h] = [pc |-> "conflict", event |-> e]]
    /\ UNCHANGED <<row, now, answered, failures, lostMarks, crashes, history>>

TooOld(r) == r.status = "processing" /\ r.processedAt < now - ReclaimAfter

\* Mutant: any row in processing may be taken over, however young.
Reclaimable_ageless(r) == r.status \in {"failed", "processing"}

\* Mutant: any old row may be taken over, whatever its status.
Reclaimable_statusless(r) ==
    r.status = "failed" \/ r.processedAt < now - ReclaimAfter

\* Mutant: failed rows are not taken over.
Reclaimable_failedKept(r) == TooOld(r)

Reclaimable(r) ==
    \/ r.status = "failed"
    \/ TooOld(r)

\* The guarded updateMany that takes over a failed or an abandoned row.
Reclaim(h) ==
    LET e == handler[h].event IN
    /\ handler[h].pc = "conflict"
    /\ Reclaimable(row[e])
    /\ Claim(h, e)
    /\ overran' = IF Holders(e) # {} /\ TooOld(row[e]) THEN overran \cup {e} ELSE overran
    /\ UNCHANGED <<now, answered, failures, lostMarks, crashes, applied>>

\* count = 0: {ok: true, duplicate: true}, a 2xx, and nothing is processed.
AnswerDuplicate(h) ==
    LET e == handler[h].event IN
    /\ handler[h].pc = "conflict"
    /\ ~Reclaimable(row[e])
    /\ answered' = answered \cup {e}
    /\ Return(h)
    /\ UNCHANGED <<row, now, failures, lostMarks, crashes, history>>

\* processEvent returns.
Process(h) ==
    /\ handler[h].pc = "processing"
    /\ applied' = [applied EXCEPT ![handler[h].event] = @ + 1]
    /\ Goto(h, "markProcessed")
    /\ UNCHANGED <<row, now, answered, failures, lostMarks, crashes, overran>>

\* processEvent, or markStripeWebhookProcessed after it, throws: both are in
\* the try block.
Throw(h) ==
    /\ handler[h].pc \in {"processing", "markProcessed"}
    /\ failures < MaxFailures
    /\ failures' = failures + 1
    /\ Goto(h, "markFailed")
    /\ UNCHANGED <<row, now, answered, lostMarks, crashes, history>>

MarkProcessed(h) ==
    LET e == handler[h].event IN
    /\ handler[h].pc = "markProcessed"
    /\ row' = [row EXCEPT ![e] = [status |-> "processed", processedAt |-> now]]
    /\ answered' = answered \cup {e}
    /\ Return(h)
    /\ UNCHANGED <<now, failures, lostMarks, crashes, history>>

\* Mutant: a failure is recorded as processed.
MarkFailed_asProcessed(h) ==
    /\ handler[h].pc = "markFailed"
    /\ row' = [row EXCEPT ![handler[h].event].status = "processed"]
    /\ Return(h)
    /\ UNCHANGED <<now, answered, failures, lostMarks, crashes, history>>

\* Mutant: a failure deletes the row.
MarkFailed_rowDropped(h) ==
    /\ handler[h].pc = "markFailed"
    /\ row' = [row EXCEPT ![handler[h].event] = NoRow]
    /\ Return(h)
    /\ UNCHANGED <<now, answered, failures, lostMarks, crashes, history>>

\* markStripeWebhookFailed keeps processedAt and asks nothing of the status it
\* overwrites; the caller rethrows, so Stripe has a 5xx.
MarkFailed(h) ==
    /\ handler[h].pc = "markFailed"
    /\ row' = [row EXCEPT ![handler[h].event].status = "failed"]
    /\ Return(h)
    /\ UNCHANGED <<now, answered, failures, lostMarks, crashes, history>>

\* markStripeWebhookFailed throws too and its catch block swallows it.
MarkFailedThrows(h) ==
    /\ handler[h].pc = "markFailed"
    /\ lostMarks < MaxLostMarks
    /\ lostMarks' = lostMarks + 1
    /\ Return(h)
    /\ UNCHANGED <<row, now, answered, failures, crashes, history>>

\* The process dies: no catch block runs and Stripe has no answer.
Crash(h) ==
    /\ handler[h].pc # "idle"
    /\ crashes < MaxCrashes
    /\ crashes' = crashes + 1
    /\ Return(h)
    /\ UNCHANGED <<row, now, answered, failures, lostMarks, history>>

Tick ==
    /\ now < MaxTime
    /\ now' = now + 1
    /\ UNCHANGED <<row, handler, answered, failures, lostMarks, crashes, history>>

Step(h) ==
    \/ \E e \in Events : ClaimNew(h, e) \/ ClaimConflict(h, e)
    \/ Reclaim(h)
    \/ AnswerDuplicate(h)
    \/ Process(h)
    \/ Throw(h)
    \/ MarkProcessed(h)
    \/ MarkFailed(h)
    \/ MarkFailedThrows(h)
    \/ Crash(h)

Next == Tick \/ \E h \in Handlers : Step(h)

Spec == Init /\ [][Next]_vars

\* A handler that has started runs on, the clock moves, and Stripe goes on
\* delivering an event it has no answer for.
Progress(h) == Process(h) \/ MarkProcessed(h) \/ MarkFailed(h)
                          \/ Reclaim(h) \/ AnswerDuplicate(h)
Deliver(e) == \E h \in Handlers : ClaimNew(h, e) \/ ClaimConflict(h, e)

FairSpec == /\ Spec
            /\ WF_vars(Tick)
            /\ \A h \in Handlers : WF_vars(Progress(h))
            /\ \A e \in Events : WF_vars(Deliver(e))

-----------------------------------------------------------------------------
HandlerState == {Idle} \cup [pc : Pcs \ {"idle"}, event : Events]

TypeOK ==
    /\ row \in [Events -> {NoRow} \cup [status : RowStatus, processedAt : Nat]]
    /\ handler \in [Handlers -> HandlerState]
    /\ now \in Nat
    /\ answered \subseteq Events
    /\ failures \in 0 .. MaxFailures
    /\ lostMarks \in 0 .. MaxLostMarks
    /\ crashes \in 0 .. MaxCrashes
    /\ applied \in [Events -> Nat]
    /\ overran \subseteq Events

\* A row says processed only of an event whose processing completed: a crash,
\* an overlap or a failed mark never makes an unapplied event look done.
ProcessedWasApplied ==
    \A e \in Events : row[e].status = "processed" => applied[e] > 0

Processing(e) == {h \in InFlight(e) : handler[h].pc \in {"processing", "markProcessed"}}

\* Two deliveries of an event are never processed at the same time, unless a
\* handler had already held the event for longer than the reclaim window.
NoConcurrentProcessing ==
    \A e \in Events \ overran : Cardinality(Processing(e)) <= 1

\* While an event is being processed its row says so: no third delivery finds
\* it failed or processed and starts again.
ProcessingIsVisible ==
    \A e \in Events \ overran : Processing(e) # {} => row[e].status = "processing"

\* An event answered with a 2xx that was never applied keeps a row that says
\* so (processing or failed): the loss can be found by a query on the status.
LossIsVisible ==
    \A e \in answered : applied[e] = 0 => row[e].status \in {"processing", "failed"}

\* An event processed and marked is final: later deliveries and late failures
\* never reopen it, unless a handler outlived the reclaim window.
ProcessedIsFinal ==
    [][\A e \in Events \ overran' :
          row[e].status = "processed" => row'[e].status = "processed"]_vars

\* Failures that throw are healed by redelivery: every event is applied in the
\* end, unless a handler died, a failure went unrecorded, or two deliveries
\* overlapped (then one may be answered "duplicate" and the other fail).
EveryEventIsApplied ==
    \A e \in Events :
        <>(\/ applied[e] > 0
           \/ crashes > 0 \/ lostMarks > 0 \/ Cardinality(InFlight(e)) > 1)
=============================================================================
