---------------------------- MODULE CheckrWebhook ----------------------------
(***************************************************************************)
(* The dedup markers of the Checkr webhook endpoint.                       *)
(*                                                                         *)
(* A delivery whose payload is older than the replay window is refused;    *)
(* any other first inserts a marker for its event.                         *)
(* A marker met by a later delivery answers "duplicate", unless it proves  *)
(* a crashed worker: old and never applied.  Such a marker is read, deleted*)
(* and inserted again, in three statements that other deliveries can come  *)
(* between.  What an event does to the check is BackgroundCheck's subject; *)
(* here it is only settled, in one transaction with its marker.            *)
(***************************************************************************)
EXTENDS Integers, FiniteSets

CONSTANTS
    Events,          \* event ids
    None,            \* no event
    Handlers,        \* deliveries the API servers can have in flight at once
    EventTimes,      \* the times payloads can bear, in clock ticks
    MaxAge,          \* WEBHOOK_MAX_AGE_MS, in clock ticks
    StaleInflight,   \* STALE_INFLIGHT_MS, in clock ticks
    MaxTime,         \* bound: the clock stops here
    MaxFailures,     \* bound: how many applications throw
    MaxLostCleanups, \* bound: how many releases or acks throw too
    MaxCrashes,      \* bound: how many handlers die without a catch block
    Overlapping      \* TRUE if Checkr may redeliver an event before it has
                     \* an answer to the delivery in flight

ASSUME CheckrNone == None \notin Events
ASSUME CheckrEventTimes == EventTimes \subseteq Nat
ASSUME CheckrWindows == MaxAge \in Nat /\ StaleInflight \in Nat
ASSUME CheckrBounds == /\ MaxTime \in Nat
                       /\ MaxFailures \in Nat
                       /\ MaxLostCleanups \in Nat
                       /\ MaxCrashes \in Nat
                       /\ Overlapping \in BOOLEAN

\* The payload of an invitation's event carries no time.
NoTime == -1

NoMarker == [exists |-> FALSE, applied |-> FALSE, processedAt |-> 0]
Pcs == {"conflict", "abandoned", "deleted", "applying", "releasing", "acking"}

VARIABLES
    marker,     \* marker[e]: the row of e in the webhook event table
    handler,    \* handler[h]: where delivery h stands and its event
    eventTime,  \* eventTime[e]: the time the payload of e bears, or NoTime
    now,        \* the clock
    answered,   \* the events Checkr has had a 2xx answer for
    failures, lostCleanups, crashes     \* how much of the bounds is used up

VARIABLES       \* history, read by properties only
    settled,    \* settled[e]: transactions that applied or ignored e
    rejected,   \* the events found permanently inapplicable
    stolen      \* events whose marker was deleted under a handler still on it

clock == <<eventTime, now>>
program == <<marker, handler, clock, answered, failures, lostCleanups, crashes>>
history == <<settled, rejected, stolen>>
vars == <<program, history>>

-----------------------------------------------------------------------------
Idle == [pc |-> "idle", event |-> None]

Init ==
    /\ marker = [e \in Events |-> NoMarker]
    /\ handler = [h \in Handlers |-> Idle]
    /\ eventTime \in [Events -> EventTimes \cup {NoTime}]
    /\ now = 0
    /\ answered = {}
    /\ failures = 0
    /\ lostCleanups = 0
    /\ crashes = 0
    /\ settled = [e \in Events |-> 0]
    /\ rejected = {}
    /\ stolen = {}

Event(h) == handler[h].event
Goto(h, pc) == handler' = [handler EXCEPT ![h].pc = pc]
Return(h) == handler' = [handler EXCEPT ![h] = Idle]

InFlight(e) == {h \in Handlers : handler[h].pc # "idle" /\ Event(h) = e}
Applying(e) == {h \in InFlight(e) : handler[h].pc = "applying"}
Holders(e) == {h \in InFlight(e) : handler[h].pc \in {"applying", "releasing", "acking"}}
Unapplied(e) == marker[e].exists /\ ~marker[e].applied

Happened(e) == now >= eventTime[e]

\* The replay guard, which comes before the claim.
TooOld(e) == eventTime[e] # NoTime /\ now - eventTime[e] > MaxAge

\* Checkr delivers an event it has no 2xx answer for.  A delivery that is too
\* old is answered 400 and leaves no trace, now and at every later attempt.
MayDeliver(h, e) == /\ handler[h].pc = "idle"
                    /\ e \notin answered
                    /\ Happened(e)
                    /\ ~TooOld(e)
                    /\ Overlapping \/ InFlight(e) = {}

\* Mutant: the insert already sets appliedAt.
Insert_applied(e) ==
    marker' = [marker EXCEPT ![e] =
                  [exists |-> TRUE, applied |-> TRUE, processedAt |-> now]]

Insert(e) ==
    marker' = [marker EXCEPT ![e] =
                  [exists |-> TRUE, applied |-> FALSE, processedAt |-> now]]
Delete(e) == marker' = [marker EXCEPT ![e] = NoMarker]

\* claimWebhookDedupMarker, the insert.
Claim(h, e) ==
    /\ MayDeliver(h, e)
    /\ ~marker[e].exists
    /\ Insert(e)
    /\ handler' = [handler EXCEPT ![h] = [pc |-> "applying", event |-> e]]
    /\ UNCHANGED <<clock, answered, failures, lostCleanups, crashes, history>>

ClaimConflict(h, e) ==
    /\ MayDeliver(h, e)
    /\ marker[e].exists
    /\ handler' = [handler EXCEPT ![h] = [pc |-> "conflict", event |-> e]]
    /\ UNCHANGED <<marker, clock, answered, failures, lostCleanups, crashes, history>>

Abandoned(e) == Unapplied(e) /\ now - marker[e].processedAt > StaleInflight

\* findUnique proves a crashed worker ...
FindAbandoned(h) ==
    /\ handler[h].pc = "conflict"
    /\ Abandoned(Event(h))
    /\ Goto(h, "abandoned")
    /\ UNCHANGED <<marker, clock, answered, failures, lostCleanups, crashes, history>>

AnswerDuplicate(h) ==
    /\ answered' = answered \cup {Event(h)}
    /\ Return(h)
    /\ UNCHANGED <<marker, clock, failures, lostCleanups, crashes, history>>

\* ... or not: also when the marker is gone by now.
FindInFlight(h) ==
    /\ handler[h].pc = "conflict"
    /\ ~Abandoned(Event(h))
    /\ AnswerDuplicate(h)

\* deleteMany asks for an unapplied marker only, not for the one it read.
DeleteAbandoned(h) ==
    /\ handler[h].pc = "abandoned"
    /\ Unapplied(Event(h))
    /\ Delete(Event(h))
    /\ stolen' = IF Holders(Event(h)) # {} THEN stolen \cup {Event(h)} ELSE stolen
    /\ Goto(h, "deleted")
    /\ UNCHANGED <<clock, answered, failures, lostCleanups, crashes, settled, rejected>>

DeleteNothing(h) ==
    /\ handler[h].pc = "abandoned"
    /\ ~Unapplied(Event(h))
    /\ AnswerDuplicate(h)

\* Mutant: the delivery goes on without inserting the marker again.
Reclaim_unmarked(h) ==
    /\ handler[h].pc = "deleted"
    /\ ~marker[Event(h)].exists
    /\ Goto(h, "applying")
    /\ UNCHANGED <<marker, clock, answered, failures, lostCleanups, crashes, history>>

\* The second insert, and the unique constraint of another delivery.
Reclaim(h) ==
    /\ handler[h].pc = "deleted"
    /\ ~marker[Event(h)].exists
    /\ Insert(Event(h))
    /\ Goto(h, "applying")
    /\ UNCHANGED <<clock, answered, failures, lostCleanups, crashes, history>>

ReclaimLost(h) ==
    /\ handler[h].pc = "deleted"
    /\ marker[Event(h)].exists
    /\ AnswerDuplicate(h)

\* Mutant: nothing sets appliedAt.
MarkApplied_forgotten(e) == UNCHANGED marker

MarkApplied(e) ==
    marker' = [marker EXCEPT ![e].applied = marker[e].exists]

\* The transaction of processWebhookEvent (or ackIgnoredEvent) commits: the
\* check is written and the marker of the event, whoever inserted it, applied.
Settle(h) ==
    /\ handler[h].pc = "applying"
    /\ MarkApplied(Event(h))
    /\ settled' = [settled EXCEPT ![Event(h)] = @ + 1]
    /\ answered' = answered \cup {Event(h)}
    /\ Return(h)
    /\ UNCHANGED <<clock, failures, lostCleanups, crashes, rejected, stolen>>

\* applyWebhookEvent throws: the row is not there yet, the vendor is down, or
\* the check kept changing under the transaction.
FailTransient(h) ==
    /\ handler[h].pc = "applying"
    /\ failures < MaxFailures
    /\ failures' = failures + 1
    /\ Goto(h, "releasing")
    /\ UNCHANGED <<marker, clock, answered, lostCleanups, crashes, history>>

\* A BadRequestException: the payload can never apply.
FailPermanent(h) ==
    /\ handler[h].pc = "applying"
    /\ failures < MaxFailures
    /\ failures' = failures + 1
    /\ rejected' = rejected \cup {Event(h)}
    /\ Goto(h, "acking")
    /\ UNCHANGED <<marker, clock, answered, lostCleanups, crashes, settled, stolen>>

\* Mutant: the release does not look at appliedAt.
Release_unguarded(h) ==
    /\ handler[h].pc = "releasing"
    /\ Delete(Event(h))
    /\ Return(h)
    /\ UNCHANGED <<clock, answered, failures, lostCleanups, crashes, history>>

\* Mutant: a failed delivery leaves its marker behind.
Release_forgotten(h) ==
    /\ handler[h].pc = "releasing"
    /\ Return(h)
    /\ UNCHANGED <<marker, clock, answered, failures, lostCleanups, crashes, history>>

\* releaseWebhookDedupMarker deletes the marker unless it is applied.
Release(h) ==
    /\ handler[h].pc = "releasing"
    /\ IF Unapplied(Event(h)) THEN Delete(Event(h)) ELSE UNCHANGED marker
    /\ Return(h)
    /\ UNCHANGED <<clock, answered, failures, lostCleanups, crashes, history>>

\* ackWebhookDedupMarker; the caller rethrows the 400.
Ack(h) ==
    /\ handler[h].pc = "acking"
    /\ MarkApplied(Event(h))
    /\ Return(h)
    /\ UNCHANGED <<clock, answered, failures, lostCleanups, crashes, history>>

\* The release or the ack throws, and its catch block swallows it.
CleanupThrows(h) ==
    /\ handler[h].pc \in {"releasing", "acking"}
    /\ lostCleanups < MaxLostCleanups
    /\ lostCleanups' = lostCleanups + 1
    /\ Return(h)
    /\ UNCHANGED <<marker, clock, answered, failures, crashes, history>>

Crash(h) ==
    /\ handler[h].pc # "idle"
    /\ crashes < MaxCrashes
    /\ crashes' = crashes + 1
    /\ Return(h)
    /\ UNCHANGED <<marker, clock, answered, failures, lostCleanups, history>>

Tick ==
    /\ now < MaxTime
    /\ now' = now + 1
    /\ UNCHANGED <<marker, handler, eventTime, answered, failures, lostCleanups, crashes, history>>

\* What a handler does on its own, when nothing fails.
Progress(h) == \/ FindAbandoned(h) \/ FindInFlight(h)
               \/ DeleteAbandoned(h) \/ DeleteNothing(h)
               \/ Reclaim(h) \/ ReclaimLost(h)
               \/ Settle(h) \/ Release(h) \/ Ack(h)

Deliver(h, e) == Claim(h, e) \/ ClaimConflict(h, e)

Next == \/ Tick
        \/ \E h \in Handlers : \/ \E e \in Events : Deliver(h, e)
                               \/ Progress(h)
                               \/ FailTransient(h)
                               \/ FailPermanent(h)
                               \/ CleanupThrows(h)
                               \/ Crash(h)

Spec == Init /\ [][Next]_vars

\* A handler that has started runs on, and Checkr goes on delivering an event
\* it has no 2xx answer for, as long as the endpoint takes it.  The clock may
\* stop, or outrun the handlers and the redeliveries.
FairSpec == /\ Spec
            /\ \A h \in Handlers : WF_vars(Progress(h))
            /\ \A e \in Events : WF_vars(\E h \in Handlers : Deliver(h, e))

-----------------------------------------------------------------------------
HandlerState == {Idle} \cup [pc : Pcs, event : Events]

TypeOK ==
    /\ marker \in [Events -> [exists : BOOLEAN, applied : BOOLEAN, processedAt : Nat]]
    /\ handler \in [Handlers -> HandlerState]
    /\ eventTime \in [Events -> EventTimes \cup {NoTime}]
    /\ now \in Nat
    /\ answered \subseteq Events
    /\ failures \in 0 .. MaxFailures
    /\ lostCleanups \in 0 .. MaxLostCleanups
    /\ crashes \in 0 .. MaxCrashes
    /\ settled \in [Events -> Nat]
    /\ rejected \subseteq Events
    /\ stolen \subseteq Events

\* An applied marker stands for an event that was written, ignored or rejected
\* for good: nothing else makes redeliveries answer "duplicate" for ever.
AppliedMarkerIsEarned ==
    \A e \in Events : marker[e].applied => settled[e] > 0 \/ e \in rejected

\* An applied marker is never removed or reopened, also not by the cleanup of
\* an older delivery that fails after a reclaim has applied the event.
AppliedMarkerIsFinal ==
    [][\A e \in Events : marker[e].applied => marker'[e].applied]_vars

\* An event is written to the check at most once, as long as no marker was
\* deleted under a delivery that was still handling it.
SettledOnceUnlessStolen ==
    \A e \in Events \ stolen : settled[e] <= 1

\* While a delivery applies an event its marker is there and unapplied, so
\* that other deliveries find it.
ApplyingIsMarked ==
    \A e \in Events \ stolen : Applying(e) # {} => Unapplied(e)

\* Every event is settled or rejected in the end, unless the replay window
\* closed on it while no delivery was at work (it is refused from then on, and
\* the check is left to the syncs), a handler died, a cleanup was lost, or two
\* deliveries overlapped (then one may be answered "duplicate" and the other
\* fail).  A delivery let in within the window still decides its event after
\* it, and an event without a time always has another delivery.
EveryEventIsDecided ==
    \A e \in Events :
        <>Happened(e) =>
            <>(\/ settled[e] > 0 \/ e \in rejected
               \/ TooOld(e) /\ InFlight(e) = {}
               \/ crashes > 0 \/ lostCleanups > 0 \/ Cardinality(InFlight(e)) > 1)
=============================================================================
