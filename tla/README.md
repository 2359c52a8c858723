# OpenComp in TLA+

OpenComp is a compliance platform: a NestJS API (`src/apps/api`), several Next.js
front ends (`src/apps/app`, `portal`, `trust-center`, `framework-editor`), background
tasks run by Trigger.dev (`src/apps/api/src/trigger`), and libraries
(`src/packages`). All state is in one PostgreSQL database reached through Prisma;
several API processes and tasks run at once and have nothing else in common. So
where the system is hard to get right, it is in the same way: a handler reads a row,
awaits something (another statement, Stripe, Checkr), and writes on the strength of
what it read, while other handlers, webhook redeliveries, scheduled jobs and crashes
come in between. What holds the system together are unique keys, predicates of
updates, short transactions, and compensations.

This project models the parts where that decides something that matters: **billing**
(Stripe webhooks, included usage, manual credits), **background checks** (Checkr), the
approval and publication of **ISMS documents** and **policies**, on which auditors and
employees rely, and the refresh of **OAuth credentials**.

## Contents

1. [The system](#1-the-system)
2. [The modules and the code](#2-the-modules-and-the-code)
3. [The runs](#3-the-runs)
4. [Bounds, symmetry and fairness](#4-bounds-symmetry-and-fairness)
5. [The proofs](#5-the-proofs)
6. [Where code and comments disagree](#6-where-code-and-comments-disagree)
7. [What is abstracted and what is not modelled](#7-what-is-abstracted-and-what-is-not-modelled)
8. [Plan](#8-plan)

## 1. The system

| Component | State | Operations | What is hard | What makes it correct |
|---|---|---|---|---|
| Stripe webhook claims (`billing/stripe-webhook-records.ts`, `billing-webhook.service.ts`) | `stripe_webhook_events`: one row per event, `processing`, `processed` or `failed` | claim, reclaim, process, mark processed, mark failed | deliveries at least once and overlapping; a throw, a lost failure mark, a crash; the 15 minute reclaim window | an event is not processed twice at once; a row never says `processed` of an event that was not; failures are healed by redelivery |
| Manual credits (`billing-credits.service.ts`) | balances per product and SKU; an event per consume, refund, grant with a unique key | grant, consume, refund | balances read before the loop that charges them; repeated and concurrent calls | conservation of credits; at most one charge and one refund per resource |
| Included usage (`billing-entitlements.service.ts`, `billing-included-usage-refunds.ts`, `billing-subscription-plans.ts`) | subscription rows (SKU, Stripe item, period, included, used) and usage events | consume (with credits as fallback), refund, webhook sync, plan change | renewals racing consumes; late and repeated webhooks; a plan change that renames the row's key | never more than included; usage falls only for a refund or a first reset; periods do not go back |
| Checkr webhook dedup (`background-check-webhook-claim.ts`, `-dedup.ts`, `-webhook.ts`) | `background_check_webhook_events`: a marker per event, applied or not | refuse what is too old, claim, reclaim an abandoned marker, settle, release, acknowledge | a reclaim of three statements; crash before the commit; a cleanup that throws; the replay window closing on an event that keeps failing | an applied marker was earned and stays; an event is settled once, and decided while it may be |
| Background check (`background-check-*.ts`, `trigger/background-checks`) | one row per member: status, vendor pointer, superseded pointers, watermark; the included check it consumed | request, reclaim, retry, cancel, delete, custom report; webhooks; manual sync; hourly reconciliation | five steps with a compensation each; events of old attempts, out of order; polls that write seconds after they read | a finished check stays finished; a retried row is about its own attempt; a unit is given back when the request gives up; a finished report reaches the row |
| ISMS documents (`isms/isms.service.ts`, `isms-version.service.ts`, `isms-context.service.ts`, `isms-narrative.service.ts`, the registers' services) | a draft (register rows, narrative), a status and an approver, the drift baseline, immutable published versions | edit, sign, generate, submit, approve, decline | edits, generation and approval race; an advisory lock per document; one transaction under REPEATABLE READ that waits for the lock with its snapshot taken; data collected before a transaction | an approved document is the version that was frozen; a submission is decided once by the approver it named; drift is not hidden; signed minutes are frozen |
| Policies (`policies/policies.service.ts`, `trigger/policies/update-policy-helpers.ts`, `app/.../policy-schedule.ts`, the portal) | a policy with its live text, draft, status, pending approval and acknowledgements; its versions | update, version, publish, submit, accept, decline, regenerate, schedule, acknowledge | a decision is made on a read without a lock and written later; one writer locks the row | the live and the pending version keep their text; an acknowledgement is for the live text; an acceptance publishes what was submitted |
| OAuth credentials (`integration-platform/services/credential-vault.service.ts`, `repositories/`) | a lease (token, expiry) on the connection, credential versions and the active one, a status | refresh, wait for a refresh, store, reconnect, disconnect | a lease that expires under its holder, dead workers, lost answers, providers that rotate refresh tokens and accept each once | one refresh at a time; the provider is not sent a token the code has used up |

How they interact:

```
 Stripe --webhook--> StripeWebhook --(processEvent)--> Entitlements --fallback--> CreditLedger
                                                          ^                        (Allowance)
                                                          | charge, refund
 Checkr --webhook--> CheckrWebhook --(transaction)--> BackgroundCheck <-- users, hourly task
    ^                                                     |
    +-------------- create, getInvitation, getReport -----+

 users --edit, approve--> IsmsDocument <--collect-- platform data (risks, vendors, ...)
 users, jobs, employees --> PolicyVersions
 checks, syncs, users --> RefreshLease --> OAuth provider
```

The last three share no state with each other or with billing. `PROJECT.json` lists the
other components (remediation batches, timelines, browser runs, frameworks, trust portal
and so on) with the reason each is not modelled, and the hazards of the code with the
line each is at.

## 2. The modules and the code

| Module | What it is |
|---|---|
| `StripeWebhook` | the claim protocol of Stripe events |
| `CheckrWebhook` | the dedup markers of Checkr events |
| `Allowance` | what the prepaid ledger promises, with atomic operations |
| `CreditLedger` | `BillingCreditsService`, statement by statement |
| `CreditLedgerHistory` | `CreditLedger` with the history that tells a due refusal from a spurious one |
| `Entitlements` | `BillingEntitlementsService` and `changeSubscriptionPlan`; instantiates `CreditLedger` for the fallback |
| `EntitlementsHistory` | the same history for `Entitlements`: credits and plan |
| `BackgroundCheck` | the background check of one member and everything that writes it |
| `IsmsDocument` | one ISMS document: its draft, approval and published versions |
| `PolicyVersions` | one policy, its versions and acknowledgements |
| `RefreshLease` | the refresh of one OAuth connection under its lease |
| `MC*` | instances for TLC with their symmetries |
| `*_proofs` | theorems checked by TLAPS |

One step is one database statement, one transaction whose predicate makes it atomic, or
one call to a vendor; a call in progress keeps a program counter and the values it has
read (`handler[h]`, `call[w]`, `ent[w]`, `client[c]`, `hook[h]`, `poller[p]`, `req[r]`). What the
code holds in a row is in a variable of the row's name; variables called history are
read by properties only. Names of actions follow the names of the functions.

**StripeWebhook.** `ClaimNew` and `ClaimConflict` are the insert of
`claimStripeWebhookEvent` and its unique violation; `Reclaim` is the guarded
`updateMany`, `AnswerDuplicate` its count of zero. `Process` is `processEvent` as one
step, `Throw` an exception in the `try`, `MarkFailed` and `MarkFailedThrows` the two
ends of the `catch`. `Crash` drops a handler anywhere. `Tick` moves the clock against
which `ReclaimAfter` is measured.

**CheckrWebhook.** As above for `claimWebhookDedupMarker`, whose take-over of an
abandoned marker is read (`FindAbandoned`), delete (`DeleteAbandoned`) and insert
(`Reclaim`). `Settle` is the transaction of `processWebhookEvent` or `ackIgnoredEvent`.
`Release` and `Ack` are the two cleanups, `CleanupThrows` their swallowed failures. Before
the claim stands the replay guard: a delivery whose payload is older than `MaxAge` (24
hours) is answered 400 and leaves nothing, so `MayDeliver` lets in only events that are not
`TooOld`; what refuses them for good is left to the sync and the reconciliation. A payload's
time is any of `EventTimes`, or none.

**CreditLedger.** `tryConsumeForProduct` reads the events (`FindConsume`), reads the
balances (`FindBalances`), and goes through those that were positive, oldest first; each
turn is one transaction (`Spend`, `SpendDrained`, `SpendDuplicate`). A refund reads and
then writes in a transaction; a grant finds or creates the balance and then writes.
The unique idempotency keys are `consumeEvent[r]` (one slot or none), `refundEvent` and
`grantEvent` (sets).

**Entitlements.** A worker's consume takes the product's newest active row, reads it
again by SKU, looks for its usage event, and commits event and guarded increment
together (`ConsumeTx`). When it finds no unit it starts a `CreditLedger` call on the
same worker and waits (`FallBack`, `CreditReturn`). A sync carries a snapshot `s` Stripe
has reported, any one, at any time; read and write are two steps. `PlanStripe` and
`PlanWrite` are the two halves of a plan change. `Report`, `Renew`, `Cancel`,
`NextPeriod` are Stripe and the clock. Time is counted in periods.

**BackgroundCheck.** `client[c]` runs a request (`Create`, `Charge`, `PersistPayment`,
`CallVendor`, `PersistResult` with the failures and compensations of each), a retry
(`RetryVendor`, `RetrySwap`) or a custom report; cancels and deletes are single steps.
`hook[h]` delivers an event in two steps: resolve and verify (`Deliver`), then the
guarded transaction (`Commit`). `poller[p]` is a sync or a reconciliation: read
(`Poll`), ask the vendor (`Fetch`), write (`WriteReport`, `WriteMissing`). `Fetch` is
`resolveReport` for a report that can be read; when `getReport` answers null for one that
exists (404, 429, 5xx), `FetchFallback` asks the row's invitation instead, whatever kind the
pointer is of, and may come back with another report. A vendor
check is named by its idempotency key, `<<row, rerun>>`, and pointers are invitations or
reports of such an attempt. `unit` is the included check consumed for the member. `hook[h]`
also holds the rerun of the row its event was resolved to, which no code reads and only the
history variable `overtaken` and the proofs are about.

**IsmsDocument.** Every edit and every submission takes the document's advisory lock and
reads under it in one step (`CreateRow`, `UpdateRow`, `SignReview`, `RemoveRow`,
`AdoptDerived`, `RemoveDerived`, `SaveNarrative`, `GenerateLock`, `SubmitLock`) and
commits in another (`EditCommit` or `EditRefused`, and so on). `approve()` checks
(`ApproveCheck`), opens its transaction, which fixes its snapshot and asks for the lock
(`ApproveSnapshot`), and, once the lock is free, commits on the strength of the snapshot
(`ApprovePublish`) or fails (`ApproveRefused`): `Committed` records at each commit whether
it touched a row the approval writes, which PostgreSQL aborts (P2034, tried again once),
or only others, which it does not notice. A document is a derived register or the
management review; its texts and the platform data are numbers.

**PolicyVersions.** A request reads and decides (`…Read`) and writes (`…Write`), each in
one step; `acceptChanges` reads twice (`AcceptRead`, `AcceptReadVersion`).
`EditVersionLock` holds `SELECT … FOR UPDATE`, for which every writer of the row waits, to
land afterwards whatever it had read. `Regenerate*` and `Schedule*` are the jobs,
`Sign*` the two ways the portal writes an acknowledgement: one adds to the list, the other
writes back the list it read.

**RefreshLease.** `refreshOAuthTokens` from `Begin` by `Acquire` (the conditional update),
`AcquireBusy` and `Poll` (a waiter) or `CheckFresh`, `ReadRefreshToken`, `Attempt…` (the
provider), `Number`, `Insert`, `Activate` and `Clean` (the store) to `Release`. `Expire`
lets the lease run out at any time; `Reconnect` stores a grant without the lease;
`Teardown` and `Disconnect` are the two halves of a disconnection. A grant is a number and
its refresh token too; a rotating provider accepts a token once.

## 3. The runs

| Run | Shows |
|---|---|
| `StripeWebhook` | with overlapping deliveries, throws, lost failure marks and crashes: the row is truthful (`ProcessedWasApplied`, `ProcessingIsVisible`, `LossIsVisible`), processing is exclusive and final within the reclaim window (`NoConcurrentProcessing`, `ProcessedIsFinal`), and failures are healed by redelivery (`EveryEventIsApplied`) |
| `CreditLedger` | conservation (`CreditsAreConserved`, `GrantsAddUp`), truthful answers (`ConsumedIsRecorded`, `NoSpuriousRefusal`), and that the statement-level ledger implements `Allowance` |
| `Entitlements_safety` | the allowance is not overdrawn (`UsedWithinIncluded`), shows nothing unbacked (`UsedIsBacked`), falls for cause (`UsageFallsForCause`), and is not refused while a unit was there throughout; periods go forward |
| `Entitlements_plans` | with two SKUs, two items and a plan change, a row holds a state its Stripe item really had |
| `CheckrWebhook` | markers are earned and final; an event is settled once unless its marker was stolen under a slow handler; every event that happens is decided unless the replay window closed on it with no delivery at work, a worker died, a cleanup was lost or deliveries overlapped |
| `BackgroundCheck_reports` | over all orders of events, syncs, reconciliations, cancels, deletes and a retry: terminal statuses are final (`TerminalIsFinal`), a retried row points at its own attempt (`PointerIsOfThisAttempt`), a pointer at a report of the row moves to no report but the invitation's until a retry (`GraduatedPointerIsFinal`), a check fails only on evidence, read before the step, of its own attempt (`FailureHasEvidence`), and a finished report reaches its row although every webhook may be lost (`ReportsReachTheRow`); the first four leave out a row hit by one of two unguarded writes (`Astray`) |
| `BackgroundCheck_requests` | two clients, two rows, two faults: no path strands the member's unit |
| `IsmsDocument` | an approved draft is, word for word, the version it became (`ApprovedIsPublished`); a submission is decided once, by the member it named (`DecidedOnceByItsApprover`); what is published passed the completeness check unless edited in review (`PublishedWasComplete`); the drift baseline is what the derived rows were made from (`BaselineIsWhatWasDerived`); minutes the chair has signed are frozen (`SignedMinutesAreFrozen`) |
| `PolicyVersions` | an acknowledgement is for the live text (`SignaturesAreForLiveText`); an acceptance publishes what was submitted (`AcceptedWasSubmitted`); the live and the pending version keep their text (`PublishedTextIsFrozen`) |
| `RefreshLease` | refreshes exclude each other (`OneRefreshAtATime`); the provider is never sent a token the code has used up (`RejectionHasACause`) |
| `IsmsDocument_omitted`, `PolicyVersions_regenerate` | violated: what a comment says and the code does not do, see section 6 |

Exceptions inside a property are the code's own: `overran` (a handler that outlived the
15 minute window), `stolen` (a marker deleted under a handler), `TooOld` (an event the
replay window has closed on), `overtaken` (a row to which a report of the attempt before its
retry was written after it), `misled` (a row hit by the swap of a retry of the row before
it), `lost` (a compensation
that died or threw; nothing retries it), `deleted` (a delete by a user, which refunds
nothing), `overlapped` (a row edit that committed while an approval waited), `edited` (a
draft changed in review; a live text changed under its acknowledgements), `late` (an
acknowledgement written over a cleared list), `bypassed` (a frozen version rewritten by a
writer that had read a draft, or an approval decided while an acceptance was reading it),
`outlived` (a lease that expired under its holder), `lost` of `RefreshLease` (a rotated
token that was not stored, or a disconnection), `early` (a refresh token read from a version
whose store had yet to activate it). Each is recorded by the step that causes it (`TooOld` is the
guard itself), so the property still speaks of all other behaviours; section 6 lists the
ones a comment denies.

Each property has a mutant in `PROJECT.json`: an operator `X_bug` that changes one
mapped definition the way a slip in the code would, under which TLC finds the property
violated.

## 4. Bounds, symmetry and fairness

Counters in guards (`MaxTime`, `MaxFailures`, `MaxFaults`, `MaxEvents`, `MaxRows`,
`MaxRetries`, `MaxPeriod`, `MaxPlanChanges`, `MaxCancels`, `MaxRefunds`, `MaxUsers`,
`MaxPlatform`, `MaxRounds`, `MaxRequests`) stop the clock, the faults and the environment;
they guard no step of a handler but its faults. `MaxEdits`, `MaxTexts` and `MaxVersions`
bound the texts and versions there are: a request that would write one more does not
begin, or ends in `Abort`.

* `StripeWebhook`, `CheckrWebhook`: rows of different events are independent, so one
  event; three deliveries, because a reclaim needs a victim, a thief and a third that
  meets the result; time up to 5 with a window of 1, for two windows in a row. Payloads of
  `CheckrWebhook` bear the time 0, 1 or none, and are too old after 3: late enough for a
  reclaim within the window, early enough for the clock to close it on a delivery at work.
* `CreditLedger`: three workers (a consume, a competing consume and a grant or refund),
  two balances, two resources, two grants of one credit.
* `Entitlements_safety`: two workers, two resources, one included unit, one renewal, one
  refund, one grant, one cancellation. `Entitlements_plans` gives up credits and refunds
  for two SKUs and two items.
* `BackgroundCheck`: `reports` has a retry and four events, the shortest history with an
  invitation and a report of both attempts; `requests` has two clients and
  two rows, since a stale claim is taken over by a second request.
  `reports` needs one row: the properties are about one, and the rows meet only where the
  swap of a retry, guarded by organization, member, status and pointer and not by the row's
  id (`background-check-retry.ts:199-225`), lands on the row after the one it read, which a
  user has deleted. The history variable `misled` names that row, and what is said of
  attempts leaves it out; with one row `misled` is always 0, and the theorems of section 5
  are for any number of rows. `overtaken` is reached: the run has the invitation, the report
  and the retry it takes.
* `IsmsDocument`: two requests, because every hazard is one request crossing another (a
  third only waits for the lock); two members, two submissions and two versions, for a
  decision that comes late to another submission; one register row, since rows are
  independent; two states of the platform. The constraint `OnePlatformForReviews` leaves
  out changes of the platform for a management review, whose content does not derive from
  it.
* `PolicyVersions`: two requests at once and five in all: create, submit, decide,
  acknowledge and one that crosses them; two texts and two versions.
* `RefreshLease`: three calls (a holder, a thief of its lease, a waiter or a
  reconnection), two polls, two versions kept (the code keeps five: fewer are harsher),
  two users' actions and two faults.

`CHECK_DEADLOCK FALSE`: the bounded systems stop when clock and faults are used up.
Workers, clients and hooks are interchangeable, and safety runs use that symmetry;
runs with a liveness property do not.

Fairness. `StripeWebhook` and `CheckrWebhook`: a handler that is running goes on (an
awaited promise settles), and the vendor repeats an event it has no 2xx for, which is what
both document, for Checkr as long as the endpoint takes it; throws and crashes are never
fair. In `StripeWebhook` the clock advances too, since a row in `processing` is taken over
after the window only. `CheckrWebhook` asks nothing of the clock: it may stop, or run out
the replay window between two deliveries. So what `EveryEventIsDecided` promises comes from
redeliveries within the window and from deliveries that were let in before it closed.
`BackgroundCheck`: a request runs on, silence lasts long enough for the row to count as
idle, and the reconciliation is scheduled (cron in
`reconcile-background-checks-schedule.ts`) and finishes; webhooks, users, candidates and
faults are free, so the liveness property is not due to a webhook. The other modules state
safety only: what their requests begin, a user can begin again, and nothing retries them.

## 5. The proofs

`*_proofs` hold for any finite or infinite constants allowed by the `ASSUME`s (which TLC
evaluates): distinct null values, and bounds that are natural numbers.

| Theorem | States |
|---|---|
| `ProcessedMeansApplied`, `AcknowledgedLossIsVisible`, `DeliveriesExclude`, `ProcessingShows`, `ProcessedStays` | the five safety properties of `StripeWebhook` |
| `LedgerTypes`, `LedgerConservesCredits`, `LedgerGrantsAddUp`, `LedgerRefundsFollowCharges`, `LedgerConsumedIsRecorded`, `LedgerRefusesForCause` | types (no negative balance) and the invariants of `CreditLedger`, `NoSpuriousRefusal` among them |
| `LedgerImplementsAllowance` | `Spec => Abstract!Spec` under the refinement mapping |
| `EntitlementTypes` | `TypeOK` of `Entitlements`, with plan changes |
| `RowsMirrorStripe`, `PeriodsGoForward` | `RowsComeFromStripe` and `PeriodNeverMovesBack` of `Entitlements`, for `MaxPlanChanges <= 1` |
| `NeverMoreThanIncluded`, `UsageIsBacked`, `UsageFallsOnce`, `RefusedForCause` | its other four properties, for `MaxPlanChanges = 0` |
| `MarkersAreEarned`, `EventsSettleOnce`, `AppliersAreMarked`, `AppliedMarkersStay` | the four safety properties of `CheckrWebhook` |
| `CheckTypes` | `TypeOK` of `BackgroundCheck` |
| `UnitsAreCovered`, `SupersededStaysBehind`, `FinishedStaysFinished`, `GraduatedStays`, `FailuresHaveEvidence` | its five safety properties, for any number of calls, rows, retries, events and polls |
| `ApprovalStandsForTheDraft`, `SubmissionsAreDecidedOnce`, `DriftIsNeverHidden`, `SignedMinutesStand`, `PublishedMetTheCheck` | `ApprovedIsPublished`, `DecidedOnceByItsApprover`, `BaselineIsWhatWasDerived`, `SignedMinutesAreFrozen`, `PublishedWasComplete` of `IsmsDocument` |
| `AcknowledgementsMeanTheLiveText`, `AcceptancesPublishSubmissions`, `FrozenVersionsKeepTheirText` | the three properties of `PolicyVersions` |
| `OneCallRefreshes`, `RejectedForCause` | the two properties of `RefreshLease`, for any number of calls, polls, kept versions, users' actions and faults |

*StripeWebhook.* `NoConcurrentProcessing` alone is not inductive: that a claim finds no
other handler at work depends on what the row says while one is. `ClaimInv` adds it: for
an event never overrun, at most one handler is past its claim, and while one is the row
says `processing` (its age is what `overran` watches). It also records that an event with
a handler at work, or answered, has a row, that a row which says `processed` was applied,
and that a handler about to mark the row has applied the event.

*CreditLedger.* `LedgerInv` joins the types, conservation and the pairing of refunds with
charges to the finiteness of the sets the totals count and to `CallOK`, what a call in
progress knows: a refund about to be written goes to the slot the consume event names, a
grant in progress has a grant and a slot, a caller told `consumed` has an event.
Conservation moves cardinalities of sets of resources by one; the lemmas about adding and
removing an element are stated once. A balance is never negative because it equals
granted less consumed and the decrement is guarded. `GrantsAddUp` states a sum as the size of
the set of granted credits, one `<<grant, i>>` per credit, so that a grant adds a disjoint set
of `GrantQuantity` elements and no induction over the grants is needed; `GrantInv` adds that
a grant in progress writes to the slot it names. The refinement maps each step to
`Grant`, `Charge`, `Refund` or a stutter, with `LedgerInv` for the guards.
For `NoSpuriousRefusal`, `RowsFirst` (a grant writes to a balance that exists, and a balance
without a row was granted nothing, so one with credits is found by `FindBalances`) and
`FundedOK`: what held a credit ever since the call began still does and is on the list the
call spends from, so the list is not empty when the call gives up. `StepsHaveReasons` lists
the ways a step moves a call that matter to it.

*Entitlements.* `Types` holds with plan changes: the rows are numbered `1 .. N`, the events
are finitely many, a refund names a charge, and `CallOK` gives the types of what a call has
read. The others are about any number of workers, resources, SKUs, items, rows, periods and
refunds, and bound the plan changes. With two that overlap, `RowsComeFromStripe` and
`PeriodNeverMovesBack` are false (section 6), so `RowsMirrorStripe` and `PeriodsGoForward`
assume one at most, at any time among the webhooks. `PlanInv` is what they need. `StripeOK`:
an item's state is the latest Stripe reported of it, one item is active at a time, and what
was reported of any other is of an earlier period. `SyncOK`: a sync about to write has a
snapshot not behind the row it read, and the row has the snapshot's plan, or the change is over
and Stripe has reported the new plan for the row's period, which is what makes it harmless that
the update keeps whatever plan it finds. `PlanAskedOK` and `PlanPaidOK`: between Stripe's
answer and the write of the row, the row is still the item's, active and not ahead of the
answer, since a webhook of another item is of an earlier period and is skipped, and one of
the same item carries the new plan, which the row does not have. `PlanKinds` sorts the steps
into those that touch any of this and those that do not (`Quietly`).
The remaining theorems assume `MaxPlanChanges = 0`, an organization whose plan does not
change. A downgrade leaves a row with more used than it includes, and any change leaves it
with units whose events name the old plan: `UsedWithinIncluded` and `UsedIsBacked` are false
then. So is `NoSpuriousRefusal`, for a race of the sync with the change (section 6); it takes
two resources, one more than `Entitlements_plans` has. `UsageFallsForCause` is not known to
be: TLC finds it true on the instance of `Entitlements_plans` with one more period. `PlanFree` adds what they rest on: the snapshots
of an item name one SKU, a SKU has one row, the row is within its plan, and `ReadOK`: a
consume has read what its row includes, and a sync has read a period that its snapshot is
not behind. `GrantsAreBehind` is needed for the last one: a period that was granted is not
ahead of the row of its item, so a second reset of that period does not happen. `FindConsumed`
and `FindSubscriptions` choose a maximum; that a finite set has one (`HighestExists`) follows
from the well-foundedness of strict inclusion, since induction over sets is out of reach.
`NoSpuriousRefusal` is proved over the theorems of `CreditLedger_proofs`, taken by `INSTANCE`:
each step here leaves the credits alone or is a step there (`CreditsFollow`), so that
`LedgerInv` and `RowsFirst` hold here too. `OfferOK` says where the call stands with what could
have paid for it: it has read the plan's row while it was the newest active one, of the
current period and with a unit left (`OffersAreRows`), and the row stays that one as long as
the plan could pay; by the time it falls back the plan could not have, and the fallback's list
holds every balance that could. `NewPeriodOffersNothing`: when a period ends the plan pays for
nothing until the renewal is told, so a refusal there is due.

*CheckrWebhook.* `DedupInv` is the types, `MarkerInv` (a marker that is applied exists and
its event was settled or rejected; a handler about to acknowledge a rejected report has
its event among the rejected) and `HolderInv` (for an event whose marker was never stolen:
the marker of a handler at work is there and unapplied, that handler is the only one, and
once the event is settled its marker is applied and it was settled once). `HolderInv` is
what makes the three-statement reclaim safe outside `stolen`.

*BackgroundCheck.* The proof goes through what a step can do rather than through the
thirty actions each time. `NextIsStep` shows that every step keeps the types and is one of
ten kinds for the row (`RowStep`: it stays, is born or gone, is persisted, marked failed,
cancelled, completed, swapped by a retry, has an event applied, or is polled), one of
four for a call (`ClientStep`), and moves the vendor's checks only forward (`VendorStep`).
It needs `CheckInv`, which says what each party knows: events and pollers report what the
vendor's check has reached (`EventsAreTrue`, `PollersKnow`), a row's pointer is the
invitation it holds or a report there is (`RowPointsRight`), a call past its claim has an id
(`ClientsKnow`). For `UnitsAreCovered`, a
held unit is owed by a request that is going to give it back, or its row is `Settled`: it
has a pointer or a custom report and no request has it as its claim (`UnitIsCovered`, with
`ClaimsDiffer`), so neither `removeClaim` nor a reclaim deletes it. The other four rest on
`AttemptInv`: the vendor's checks of a row run up to its `rerun`, with one more only while
the row is terminal, what is superseded is of an earlier rerun and the invitation is the
rerun's (`OwnAttempts`); a retry under way is one ahead of the row and still
shows its pointer, or is behind and holds a superseded one, so that its swap misses
(`RetriesKnow`); a delivery resolved since the row's last retry brings the report of the
row's invitation, or the row points at a report already, and then it is stale
(`HooksKnow`); a poll has read a pointer of an attempt no later than the row's, and
with the pointer the row still has its invitation too (`PollsRead`); a retried row points
at its own attempt (`PointsAtPresent`). So a swap always starts a new attempt, a report an
event or a poll can write is the invitation's, and a terminal row or a report's pointer moves
by nothing else. All this is claimed of rows that are not `Astray`. A row goes astray
by a write that hits it, and rows are born with an `id` nobody has seen, so the parts about
other parties (`Ordered`) are enough to establish it for a new row.

*IsmsDocument.* `Inv` is the types and what ties the requests to the document.
`HoldersHold`: a request past its lock holds it, so there is one. `SeenIsRight`: while a
request holds the lock the document is approved only if the request saw it so, for nothing
approves a document under the lock; hence an edit that skips the withdrawal commits on a
draft that is not approved. `SnapshotsAreRecent`: the snapshot of an approval without a
conflict has the document's present status, approver and narrative, and its present rows
unless an overlap was recorded; hence what `ApprovePublish` freezes is the draft.
`ReviewIsOpen`: a document in review is in the review of its last submission, which has not
been declined and has no version yet; hence its version is the submission's first.
`ApprovedHasVersion` and `RoundsBound` keep the numbers in range.
`DecidedOnceByItsApprover` and `BaselineIsWhatWasDerived` are then inductive beside it.
`SignedMinutesAreFrozen` needs `EditsFindUnsigned`: an edit let through under the lock, other
than a signature, works on an unsigned row until it commits, because only the lock's holder
changes rows. `PublishedWasComplete` needs the completeness of the present draft, not of the
submitted one: `ReviewIsComplete` (a draft in review that was not edited since is complete),
`SubmitIsRight` (what a submission checked under the lock still holds when it commits) and
`OverlapsAreEdits` (an edit an approval's snapshot misses was recorded as an edit in review).

*PolicyVersions.* `EditsHoldLock` (an edit of a version holds the row lock, so there is one
and no other writer of the row commits under it) and `EditsAreAllowed` (so the version it
found editable still is) give `FrozenVersionsKeepTheirText`. `PendingWasSubmitted`: the text
of the pending version, and the text an acceptance has read, were submitted unless
`bypassed`. `NamesExist` keeps the version ids in range.

*RefreshLease.* `WorkersHold`: a call that works and did not outlive its lease is the
lease's holder. A release clears the caller's lease only, and `Acquire` takes a free or
expired lease, whose holder `Expire` has recorded.
`RejectionHasACause` rests on `Sound`, which holds until there is a cause (`TokenInv`).
`TokensLive`: a token that a call holds is one the provider accepts. Under rotation
`OwnTokens` and `OwnRows` keep it so: no two calls hold one token, and a grant being stored
is in no row but its own, so that a refresh retires its own token only. `StoredLive`: while
no refresh is storing, the active version and the latest one, of which the next refresh will
read one, hold live tokens. For that, `NumberedAfter` (a refresh numbers its version after
every version whose token has been retired) and `InsertedRows` (no deletion removes the
highest number, `CleanKeepsHighest`). Without rotation `AllLive` is enough. `WorkersWork`
and `WorkersHold` say that a refresh that reads is the only worker. TLC found the cause
`early` when the candidate invariant was checked on larger instances, see section 6.

Only model-checked: the temporal properties with `~>` or `<>`, which need fairness
(`ReportsReachTheRow` of `BackgroundCheck` among them). Every safety property that a passing
run checks has a theorem.

## 6. Where code and comments disagree

Two with a run that shows them:

* **An approval can omit an edit it waited for.** `utils/approval.ts:16-18` says of the
  document's lock: "Without it, an edit could interleave while approve() is loading +
  freezing the version under READ COMMITTED, leaving an approved version that omits the
  edit"; `isms.service.ts:468-471`: a platform edit "commits entirely before or entirely
  after this approval". `approve()` is REPEATABLE READ and the lock is its first statement:
  PostgreSQL takes the snapshot when that statement begins, before the lock is granted. A
  row edit that commits during the wait is not in the snapshot, nor does it conflict with
  anything `approve()` writes: `NoEditIsOmitted`, run `IsmsDocument_omitted`.
* **A published policy can be rewritten in place.** `policies.service.ts:429`: "All reads
  and writes in one transaction to prevent concurrent publish bypass";
  `update-policy-helpers.ts:190`: "regeneration must NOT mutate the live policy". The
  status is read without a lock under READ COMMITTED, and by the task outside its
  transaction; a publication between read and write is bypassed: `LiveTextIsPublished`,
  run `PolicyVersions_regenerate`, whose trace is an update in place (`updateById`).

Further disagreements met while modelling, without a run of their own.

Billing and background checks:

* `background-check-retry.ts:127`: "The retry is free by design (the row already paid)". A
  row whose request failed at the vendor was refunded
  (`background-check-request.ts:198-212`) and is retried without a charge.
* **A report of the attempt before a retry can take over the retried row.**
  `background-check-retry.ts:162-164`: the fresh vendor check comes first "so a late webhook
  from the prior check cannot match the row after we swap in the new id". The vendor is asked
  whose report an event names before the transaction, and only when the row has been retried
  (`background-check-webhook-apply.ts:137-169`); in the transaction the row is read again but
  the question is not (`background-check-webhook-process.ts:143-199`). A member cancels, a
  report of the first attempt is delivered and resolved against the row that still points at
  its invitation, a retry swaps in the new invitation, and the event commits: the superseded
  list names the old invitation and not its report, the row points at an invitation again, so
  the event is not stale. The row takes the pointer and the status of the old report, also
  its failure or completion. The step is `Commit` with `Overtakes`, the row is recorded in
  `overtaken`, and `PointerIsOfThisAttempt`, `TerminalIsFinal`, `GraduatedPointerIsFinal` and
  `FailureHasEvidence` are claimed of rows it has not happened to.
* `background-check-webhook-apply.ts:141`: "First-attempt rows skip this — with no retry
  history the event can only be the invitation's own report." After a delete and a new
  request it can be the deleted check's, matched by the member: `PointerIsOfThisAttempt` is
  about retried rows, `FailureHasEvidence` names the case.
* Two plan changes of one row that overlap are not ordered (`billing-subscription-plans.ts:82-133`
  asks Stripe, then updates the row by id alone; the idempotency key tells changes to
  different plans apart): the one that asked first can write last, and put the row back to an
  earlier period or, with a third change and a sync in between, to a mix of two states.
  `PeriodNeverMovesBack` and `RowsComeFromStripe` are therefore claimed of histories with no
  plan change and with one.
* A sync that read the row before a plan change writes the old plan's included usage to the
  row that has the new SKU (`billing-entitlements.service.ts:217-234` updates by id and
  period, the SKU is not among the conditions), until the next sync. After a downgrade the
  row shows units its plan does not include, and a consume that read the row between the two
  writes compares with what it read (`billing-entitlements.service.ts:128-156`): it is told
  `exhausted` although the row never showed less than a unit left. `NoSpuriousRefusal` is
  therefore claimed of histories without a plan change.
* `security-penetration-tests.service.ts:992`: "Atomically marks the run as refunded and
  credits the org's wallet." The wallet is found by the SKU of the consume, which a plan
  change renames (`billing-included-usage-refunds.ts:51`): the refund is recorded and
  nobody gets the unit.
* `background-check-webhook-process.ts:57-58`: after a crash "the next delivery reprocesses
  instead of acking duplicate". Within five minutes it is acknowledged as a duplicate.
* `background-check-compensation.ts:121` ("an in-flight claim is never stolen"; one slower
  than the window is); `background-check-retry.ts:100` (webhook events "cascade via the
  FK"; the schema says `SetNull`); `billing-entitlements.service.spec.ts:222` against
  `billing-entitlements.service.ts:43-48` (a retry after the subscription ended is not
  answered from its usage event); `billing-subscription-plans.ts:119-134` (Stripe changed,
  then a unique conflict on the row); `reconcile-expired-invitation.ts:50-52` (no guard on
  the pointer read, so the expiry of a replaced invitation can fail a retried row; the
  exception of `FailureHasEvidence`); `background-check-custom.service.ts:94` (a custom
  report completes the row by id alone, over whatever happened during the upload).

ISMS documents: `generate.ts:15-18` claims an order of derived rows that concurrent manual
edits do not keep; completeness is checked at submission and not again at approval.

Policies:

* `setActiveVersion` publishes without stamping `lastPublishedAt`
  (`policies.service.ts:1214-1226`), so a later decline (`:1465`) turns a live policy into
  a draft; "A draft policy has never been published" (`update-policy-helpers.ts:125`) is
  not so either, since `updateById` can set a published policy to draft.
* `policies.service.ts:530-535` keeps acknowledgements when a policy in review without a
  pending version is published again: a policy set to draft, edited, and set to
  `needs_review` before that keeps them for another text.
* `mark-policy-completed/route.ts:56` writes back a list that was cleared since; an
  acceptance in progress publishes what has been declined; `publishVersion` publishes the
  text the version had before its transaction; deleting a version that is being published
  leaves the policy without a current one, and no key guards `pendingVersionId`.

OAuth credentials:

* `credential-vault.service.ts:512-515`: "Coalescing only reuses a token that was produced
  AFTER this call began". `storeOAuthTokens` inserts the version before it activates it, so
  a waiter that polls in between is given the old active token.
* `credential-vault.service.ts:32-34` relies on the request timeout to keep a refresh inside
  its lease; the timer is cleared before the body is read, and the lease can be outlived.
* A late `markTerminalTokenRefreshFailure` writes `error` over a reconnected connection, and
  a refresh in flight makes a disconnected one `active`. A rotated token is lost with a lost
  answer or a unique conflict on the version's number.
* A reconnection stores its version without the lease. When it stalls between the insert
  and the activation while other stores make the active version an old one and delete it
  (`deleteOldVersions`), a refresh reads the latest version, which is that one, and uses its
  token up; the reconnection then activates it, and under a rotating provider the next
  refresh is turned down. It takes two reconnections and three refreshes with two versions
  kept; `early` records the read.

## 7. What is abstracted and what is not modelled

* `in_review` is folded into `in_progress`, `completed_with_flags` into `completed`, and
  the vendor's `cancelled` and `deleted` into `failed`: the code treats the members of
  each pair alike in every guard modelled.
* Candidate and member fallbacks of the webhook resolution are both "indirect". Direct
  report creation (`createReportForCandidate`) and `invitation.completed` events are not
  modelled.
* The two reads of a retry, and the read and guarded write of a cancel or delete, are
  one step each. The transaction of `processWebhookEvent` is one step: its update repeats
  status, pointer and watermark, and is tried again on what it reads anew.
* The reconciliation's hour of silence and the reclaim's five minutes are both
  `fresh = FALSE`. A second lookup of `resolveReport` that finds nothing
  either, after the invitation has named its report, is `FetchFails`: the row is touched.
* `BackgroundCheck` has no clock, so its webhooks are never too old: it allows late
  deliveries that the endpoint refuses, which only makes its safety properties stronger, and
  its liveness property rests on no webhook. In `CheckrWebhook` a payload bears a time that
  has come; one dated within the five minutes of tolerance counts as dated now, and one dated
  later, refused until its time has come, as not yet sent.
* In `BackgroundCheck` the charge and refund are reduced to `unit`; `Entitlements` has
  their detail. A consume counts as made if the member was ever charged.
* `processEvent` is one opaque step in `StripeWebhook`; the payment method sync, one-time
  usage and audit entries are not modelled. `periodGrants` leaves the event out of the
  key of a grant.
* Payload parsing, signatures, names, e-mails, sub-statuses and report snapshots are left
  out, but a snapshot that cannot be fetched is a failure step.

* ISMS: `publishRenders` (the PDF after an approval), exports, measurements (which by
  design do not withdraw an approval) and reads of other documents are not modelled. The
  registers' services share one shape. Completeness is modelled for the management review.
  An update that also signs is two requests.
* Policies: several reads of one request are one step, except in `acceptChanges`. Version
  numbers and their retries, PDFs, deletion of a policy, a client that sends `signedBy` or
  `currentVersionId` itself, and the framework sync and onboarding writers are not modelled.
  An approver is set in a request of its own.
* OAuth: the two reads of `getDecryptedCredentials` are one step; a call has one lease token
  and is served once; terminal errors other than a rejected token, access tokens and their
  expiry, and API keys are not modelled; nor is a 200 without an access token, or a
  reconnection of a provider other than Google that stores a version without a refresh
  token. `deleteConnection` acts as a disconnection.

What is left out altogether: penetration tests, cloud security, integration checks,
questionnaires and browser automation are mostly calls to vendors, model providers and
renderers, with a status row that one writer updates; tasks, risks, vendors, findings,
frameworks and forms are single reads and updates; the front ends keep no state that other
parts rely on; vendor manifests, the MCP server, generated clients and UI packages, the
greater part of the repository's lines, are data and layout. `PROJECT.json` has the reason
for each. The candidates worth a module are in the plan.

## 8. Plan

1. **Done**: `StripeWebhook`, `CreditLedger` over `Allowance`, `Entitlements`,
   `CheckrWebhook`, `BackgroundCheck`, `IsmsDocument`, `PolicyVersions`, `RefreshLease`, and
   the proofs of section 5.
2. **`RemediationBatch`** (`cloud-security/remediation-batch.service.ts`): one active batch
   per connection; finished batches do not reopen; skips and callbacks in any order.
   **`Timelines`**: phases complete in order, one in progress at a time, under concurrent
   completes and pauses. **`BrowserRuns`**: the nested promise chains of the coordinator, no
   deadlock, exclusion per profile.
3. **Composition**: `BackgroundCheck` over `Entitlements` for the charge, and the
   penetration test run's refund marker over `Entitlements`.
4. **Proofs**: `UsageFallsForCause` with one plan change. `GrantsAreBehind` is false then: a
   late snapshot of the old plan can open a second row, of an earlier period than one granted.
   What takes its place is that such a row is expired, so that nobody consumes from it and its
   usage stays zero, and that a row the change could not be written to keeps its item.

Runs are kept to one per question.
