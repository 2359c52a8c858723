---------------------------- MODULE Entitlements ----------------------------
(***************************************************************************)
(* BillingEntitlementsService: the included usage of an organization's     *)
(* subscriptions to one product, with manual credits as the fallback.      *)
(*                                                                         *)
(* A subscription row mirrors a Stripe subscription item.  Webhooks keep   *)
(* it in step with Stripe (syncSubscriptionItem), a plan change moves it   *)
(* to another SKU (changeSubscriptionPlan), a consume charges it one unit  *)
(* for a resource and a refund gives the unit back.  The credits are those *)
(* of CreditLedger, on the same workers: a consume or a refund that finds  *)
(* no included unit runs a call of that module and waits for its status.   *)
(*                                                                         *)
(* Time is counted in billing periods.  A row whose period starts at p is  *)
(* paid up to p + 1.                                                       *)
(***************************************************************************)
EXTENDS Integers, FiniteSets

CONSTANTS
    Workers, Slots, Resources, Grants, GrantSlot, GrantQuantity, None,
    Skus,           \* the product's subscription SKUs
    Included,       \* Included[k]: the usage SKU k includes per period
    SubIds,         \* 1 .. n: subscription rows, numbered as they are created
    Items,          \* Stripe subscription items
    MaxPeriod,      \* bound: the clock stops here
    MaxPlanChanges, \* bound: plan changes asked for
    MaxCancels,     \* bound: Stripe subscriptions cancelled
    MaxRefunds      \* bound: refund calls

ASSUME IncludedAssumption == Included \in [Skus -> Nat \ {0}]
ASSUME SkuAssumption == None \notin Skus
ASSUME SubIdsAssumption == SubIds \subseteq Nat
ASSUME EntitlementBounds == /\ MaxPeriod \in Nat
                            /\ MaxPlanChanges \in Nat
                            /\ MaxCancels \in Nat
                            /\ MaxRefunds \in Nat

VARIABLES balances, consumeEvent, refundEvent, grantEvent, call
Credits == INSTANCE CreditLedger
credits == <<balances, consumeEvent, refundEvent, grantEvent, call>>
ASSUME CreditAssumption == Credits!GrantAssumption /\ Credits!NoneAssumption

VARIABLES
    now,            \* the current billing period
    stripe,         \* stripe[i]: the state of subscription item i at Stripe
    sent,           \* the states of items Stripe has told the API about
    budget          \* what is left of the three bounds

VARIABLES
    subs,           \* subs[n]: row n of organization_billing_subscriptions
    usage,          \* usage[k, r]: 0, or the rank of the consume event of r on k
    usageRefund,    \* the <<k, r>> with a refund event
    periodGrants,   \* grant events: the <<item, period>> a reset was recorded for
    ent             \* ent[w]: the call worker w is in

world == <<now, stripe, sent, budget>>
vars == <<credits, world, subs, usage, usageRefund, periodGrants, ent>>

-----------------------------------------------------------------------------
NoItem == [sku |-> None, active |-> FALSE, period |-> 0]
NoSub == [sku |-> None, item |-> None, active |-> FALSE, period |-> 0,
          included |-> 0, used |-> 0]
NoSnap == [item |-> None, sku |-> None, active |-> FALSE, period |-> 0]

\* row is the subscription the call has read; snap the Stripe state a sync or a
\* plan change carries.
Idle == [pc |-> "idle", resource |-> None, id |-> 0, row |-> NoSub,
         snap |-> NoSnap, attempt |-> 0, fallback |-> "none", status |-> "none"]

Init ==
    /\ Credits!Init
    /\ now = 0
    /\ stripe = [i \in Items |-> NoItem]
    /\ sent = {}
    /\ budget = [plan |-> MaxPlanChanges, cancel |-> MaxCancels, refund |-> MaxRefunds]
    /\ subs = [n \in SubIds |-> NoSub]
    /\ usage = [kr \in Skus \X Resources |-> 0]
    /\ usageRefund = {}
    /\ periodGrants = {}
    /\ ent = [w \in Workers |-> Idle]

Rows == {n \in SubIds : subs[n].sku # None}
RowsOf(k) == {n \in Rows : subs[n].sku = k}
Used(r) == {k \in Skus : usage[k, r] > 0}
Expired(row) == row.period + 1 <= now

store == <<subs, usage, usageRefund, periodGrants>>

Goto(w, pc) == ent' = [ent EXCEPT ![w].pc = pc]
Done(w, status) == ent' = [ent EXCEPT ![w].pc = "done", ![w].status = status]

-----------------------------------------------------------------------------
(* Stripe and the clock.                                                   *)

Report(i, s) ==
    /\ stripe' = [stripe EXCEPT ![i] = s]
    /\ sent' = sent \cup {[item |-> i, sku |-> s.sku,
                           active |-> s.active, period |-> s.period]}

\* A checkout is only offered to an organization without an active row, and
\* customers are taken to complete one checkout at a time.  Two subscriptions
\* never start at the same instant.
Subscribe(i, k) ==
    /\ stripe[i] = NoItem
    /\ \A j \in Items : ~stripe[j].active
    /\ \A j \in Items : stripe[j] # NoItem => stripe[j].period < now
    /\ \A n \in Rows : ~subs[n].active
    /\ Report(i, [sku |-> k, active |-> TRUE, period |-> now])
    /\ UNCHANGED <<credits, now, budget, store, ent>>

Renew(i) ==
    /\ stripe[i].active
    /\ stripe[i].period < now
    /\ Report(i, [stripe[i] EXCEPT !.period = now])
    /\ UNCHANGED <<credits, now, budget, store, ent>>

Cancel(i) ==
    /\ stripe[i].active
    /\ budget.cancel > 0
    /\ budget' = [budget EXCEPT !.cancel = @ - 1]
    /\ Report(i, [stripe[i] EXCEPT !.active = FALSE])
    /\ UNCHANGED <<credits, now, store, ent>>

NextPeriod ==
    /\ now < MaxPeriod
    /\ now' = now + 1
    /\ UNCHANGED <<credits, stripe, sent, budget, store, ent>>

-----------------------------------------------------------------------------
(* tryConsumeIncludedUsageForProduct                                       *)

CallConsume(w, r) ==
    /\ ent[w].pc = "idle" /\ call[w].pc = "idle"
    /\ ent' = [ent EXCEPT ![w] = [Idle EXCEPT !.pc = "findSubscriptions",
                                              !.resource = r]]
    /\ UNCHANGED <<credits, world, store>>

Active(n) == subs[n].active /\ ~Expired(subs[n])
ActiveRows == {n \in Rows : Active(n)}
Newest(S) == CHOOSE n \in S : \A m \in S : m <= n

\* tryConsumeCreditFallback: the credit call of the same worker starts here.
FallBack(w, status) ==
    /\ ent' = [ent EXCEPT ![w].pc = "credit", ![w].fallback = status]
    /\ Credits!CallConsume(w, ent[w].resource)

FindSubscriptions(w) ==
    LET n == Newest(ActiveRows) IN
    /\ ent[w].pc = "findSubscriptions"
    /\ IF ActiveRows = {}
         THEN FallBack(w, "not_configured")
         ELSE /\ ent' = [ent EXCEPT
                           ![w].pc = IF subs[n].used >= subs[n].included
                                     THEN "findExistingUsage" ELSE "findUnique",
                           ![w].row = subs[n]]
              /\ UNCHANGED credits
    /\ UNCHANGED <<world, store>>

FindExistingUsage(w) ==
    /\ ent[w].pc = "findExistingUsage"
    /\ IF Used(ent[w].resource) # {}
         THEN Done(w, "consumed") /\ UNCHANGED credits
         ELSE FallBack(w, "exhausted")
    /\ UNCHANGED <<world, store>>

\* tryConsumeIncludedUsage reads the row again, by SKU.
FindUnique(w) ==
    LET S == RowsOf(ent[w].row.sku) IN
    /\ ent[w].pc = "findUnique"
    /\ IF \E n \in S : subs[n].active
         THEN /\ \E n \in S : ent' = [ent EXCEPT ![w].pc = "findUsage",
                                                 ![w].id = n, ![w].row = subs[n]]
              /\ UNCHANGED credits
         ELSE FallBack(w, "not_configured")
    /\ UNCHANGED <<world, store>>

FindUsage(w) ==
    LET row == ent[w].row IN
    /\ ent[w].pc = "findUsage"
    /\ CASE usage[row.sku, ent[w].resource] > 0 ->
              Done(w, "consumed") /\ UNCHANGED credits
         [] usage[row.sku, ent[w].resource] = 0 /\ Expired(row) ->
              FallBack(w, "not_configured")
         [] usage[row.sku, ent[w].resource] = 0 /\ ~Expired(row)
              /\ row.used >= row.included ->
              FallBack(w, "exhausted")
         [] OTHER -> Goto(w, "consumeTx") /\ UNCHANGED credits
    /\ UNCHANGED <<world, store>>

NextRank == Cardinality({kr \in Skus \X Resources : usage[kr] > 0}) + 1

\* Mutant: the increment does not look at what is left.
ConsumeTx_unguarded(w) ==
    LET r == ent[w].resource
        k == ent[w].row.sku IN
    /\ ent[w].pc = "consumeTx"
    /\ usage[k, r] = 0
    /\ usage' = [usage EXCEPT ![<<k, r>>] = NextRank]
    /\ subs' = [subs EXCEPT ![ent[w].id].used = @ + 1]
    /\ Done(w, "consumed")
    /\ UNCHANGED <<credits, world, usageRefund, periodGrants>>

\* The event and the guarded increment commit together or not at all.
ConsumeTx(w) ==
    LET r == ent[w].resource
        k == ent[w].row.sku
        n == ent[w].id IN
    /\ ent[w].pc = "consumeTx"
    /\ usage[k, r] = 0
    /\ subs[n].used < ent[w].row.included
    /\ usage' = [usage EXCEPT ![<<k, r>>] = NextRank]
    /\ subs' = [subs EXCEPT ![n].used = @ + 1]
    /\ Done(w, "consumed")
    /\ UNCHANGED <<credits, world, usageRefund, periodGrants>>

ConsumeTxDuplicate(w) ==
    /\ ent[w].pc = "consumeTx"
    /\ usage[ent[w].row.sku, ent[w].resource] > 0
    /\ Done(w, "consumed")
    /\ UNCHANGED <<credits, world, store>>

\* BillingAllowanceExhaustedError rolls the event back.
ConsumeTxExhausted(w) ==
    /\ ent[w].pc = "consumeTx"
    /\ usage[ent[w].row.sku, ent[w].resource] = 0
    /\ subs[ent[w].id].used >= ent[w].row.included
    /\ FallBack(w, "exhausted")
    /\ UNCHANGED <<world, store>>

\* Mutant: the answer of the fallback is dropped.
CreditReturn_dropped(w) ==
    /\ ent[w].pc = "credit"
    /\ Done(w, ent[w].fallback)
    /\ Credits!Return(w)
    /\ UNCHANGED <<world, store>>

\* The fallback answers: its own status only if it consumed.
CreditReturn(w) ==
    /\ ent[w].pc = "credit"
    /\ Done(w, IF call[w].status = "consumed" THEN "consumed" ELSE ent[w].fallback)
    /\ Credits!Return(w)
    /\ UNCHANGED <<world, store>>

-----------------------------------------------------------------------------
(* refundIncludedUsageForProduct                                           *)

CallRefund(w, r) ==
    /\ ent[w].pc = "idle" /\ call[w].pc = "idle"
    /\ budget.refund > 0
    /\ budget' = [budget EXCEPT !.refund = @ - 1]
    /\ ent' = [ent EXCEPT ![w] = [Idle EXCEPT !.pc = "findConsumed", !.resource = r]]
    /\ UNCHANGED <<credits, now, stripe, sent, store>>

FindConsumed(w) ==
    LET r == ent[w].resource
        k == CHOOSE j \in Used(r) : \A i \in Used(r) : usage[i, r] <= usage[j, r] IN
    /\ ent[w].pc = "findConsumed"
    /\ IF Used(r) = {}
         THEN Goto(w, "creditRefund") /\ Credits!CallRefund(w, r)
         ELSE /\ ent' = [ent EXCEPT ![w].pc = "refundTx", ![w].row.sku = k]
              /\ UNCHANGED credits
    /\ UNCHANGED <<world, store>>

\* Mutant: the refund event is written and nothing is given back.
RefundTx_eventOnly(w) ==
    /\ ent[w].pc = "refundTx"
    /\ usageRefund' = usageRefund \cup {<<ent[w].row.sku, ent[w].resource>>}
    /\ Done(w, "refunded")
    /\ UNCHANGED <<credits, world, subs, usage, periodGrants>>

\* Mutant: the decrement does not ask for a positive usage.
RefundTx_unguarded(w) ==
    LET kr == <<ent[w].row.sku, ent[w].resource>> IN
    /\ ent[w].pc = "refundTx"
    /\ IF kr \in usageRefund
         THEN UNCHANGED <<subs, usageRefund>>
         ELSE /\ usageRefund' = usageRefund \cup {kr}
              /\ subs' = [n \in SubIds |-> IF n \in RowsOf(ent[w].row.sku)
                                          THEN [subs[n] EXCEPT !.used = @ - 1]
                                          ELSE subs[n]]
    /\ Done(w, "refunded")
    /\ UNCHANGED <<credits, world, usage, periodGrants>>

\* refundIncludedUsageEvent: the refund event, and a decrement of whatever row
\* now has the SKU, if it shows any usage.
RefundTx(w) ==
    LET k == ent[w].row.sku
        kr == <<k, ent[w].resource>> IN
    /\ ent[w].pc = "refundTx"
    /\ IF kr \in usageRefund
         THEN UNCHANGED <<subs, usageRefund>>
         ELSE /\ usageRefund' = usageRefund \cup {kr}
              /\ subs' = [n \in SubIds |->
                            IF n \in RowsOf(k) /\ subs[n].used > 0
                            THEN [subs[n] EXCEPT !.used = @ - 1] ELSE subs[n]]
    /\ Done(w, "refunded")
    /\ UNCHANGED <<credits, world, usage, periodGrants>>

CreditRefundReturn(w) ==
    /\ ent[w].pc = "creditRefund"
    /\ Done(w, "refunded")
    /\ Credits!Return(w)
    /\ UNCHANGED <<world, store>>

-----------------------------------------------------------------------------
(* syncSubscriptionItem                                                    *)

\* Stripe delivers a state it has reported, in any order and more than once.
CallSync(w, s) ==
    /\ ent[w].pc = "idle" /\ call[w].pc = "idle"
    /\ ent' = [ent EXCEPT ![w] = [Idle EXCEPT !.pc = "syncRead", !.snap = s]]
    /\ UNCHANGED <<credits, world, store>>

\* Mutant: a snapshot older than the row is not skipped.
SyncRead_anyAge(w) ==
    LET S == RowsOf(ent[w].snap.sku) IN
    /\ ent[w].pc = "syncRead"
    /\ IF S = {}
         THEN ent' = [ent EXCEPT ![w].pc = "syncCreate"]
         ELSE \E n \in S : ent' = [ent EXCEPT ![w].pc = "syncUpdate",
                                              ![w].id = n, ![w].row = subs[n]]
    /\ UNCHANGED <<credits, world, store>>

SyncRead(w) ==
    LET s == ent[w].snap
        S == RowsOf(s.sku) IN
    /\ ent[w].pc = "syncRead"
    /\ CASE S = {} -> ent' = [ent EXCEPT ![w].pc = "syncCreate"]
         [] \E n \in S : subs[n].period > s.period -> Done(w, "synced")
         [] OTHER -> \E n \in S : ent' = [ent EXCEPT ![w].pc = "syncUpdate",
                                                     ![w].id = n, ![w].row = subs[n]]
    /\ UNCHANGED <<credits, world, store>>

RowOf(s, used) == [sku |-> s.sku, item |-> s.item, active |-> s.active,
                   period |-> s.period, included |-> Included[s.sku],
                   used |-> used]

\* A row of the SKU or of the Stripe item exists: unique constraint, and the
\* delivery is dropped.
SyncCreateConflict(w) ==
    /\ ent[w].pc = "syncCreate"
    /\ \E n \in Rows : \/ subs[n].sku = ent[w].snap.sku
                       \/ subs[n].item = ent[w].snap.item
    /\ Done(w, "synced")
    /\ UNCHANGED <<credits, world, store>>

SyncCreate(w) ==
    LET s == ent[w].snap
        n == Cardinality(Rows) + 1 IN
    /\ ent[w].pc = "syncCreate"
    /\ \A m \in Rows : subs[m].sku # s.sku /\ subs[m].item # s.item
    /\ n \in SubIds
    /\ subs' = [subs EXCEPT ![n] = RowOf(s, 0)]
    /\ periodGrants' = periodGrants \cup {<<s.item, s.period>>}
    /\ Done(w, "synced")
    /\ UNCHANGED <<credits, world, usage, usageRefund>>

\* Another sync moved the period since the read: read again, twice at most.
SyncLost(w) ==
    /\ ent[w].pc = "syncUpdate"
    /\ subs[ent[w].id].period # ent[w].row.period
    /\ ent' = [ent EXCEPT ![w].pc = IF ent[w].attempt = 0 THEN "syncRead" ELSE "done",
                          ![w].attempt = 1]
    /\ UNCHANGED <<credits, world, store>>

\* Mutant: the update does not ask for the period that was read.
SyncUpdate_anyPeriod(w) ==
    LET s == ent[w].snap
        n == ent[w].id
        reset == ent[w].row.period # s.period IN
    /\ ent[w].pc = "syncUpdate"
    /\ \A m \in Rows \ {n} : subs[m].item # s.item
    /\ subs' = [subs EXCEPT ![n] =
                  [RowOf(s, IF reset THEN 0 ELSE subs[n].used)
                     EXCEPT !.sku = subs[n].sku]]
    /\ periodGrants' = IF reset THEN periodGrants \cup {<<s.item, s.period>>}
                                ELSE periodGrants
    /\ Done(w, "synced")
    /\ UNCHANGED <<credits, world, usage, usageRefund>>

\* The row is addressed by id: its SKU is whatever it is by now.  The key of
\* the grant also holds the event, so two events of one period never collide.
SyncUpdate(w) ==
    LET s == ent[w].snap
        n == ent[w].id
        reset == ent[w].row.period # s.period IN
    /\ ent[w].pc = "syncUpdate"
    /\ subs[n].period = ent[w].row.period
    /\ \A m \in Rows \ {n} : subs[m].item # s.item
    /\ subs' = [subs EXCEPT ![n] =
                  [RowOf(s, IF reset THEN 0 ELSE subs[n].used)
                     EXCEPT !.sku = subs[n].sku]]
    /\ periodGrants' = IF reset THEN periodGrants \cup {<<s.item, s.period>>}
                                ELSE periodGrants
    /\ Done(w, "synced")
    /\ UNCHANGED <<credits, world, usage, usageRefund>>

SyncUpdateConflict(w) ==
    /\ ent[w].pc = "syncUpdate"
    /\ subs[ent[w].id].period = ent[w].row.period
    /\ \E m \in Rows \ {ent[w].id} : subs[m].item = ent[w].snap.item
    /\ Done(w, "synced")
    /\ UNCHANGED <<credits, world, store>>

-----------------------------------------------------------------------------
(* changeSubscriptionPlan                                                  *)

CallChangePlan(w, n, k) ==
    /\ ent[w].pc = "idle" /\ call[w].pc = "idle"
    /\ budget.plan > 0
    /\ n \in Rows /\ subs[n].active /\ subs[n].sku # k
    /\ budget' = [budget EXCEPT !.plan = @ - 1]
    /\ ent' = [ent EXCEPT ![w] =
                 [Idle EXCEPT !.pc = "planStripe", !.id = n, !.row = subs[n],
                              !.snap.item = subs[n].item, !.snap.sku = k]]
    /\ UNCHANGED <<credits, now, stripe, sent, store>>

\* stripe.subscriptions.update; upgrading a trial ends it, which starts a new
\* period now.
PlanStripe(w) ==
    LET i == ent[w].snap.item IN
    /\ ent[w].pc = "planStripe"
    /\ stripe[i].active
    /\ \E p \in {stripe[i].period, now} :
         /\ Report(i, [sku |-> ent[w].snap.sku, active |-> TRUE, period |-> p])
         /\ ent' = [ent EXCEPT ![w].pc = "planWrite", ![w].snap.active = TRUE,
                               ![w].snap.period = p]
    /\ UNCHANGED <<credits, now, budget, store>>

PlanStripeFails(w) ==
    /\ ent[w].pc = "planStripe"
    /\ Done(w, "threw")
    /\ UNCHANGED <<credits, world, store>>

\* Mutant: the row takes the new plan and keeps its old period.
PlanWrite_oldPeriod(w) ==
    LET s == ent[w].snap
        n == ent[w].id IN
    /\ ent[w].pc = "planWrite"
    /\ \A m \in Rows \ {n} : subs[m].sku # s.sku /\ subs[m].item # s.item
    /\ subs' = [subs EXCEPT ![n] = [RowOf(s, subs[n].used)
                                       EXCEPT !.period = subs[n].period]]
    /\ Done(w, "changed")
    /\ UNCHANGED <<credits, world, usage, usageRefund, periodGrants>>

PlanWrite(w) ==
    LET s == ent[w].snap
        n == ent[w].id IN
    /\ ent[w].pc = "planWrite"
    /\ \A m \in Rows \ {n} : subs[m].sku # s.sku /\ subs[m].item # s.item
    /\ subs' = [subs EXCEPT ![n] = RowOf(s, subs[n].used)]
    /\ Done(w, "changed")
    /\ UNCHANGED <<credits, world, usage, usageRefund, periodGrants>>

\* The organization already has a row of that SKU: Stripe has changed, the row
\* has not.
PlanWriteConflict(w) ==
    /\ ent[w].pc = "planWrite"
    /\ \E m \in Rows \ {ent[w].id} : \/ subs[m].sku = ent[w].snap.sku
                                     \/ subs[m].item = ent[w].snap.item
    /\ Done(w, "threw")
    /\ UNCHANGED <<credits, world, store>>

-----------------------------------------------------------------------------
\* An administrator grants credits; a worker inside a credit call goes on.
GrantCredit(w, g) ==
    /\ ent[w].pc = "idle"
    /\ Credits!CallGrant(w, g)
    /\ UNCHANGED <<world, store, ent>>

CreditStep(w) ==
    /\ Credits!CreditStep(w)
    /\ UNCHANGED <<world, store, ent>>

GrantReturn(w) ==
    /\ ent[w].pc = "idle"
    /\ Credits!Return(w)
    /\ UNCHANGED <<world, store, ent>>

Return(w) ==
    /\ ent[w].pc = "done"
    /\ ent' = [ent EXCEPT ![w] = Idle]
    /\ UNCHANGED <<credits, world, store>>

ConsumeStep(w) ==
    \/ FindSubscriptions(w) \/ FindExistingUsage(w) \/ FindUnique(w)
    \/ FindUsage(w) \/ ConsumeTx(w) \/ ConsumeTxDuplicate(w)
    \/ ConsumeTxExhausted(w) \/ CreditReturn(w)
RefundStep(w) == FindConsumed(w) \/ RefundTx(w) \/ CreditRefundReturn(w)
SyncStep(w) == \/ SyncRead(w) \/ SyncCreate(w) \/ SyncCreateConflict(w)
               \/ SyncUpdate(w) \/ SyncLost(w) \/ SyncUpdateConflict(w)
PlanStep(w) == \/ PlanStripe(w) \/ PlanStripeFails(w)
               \/ PlanWrite(w) \/ PlanWriteConflict(w)

Calls(w) ==
    \/ \E r \in Resources : CallConsume(w, r) \/ CallRefund(w, r)
    \/ \E s \in sent : CallSync(w, s)
    \/ \E n \in SubIds, k \in Skus : CallChangePlan(w, n, k)
    \/ \E g \in Grants : GrantCredit(w, g)

World ==
    \/ NextPeriod
    \/ \E i \in Items : Renew(i) \/ Cancel(i) \/ \E k \in Skus : Subscribe(i, k)

Next ==
    \/ World
    \/ \E w \in Workers :
          \/ Calls(w) \/ ConsumeStep(w) \/ RefundStep(w) \/ SyncStep(w)
          \/ PlanStep(w) \/ CreditStep(w) \/ GrantReturn(w) \/ Return(w)

Spec == Init /\ [][Next]_vars

-----------------------------------------------------------------------------
Snap == [item : Items, sku : Skus, active : BOOLEAN, period : Nat]
Row == [sku : Skus, item : Items, active : BOOLEAN, period : Nat,
        included : Nat, used : Nat]
Pcs == {"idle", "findSubscriptions", "findExistingUsage", "findUnique",
        "findUsage", "consumeTx", "credit", "findConsumed", "refundTx",
        "creditRefund", "syncRead", "syncCreate", "syncUpdate", "planStripe",
        "planWrite", "done"}

TypeOK ==
    /\ now \in 0 .. MaxPeriod
    /\ sent \subseteq Snap
    /\ subs \in [SubIds -> Row \cup {NoSub}]
    /\ usage \in [Skus \X Resources -> Nat]
    /\ usageRefund \subseteq Skus \X Resources
    /\ periodGrants \subseteq Items \X Nat
    /\ \A w \in Workers : ent[w].pc \in Pcs

\* Every unit a row shows as used is backed by a consume event that has not been
\* refunded: a rolled-back consume, a repeated refund or a lost race never
\* leaves the customer charged for nothing.
Unrefunded(k) == {r \in Resources : usage[k, r] > 0 /\ <<k, r>> \notin usageRefund}
UsedIsBacked ==
    \A n \in Rows : subs[n].used <= Cardinality(Unrefunded(subs[n].sku))

\* Concurrent consumes never take more units than the plan includes.
UsedWithinIncluded == \A n \in Rows : subs[n].used <= subs[n].included

\* A webhook that is late, repeated or raced never moves a row back to an
\* earlier period.  (Of two plan changes that overlap, the later write can.)
PeriodNeverMovesBack ==
    [][\A n \in Rows : subs'[n].period >= subs[n].period]_vars

\* A row never mixes two states of its Stripe item: plan, standing and period
\* are ones Stripe has reported together.  Plan changes that overlap break it,
\* so it is claimed for histories with one.
RowsComeFromStripe ==
    \A n \in Rows : \E s \in sent :
        /\ s.item = subs[n].item /\ s.sku = subs[n].sku
        /\ s.active = subs[n].active /\ s.period = subs[n].period

\* A row's usage falls only by one unit for a new refund event, or to zero for
\* the first reset of a period: duplicated and concurrent syncs of a renewal
\* give the organization its allowance once.
UsageFallsForCause ==
    [][\A n \in Rows : subs'[n].used < subs[n].used =>
          \/ subs'[n].used = subs[n].used - 1 /\ usageRefund' # usageRefund
          \/ subs'[n].used = 0 /\ periodGrants' # periodGrants]_vars
=============================================================================
