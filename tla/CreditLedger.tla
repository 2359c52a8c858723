---------------------------- MODULE CreditLedger ----------------------------
(***************************************************************************)
(* BillingCreditsService: the manual credits of one organization for one   *)
(* product.                                                                *)
(*                                                                         *)
(* A balance row exists per slot: one per SKU a grant was scoped to, and   *)
(* one for the product as a whole.  Each call is a sequence of database    *)
(* statements; a statement, or a transaction, is one step, and the calls   *)
(* of different API workers interleave between them.  The unique           *)
(* idempotency key of billing_credit_events is what makes a repeated call  *)
(* harmless: there is at most one consume and one refund event per         *)
(* resource and one event per grant key.                                   *)
(***************************************************************************)
EXTENDS Integers, FiniteSets

CONSTANTS
    Workers,        \* calls that can be in progress at once
    Slots,          \* the skuKeys a balance can be scoped to, and "product"
    Resources,      \* sourceResourceIds
    Grants,         \* idempotency keys of grants
    GrantSlot,      \* GrantSlot[g]: the slot grant g goes to
    GrantQuantity,  \* GrantQuantity[g]: its quantity
    None            \* the absence of a slot, a resource or a grant

ASSUME GrantAssumption ==
    /\ GrantSlot \in [Grants -> Slots]
    /\ GrantQuantity \in [Grants -> Nat \ {0}]  \* validateCreditInput
ASSUME NoneAssumption == /\ None \notin Slots
                         /\ None \notin Resources
                         /\ None \notin Grants

VARIABLES
    balances,       \* balances[s]: the row of slot s, or NoBalance
    consumeEvent,   \* consumeEvent[r]: the slot charged for r, or None
    refundEvent,    \* the resources with a refund event
    grantEvent,     \* the grants with a grant event
    call            \* call[w]: the call worker w is in

ledger == <<balances, consumeEvent, refundEvent, grantEvent>>
vars == <<ledger, call>>

-----------------------------------------------------------------------------
NoBalance == [exists |-> FALSE, createdAt |-> 0, balance |-> 0,
              totalGranted |-> 0, totalConsumed |-> 0, totalRefunded |-> 0]

\* What a call carries: its argument, the available balances tryConsume has
\* still to try, and the slot a refund or a grant writes to.
Idle == [pc |-> "idle", resource |-> None, grant |-> None,
         todo |-> {}, slot |-> None, status |-> "none"]

Existing == {s \in Slots : balances[s].exists}
Positive == {s \in Slots : balances[s].balance > 0}

Init ==
    /\ balances = [s \in Slots |-> NoBalance]
    /\ consumeEvent = [r \in Resources |-> None]
    /\ refundEvent = {}
    /\ grantEvent = {}
    /\ call = [w \in Workers |-> Idle]

Call(w, c) ==
    /\ call[w].pc = "idle"
    /\ call' = [call EXCEPT ![w] = c]
    /\ UNCHANGED ledger

Goto(w, pc) == call' = [call EXCEPT ![w].pc = pc]
Done(w, status) == call' = [call EXCEPT ![w].pc = "done", ![w].status = status]

-----------------------------------------------------------------------------
(* tryConsumeForProduct                                                    *)

CallConsume(w, r) == Call(w, [Idle EXCEPT !.pc = "findConsume", !.resource = r])

FindConsume(w) ==
    /\ call[w].pc = "findConsume"
    /\ IF consumeEvent[call[w].resource] # None
         THEN Done(w, "consumed")
         ELSE Goto(w, "findBalances")
    /\ UNCHANGED ledger

FindBalances(w) ==
    /\ call[w].pc = "findBalances"
    /\ CASE Existing = {} -> Done(w, "not_configured")
         [] Existing # {} /\ Positive = {} -> Done(w, "exhausted")
         [] OTHER -> call' = [call EXCEPT ![w].pc = "spend", ![w].todo = Positive]
    /\ UNCHANGED ledger

\* The loop takes the available balances in the order they were created.
Oldest(S) == {s \in S : \A t \in S : balances[s].createdAt <= balances[t].createdAt}

\* Mutant: a drained balance ends the loop instead of its turn.
SpendDrained_giveUp(w) ==
    /\ call[w].pc = "spend"
    /\ \E s \in Oldest(call[w].todo) : balances[s].balance = 0
    /\ call' = [call EXCEPT ![w].todo = {}]
    /\ UNCHANGED ledger

\* updateMany finds no row with balance > 0: another call drained it.
SpendDrained(w) ==
    /\ call[w].pc = "spend"
    /\ \E s \in Oldest(call[w].todo) :
         /\ balances[s].balance = 0
         /\ call' = [call EXCEPT ![w].todo = @ \ {s}]
    /\ UNCHANGED ledger

\* The event meets the unique key: the decrement is rolled back with it.
SpendDuplicate(w) ==
    /\ call[w].pc = "spend"
    /\ \E s \in Oldest(call[w].todo) : balances[s].balance > 0
    /\ consumeEvent[call[w].resource] # None
    /\ Done(w, "consumed")
    /\ UNCHANGED ledger

\* Mutant: the decrement is not guarded by a positive balance.
Spend_unguarded(w) ==
    /\ call[w].pc = "spend"
    /\ consumeEvent[call[w].resource] = None
    /\ \E s \in Oldest(call[w].todo) :
         /\ balances' = [balances EXCEPT ![s].balance = @ - 1,
                                         ![s].totalConsumed = @ + 1]
         /\ consumeEvent' = [consumeEvent EXCEPT ![call[w].resource] = s]
    /\ Done(w, "consumed")
    /\ UNCHANGED <<refundEvent, grantEvent>>

\* Mutant: the event has no unique key, so a resource is charged again.
Spend_keyless(w) ==
    /\ call[w].pc = "spend"
    /\ \E s \in Oldest(call[w].todo) :
         /\ balances[s].balance > 0
         /\ balances' = [balances EXCEPT ![s].balance = @ - 1,
                                         ![s].totalConsumed = @ + 1]
         /\ consumeEvent' = [consumeEvent EXCEPT ![call[w].resource] = s]
    /\ Done(w, "consumed")
    /\ UNCHANGED <<refundEvent, grantEvent>>

Spend(w) ==
    /\ call[w].pc = "spend"
    /\ consumeEvent[call[w].resource] = None
    /\ \E s \in Oldest(call[w].todo) :
         /\ balances[s].balance > 0
         /\ balances' = [balances EXCEPT ![s].balance = @ - 1,
                                         ![s].totalConsumed = @ + 1]
         /\ consumeEvent' = [consumeEvent EXCEPT ![call[w].resource] = s]
    /\ Done(w, "consumed")
    /\ UNCHANGED <<refundEvent, grantEvent>>

\* Mutant: the end of the loop is taken for a success.
SpendExhausted_consumed(w) ==
    /\ call[w].pc = "spend"
    /\ call[w].todo = {}
    /\ Done(w, "consumed")
    /\ UNCHANGED ledger

SpendExhausted(w) ==
    /\ call[w].pc = "spend"
    /\ call[w].todo = {}
    /\ Done(w, "exhausted")
    /\ UNCHANGED ledger

-----------------------------------------------------------------------------
(* refundForProduct                                                        *)

CallRefund(w, r) == Call(w, [Idle EXCEPT !.pc = "findConsumed", !.resource = r])

FindConsumed(w) ==
    LET s == consumeEvent[call[w].resource] IN
    /\ call[w].pc = "findConsumed"
    /\ IF s = None
         THEN Done(w, "nothingToRefund")
         ELSE call' = [call EXCEPT ![w].pc = "writeRefund", ![w].slot = s]
    /\ UNCHANGED ledger

\* Mutant: a refund that is already on the ledger moves the unit again.
WriteRefund_repeated(w) ==
    LET s == call[w].slot IN
    /\ call[w].pc = "writeRefund"
    /\ refundEvent' = refundEvent \cup {call[w].resource}
    /\ balances' = [balances EXCEPT ![s].balance = @ + 1,
                                    ![s].totalRefunded = @ + 1,
                                    ![s].totalConsumed = @ - 1]
    /\ Done(w, "refunded")
    /\ UNCHANGED <<consumeEvent, grantEvent>>

WriteRefund(w) ==
    LET r == call[w].resource
        s == call[w].slot IN
    /\ call[w].pc = "writeRefund"
    /\ IF r \in refundEvent
         THEN UNCHANGED <<balances, refundEvent>>
         ELSE /\ refundEvent' = refundEvent \cup {r}
              /\ balances' = [balances EXCEPT ![s].balance = @ + 1,
                                              ![s].totalRefunded = @ + 1,
                                              ![s].totalConsumed = @ - 1]
    /\ Done(w, "refunded")
    /\ UNCHANGED <<consumeEvent, grantEvent>>

-----------------------------------------------------------------------------
(* grant                                                                   *)

CallGrant(w, g) ==
    Call(w, [Idle EXCEPT !.pc = "findBalance", !.grant = g, !.slot = GrantSlot[g]])

FindBalance(w) ==
    /\ call[w].pc = "findBalance"
    /\ IF balances[call[w].slot].exists
         THEN Goto(w, "writeGrant")
         ELSE Goto(w, "createBalance")
    /\ UNCHANGED ledger

\* The insert, or the unique constraint and the row a concurrent grant made.
CreateBalance(w) ==
    LET s == call[w].slot IN
    /\ call[w].pc = "createBalance"
    /\ balances' = IF balances[s].exists THEN balances
                   ELSE [balances EXCEPT
                            ![s].exists = TRUE,
                            ![s].createdAt = Cardinality(Existing)]
    /\ Goto(w, "writeGrant")
    /\ UNCHANGED <<consumeEvent, refundEvent, grantEvent>>

\* Mutant: a grant that is already on the ledger adds its quantity again.
WriteGrant_repeated(w) ==
    LET g == call[w].grant IN
    /\ call[w].pc = "writeGrant"
    /\ grantEvent' = grantEvent \cup {g}
    /\ balances' = [balances EXCEPT ![call[w].slot].balance = @ + GrantQuantity[g],
                                    ![call[w].slot].totalGranted = @ + GrantQuantity[g]]
    /\ Done(w, "granted")
    /\ UNCHANGED <<consumeEvent, refundEvent>>

WriteGrant(w) ==
    LET g == call[w].grant
        s == call[w].slot IN
    /\ call[w].pc = "writeGrant"
    /\ IF g \in grantEvent
         THEN UNCHANGED <<balances, grantEvent>>
         ELSE /\ grantEvent' = grantEvent \cup {g}
              /\ balances' = [balances EXCEPT ![s].balance = @ + GrantQuantity[g],
                                              ![s].totalGranted = @ + GrantQuantity[g]]
    /\ Done(w, "granted")
    /\ UNCHANGED <<consumeEvent, refundEvent>>

-----------------------------------------------------------------------------
Return(w) ==
    /\ call[w].pc = "done"
    /\ call' = [call EXCEPT ![w] = Idle]
    /\ UNCHANGED ledger

\* The worker dies between two statements; what is committed stays.
Crash(w) ==
    /\ call[w].pc \notin {"idle", "done"}
    /\ call' = [call EXCEPT ![w] = Idle]
    /\ UNCHANGED ledger

ConsumeStep(w) == \/ FindConsume(w) \/ FindBalances(w) \/ SpendDrained(w)
                  \/ SpendDuplicate(w) \/ Spend(w) \/ SpendExhausted(w)
RefundStep(w) == FindConsumed(w) \/ WriteRefund(w)
GrantStep(w) == FindBalance(w) \/ CreateBalance(w) \/ WriteGrant(w)

CreditStep(w) == ConsumeStep(w) \/ RefundStep(w) \/ GrantStep(w)

Step(w) ==
    \/ \E r \in Resources : CallConsume(w, r) \/ CallRefund(w, r)
    \/ \E g \in Grants : CallGrant(w, g)
    \/ CreditStep(w)
    \/ Return(w)
    \/ Crash(w)

Next == \E w \in Workers : Step(w)

Spec == Init /\ [][Next]_vars

-----------------------------------------------------------------------------
Balance == [exists : BOOLEAN, createdAt : Nat, balance : Nat,
            totalGranted : Nat, totalConsumed : Nat, totalRefunded : Nat]

Pcs == {"idle", "findConsume", "findBalances", "spend", "findConsumed",
        "writeRefund", "findBalance", "createBalance", "writeGrant", "done"}
Statuses == {"none", "consumed", "not_configured", "exhausted",
             "nothingToRefund", "refunded", "granted"}
CallState == [pc : Pcs, resource : Resources \cup {None}, grant : Grants \cup {None},
              todo : SUBSET Slots, slot : Slots \cup {None}, status : Statuses]

\* Balances, totals and the ledger's events have their types; in particular no
\* balance and no total is ever negative, which the migration also checks.
TypeOK ==
    /\ balances \in [Slots -> Balance]
    /\ consumeEvent \in [Resources -> Slots \cup {None}]
    /\ refundEvent \in SUBSET Resources
    /\ grantEvent \in SUBSET Grants
    /\ call \in [Workers -> CallState]

ConsumedFrom(s) == {r \in Resources : consumeEvent[r] = s}
RefundedTo(s) == ConsumedFrom(s) \cap refundEvent
Held(s) == ConsumedFrom(s) \ refundEvent

\* Conservation: at every moment, the running totals of a balance are exactly
\* what its event ledger says, and what is left is what was granted less the
\* units resources hold.  No interleaving of consumes, refunds and grants, and
\* no crash, loses or mints a credit.
Conserved(s) ==
    /\ balances[s].totalConsumed = Cardinality(Held(s))
    /\ balances[s].totalRefunded = Cardinality(RefundedTo(s))
    /\ balances[s].balance = balances[s].totalGranted - balances[s].totalConsumed

CreditsAreConserved == \A s \in Slots : Conserved(s)

\* The credits granted to a slot, one by one: the quantity of each grant whose
\* event is recorded.
GrantUnits(g) == {g} \X (1 .. GrantQuantity[g])
Granted(s) == UNION {GrantUnits(g) : g \in {h \in grantEvent : GrantSlot[h] = s}}

\* Every balance was granted what the grants recorded for its slot add up to:
\* a repeated or a concurrent grant with the same key adds nothing, and a grant
\* that dies before its event is recorded has added nothing either.
GrantsAddUp ==
    \A s \in Slots : balances[s].totalGranted = Cardinality(Granted(s))

\* A refund event exists only for a resource that was charged.
RefundsFollowCharges == \A r \in refundEvent : consumeEvent[r] # None

\* A caller told "consumed" has a consume event on the ledger.
ConsumedIsRecorded ==
    \A w \in Workers :
        call[w].status = "consumed" => consumeEvent[call[w].resource] # None

\* The ledger refines the atomic allowance: one charge and one refund at most
\* per resource, each moving exactly one unit.
Abstract == INSTANCE Allowance WITH
    Accounts <- Slots,
    units <- [s \in Slots |-> balances[s].balance],
    charged <- consumeEvent,
    refunded <- refundEvent
ImplementsAllowance == Abstract!Spec
=============================================================================
