------------------------- MODULE CreditLedger_proofs -------------------------
(***************************************************************************)
(* Proofs about CreditLedger: its type invariant, the conservation of      *)
(* credits, that it implements Allowance, and that it refuses no call it   *)
(* could have paid for, for any set of workers, slots, resources, grants.  *)
(***************************************************************************)
EXTENDS CreditLedgerHistory, FiniteSetTheorems, TLAPS

Consumed == {r \in Resources : consumeEvent[r] # None}

\* What a call in progress carries, and what it relies on between two of its
\* statements.
CallOK(w) ==
    /\ call[w].pc \in {"findConsume", "findBalances", "spend", "findConsumed",
                       "writeRefund"} => call[w].resource \in Resources
    /\ call[w].pc = "writeRefund" =>
          call[w].slot \in Slots /\ call[w].slot = consumeEvent[call[w].resource]
    /\ call[w].pc \in {"findBalance", "createBalance", "writeGrant"} =>
          call[w].grant \in Grants /\ call[w].slot \in Slots
    /\ call[w].status = "consumed" => call[w].resource \in Consumed

\* The inductive invariant.
LedgerInv ==
    /\ TypeOK
    /\ IsFiniteSet(Existing)
    /\ IsFiniteSet(Consumed)
    /\ CreditsAreConserved
    /\ RefundsFollowCharges
    /\ \A w \in Workers : CallOK(w)

-----------------------------------------------------------------------------
(* The sets the totals count.                                              *)

\* One more consume event for r on slot s adds r to what s holds and to nothing
\* else.
LEMMA ChargeCounts ==
    ASSUME TypeOK, IsFiniteSet(Consumed), RefundsFollowCharges,
           NEW r \in Resources, NEW s \in Slots,
           consumeEvent[r] = None,
           consumeEvent' = [consumeEvent EXCEPT ![r] = s],
           refundEvent' = refundEvent
    PROVE  /\ IsFiniteSet(Consumed')
           /\ \A t \in Slots :
                 /\ Cardinality(Held(t))' =
                       IF t = s THEN Cardinality(Held(t)) + 1 ELSE Cardinality(Held(t))
                 /\ RefundedTo(t)' = RefundedTo(t)
PROOF
<1>1. Consumed' = Consumed \cup {r}
  BY NoneAssumption DEF TypeOK, Consumed
<1>2. r \notin refundEvent
  BY DEF RefundsFollowCharges
<1>3. ASSUME NEW t \in Slots
      PROVE  /\ Cardinality(Held(t))' =
                   IF t = s THEN Cardinality(Held(t)) + 1 ELSE Cardinality(Held(t))
             /\ RefundedTo(t)' = RefundedTo(t)
  <2>1. /\ r \notin Held(t)
        /\ Held(t)' = IF t = s THEN Held(t) \cup {r} ELSE Held(t)
        /\ RefundedTo(t)' = RefundedTo(t)
    BY <1>2, NoneAssumption DEF TypeOK, Held, RefundedTo, ConsumedFrom
  <2>2. IsFiniteSet(Held(t))
    BY FS_Subset, NoneAssumption DEF Held, ConsumedFrom, Consumed
  <2> QED
    BY <2>1, <2>2, FS_AddElement
<1> QED
  BY <1>1, <1>3, FS_AddElement

\* A refund event for r moves r from what its slot holds to what went back to it.
LEMMA RefundCounts ==
    ASSUME TypeOK, IsFiniteSet(Consumed),
           NEW r \in Resources, NEW s \in Slots,
           consumeEvent[r] = s, r \notin refundEvent,
           refundEvent' = refundEvent \cup {r},
           consumeEvent' = consumeEvent
    PROVE  \A t \in Slots :
              /\ Cardinality(Held(t))' =
                    IF t = s THEN Cardinality(Held(t)) - 1 ELSE Cardinality(Held(t))
              /\ Cardinality(RefundedTo(t))' =
                    IF t = s THEN Cardinality(RefundedTo(t)) + 1
                             ELSE Cardinality(RefundedTo(t))
PROOF
<1> SUFFICES ASSUME NEW t \in Slots
             PROVE  /\ Cardinality(Held(t))' =
                          IF t = s THEN Cardinality(Held(t)) - 1 ELSE Cardinality(Held(t))
                    /\ Cardinality(RefundedTo(t))' =
                          IF t = s THEN Cardinality(RefundedTo(t)) + 1
                                   ELSE Cardinality(RefundedTo(t))
  OBVIOUS
<1>1. /\ Held(t)' = IF t = s THEN Held(t) \ {r} ELSE Held(t)
      /\ RefundedTo(t)' = IF t = s THEN RefundedTo(t) \cup {r} ELSE RefundedTo(t)
      /\ t = s => r \in Held(t) /\ r \notin RefundedTo(t)
  BY DEF TypeOK, Held, RefundedTo, ConsumedFrom
<1>2. IsFiniteSet(Held(t)) /\ IsFiniteSet(RefundedTo(t))
  BY FS_Subset, NoneAssumption DEF Held, RefundedTo, ConsumedFrom, Consumed
<1> QED
  BY <1>1, <1>2, FS_AddElement, FS_RemoveElement

\* What a slot holds is counted by a natural number, positive if it holds a
\* resource.
LEMMA HeldCounts ==
    ASSUME IsFiniteSet(Consumed), NEW s \in Slots
    PROVE  /\ Cardinality(Held(s)) \in Nat
           /\ \A r \in Held(s) : Cardinality(Held(s)) > 0
PROOF
<1>1. IsFiniteSet(Held(s))
  BY FS_Subset, NoneAssumption DEF Held, ConsumedFrom, Consumed
<1> QED
  BY <1>1, FS_CardinalityType, FS_EmptySet

-----------------------------------------------------------------------------
(* Steps that leave the ledger alone.                                      *)

\* Such a step keeps the invariant if it keeps what calls carry.
LEMMA LedgerUnchanged ==
    ASSUME LedgerInv, UNCHANGED ledger,
           call' \in [Workers -> CallState],
           \A w \in Workers : CallOK(w)'
    PROVE  LedgerInv'
PROOF
  BY DEF LedgerInv, TypeOK, ledger, Existing, Consumed, CreditsAreConserved,
         Conserved, Held, RefundedTo, ConsumedFrom, RefundsFollowCharges

\* A step of worker w moves its call from one state to another, and no other.
CallMoves(w) == /\ call'[w] \in CallState
                /\ call' = [call EXCEPT ![w] = call'[w]]

\* The calls of other workers do not change, and what they rely on stays when
\* consume events are only added.
LEMMA OtherCalls ==
    ASSUME LedgerInv, NEW w \in Workers, CallMoves(w), CallOK(w)',
           consumeEvent' \in [Resources -> Slots \cup {None}],
           \A r \in Consumed : consumeEvent'[r] = consumeEvent[r]
    PROVE  /\ call' \in [Workers -> CallState]
           /\ \A v \in Workers : CallOK(v)'
PROOF
<1>1. call' \in [Workers -> CallState]
  BY DEF LedgerInv, TypeOK, CallMoves
<1>2. ASSUME NEW v \in Workers, v # w PROVE CallOK(v)'
  <2>1. call'[v] = call[v] /\ CallOK(v)
    BY <1>2 DEF LedgerInv, TypeOK, CallMoves
  <2> QED
    BY <2>1, NoneAssumption DEF CallOK, Consumed
<1> QED
  BY <1>1, <1>2

\* Hence a step that writes nothing, and leaves its call in a state that is true
\* of the ledger, keeps the invariant.
LEMMA ReadOnlyStep ==
    ASSUME LedgerInv, NEW w \in Workers, CallMoves(w), CallOK(w)', UNCHANGED ledger
    PROVE  LedgerInv'
PROOF
<1>1. /\ consumeEvent' \in [Resources -> Slots \cup {None}]
      /\ \A r \in Consumed : consumeEvent'[r] = consumeEvent[r]
  BY DEF ledger, LedgerInv, TypeOK
<1> QED
  BY <1>1, OtherCalls, LedgerUnchanged

-----------------------------------------------------------------------------
(* The steps that write nothing to the ledger.                             *)

\* What each action may take for granted of the call it moves.
LEMMA CallFacts ==
    ASSUME LedgerInv, NEW w \in Workers
    PROVE  /\ call \in [Workers -> CallState]
           /\ call[w] \in CallState
           /\ CallOK(w)
PROOF
  BY DEF LedgerInv, TypeOK

LEMMA CallsKeepInv ==
    ASSUME LedgerInv, NEW w \in Workers,
           \/ \E r \in Resources : CallConsume(w, r) \/ CallRefund(w, r)
           \/ \E g \in Grants : CallGrant(w, g)
           \/ Return(w)
           \/ Crash(w)
    PROVE  LedgerInv'
PROOF
<1>0. call \in [Workers -> CallState] /\ call[w] \in CallState /\ CallOK(w)
  BY CallFacts
<1> USE <1>0 DEF CallMoves, CallState, Pcs, Statuses
<1>1. UNCHANGED ledger
  BY DEF CallConsume, CallRefund, CallGrant, Call, Return, Crash
<1>2. CallMoves(w) /\ CallOK(w)'
  <2>1. ASSUME NEW r \in Resources, CallConsume(w, r) \/ CallRefund(w, r)
        PROVE  CallMoves(w) /\ CallOK(w)'
    <3>1. CASE CallConsume(w, r)
      BY <3>1 DEF CallConsume, Call, Idle, CallOK
    <3>2. CASE CallRefund(w, r)
      BY <3>2 DEF CallRefund, Call, Idle, CallOK
    <3> QED
      BY <2>1, <3>1, <3>2
  <2>2. ASSUME NEW g \in Grants, CallGrant(w, g)
        PROVE  CallMoves(w) /\ CallOK(w)'
    BY <2>2, GrantAssumption DEF CallGrant, Call, Idle, CallOK
  <2>3. ASSUME Return(w) \/ Crash(w)
        PROVE  CallMoves(w) /\ CallOK(w)'
    BY <2>3 DEF Return, Crash, Idle, CallOK
  <2> QED
    BY <2>1, <2>2, <2>3
<1> QED
  BY <1>1, <1>2, ReadOnlyStep

LEMMA ReadsKeepInv ==
    ASSUME LedgerInv, NEW w \in Workers,
           \/ FindConsume(w) \/ FindBalances(w) \/ SpendDrained(w)
           \/ SpendDuplicate(w) \/ SpendExhausted(w)
           \/ FindConsumed(w) \/ FindBalance(w)
    PROVE  LedgerInv'
PROOF
<1>0. UNCHANGED ledger
  BY DEF FindConsume, FindBalances, SpendDrained, SpendDuplicate, SpendExhausted,
         FindConsumed, FindBalance
<1>1. call \in [Workers -> CallState] /\ call[w] \in CallState /\ CallOK(w)
  BY CallFacts
<1>2. CallMoves(w) /\ CallOK(w)'
  <2> USE <1>0, <1>1 DEF CallMoves, CallState, Pcs, Statuses, CallOK, ledger, Consumed
  <2>1. CASE FindConsume(w)
    BY <2>1 DEF FindConsume, Done, Goto
  <2>2. CASE FindBalances(w)
    BY <2>2 DEF FindBalances, Done, Positive
  <2>3. CASE SpendDrained(w)
    <3>1. PICK s : call' = [call EXCEPT ![w].todo = @ \ {s}]
      BY <2>3 DEF SpendDrained
    <3> QED
      BY <2>3, <3>1 DEF SpendDrained
  <2>4. CASE SpendDuplicate(w)
    BY <2>4 DEF SpendDuplicate, Done
  <2>5. CASE SpendExhausted(w)
    BY <2>5 DEF SpendExhausted, Done
  <2>6. CASE FindConsumed(w)
    BY <2>6 DEF FindConsumed, Done, LedgerInv, TypeOK
  <2>7. CASE FindBalance(w)
    BY <2>7 DEF FindBalance, Goto
  <2> QED
    BY <2>1, <2>2, <2>3, <2>4, <2>5, <2>6, <2>7
<1> QED
  BY <1>0, <1>2, ReadOnlyStep

-----------------------------------------------------------------------------
(* The steps that write to the ledger.                                     *)

LEMMA SpendKeepsInv ==
    ASSUME LedgerInv, NEW w \in Workers, Spend(w)
    PROVE  LedgerInv'
PROOF
<1> DEFINE r == call[w].resource
<1>1. call \in [Workers -> CallState] /\ call[w] \in CallState /\ CallOK(w)
  BY CallFacts
<1>2. r \in Resources /\ consumeEvent[r] = None
  BY <1>1 DEF Spend, CallOK
<1>3. PICK s \in Slots :
         /\ balances[s].balance > 0
         /\ balances' = [balances EXCEPT ![s].balance = @ - 1,
                                         ![s].totalConsumed = @ + 1]
         /\ consumeEvent' = [consumeEvent EXCEPT ![r] = s]
  BY <1>1 DEF Spend, Oldest, CallState
<1>4. UNCHANGED <<refundEvent, grantEvent>>
  BY DEF Spend
<1> HIDE DEF r
<1>5. /\ IsFiniteSet(Consumed')
      /\ \A t \in Slots :
            /\ Cardinality(Held(t))' =
                  IF t = s THEN Cardinality(Held(t)) + 1 ELSE Cardinality(Held(t))
            /\ RefundedTo(t)' = RefundedTo(t)
  BY <1>2, <1>3, <1>4, ChargeCounts DEF LedgerInv
<1>6. /\ balances' \in [Slots -> Balance]
      /\ \A t \in Slots :
            /\ balances'[t].exists = balances[t].exists
            /\ balances'[t].totalGranted = balances[t].totalGranted
            /\ balances'[t].totalRefunded = balances[t].totalRefunded
            /\ balances'[t].balance =
                  IF t = s THEN balances[t].balance - 1 ELSE balances[t].balance
            /\ balances'[t].totalConsumed =
                  IF t = s THEN balances[t].totalConsumed + 1
                           ELSE balances[t].totalConsumed
  BY <1>3 DEF LedgerInv, TypeOK, Balance
<1>7. consumeEvent' \in [Resources -> Slots \cup {None}]
  BY <1>2, <1>3 DEF LedgerInv, TypeOK
<1>8. CreditsAreConserved'
  <2> SUFFICES ASSUME NEW t \in Slots PROVE Conserved(t)'
    BY DEF CreditsAreConserved
  <2>1. Conserved(t) /\ balances[t] \in Balance
    BY DEF LedgerInv, TypeOK, CreditsAreConserved
  <2> QED
    BY <1>5, <1>6, <2>1 DEF Conserved, Balance
<1>9. RefundsFollowCharges' /\ IsFiniteSet(Existing)'
  BY <1>2, <1>3, <1>4, <1>6, NoneAssumption
     DEF LedgerInv, TypeOK, RefundsFollowCharges, Existing
<1>10. CallMoves(w) /\ CallOK(w)'
  BY <1>1, <1>2, <1>3, NoneAssumption
     DEF Spend, Done, CallMoves, CallOK, CallState, Pcs, Statuses, Consumed,
         LedgerInv, TypeOK, r
<1>11. \A q \in Consumed : consumeEvent'[q] = consumeEvent[q]
  BY <1>2, <1>3 DEF Consumed, LedgerInv, TypeOK
<1> QED
  BY <1>4, <1>5, <1>6, <1>7, <1>8, <1>9, <1>10, <1>11, OtherCalls DEF LedgerInv, TypeOK

LEMMA WriteRefundKeepsInv ==
    ASSUME LedgerInv, NEW w \in Workers, WriteRefund(w)
    PROVE  LedgerInv'
PROOF
<1> DEFINE r == call[w].resource
           s == call[w].slot
<1>1. call \in [Workers -> CallState] /\ call[w] \in CallState /\ CallOK(w)
  BY CallFacts
<1>2. r \in Resources /\ s \in Slots /\ consumeEvent[r] = s
  BY <1>1 DEF WriteRefund, CallOK
<1>3. UNCHANGED <<consumeEvent, grantEvent>>
  BY DEF WriteRefund
<1>4. CallMoves(w) /\ CallOK(w)'
  BY <1>1, <1>3 DEF WriteRefund, Done, CallMoves, CallOK, CallState, Pcs, Statuses, Consumed
<1>5. CASE r \in refundEvent
  BY <1>3, <1>4, <1>5, ReadOnlyStep DEF WriteRefund, ledger
<1>6. CASE r \notin refundEvent
  <2>1. /\ refundEvent' = refundEvent \cup {r}
        /\ balances' = [balances EXCEPT ![s].balance = @ + 1,
                                        ![s].totalRefunded = @ + 1,
                                        ![s].totalConsumed = @ - 1]
    BY <1>6 DEF WriteRefund
  <2> HIDE DEF r, s
  <2>2. \A t \in Slots :
           /\ Cardinality(Held(t))' =
                 IF t = s THEN Cardinality(Held(t)) - 1 ELSE Cardinality(Held(t))
           /\ Cardinality(RefundedTo(t))' =
                 IF t = s THEN Cardinality(RefundedTo(t)) + 1
                          ELSE Cardinality(RefundedTo(t))
    BY <1>2, <1>3, <1>6, <2>1, RefundCounts DEF LedgerInv
  <2>3. balances[s].totalConsumed > 0
    <3>1. r \in Held(s)
      BY <1>2, <1>6 DEF Held, ConsumedFrom
    <3> QED
      BY <1>2, <3>1, HeldCounts DEF LedgerInv, CreditsAreConserved, Conserved
  <2>4. /\ balances' \in [Slots -> Balance]
        /\ \A t \in Slots :
              /\ balances'[t].exists = balances[t].exists
              /\ balances'[t].totalGranted = balances[t].totalGranted
              /\ balances'[t].balance =
                    IF t = s THEN balances[t].balance + 1 ELSE balances[t].balance
              /\ balances'[t].totalRefunded =
                    IF t = s THEN balances[t].totalRefunded + 1
                             ELSE balances[t].totalRefunded
              /\ balances'[t].totalConsumed =
                    IF t = s THEN balances[t].totalConsumed - 1
                             ELSE balances[t].totalConsumed
    BY <1>2, <2>1, <2>3 DEF LedgerInv, TypeOK, Balance
  <2>5. CreditsAreConserved'
    <3> SUFFICES ASSUME NEW t \in Slots PROVE Conserved(t)'
      BY DEF CreditsAreConserved
    <3>1. Conserved(t) /\ balances[t] \in Balance
      BY DEF LedgerInv, TypeOK, CreditsAreConserved
    <3> QED
      BY <2>2, <2>4, <3>1 DEF Conserved, Balance
  <2>6. RefundsFollowCharges' /\ IsFiniteSet(Existing)' /\ IsFiniteSet(Consumed)'
    <3>1. RefundsFollowCharges'
      BY <1>2, <1>3, <2>1, NoneAssumption DEF LedgerInv, RefundsFollowCharges
    <3>2. Existing' = Existing /\ Consumed' = Consumed
      BY <1>3, <2>4 DEF Existing, Consumed
    <3> QED
      BY <3>1, <3>2 DEF LedgerInv
  <2>7. refundEvent' \in SUBSET Resources
    BY <1>2, <2>1 DEF LedgerInv, TypeOK
  <2>8. /\ consumeEvent' \in [Resources -> Slots \cup {None}]
        /\ \A q \in Consumed : consumeEvent'[q] = consumeEvent[q]
    BY <1>3 DEF LedgerInv, TypeOK
  <2> QED
    <3>1. call' \in [Workers -> CallState] /\ \A v \in Workers : CallOK(v)'
      BY <1>4, <2>8, OtherCalls
    <3>2. grantEvent' \in SUBSET Grants
      BY <1>3 DEF LedgerInv, TypeOK
    <3> QED
      BY <2>4, <2>5, <2>6, <2>7, <2>8, <3>1, <3>2 DEF LedgerInv, TypeOK
<1> QED
  BY <1>5, <1>6

LEMMA CreateBalanceKeepsInv ==
    ASSUME LedgerInv, NEW w \in Workers, CreateBalance(w)
    PROVE  LedgerInv'
PROOF
<1> DEFINE s == call[w].slot
<1>1. call \in [Workers -> CallState] /\ call[w] \in CallState /\ CallOK(w)
  BY CallFacts
<1>2. s \in Slots
  BY <1>1 DEF CreateBalance, CallOK
<1>3. UNCHANGED <<consumeEvent, refundEvent, grantEvent>>
  BY DEF CreateBalance
<1>4. CallMoves(w) /\ CallOK(w)'
  BY <1>1, <1>3 DEF CreateBalance, Goto, CallMoves, CallOK, CallState, Pcs, Statuses, Consumed
<1>5. CASE balances[s].exists
  BY <1>3, <1>4, <1>5, ReadOnlyStep DEF CreateBalance, ledger
<1>6. CASE ~ balances[s].exists
  <2>1. balances' = [balances EXCEPT ![s].exists = TRUE,
                                     ![s].createdAt = Cardinality(Existing)]
    BY <1>6 DEF CreateBalance
  <2>2. Cardinality(Existing) \in Nat
    BY FS_CardinalityType DEF LedgerInv
  <2> HIDE DEF s
  <2>3. /\ balances' \in [Slots -> Balance]
        /\ \A t \in Slots :
              /\ balances'[t].exists = (t = s \/ balances[t].exists)
              /\ balances'[t].balance = balances[t].balance
              /\ balances'[t].totalGranted = balances[t].totalGranted
              /\ balances'[t].totalRefunded = balances[t].totalRefunded
              /\ balances'[t].totalConsumed = balances[t].totalConsumed
    BY <1>2, <2>1, <2>2 DEF LedgerInv, TypeOK, Balance
  <2>4. IsFiniteSet(Existing)'
    <3>1. Existing' = Existing \cup {s}
      BY <1>2, <2>3 DEF Existing
    <3> QED
      BY <3>1, FS_AddElement DEF LedgerInv
  <2>5. CreditsAreConserved'
    BY <1>3, <2>3 DEF LedgerInv, CreditsAreConserved, Conserved, Held, RefundedTo, ConsumedFrom
  <2>6. RefundsFollowCharges' /\ IsFiniteSet(Consumed)'
    BY <1>3 DEF LedgerInv, RefundsFollowCharges, Consumed
  <2>7. /\ consumeEvent' \in [Resources -> Slots \cup {None}]
        /\ \A q \in Consumed : consumeEvent'[q] = consumeEvent[q]
        /\ refundEvent' \in SUBSET Resources
        /\ grantEvent' \in SUBSET Grants
    BY <1>3 DEF LedgerInv, TypeOK
  <2>8. call' \in [Workers -> CallState] /\ \A v \in Workers : CallOK(v)'
    BY <1>4, <2>7, OtherCalls
  <2> QED
    BY <2>3, <2>4, <2>5, <2>6, <2>7, <2>8 DEF LedgerInv, TypeOK
<1> QED
  BY <1>5, <1>6

LEMMA WriteGrantKeepsInv ==
    ASSUME LedgerInv, NEW w \in Workers, WriteGrant(w)
    PROVE  LedgerInv'
PROOF
<1> DEFINE g == call[w].grant
           s == call[w].slot
<1>1. call \in [Workers -> CallState] /\ call[w] \in CallState /\ CallOK(w)
  BY CallFacts
<1>2. g \in Grants /\ s \in Slots /\ GrantQuantity[g] \in Nat
  BY <1>1, GrantAssumption DEF WriteGrant, CallOK
<1>3. UNCHANGED <<consumeEvent, refundEvent>>
  BY DEF WriteGrant
<1>4. CallMoves(w) /\ CallOK(w)'
  BY <1>1, <1>3 DEF WriteGrant, Done, CallMoves, CallOK, CallState, Pcs, Statuses, Consumed
<1>5. CASE g \in grantEvent
  BY <1>3, <1>4, <1>5, ReadOnlyStep DEF WriteGrant, ledger
<1>6. CASE g \notin grantEvent
  <2>1. /\ grantEvent' = grantEvent \cup {g}
        /\ balances' = [balances EXCEPT ![s].balance = @ + GrantQuantity[g],
                                        ![s].totalGranted = @ + GrantQuantity[g]]
    BY <1>6 DEF WriteGrant
  <2> HIDE DEF g, s
  <2>2. /\ balances' \in [Slots -> Balance]
        /\ \A t \in Slots :
              /\ balances'[t].exists = balances[t].exists
              /\ balances'[t].totalRefunded = balances[t].totalRefunded
              /\ balances'[t].totalConsumed = balances[t].totalConsumed
              /\ balances'[t].balance =
                    IF t = s THEN balances[t].balance + GrantQuantity[g]
                             ELSE balances[t].balance
              /\ balances'[t].totalGranted =
                    IF t = s THEN balances[t].totalGranted + GrantQuantity[g]
                             ELSE balances[t].totalGranted
    <3>1. balances \in [Slots -> Balance]
      BY DEF LedgerInv, TypeOK
    <3> DEFINE q == GrantQuantity[g]
    <3>3. balances' = [balances EXCEPT ![s] =
                         [balances[s] EXCEPT !.balance = balances[s].balance + q,
                                             !.totalGranted = balances[s].totalGranted + q]]
      BY <1>2, <2>1, <3>1
    <3>4. q \in Nat /\ balances[s] \in Balance
      BY <1>2, <3>1
    <3> HIDE DEF q
    <3>5. [balances[s] EXCEPT !.balance = balances[s].balance + q,
                              !.totalGranted = balances[s].totalGranted + q] \in Balance
      <4>1. balances[s].balance + q \in Nat /\ balances[s].totalGranted + q \in Nat
        BY <3>4 DEF Balance
      <4>2. ASSUME NEW x \in Nat, NEW y \in Nat
            PROVE  [balances[s] EXCEPT !.balance = x, !.totalGranted = y] \in Balance
        BY <3>4 DEF Balance
      <4> QED
        BY <4>1, <4>2
    <3>6. balances' \in [Slots -> Balance]
      BY <1>2, <3>1, <3>3, <3>5
    <3>7. /\ balances[s] \in Balance
          /\ \A t \in Slots : t # s => balances'[t] = balances[t]
          /\ balances'[s] =
                [balances[s] EXCEPT !.balance = balances[s].balance + q,
                                    !.totalGranted = balances[s].totalGranted + q]
      BY <1>2, <3>1, <3>3
    <3>8. /\ balances'[s].exists = balances[s].exists
          /\ balances'[s].totalRefunded = balances[s].totalRefunded
          /\ balances'[s].totalConsumed = balances[s].totalConsumed
          /\ balances'[s].balance = balances[s].balance + q
          /\ balances'[s].totalGranted = balances[s].totalGranted + q
      BY <3>7 DEF Balance
    <3> QED
      BY <3>6, <3>7, <3>8 DEF q
  <2>3. CreditsAreConserved'
    <3> SUFFICES ASSUME NEW t \in Slots PROVE Conserved(t)'
      BY DEF CreditsAreConserved
    <3>1. Conserved(t) /\ balances[t] \in Balance
      BY DEF LedgerInv, TypeOK, CreditsAreConserved
    <3>2. Held(t)' = Held(t) /\ RefundedTo(t)' = RefundedTo(t)
      BY <1>3 DEF Held, RefundedTo, ConsumedFrom
    <3> QED
      BY <1>2, <2>2, <3>1, <3>2 DEF Conserved, Balance
  <2>4. RefundsFollowCharges' /\ IsFiniteSet(Existing)' /\ IsFiniteSet(Consumed)'
    BY <1>3, <2>2 DEF LedgerInv, RefundsFollowCharges, Existing, Consumed
  <2>5. /\ consumeEvent' \in [Resources -> Slots \cup {None}]
        /\ \A q \in Consumed : consumeEvent'[q] = consumeEvent[q]
        /\ refundEvent' \in SUBSET Resources
        /\ grantEvent' \in SUBSET Grants
    BY <1>2, <1>3, <2>1 DEF LedgerInv, TypeOK
  <2>6. call' \in [Workers -> CallState] /\ \A v \in Workers : CallOK(v)'
    BY <1>4, <2>5, OtherCalls
  <2> QED
    BY <2>2, <2>3, <2>4, <2>5, <2>6 DEF LedgerInv, TypeOK
<1> QED
  BY <1>5, <1>6

-----------------------------------------------------------------------------
(* The invariant and what follows from it.                                 *)

LEMMA InitEstablishesInv == Init => LedgerInv
PROOF
<1> SUFFICES ASSUME Init PROVE LedgerInv
  OBVIOUS
<1>1. TypeOK
  <2>1. NoBalance \in Balance
    BY DEF NoBalance, Balance
  <2>2. Idle \in CallState
    BY DEF Idle, CallState, Pcs, Statuses
  <2> QED
    BY <2>1, <2>2 DEF Init, TypeOK
<1>2. Existing = {} /\ Consumed = {}
  BY DEF Init, Existing, NoBalance, Consumed
<1>3. CreditsAreConserved
  <2>1. \A s \in Slots : Held(s) = {} /\ RefundedTo(s) = {}
    BY NoneAssumption DEF Init, Held, RefundedTo, ConsumedFrom
  <2>2. \A s \in Slots : /\ balances[s].totalConsumed = 0
                         /\ balances[s].totalRefunded = 0
                         /\ balances[s].totalGranted = 0
                         /\ balances[s].balance = 0
    BY DEF Init, NoBalance
  <2>3. Cardinality({}) = 0
    BY FS_EmptySet
  <2> QED
    BY <2>1, <2>2, <2>3 DEF CreditsAreConserved, Conserved
<1>4. RefundsFollowCharges
  BY DEF Init, RefundsFollowCharges
<1>5. \A w \in Workers : CallOK(w)
  BY DEF Init, CallOK, Idle
<1> QED
  BY <1>1, <1>2, <1>3, <1>4, <1>5, FS_EmptySet DEF LedgerInv

LEMMA NextKeepsInv == LedgerInv /\ [Next]_vars => LedgerInv'
PROOF
<1> SUFFICES ASSUME LedgerInv, [Next]_vars PROVE LedgerInv'
  OBVIOUS
<1>1. CASE UNCHANGED vars
  <2>1. TypeOK' /\ Existing' = Existing /\ Consumed' = Consumed
    BY <1>1 DEF vars, ledger, LedgerInv, TypeOK, Existing, Consumed
  <2>2. CreditsAreConserved' /\ RefundsFollowCharges'
    BY <1>1 DEF vars, ledger, LedgerInv, CreditsAreConserved, Conserved, Held, RefundedTo,
                ConsumedFrom, RefundsFollowCharges
  <2>3. ASSUME NEW w \in Workers PROVE CallOK(w)'
    <3>1. call' = call /\ consumeEvent' = consumeEvent /\ Consumed' = Consumed
      BY <1>1, <2>1 DEF vars, ledger
    <3>2. CallOK(w)
      BY DEF LedgerInv
    <3> QED
      BY <3>1, <3>2 DEF CallOK
  <2> QED
    BY <1>1, <2>1, <2>2, <2>3 DEF LedgerInv
<1>2. CASE Next
  <2>1. PICK w \in Workers : Step(w)
    BY <1>2 DEF Next
  <2>2. CASE \/ \E r \in Resources : CallConsume(w, r) \/ CallRefund(w, r)
             \/ \E g \in Grants : CallGrant(w, g)
             \/ Return(w)
             \/ Crash(w)
    BY <2>2, CallsKeepInv
  <2>3. CASE CreditStep(w)
    BY <2>3, ReadsKeepInv, SpendKeepsInv, WriteRefundKeepsInv, CreateBalanceKeepsInv,
       WriteGrantKeepsInv DEF CreditStep, ConsumeStep, RefundStep, GrantStep
  <2> QED
    BY <2>1, <2>2, <2>3 DEF Step
<1> QED
  BY <1>1, <1>2

\* Every variable keeps its type: in particular no balance and no total of a
\* BillingCreditBalance row is ever negative.
THEOREM LedgerTypes == Spec => []TypeOK
PROOF
<1>1. LedgerInv => TypeOK
  BY DEF LedgerInv
<1> QED
  BY <1>1, InitEstablishesInv, NextKeepsInv, PTL DEF Spec

\* Credits are conserved under any interleaving of tryConsumeForProduct,
\* refundForProduct and grant, and under crashes between their statements.
THEOREM LedgerConservesCredits == Spec => []CreditsAreConserved
PROOF
<1>1. LedgerInv => CreditsAreConserved
  BY DEF LedgerInv
<1> QED
  BY <1>1, InitEstablishesInv, NextKeepsInv, PTL DEF Spec

\* A refund event never exists without the consume event it gives back.
THEOREM LedgerRefundsFollowCharges == Spec => []RefundsFollowCharges
PROOF
<1>1. LedgerInv => RefundsFollowCharges
  BY DEF LedgerInv
<1> QED
  BY <1>1, InitEstablishesInv, NextKeepsInv, PTL DEF Spec

\* A caller of tryConsumeForProduct that is told "consumed" has its resource on
\* the ledger.
THEOREM LedgerConsumedIsRecorded == Spec => []ConsumedIsRecorded
PROOF
<1>1. LedgerInv => ConsumedIsRecorded
  BY DEF LedgerInv, ConsumedIsRecorded, CallOK, Consumed
<1> QED
  BY <1>1, InitEstablishesInv, NextKeepsInv, PTL DEF Spec

-----------------------------------------------------------------------------
(* Grants.                                                                 *)

\* A grant is written to the slot its key names.
Granting == {"findBalance", "createBalance", "writeGrant"}
GrantSlotOK(w) == call[w].pc \in Granting => call[w].slot = GrantSlot[call[w].grant]

GrantInv ==
    /\ \A s \in Slots : IsFiniteSet(Granted(s))
    /\ GrantsAddUp
    /\ \A w \in Workers : GrantSlotOK(w)

\* A grant counts for its quantity, once.
LEMMA GrantCounts ==
    ASSUME TypeOK, NEW g \in Grants, g \notin grantEvent,
           grantEvent' = grantEvent \cup {g},
           \A s \in Slots : IsFiniteSet(Granted(s)),
           NEW s \in Slots
    PROVE  /\ IsFiniteSet(Granted(s)')
           /\ Cardinality(Granted(s))' =
                 IF s = GrantSlot[g] THEN Cardinality(Granted(s)) + GrantQuantity[g]
                                     ELSE Cardinality(Granted(s))
PROOF
<1>1. CASE s # GrantSlot[g]
  <2>1. {h \in grantEvent' : GrantSlot[h] = s} = {h \in grantEvent : GrantSlot[h] = s}
    BY <1>1
  <2>2. Granted(s)' = Granted(s)
    BY <2>1 DEF Granted
  <2> QED
    BY <1>1, <2>2
<1>2. CASE s = GrantSlot[g]
  <2>1. Granted(s)' = Granted(s) \cup GrantUnits(g)
    <3>1. {h \in grantEvent' : GrantSlot[h] = s}
             = {h \in grantEvent : GrantSlot[h] = s} \cup {g}
      BY <1>2
    <3> QED
      BY <3>1 DEF Granted
  <2>2. Granted(s) \cap GrantUnits(g) = {}
    <3>1. ASSUME NEW u \in Granted(s), u \in GrantUnits(g) PROVE FALSE
      <4>1. PICK h \in grantEvent : u \in GrantUnits(h)
        BY <3>1 DEF Granted
      <4>2. u[1] = h /\ u[1] = g
        BY <3>1, <4>1 DEF GrantUnits
      <4> QED
        BY <4>1, <4>2
    <3> QED
      BY <3>1
  <2>3. IsFiniteSet(GrantUnits(g)) /\ Cardinality(GrantUnits(g)) = GrantQuantity[g]
    <3>1. GrantQuantity[g] \in Nat
      BY GrantAssumption
    <3>2. /\ IsFiniteSet(1 .. GrantQuantity[g])
          /\ Cardinality(1 .. GrantQuantity[g]) = GrantQuantity[g]
      BY <3>1, FS_Interval
    <3>3. IsFiniteSet({g}) /\ Cardinality({g}) = 1
      BY FS_Singleton
    <3> DEFINE range == 1 .. GrantQuantity[g]
    <3> HIDE DEF range
    <3>4. /\ IsFiniteSet({g} \X range)
          /\ Cardinality({g} \X range) = Cardinality({g}) * Cardinality(range)
      BY <3>2, <3>3, FS_Product DEF range
    <3> QED
      BY <3>1, <3>2, <3>3, <3>4 DEF GrantUnits, range
  <2>4. /\ IsFiniteSet(Granted(s) \cup GrantUnits(g))
        /\ Cardinality(Granted(s) \cup GrantUnits(g)) =
              Cardinality(Granted(s)) + Cardinality(GrantUnits(g))
              - Cardinality({})
    BY <2>2, <2>3, FS_Union
  <2>5. Cardinality(Granted(s)) \in Nat /\ GrantQuantity[g] \in Nat
    BY FS_CardinalityType, GrantAssumption
  <2> QED
    BY <1>2, <2>1, <2>3, <2>4, <2>5, FS_EmptySet
<1> QED
  BY <1>1, <1>2

\* A step that records no grant grants nothing.
LEMMA GrantsStay ==
    ASSUME GrantInv, grantEvent' = grantEvent,
           \A s \in Slots : balances'[s].totalGranted = balances[s].totalGranted
    PROVE  /\ \A s \in Slots : IsFiniteSet(Granted(s)')
           /\ GrantsAddUp'
PROOF
<1>1. \A s \in Slots : Granted(s)' = Granted(s)
  BY DEF Granted
<1> QED
  BY <1>1 DEF GrantInv, GrantsAddUp

\* The worker of a step keeps to the slot of its grant.
LEMMA GrantSlotsStay ==
    ASSUME LedgerInv, \A v \in Workers : GrantSlotOK(v), NEW w \in Workers, Step(w)
    PROVE  \A v \in Workers : GrantSlotOK(v)'
PROOF
<1>1. call \in [Workers -> CallState] /\ call[w] \in CallState /\ GrantSlotOK(w)
  BY CallFacts
<1>2. \A v \in Workers : v # w => call'[v] = call[v]
  BY <1>1 DEF Step, CallConsume, CallRefund, CallGrant, Call, CreditStep, ConsumeStep,
              RefundStep, GrantStep, FindConsume, FindBalances, SpendDrained,
              SpendDuplicate, Spend, SpendExhausted, FindConsumed, WriteRefund,
              FindBalance, CreateBalance, WriteGrant, Return, Crash, Done, Goto
<1>3. GrantSlotOK(w)'
  <2> USE <1>1 DEF GrantSlotOK, Granting
  <2>1. ASSUME NEW r \in Resources, CallConsume(w, r) \/ CallRefund(w, r)
        PROVE  GrantSlotOK(w)'
    BY <2>1 DEF CallConsume, CallRefund, Call, Idle
  <2>2. ASSUME NEW g \in Grants, CallGrant(w, g)
        PROVE  GrantSlotOK(w)'
    <3>1. /\ call'[w] = [Idle EXCEPT !.pc = "findBalance", !.grant = g,
                                     !.slot = GrantSlot[g]]
      BY <2>2 DEF CallGrant, Call
    <3> QED
      BY <3>1 DEF Idle
  <2>3. CASE ConsumeStep(w)
    <3>1. call'[w].pc \notin Granting
      <4>1. CASE FindConsume(w)
        BY <4>1 DEF FindConsume, Done, Goto, CallState
      <4>2. CASE FindBalances(w)
        BY <4>2 DEF FindBalances, Done, CallState
      <4>3. CASE SpendDrained(w)
        BY <4>3 DEF SpendDrained, CallState
      <4>4. CASE SpendDuplicate(w) \/ Spend(w) \/ SpendExhausted(w)
        BY <4>4 DEF SpendDuplicate, Spend, SpendExhausted, Done, CallState
      <4> QED
        BY <2>3, <4>1, <4>2, <4>3, <4>4 DEF ConsumeStep
    <3> QED
      BY <3>1
  <2>4. CASE RefundStep(w)
    <3>1. call'[w].pc \notin Granting
      BY <2>4 DEF RefundStep, FindConsumed, WriteRefund, Done, CallState
    <3> QED
      BY <3>1
  <2>5. CASE GrantStep(w)
    <3>1. CASE FindBalance(w) \/ CreateBalance(w)
      <4>1. /\ call[w].pc \in Granting
            /\ call'[w].slot = call[w].slot /\ call'[w].grant = call[w].grant
        BY <3>1 DEF FindBalance, CreateBalance, Goto, CallState
      <4> QED
        BY <4>1
    <3>2. CASE WriteGrant(w)
      <4>1. call'[w].pc = "done"
        BY <3>2 DEF WriteGrant, Done, CallState
      <4> QED
        BY <4>1
    <3> QED
      BY <2>5, <3>1, <3>2 DEF GrantStep
  <2>6. CASE Return(w) \/ Crash(w)
    <3>1. call'[w] = Idle
      BY <2>6 DEF Return, Crash
    <3> QED
      BY <3>1 DEF Idle
  <2> QED
    BY <2>1, <2>2, <2>3, <2>4, <2>5, <2>6 DEF Step, CreditStep
<1> QED
  BY <1>2, <1>3 DEF GrantSlotOK

\* Only the transaction of a grant moves totalGranted.
LEMMA OthersGrantNothing ==
    ASSUME LedgerInv, NEW w \in Workers, Step(w), ~WriteGrant(w)
    PROVE  /\ grantEvent' = grantEvent
           /\ \A s \in Slots : balances'[s].totalGranted = balances[s].totalGranted
PROOF
<1>1. balances \in [Slots -> Balance]
  BY DEF LedgerInv, TypeOK
<1>2. CASE UNCHANGED ledger
  BY <1>2 DEF ledger
<1>3. CASE Spend(w)
  <2>1. PICK s : balances' = [balances EXCEPT ![s].balance = @ - 1,
                                              ![s].totalConsumed = @ + 1]
    BY <1>3 DEF Spend
  <2> QED
    BY <1>1, <1>3, <2>1 DEF Spend, Balance
<1>4. CASE WriteRefund(w)
  <2>1. CASE balances' = balances
    BY <1>4, <2>1 DEF WriteRefund
  <2>2. CASE balances' # balances
    <3>1. PICK s : balances' = [balances EXCEPT ![s].balance = @ + 1,
                                                ![s].totalRefunded = @ + 1,
                                                ![s].totalConsumed = @ - 1]
      BY <1>4, <2>2 DEF WriteRefund
    <3> QED
      BY <1>1, <1>4, <3>1 DEF WriteRefund, Balance
  <2> QED
    BY <2>1, <2>2
<1>5. CASE CreateBalance(w)
  BY <1>1, <1>5 DEF CreateBalance, Balance
<1> QED
  BY <1>2, <1>3, <1>4, <1>5
     DEF Step, CallConsume, CallRefund, CallGrant, Call, CreditStep, ConsumeStep,
         RefundStep, GrantStep, FindConsume, FindBalances, SpendDrained, SpendDuplicate,
         SpendExhausted, FindConsumed, FindBalance, Return, Crash

LEMMA WriteGrantAddsUp ==
    ASSUME LedgerInv, GrantInv, NEW w \in Workers, WriteGrant(w)
    PROVE  (\A s \in Slots : IsFiniteSet(Granted(s)')) /\ GrantsAddUp'
PROOF
<1> DEFINE g == call[w].grant
           q == GrantQuantity[g]
<1>1. g \in Grants /\ call[w].slot = GrantSlot[g] /\ GrantSlot[g] \in Slots /\ q \in Nat
  BY CallFacts, GrantAssumption DEF WriteGrant, CallOK, GrantInv, GrantSlotOK, Granting
<1>2. CASE g \in grantEvent
  BY <1>2, GrantsStay DEF WriteGrant
<1>3. CASE g \notin grantEvent
  <2>1. /\ grantEvent' = grantEvent \cup {g}
        /\ balances' = [balances EXCEPT ![GrantSlot[g]].balance = @ + q,
                                        ![GrantSlot[g]].totalGranted = @ + q]
    BY <1>1, <1>3 DEF WriteGrant
  <2> HIDE DEF g, q
  <2>2. ASSUME NEW s \in Slots
        PROVE  balances'[s].totalGranted =
                 IF s = GrantSlot[g] THEN balances[s].totalGranted + q
                                     ELSE balances[s].totalGranted
    <3>1. balances \in [Slots -> Balance] /\ balances[s] \in Balance
      BY DEF LedgerInv, TypeOK
    <3> QED
      BY <1>1, <2>1, <3>1 DEF Balance
  <2>3. ASSUME NEW s \in Slots
        PROVE  /\ IsFiniteSet(Granted(s)')
               /\ Cardinality(Granted(s))' =
                     IF s = GrantSlot[g] THEN Cardinality(Granted(s)) + q
                                         ELSE Cardinality(Granted(s))
    BY <1>1, <1>3, <2>1, GrantCounts DEF LedgerInv, GrantInv, q
  <2> QED
    BY <2>2, <2>3 DEF GrantInv, GrantsAddUp
<1> QED
  BY <1>2, <1>3

\* The total granted of every BillingCreditBalance row is the sum of the quantities
\* of the grant events recorded for its slot, whatever the grants that are
\* repeated, concurrent or cut short by a crash.
THEOREM LedgerGrantsAddUp == Spec => []GrantsAddUp
PROOF
<1>1. Init => GrantInv
  <2> SUFFICES ASSUME Init PROVE GrantInv
    OBVIOUS
  <2>1. \A s \in Slots : Granted(s) = {} /\ balances[s].totalGranted = 0
    BY DEF Init, Granted, NoBalance
  <2>2. \A w \in Workers : GrantSlotOK(w)
    BY DEF Init, GrantSlotOK, Granting, Idle
  <2> QED
    BY <2>1, <2>2, FS_EmptySet DEF GrantInv, GrantsAddUp
<1>2. LedgerInv /\ GrantInv /\ [Next]_vars => GrantInv'
  <2> SUFFICES ASSUME LedgerInv, GrantInv, [Next]_vars PROVE GrantInv'
    OBVIOUS
  <2>1. CASE UNCHANGED vars
    <3>1. \A w \in Workers : GrantSlotOK(w)'
      BY <2>1 DEF vars, GrantInv, GrantSlotOK
    <3> QED
      BY <2>1, <3>1, GrantsStay DEF vars, ledger, GrantInv
  <2>2. CASE Next
    <3>1. PICK w \in Workers : Step(w)
      BY <2>2 DEF Next
    <3>2. \A v \in Workers : GrantSlotOK(v)'
      BY <3>1, GrantSlotsStay DEF GrantInv
    <3>3. (\A s \in Slots : IsFiniteSet(Granted(s)')) /\ GrantsAddUp'
      BY <3>1, WriteGrantAddsUp, OthersGrantNothing, GrantsStay
    <3> QED
      BY <3>2, <3>3 DEF GrantInv
  <2> QED
    BY <2>1, <2>2
<1>3. GrantInv => GrantsAddUp
  BY DEF GrantInv
<1> QED
  BY <1>1, <1>2, <1>3, InitEstablishesInv, NextKeepsInv, PTL DEF Spec

-----------------------------------------------------------------------------
(* Refusals.                                                               *)

\* A slot without a balance row has been granted nothing, and a grant is written
\* to a row that exists.
RowsFirst ==
    /\ \A s \in Slots : ~balances[s].exists => balances[s].totalGranted = 0
    /\ \A w \in Workers :
          call[w].pc = "writeGrant" => balances[call[w].slot].exists

\* What could have paid for a call ever since it began still can, and is on the
\* list the call spends from; a call that was refused has nothing of the kind.
FundedOK(w) ==
    /\ call[w].pc # "idle" => funded[w] \subseteq Positive
    /\ call[w].pc = "spend" => funded[w] \subseteq call[w].todo
    /\ call[w].status \in {"exhausted", "not_configured"} =>
          call[w].pc = "done" /\ funded[w] = {}

RefusalInv == RowsFirst /\ \A w \in Workers : FundedOK(w)

\* A row that has credits exists.
LEMMA CreditsHaveRows ==
    ASSUME LedgerInv, RowsFirst
    PROVE  Positive \subseteq Existing
PROOF
<1> SUFFICES ASSUME NEW s \in Slots, balances[s].balance > 0
             PROVE  balances[s].exists
  BY DEF Positive, Existing
<1>1. Conserved(s) /\ balances[s] \in Balance
  BY DEF LedgerInv, TypeOK, CreditsAreConserved
<1> QED
  BY <1>1 DEF RowsFirst, Conserved, Balance

\* The rows stand when nobody else moves and the call that moves is not about
\* to write a grant, or its row is there.
LEMMA SameRowsFirst ==
    ASSUME RowsFirst, NEW w \in Workers,
           \A v \in Workers : v # w => call'[v] = call[v],
           balances' = balances,
           call'[w].pc = "writeGrant" => balances[call'[w].slot].exists
    PROVE  RowsFirst'
PROOF
<1>1. \A s \in Slots : ~balances'[s].exists => balances'[s].totalGranted = 0
  BY DEF RowsFirst
<1>2. ASSUME NEW v \in Workers, call'[v].pc = "writeGrant"
      PROVE  balances'[call'[v].slot].exists
  <2>1. CASE v = w
    BY <1>2, <2>1
  <2>2. CASE v # w
    BY <1>2, <2>2 DEF RowsFirst
  <2> QED
    BY <2>1, <2>2
<1> QED
  BY <1>1, <1>2 DEF RowsFirst

LEMMA RowsComeFirst ==
    ASSUME LedgerInv, RowsFirst, NEW w \in Workers, Step(w)
    PROVE  RowsFirst'
PROOF
<1>1. /\ call \in [Workers -> CallState] /\ call[w] \in CallState
      /\ balances \in [Slots -> Balance]
  BY CallFacts DEF LedgerInv, TypeOK
<1>2. \A v \in Workers : call[v].pc \in {"findBalance", "createBalance", "writeGrant"}
                            => call[v].slot \in Slots
  BY DEF LedgerInv, CallOK
<1> DEFINE Moves == /\ balances' = balances /\ call'[w].pc # "writeGrant"
                    /\ \A v \in Workers : v # w => call'[v] = call[v]
<1>3. CASE \/ \E r \in Resources : CallConsume(w, r) \/ CallRefund(w, r)
           \/ \E g \in Grants : CallGrant(w, g)
           \/ Return(w) \/ Crash(w)
           \/ FindConsume(w) \/ FindBalances(w) \/ SpendDrained(w)
           \/ SpendDuplicate(w) \/ SpendExhausted(w) \/ FindConsumed(w)
  <2>1. Moves
    <3>1. ASSUME NEW r \in Resources, CallConsume(w, r) \/ CallRefund(w, r)
          PROVE  Moves
      BY <1>1, <3>1 DEF CallConsume, CallRefund, Call, Idle, ledger
    <3>2. ASSUME NEW g \in Grants, CallGrant(w, g)
          PROVE  Moves
      BY <1>1, <3>2 DEF CallGrant, Call, Idle, ledger
    <3>3. CASE Return(w) \/ Crash(w)
      BY <1>1, <3>3 DEF Return, Crash, Idle, ledger
    <3>4. CASE FindConsume(w)
      BY <1>1, <3>4 DEF FindConsume, Done, Goto, CallState, ledger
    <3>5. CASE FindBalances(w)
      BY <1>1, <3>5 DEF FindBalances, Done, CallState, ledger
    <3>6. CASE SpendDrained(w)
      <4>1. PICK s : call' = [call EXCEPT ![w].todo = @ \ {s}]
        BY <3>6 DEF SpendDrained
      <4> QED
        BY <1>1, <3>6, <4>1 DEF SpendDrained, CallState, ledger
    <3>7. CASE SpendDuplicate(w) \/ SpendExhausted(w)
      BY <1>1, <3>7 DEF SpendDuplicate, SpendExhausted, Done, CallState, ledger
    <3>8. CASE FindConsumed(w)
      BY <1>1, <3>8 DEF FindConsumed, Done, CallState, ledger
    <3> HIDE DEF Moves
    <3> QED
      BY <1>3, <3>1, <3>2, <3>3, <3>4, <3>5, <3>6, <3>7, <3>8
  <2> QED
    BY <2>1, SameRowsFirst
<1>4. CASE FindBalance(w)
  <2>1. /\ balances' = balances /\ \A v \in Workers : v # w => call'[v] = call[v]
        /\ call'[w].slot = call[w].slot
        /\ call'[w].pc = "writeGrant" => balances[call[w].slot].exists
    BY <1>1, <1>4 DEF FindBalance, Goto, ledger, CallState
  <2> QED
    BY <2>1, SameRowsFirst
<1>5. CASE CreateBalance(w)
  <2> DEFINE s == call[w].slot
  <2>1. s \in Slots /\ call'[w].slot = s /\ \A v \in Workers : v # w => call'[v] = call[v]
    BY <1>1, <1>2, <1>5 DEF CreateBalance, Goto, CallState
  <2>2. \/ balances' = balances /\ balances[s].exists
        \/ balances' = [balances EXCEPT ![s].exists = TRUE,
                                        ![s].createdAt = Cardinality(Existing)]
    BY <1>5 DEF CreateBalance
  <2> HIDE DEF s
  <2>3. ASSUME NEW t \in Slots
        PROVE  /\ balances'[t].exists = (t = s \/ balances[t].exists)
               /\ balances'[t].totalGranted = balances[t].totalGranted
    <3>1. balances[t] \in Balance
      BY <1>1
    <3>2. \/ balances'[t] = balances[t] /\ (t = s => balances[t].exists)
          \/ t = s /\ balances'[t] = [balances[t] EXCEPT !.exists = TRUE,
                                                       !.createdAt = Cardinality(Existing)]
      BY <1>1, <2>1, <2>2
    <3> QED
      BY <3>1, <3>2 DEF Balance
  <2>4. \A v \in Workers : call'[v].pc = "writeGrant" =>
           call'[v].slot \in Slots
           /\ (call'[v].slot = s \/ balances[call'[v].slot].exists)
    BY <1>2, <2>1 DEF RowsFirst
  <2> QED
    BY <2>3, <2>4 DEF RowsFirst
<1>6. CASE Spend(w) \/ WriteRefund(w) \/ WriteGrant(w)
  <2>1. /\ call'[w].pc = "done" /\ \A v \in Workers : v # w => call'[v] = call[v]
    BY <1>1, <1>6 DEF Spend, WriteRefund, WriteGrant, Done, CallState
  <2>2. \A s \in Slots :
           /\ balances'[s].exists = balances[s].exists
           /\ ~balances[s].exists => balances'[s].totalGranted = balances[s].totalGranted
    <3>1. CASE Spend(w)
      <4>1. PICK s : balances' = [balances EXCEPT ![s].balance = @ - 1,
                                                  ![s].totalConsumed = @ + 1]
        BY <3>1 DEF Spend
      <4> QED
        BY <1>1, <4>1 DEF Balance
    <3>2. CASE WriteRefund(w)
      <4>1. balances' = balances \/
            balances' = [balances EXCEPT ![call[w].slot].balance = @ + 1,
                                         ![call[w].slot].totalRefunded = @ + 1,
                                         ![call[w].slot].totalConsumed = @ - 1]
        BY <3>2 DEF WriteRefund
      <4> QED
        BY <1>1, <4>1 DEF Balance
    <3>3. CASE WriteGrant(w)
      <4> DEFINE q == GrantQuantity[call[w].grant]
                 s == call[w].slot
      <4>1. balances' = balances \/
            balances' = [balances EXCEPT ![s].balance = @ + q, ![s].totalGranted = @ + q]
        BY <3>3 DEF WriteGrant
      <4>2. balances[s].exists
        BY <3>3 DEF WriteGrant, RowsFirst
      <4> HIDE DEF q, s
      <4> QED
        BY <1>1, <4>1, <4>2 DEF Balance
    <3> QED
      BY <1>6, <3>1, <3>2, <3>3
  <2>3. \A v \in Workers : call'[v].pc = "writeGrant" =>
           call'[v] = call[v] /\ call[v].slot \in Slots
    BY <1>2, <2>1
  <2> QED
    BY <2>2, <2>3 DEF RowsFirst
<1> QED
  BY <1>3, <1>4, <1>5, <1>6 DEF Step, CreditStep, ConsumeStep, RefundStep, GrantStep

\* What a step of w does: it moves no other call, and it begins a call, ends one,
\* reads the list of balances, takes a drained one off it, or refuses for a reason.
Refused == {"exhausted", "not_configured"}
Begins(w) == /\ call[w].pc = "idle" /\ balances' = balances
             /\ call'[w].pc \notin {"idle", "spend"} /\ call'[w].status = "none"
Ends(w) == call'[w].pc = "idle" /\ call'[w].status = "none"
Reads(w) == /\ call'[w].todo = Positive /\ balances' = balances
            /\ call'[w].status \notin Refused
Drains(w) == /\ call[w].pc = "spend" /\ call'[w].status \notin Refused
             /\ \E s : balances[s].balance = 0 /\ call'[w].todo = call[w].todo \ {s}
Refuses(w) == /\ call'[w].pc = "done"
              /\ Positive = {} \/ (call[w].pc = "spend" /\ call[w].todo = {})
GoesOn(w) == call'[w].pc \notin {"idle", "spend"} /\ call'[w].status \notin Refused

Reasons(w) ==
    /\ \A v \in Workers : v # w => call'[v] = call[v]
    /\ \/ Begins(w) \/ Ends(w)
       \/ call[w].pc # "idle" /\ (Reads(w) \/ Drains(w) \/ Refuses(w) \/ GoesOn(w))

LEMMA StepsHaveReasons ==
    ASSUME LedgerInv, RowsFirst, NEW w \in Workers, Step(w), FundedOK(w)
    PROVE  Reasons(w)
PROOF
<1>1. /\ call \in [Workers -> CallState] /\ call[w] \in CallState
  BY CallFacts
<1>2. Positive \subseteq Existing
  BY CreditsHaveRows
<1>3. call[w].status \in Refused => call[w].pc = "done"
  BY DEF FundedOK, Refused
<1> USE <1>1 DEF Reasons, Refused
<1>4. ASSUME NEW r \in Resources, CallConsume(w, r) \/ CallRefund(w, r)
      PROVE  Reasons(w)
  BY <1>4 DEF CallConsume, CallRefund, Call, Idle, ledger, Begins
<1>5. ASSUME NEW g \in Grants, CallGrant(w, g)
      PROVE  Reasons(w)
  BY <1>5 DEF CallGrant, Call, Idle, ledger, Begins
<1>6. CASE Return(w) \/ Crash(w)
  BY <1>6 DEF Return, Crash, Idle, Ends
<1>7. CASE FindConsume(w) \/ FindBalance(w) \/ FindConsumed(w) \/ CreateBalance(w)
  <2>1. CASE FindConsume(w)
    BY <1>3, <2>1 DEF FindConsume, Done, Goto, CallState, GoesOn
  <2>2. CASE FindBalance(w)
    BY <1>3, <2>2 DEF FindBalance, Goto, CallState, GoesOn
  <2>3. CASE FindConsumed(w)
    BY <1>3, <2>3 DEF FindConsumed, Done, CallState, GoesOn
  <2>4. CASE CreateBalance(w)
    BY <1>3, <2>4 DEF CreateBalance, Goto, CallState, GoesOn
  <2> QED
    BY <1>7, <2>1, <2>2, <2>3, <2>4
<1>8. CASE Spend(w) \/ SpendDuplicate(w) \/ WriteRefund(w) \/ WriteGrant(w)
  <2>1. CASE Spend(w)
    BY <1>3, <2>1 DEF Spend, Done, CallState, GoesOn
  <2>2. CASE SpendDuplicate(w)
    BY <1>3, <2>2 DEF SpendDuplicate, Done, CallState, GoesOn
  <2>3. CASE WriteRefund(w)
    BY <1>3, <2>3 DEF WriteRefund, Done, CallState, GoesOn
  <2>4. CASE WriteGrant(w)
    BY <1>3, <2>4 DEF WriteGrant, Done, CallState, GoesOn
  <2> QED
    BY <1>8, <2>1, <2>2, <2>3, <2>4
<1>9. CASE FindBalances(w)
  <2>1. CASE Positive = {}
    BY <1>9, <2>1 DEF FindBalances, Done, CallState, Refuses
  <2>2. CASE Positive # {}
    <3>1. call' = [call EXCEPT ![w].pc = "spend", ![w].todo = Positive]
      BY <1>2, <1>9, <2>2 DEF FindBalances
    <3> QED
      BY <1>3, <1>9, <3>1 DEF FindBalances, CallState, Reads, ledger
  <2> QED
    BY <2>1, <2>2
<1>10. CASE SpendDrained(w)
  <2>1. PICK s : /\ balances[s].balance = 0
                 /\ call' = [call EXCEPT ![w].todo = @ \ {s}]
    BY <1>10 DEF SpendDrained
  <2>2. call[w].pc = "spend" /\ call'[w].todo = call[w].todo \ {s}
        /\ call'[w].status = call[w].status
    BY <1>10, <2>1 DEF SpendDrained, CallState
  <2>3. Drains(w)
    BY <1>3, <2>1, <2>2 DEF Drains
  <2> QED
    BY <2>1, <2>2, <2>3
<1>11. CASE SpendExhausted(w)
  BY <1>11 DEF SpendExhausted, Done, CallState, Refuses
<1> QED
  BY <1>4, <1>5, <1>6, <1>7, <1>8, <1>9, <1>10, <1>11
     DEF Step, CreditStep, ConsumeStep, RefundStep, GrantStep

LEMMA RefusalInvNext ==
    ASSUME LedgerInv, RefusalInv, HistoryNext
    PROVE  RefusalInv'
PROOF
<1>1. PICK w \in Workers : Step(w)
  BY DEF HistoryNext, Next
<1>2. RowsFirst'
  BY <1>1, RowsComeFirst DEF RefusalInv
<1>3. Reasons(w)
  BY <1>1, StepsHaveReasons DEF RefusalInv
<1>4. \A v \in Workers :
         /\ call'[v].pc = "idle" => funded'[v] = {}
         /\ call'[v].pc # "idle" /\ call[v].pc = "idle" => funded'[v] = Positive
         /\ call'[v].pc # "idle" /\ call[v].pc # "idle" =>
               funded'[v] = funded[v] \cap Positive'
  BY DEF HistoryNext
<1>5. ASSUME NEW v \in Workers, v # w
      PROVE  FundedOK(v)'
  BY <1>3, <1>4, <1>5 DEF Reasons, RefusalInv, FundedOK
<1>6. FundedOK(w)'
  <2>1. FundedOK(w)
    BY DEF RefusalInv
  <2>2. CASE Begins(w)
    BY <1>4, <2>2 DEF Begins, FundedOK, Positive
  <2>3. CASE Ends(w)
    BY <2>3 DEF Ends, FundedOK
  <2>4. CASE call[w].pc # "idle" /\ Reads(w)
    BY <1>4, <2>1, <2>4 DEF Reads, FundedOK, Refused
  <2>5. CASE call[w].pc # "idle" /\ Drains(w)
    BY <1>4, <2>1, <2>5 DEF Drains, FundedOK, Refused, Positive
  <2>6. CASE call[w].pc # "idle" /\ Refuses(w)
    BY <1>4, <2>1, <2>6 DEF Refuses, FundedOK
  <2>7. CASE call[w].pc # "idle" /\ GoesOn(w)
    BY <1>4, <2>1, <2>7 DEF GoesOn, FundedOK, Refused
  <2> QED
    BY <1>3, <2>2, <2>3, <2>4, <2>5, <2>6, <2>7 DEF Reasons
<1> QED
  BY <1>2, <1>5, <1>6 DEF RefusalInv

\* A call is refused only if no balance had a credit for the whole of the call,
\* however consumes, refunds and grants of other workers interleave with it.
THEOREM LedgerRefusesForCause == HistorySpec => []NoSpuriousRefusal
PROOF
<1>1. HistoryInit => LedgerInv /\ RefusalInv
  <2> SUFFICES ASSUME HistoryInit PROVE RefusalInv
    BY InitEstablishesInv DEF HistoryInit
  <2> QED
    BY DEF HistoryInit, Init, RefusalInv, RowsFirst, FundedOK, NoBalance, Idle
<1>2. LedgerInv /\ RefusalInv /\ [HistoryNext]_<<vars, funded>>
         => LedgerInv' /\ RefusalInv'
  <2> SUFFICES ASSUME LedgerInv, RefusalInv, [HistoryNext]_<<vars, funded>>
               PROVE  LedgerInv' /\ RefusalInv'
    OBVIOUS
  <2>1. LedgerInv'
    BY NextKeepsInv DEF HistoryNext
  <2>2. CASE HistoryNext
    BY <2>1, <2>2, RefusalInvNext
  <2>3. CASE UNCHANGED <<vars, funded>>
    BY <2>1, <2>3 DEF vars, ledger, RefusalInv, RowsFirst, FundedOK, Positive
  <2> QED
    BY <2>2, <2>3
<1>3. RefusalInv => NoSpuriousRefusal
  BY DEF RefusalInv, FundedOK, NoSpuriousRefusal
<1> QED
  BY <1>1, <1>2, <1>3, PTL DEF HistorySpec

-----------------------------------------------------------------------------
(* Refinement: every step is a step of Allowance or leaves it unchanged.   *)

\* What Allowance sees of a step: the units of each slot.
Units == [s \in Slots |-> balances[s].balance]

LEMMA ReadsAreStutters ==
    ASSUME UNCHANGED ledger
    PROVE  UNCHANGED Abstract!vars
PROOF
  BY DEF ledger, Abstract!vars

LEMMA SpendIsCharge ==
    ASSUME LedgerInv, NEW w \in Workers, Spend(w)
    PROVE  Abstract!Next
PROOF
<1> DEFINE r == call[w].resource
<1>1. call[w] \in CallState /\ CallOK(w)
  BY CallFacts
<1>2. r \in Resources /\ consumeEvent[r] = None
  BY <1>1 DEF Spend, CallOK
<1>3. PICK s \in Slots :
         /\ balances[s].balance > 0
         /\ balances' = [balances EXCEPT ![s].balance = @ - 1,
                                         ![s].totalConsumed = @ + 1]
         /\ consumeEvent' = [consumeEvent EXCEPT ![r] = s]
  BY <1>1 DEF Spend, Oldest, CallState
<1>4. refundEvent' = refundEvent
  BY DEF Spend
<1> HIDE DEF r
<1>5. Units' = [Units EXCEPT ![s] = @ - 1] /\ Units[s] > 0
  BY <1>3 DEF Units, LedgerInv, TypeOK, Balance
<1>6. Abstract!Charge(r, s)
  BY <1>2, <1>3, <1>4, <1>5 DEF Abstract!Charge, Units
<1> QED
  BY <1>2, <1>6 DEF Abstract!Next

LEMMA WriteRefundIsRefund ==
    ASSUME LedgerInv, NEW w \in Workers, WriteRefund(w)
    PROVE  [Abstract!Next]_Abstract!vars
PROOF
<1>1. call[w] \in CallState /\ CallOK(w)
  BY CallFacts
<1>2. PICK r \in Resources, s \in Slots :
         r = call[w].resource /\ s = call[w].slot /\ consumeEvent[r] = s
  BY <1>1 DEF WriteRefund, CallOK
<1>3. consumeEvent' = consumeEvent
  BY DEF WriteRefund
<1>4. CASE r \in refundEvent
  BY <1>2, <1>3, <1>4, ReadsAreStutters DEF WriteRefund, ledger
<1>5. CASE r \notin refundEvent
  <2>1. /\ refundEvent' = refundEvent \cup {r}
        /\ balances' = [balances EXCEPT ![s].balance = @ + 1,
                                        ![s].totalRefunded = @ + 1,
                                        ![s].totalConsumed = @ - 1]
    BY <1>2, <1>5 DEF WriteRefund
  <2>2. Units' = [Units EXCEPT ![s] = @ + 1]
    BY <1>2, <2>1 DEF Units, LedgerInv, TypeOK, Balance
  <2>3. Abstract!Refund(r, s)
    BY <1>2, <1>3, <1>5, <2>1, <2>2 DEF Abstract!Refund, Units
  <2>4. Abstract!Next
    BY <1>2, <2>3 DEF Abstract!Next
  <2> QED
    BY <2>4
<1> QED
  BY <1>4, <1>5

LEMMA CreateBalanceIsStutter ==
    ASSUME LedgerInv, NEW w \in Workers, CreateBalance(w)
    PROVE  UNCHANGED Abstract!vars
PROOF
<1> DEFINE s == call[w].slot
<1>1. s \in Slots
  BY CallFacts DEF CreateBalance, CallOK
<1>2. balances' = balances \/ balances' = [balances EXCEPT
                                              ![s].exists = TRUE,
                                              ![s].createdAt = Cardinality(Existing)]
  BY DEF CreateBalance
<1> HIDE DEF s
<1>3. \A t \in Slots : balances'[t].balance = balances[t].balance
  BY <1>1, <1>2 DEF LedgerInv, TypeOK, Balance
<1> QED
  BY <1>3 DEF CreateBalance, Abstract!vars

LEMMA WriteGrantIsGrant ==
    ASSUME LedgerInv, NEW w \in Workers, WriteGrant(w)
    PROVE  [Abstract!Next]_Abstract!vars
PROOF
<1>1. PICK g \in Grants, s \in Slots : g = call[w].grant /\ s = call[w].slot
  BY CallFacts DEF WriteGrant, CallOK
<1>2. GrantQuantity[g] \in Nat /\ GrantQuantity[g] > 0
  BY <1>1, GrantAssumption
<1>3. UNCHANGED <<consumeEvent, refundEvent>>
  BY DEF WriteGrant
<1>4. CASE g \in grantEvent
  BY <1>1, <1>3, <1>4, ReadsAreStutters DEF WriteGrant, ledger
<1>5. CASE g \notin grantEvent
  <2>1. balances' = [balances EXCEPT ![s].balance = @ + GrantQuantity[g],
                                     ![s].totalGranted = @ + GrantQuantity[g]]
    BY <1>1, <1>5 DEF WriteGrant
  <2> DEFINE q == GrantQuantity[g]
  <2>2. q \in Nat /\ q > 0
    BY <1>2
  <2>3. balances' = [balances EXCEPT ![s].balance = @ + q, ![s].totalGranted = @ + q]
    BY <2>1
  <2>4. balances \in [Slots -> Balance]
    BY DEF LedgerInv, TypeOK
  <2> HIDE DEF q
  <2>5. /\ Units[s] \in Nat
        /\ Units'[s] = Units[s] + q
        /\ Units' = [Units EXCEPT ![s] = Units'[s]]
    BY <1>1, <2>3, <2>4 DEF Units, Balance
  <2>6. Abstract!Grant(s)
    BY <1>3, <2>2, <2>5 DEF Abstract!Grant, Units
  <2>7. Abstract!Next
    BY <1>1, <2>6 DEF Abstract!Next
  <2> QED
    BY <2>7
<1> QED
  BY <1>4, <1>5

LEMMA NextRefines == LedgerInv /\ [Next]_vars => [Abstract!Next]_Abstract!vars
PROOF
<1> SUFFICES ASSUME LedgerInv, [Next]_vars PROVE [Abstract!Next]_Abstract!vars
  OBVIOUS
<1>1. CASE UNCHANGED vars
  BY <1>1, ReadsAreStutters DEF vars
<1>2. CASE Next
  <2>1. PICK w \in Workers : Step(w)
    BY <1>2 DEF Next
  <2>2. CASE \/ \E r \in Resources : CallConsume(w, r) \/ CallRefund(w, r)
             \/ \E g \in Grants : CallGrant(w, g)
             \/ Return(w)
             \/ Crash(w)
    <3>1. UNCHANGED ledger
      BY <2>2 DEF CallConsume, CallRefund, CallGrant, Call, Return, Crash
    <3> QED
      BY <3>1, ReadsAreStutters
  <2>3. CASE \/ FindConsume(w) \/ FindBalances(w) \/ SpendDrained(w)
             \/ SpendDuplicate(w) \/ SpendExhausted(w)
             \/ FindConsumed(w) \/ FindBalance(w)
    <3>1. UNCHANGED ledger
      BY <2>3 DEF FindConsume, FindBalances, SpendDrained, SpendDuplicate,
                  SpendExhausted, FindConsumed, FindBalance
    <3> QED
      BY <3>1, ReadsAreStutters
  <2>4. CASE Spend(w) \/ WriteRefund(w) \/ CreateBalance(w) \/ WriteGrant(w)
    BY <2>4, SpendIsCharge, WriteRefundIsRefund, CreateBalanceIsStutter, WriteGrantIsGrant
  <2> QED
    BY <2>1, <2>2, <2>3, <2>4 DEF Step, CreditStep, ConsumeStep, RefundStep, GrantStep
<1> QED
  BY <1>1, <1>2

\* The credit ledger implements Allowance: a resource takes one unit, once, from
\* one slot, and gives it back to that slot at most once, whatever the calls that
\* are repeated, concurrent or cut short by a crash.
THEOREM LedgerImplementsAllowance == Spec => ImplementsAllowance
PROOF
<1>1. Init => Abstract!Init
  BY DEF Init, Abstract!Init, NoBalance
<1> QED
  BY <1>1, InitEstablishesInv, NextKeepsInv, NextRefines, PTL
     DEF Spec, ImplementsAllowance, Abstract!Spec
=============================================================================
