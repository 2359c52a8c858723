------------------------- MODULE Entitlements_proofs -------------------------
(***************************************************************************)
(* Proofs about Entitlements, for any set of workers, resources, SKUs,     *)
(* items, rows and periods: its type invariant; for organizations that     *)
(* change their plan once at most, that the rows mirror Stripe and move    *)
(* forward; for those that do not, what the included usage promises and    *)
(* that no consume is refused that could have been paid for.               *)
(***************************************************************************)
EXTENDS EntitlementsHistory, FiniteSetTheorems, WellFoundedInduction, TLAPS

ReadRow == [sku : Skus \cup {None}, item : Items \cup {None}, active : BOOLEAN,
            period : Nat, included : Nat, used : Nat]
ReadSnap == [item : Items \cup {None}, sku : Skus \cup {None}, active : BOOLEAN,
             period : Nat]
Statuses == {"none", "consumed", "exhausted", "not_configured", "refunded", "synced",
             "changed", "threw"}
CallType == [pc : Pcs, resource : Resources \cup {None}, id : SubIds \cup {0},
             row : ReadRow, snap : ReadSnap, attempt : {0, 1}, fallback : Statuses,
             status : Statuses]
ItemType == [sku : Skus \cup {None}, active : BOOLEAN, period : 0 .. MaxPeriod]

Charged == {kr \in Skus \X Resources : usage[kr] > 0}

\* What a call has read, at each of its statements.
CallOK(c) ==
    /\ c.pc \in {"findSubscriptions", "findExistingUsage", "findUnique", "findUsage",
                 "consumeTx", "findConsumed", "refundTx"} => c.resource \in Resources
    /\ c.pc \in {"findUsage", "consumeTx"} => c.id \in Rows /\ c.row \in Row
    /\ c.pc = "refundTx" => <<c.row.sku, c.resource>> \in Charged
    /\ c.pc \in {"syncRead", "syncCreate", "syncUpdate"} => c.snap \in sent
    /\ c.pc = "syncUpdate" => c.id \in Rows /\ c.row \in Row
    /\ c.pc \in {"planStripe", "planWrite"} =>
          c.id \in Rows /\ c.snap.item \in Items /\ c.snap.sku \in Skus

\* Types, with plan changes: the first inductive invariant.
Types ==
    /\ TypeOK
    /\ budget \in [plan : Nat, cancel : Nat, refund : Nat]
    /\ stripe \in [Items -> ItemType]
    /\ \A i \in Items : stripe[i].active => stripe[i].sku \in Skus
    /\ ent \in [Workers -> CallType]
    /\ \E N \in Nat : Rows = 1 .. N
    /\ usageRefund \subseteq Charged
    /\ IsFiniteSet(Charged)
    /\ \A w \in Workers : CallOK(ent[w])

\* What a call of a consume or a sync relies on when no plan changes.
ReadOK(c) ==
    /\ c.pc \notin {"planStripe", "planWrite"}
    /\ c.pc \in {"findUsage", "consumeTx"} =>
          subs[c.id].sku = c.row.sku /\ c.row.included = Included[c.row.sku]
    /\ c.pc = "syncUpdate" =>
          subs[c.id].sku = c.snap.sku /\ c.row.period <= c.snap.period

\* A period that was granted is not ahead of the row of its item.
GrantsAreBehind ==
    \A g \in periodGrants : \E n \in Rows :
        subs[n].sku = stripe[g[1]].sku /\ subs[n].period >= g[2]

\* The second inductive invariant: what holds when no plan changes.
PlanFree ==
    /\ budget.plan = 0
    /\ \A s \in sent : s.sku = stripe[s.item].sku
    /\ \A m, n \in Rows : subs[m].sku = subs[n].sku => m = n
    /\ \A n \in Rows : subs[n].included = Included[subs[n].sku]
    /\ UsedWithinIncluded
    /\ UsedIsBacked
    /\ RowsComeFromStripe
    /\ GrantsAreBehind
    /\ \A w \in Workers : ReadOK(ent[w])

-----------------------------------------------------------------------------
(* Finite sets.                                                            *)

\* A finite set has an element of highest rank: the elements ranked at least as
\* high as a given one are fewest for it.
LEMMA HighestExists ==
    ASSUME NEW S, IsFiniteSet(S), S # {}, NEW f \in [S -> Nat]
    PROVE  \E x \in S : \A y \in S : f[y] <= f[x]
PROOF
<1> DEFINE Above(x) == {y \in S : f[y] >= f[x]}
           T == {Above(x) : x \in S}
<1>1. IsWellFoundedOn(StrictSubsetOrdering(S), SUBSET S)
  BY FS_StrictSubsetOrderingWellFounded, FS_FiniteSubsetsOfFinite
<1>2. T \subseteq SUBSET S /\ T # {}
  <2>1. PICK x : x \in S
    OBVIOUS
  <2>2. Above(x) \in T
    BY <2>1
  <2> QED
    BY <2>2
<1>3. PICK A \in T : \A B \in T : ~ (<<B, A>> \in StrictSubsetOrdering(S))
  <2> HIDE DEF T
  <2> QED  BY <1>1, <1>2, WFMin
<1>4. PICK x \in S : A = Above(x)
  BY <1>3
<1>5. SUFFICES ASSUME NEW y \in S, f[y] > f[x] PROVE FALSE
  OBVIOUS
<1>6. Above(y) \subseteq Above(x) /\ Above(y) # Above(x) /\ Above(y) \in T
  BY <1>5
<1>7. <<Above(y), A>> \in StrictSubsetOrdering(S)
  BY <1>4, <1>6, <1>2 DEF StrictSubsetOrdering
<1> QED
  BY <1>3, <1>6, <1>7

LEMMA NewestIsAmong ==
    ASSUME NEW S, IsFiniteSet(S), S # {}, S \subseteq Nat
    PROVE  Newest(S) \in S
PROOF
<1> DEFINE f == [n \in S |-> n]
<1>1. f \in [S -> Nat]
  OBVIOUS
<1>2. PICK x \in S : \A y \in S : f[y] <= f[x]
  <2> HIDE DEF f
  <2> QED  BY <1>1, HighestExists
<1> QED
  BY <1>2 DEF Newest

LEMMA ActiveRowsAreFinite ==
    ASSUME Types
    PROVE  IsFiniteSet(ActiveRows) /\ ActiveRows \subseteq Nat
PROOF
<1>1. PICK N \in Nat : Rows = 1 .. N
  BY DEF Types
<1>2. IsFiniteSet(1 .. N)
  BY FS_Interval
<1> QED
  BY <1>1, <1>2, FS_Subset DEF ActiveRows

\* The SKUs a resource was charged to are finitely many, so the newest charge is
\* one of them.
LEMMA LastChargeIsCharged ==
    ASSUME Types, NEW r \in Resources, Used(r) # {}
    PROVE  LET k == CHOOSE j \in Used(r) : \A i \in Used(r) : usage[i, r] <= usage[j, r]
           IN  k \in Used(r)
PROOF
<1> DEFINE f == [k \in Used(r) |-> usage[k, r]]
           g == [k \in Used(r) |-> <<k, r>>]
<1>1. f \in [Used(r) -> Nat]
  BY DEF Used, Types, TypeOK
<1>2. IsFiniteSet(Used(r))
  <2>1. g \in Injection(Used(r), Charged)
    BY DEF Used, Charged, Injection, IsInjective
  <2> HIDE DEF g
  <2> QED  BY <2>1, FS_Injection DEF Types
<1>3. PICK x \in Used(r) : \A y \in Used(r) : f[y] <= f[x]
  <2> HIDE DEF f
  <2> QED  BY <1>1, <1>2, HighestExists
<1>4. \A y \in Used(r) : usage[y, r] <= usage[x, r]
  BY <1>3
<1> QED
  BY <1>4

LEMMA NextRankIsPositive ==
    ASSUME Types
    PROVE  NextRank \in Nat /\ NextRank > 0
PROOF
<1>1. Cardinality(Charged) \in Nat
  BY FS_CardinalityType DEF Types
<1> QED
  BY <1>1 DEF NextRank, Charged
-----------------------------------------------------------------------------
(* Types are kept.                                                         *)

LEMMA OneCallMoves ==
    ASSUME ent \in [Workers -> CallType], NEW w \in Workers, NEW e \in CallType,
           ent' = [ent EXCEPT ![w] = e]
    PROVE  /\ ent'[w] = e
           /\ ent' \in [Workers -> CallType]
           /\ \A v \in Workers \ {w} : ent'[v] = ent[v]
PROOF
OBVIOUS

\* A step of call w that writes nothing but that call.
OwnStep(w) ==
    /\ UNCHANGED <<store, stripe, sent, now>>
    /\ budget' \in [plan : Nat, cancel : Nat, refund : Nat]
    /\ \E e \in CallType : ent' = [ent EXCEPT ![w] = e] /\ CallOK(e)
                                /\ (PlanFree => ReadOK(e))
    /\ PlanFree => budget'.plan = 0

LEMMA OwnStepTypes ==
    ASSUME Types, NEW w \in Workers, OwnStep(w)
    PROVE  Types'
PROOF
<1>1. PICK e \in CallType : ent' = [ent EXCEPT ![w] = e] /\ CallOK(e)
  BY DEF OwnStep
<1>2. /\ ent'[w] = e
      /\ ent' \in [Workers -> CallType]
      /\ \A v \in Workers \ {w} : ent'[v] = ent[v]
  BY <1>1, OneCallMoves DEF Types
<1>3. /\ UNCHANGED <<store, stripe, sent, now>> /\ Rows' = Rows /\ Charged' = Charged
      /\ budget' \in [plan : Nat, cancel : Nat, refund : Nat]
  BY DEF OwnStep, Rows, Charged, store
<1>4. TypeOK'
  <2>1. \A v \in Workers : ent'[v].pc \in Pcs
    BY <1>2 DEF CallType
  <2> QED
    BY <1>3, <2>1 DEF Types, TypeOK, store
<1>5. ASSUME NEW v \in Workers PROVE CallOK(ent[v])'
  <2>1. CallOK(ent'[v])
    BY <1>1, <1>2 DEF Types
  <2> QED
    BY <2>1, <1>3 DEF CallOK, store
<1> QED
  BY <1>2, <1>3, <1>4, <1>5 DEF Types, store

\* Steps outside the calls: the rows and the events stay.
LEMMA WorldTypes ==
    ASSUME Types, World
    PROVE  Types'
PROOF
<1>1. ASSUME NEW i \in Items, NEW s \in [sku : Skus, active : BOOLEAN, period : 0 .. MaxPeriod],
             Report(i, s), now' = now, UNCHANGED <<store, ent>>,
             budget' \in [plan : Nat, cancel : Nat, refund : Nat]
      PROVE  Types'
  <2>1. /\ stripe' \in [Items -> ItemType]
        /\ \A j \in Items : stripe'[j].active => stripe'[j].sku \in Skus
        /\ sent \subseteq sent' /\ sent' \subseteq Snap
    BY <1>1 DEF Report, Types, TypeOK, ItemType, Snap, EntitlementBounds
  <2>2. TypeOK'
    BY <1>1, <2>1 DEF Types, TypeOK, store
  <2>3. Rows' = Rows /\ Charged' = Charged
    BY <1>1 DEF Rows, Charged, store
  <2>4. \A w \in Workers : CallOK(ent[w])'
    BY <1>1, <2>1, <2>3 DEF Types, CallOK
  <2> QED
    BY <1>1, <2>1, <2>2, <2>3, <2>4 DEF Types, store
<1>2. ASSUME NextPeriod PROVE Types'
  <2>1. now' \in 0 .. MaxPeriod
    BY <1>2, EntitlementBounds DEF NextPeriod, Types, TypeOK
  <2>2. Rows' = Rows /\ Charged' = Charged
    BY <1>2 DEF NextPeriod, Rows, Charged, store
  <2>3. TypeOK' /\ \A w \in Workers : CallOK(ent[w])'
    BY <1>2, <2>1, <2>2 DEF NextPeriod, Types, TypeOK, CallOK, store
  <2> QED
    BY <1>2, <2>2, <2>3 DEF NextPeriod, Types, store
<1>3. now \in 0 .. MaxPeriod
  BY DEF Types, TypeOK
<1>4. ASSUME NEW i \in Items, NEW k \in Skus, Subscribe(i, k) PROVE Types'
  BY <1>1, <1>3, <1>4 DEF Subscribe, Types
<1>5. ASSUME NEW i \in Items, Renew(i) PROVE Types'
  <2>1. [stripe[i] EXCEPT !.period = now] \in
           [sku : Skus, active : BOOLEAN, period : 0 .. MaxPeriod]
    BY <1>3, <1>5 DEF Renew, Types, ItemType
  <2> QED
    BY <1>1, <1>5, <2>1 DEF Renew, Types
<1>6. ASSUME NEW i \in Items, Cancel(i) PROVE Types'
  <2>1. [stripe[i] EXCEPT !.active = FALSE] \in
           [sku : Skus, active : BOOLEAN, period : 0 .. MaxPeriod]
    BY <1>6 DEF Cancel, Types, ItemType
  <2>2. budget' \in [plan : Nat, cancel : Nat, refund : Nat]
    BY <1>6 DEF Cancel, Types
  <2> QED
    BY <1>1, <1>6, <2>1, <2>2 DEF Cancel
<1> QED
  BY <1>2, <1>4, <1>5, <1>6 DEF World

-----------------------------------------------------------------------------
(* The records of calls.                                                   *)

LEMMA IdleIsACall == Idle \in CallType
PROOF
BY DEF Idle, CallType, Pcs, NoSub, NoSnap, ReadRow, ReadSnap, Statuses

LEMMA CallRecords ==
    ASSUME NEW c \in CallType
    PROVE  /\ \A p \in Pcs : [c EXCEPT !.pc = p] \in CallType
           /\ \A s \in Statuses : [c EXCEPT !.pc = "done", !.status = s] \in CallType
           /\ \A s \in Statuses : [c EXCEPT !.pc = "credit", !.fallback = s] \in CallType
           /\ \A p \in Pcs, x \in ReadRow : [c EXCEPT !.pc = p, !.row = x] \in CallType
           /\ \A p \in Pcs, n \in SubIds, x \in ReadRow :
                 [c EXCEPT !.pc = p, !.id = n, !.row = x] \in CallType
           /\ \A p \in Pcs, r \in Resources : [c EXCEPT !.pc = p, !.resource = r] \in CallType
           /\ \A p \in Pcs, s \in ReadSnap : [c EXCEPT !.pc = p, !.snap = s] \in CallType
           /\ \A p \in Pcs : [c EXCEPT !.pc = p, !.attempt = 1] \in CallType
PROOF
<1>1. {"done", "credit"} \subseteq Pcs
  BY DEF Pcs
<1>2. \A p \in Pcs : [c EXCEPT !.pc = p] \in CallType
  BY DEF CallType
<1>3. \A s \in Statuses : [c EXCEPT !.pc = "done", !.status = s] \in CallType
  BY <1>1 DEF CallType
<1>4. \A s \in Statuses : [c EXCEPT !.pc = "credit", !.fallback = s] \in CallType
  BY <1>1 DEF CallType
<1>5. \A p \in Pcs, x \in ReadRow : [c EXCEPT !.pc = p, !.row = x] \in CallType
  BY DEF CallType
<1>6. \A p \in Pcs, n \in SubIds, x \in ReadRow :
         [c EXCEPT !.pc = p, !.id = n, !.row = x] \in CallType
  BY DEF CallType
<1>7. \A p \in Pcs, r \in Resources : [c EXCEPT !.pc = p, !.resource = r] \in CallType
  BY DEF CallType
<1>8. \A p \in Pcs, s \in ReadSnap : [c EXCEPT !.pc = p, !.snap = s] \in CallType
  BY DEF CallType
<1>9. \A p \in Pcs : [c EXCEPT !.pc = p, !.attempt = 1] \in CallType
  BY DEF CallType
<1> QED
  BY <1>2, <1>3, <1>4, <1>5, <1>6, <1>7, <1>8, <1>9

LEMMA RowsAreRead ==
    ASSUME Types, NEW n \in Rows
    PROVE  subs[n] \in Row /\ subs[n] \in ReadRow /\ n \in SubIds
PROOF
BY DEF Types, TypeOK, Rows, Row, ReadRow, NoSub

\* A call that ends or falls back carries nothing.
LEMMA Ends ==
    ASSUME Types, NEW w \in Workers, UNCHANGED <<store, world>>,
           NEW s \in Statuses, Done(w, s) \/ FallBack(w, s)
    PROVE  OwnStep(w)
PROOF
<1>1. ent[w] \in CallType
  BY DEF Types
<1>2. CASE Done(w, s)
  <2> DEFINE e == [ent[w] EXCEPT !.pc = "done", !.status = s]
  <2>1. e \in CallType
    BY <1>1, CallRecords
  <2>2. ent' = [ent EXCEPT ![w] = e]
    BY <1>2 DEF Done, Types
  <2>3. e.pc = "done"
    BY <1>1 DEF CallType
  <2> HIDE DEF e
  <2> QED
    BY <2>1, <2>2, <2>3 DEF OwnStep, CallOK, ReadOK, PlanFree, world, store, Types
<1>3. CASE FallBack(w, s)
  <2> DEFINE e == [ent[w] EXCEPT !.pc = "credit", !.fallback = s]
  <2>1. e \in CallType
    BY <1>1, CallRecords
  <2>2. ent' = [ent EXCEPT ![w] = e]
    BY <1>3 DEF FallBack, Types
  <2>3. e.pc = "credit"
    BY <1>1 DEF CallType
  <2> HIDE DEF e
  <2> QED
    BY <2>1, <2>2, <2>3 DEF OwnStep, CallOK, ReadOK, PlanFree, world, store, Types
<1> QED
  BY <1>2, <1>3

\* What the other steps of a call leave it with.
LEMMA Moves ==
    ASSUME Types, NEW w \in Workers, UNCHANGED <<store, stripe, sent, now>>,
           budget' \in [plan : Nat, cancel : Nat, refund : Nat],
           NEW e \in CallType, ent' = [ent EXCEPT ![w] = e], CallOK(e),
           PlanFree => ReadOK(e), PlanFree => budget'.plan = 0
    PROVE  OwnStep(w)
PROOF
BY DEF OwnStep
-----------------------------------------------------------------------------
(* Steps that write nothing but their call.                                *)

LEMMA EndingSteps ==
    ASSUME Types, NEW w \in Workers,
           \/ FindExistingUsage(w) \/ ConsumeTxDuplicate(w) \/ ConsumeTxExhausted(w)
           \/ CreditReturn(w) \/ CreditRefundReturn(w) \/ SyncCreateConflict(w)
           \/ SyncUpdateConflict(w) \/ PlanStripeFails(w) \/ PlanWriteConflict(w)
    PROVE  OwnStep(w)
PROOF
<1> USE DEF Statuses
<1>1. CASE FindExistingUsage(w)
  BY <1>1, Ends DEF FindExistingUsage
<1>2. CASE ConsumeTxDuplicate(w)
  BY <1>2, Ends DEF ConsumeTxDuplicate
<1>3. CASE ConsumeTxExhausted(w)
  BY <1>3, Ends DEF ConsumeTxExhausted
<1>4. CASE CreditReturn(w)
  <2>1. (IF call[w].status = "consumed" THEN "consumed" ELSE ent[w].fallback) \in Statuses
    BY DEF Types, CallType
  <2> QED
    BY <1>4, <2>1, Ends DEF CreditReturn
<1>5. CASE CreditRefundReturn(w)
  BY <1>5, Ends DEF CreditRefundReturn
<1>6. CASE SyncCreateConflict(w)
  BY <1>6, Ends DEF SyncCreateConflict
<1>7. CASE SyncUpdateConflict(w)
  BY <1>7, Ends DEF SyncUpdateConflict
<1>8. CASE PlanStripeFails(w)
  BY <1>8, Ends DEF PlanStripeFails
<1>9. CASE PlanWriteConflict(w)
  BY <1>9, Ends DEF PlanWriteConflict
<1> QED
  BY <1>1, <1>2, <1>3, <1>4, <1>5, <1>6, <1>7, <1>8, <1>9

LEMMA ConsumeStarts ==
    ASSUME Types, NEW w \in Workers, NEW r \in Resources, CallConsume(w, r)
    PROVE  OwnStep(w)
PROOF
<1> DEFINE e == [Idle EXCEPT !.pc = "findSubscriptions", !.resource = r]
<1>1. e \in CallType
  BY IdleIsACall, CallRecords DEF Pcs
<1>2. ent' = [ent EXCEPT ![w] = e]
  BY DEF CallConsume
<1>3. e.pc = "findSubscriptions" /\ e.resource = r
  BY DEF Idle
<1> HIDE DEF e
<1>4. CallOK(e) /\ (PlanFree => ReadOK(e))
  BY <1>3 DEF CallOK, ReadOK
<1> QED
  BY <1>1, <1>2, <1>4, Moves DEF CallConsume, world, Types, PlanFree

LEMMA RefundStarts ==
    ASSUME Types, NEW w \in Workers, NEW r \in Resources, CallRefund(w, r)
    PROVE  OwnStep(w)
PROOF
<1> DEFINE e == [Idle EXCEPT !.pc = "findConsumed", !.resource = r]
<1>1. e \in CallType
  BY IdleIsACall, CallRecords DEF Pcs
<1>2. ent' = [ent EXCEPT ![w] = e]
  BY DEF CallRefund
<1>3. e.pc = "findConsumed" /\ e.resource = r
  BY DEF Idle
<1> HIDE DEF e
<1>4. CallOK(e) /\ (PlanFree => ReadOK(e))
  BY <1>3 DEF CallOK, ReadOK
<1>5. /\ budget' \in [plan : Nat, cancel : Nat, refund : Nat]
      /\ PlanFree => budget'.plan = 0
  BY DEF CallRefund, Types, PlanFree
<1> QED
  BY <1>1, <1>2, <1>4, <1>5, Moves DEF CallRefund

LEMMA SyncStarts ==
    ASSUME Types, NEW w \in Workers, NEW s \in sent, CallSync(w, s)
    PROVE  OwnStep(w)
PROOF
<1> DEFINE e == [Idle EXCEPT !.pc = "syncRead", !.snap = s]
<1>1. e \in CallType
  <2>1. s \in ReadSnap
    BY DEF Types, TypeOK, Snap, ReadSnap
  <2> QED
    BY <2>1, IdleIsACall, CallRecords DEF Pcs
<1>2. ent' = [ent EXCEPT ![w] = e]
  BY DEF CallSync
<1>3. e.pc = "syncRead" /\ e.snap = s
  BY DEF Idle
<1> HIDE DEF e
<1>4. CallOK(e) /\ (PlanFree => ReadOK(e))
  BY <1>3 DEF CallOK, ReadOK
<1> QED
  BY <1>1, <1>2, <1>4, Moves DEF CallSync, world, Types, PlanFree

\* The call of a plan change, its snap written at once.
PlanCall(n, k) ==
    [Idle EXCEPT !.pc = "planStripe", !.id = n, !.row = subs[n],
                 !.snap = [Idle.snap EXCEPT !.item = subs[n].item, !.sku = k]]

LEMMA PlanChangeCall ==
    ASSUME NEW w, NEW n, NEW k, CallChangePlan(w, n, k)
    PROVE  ent' = [ent EXCEPT ![w] = PlanCall(n, k)]
PROOF
<1> DEFINE row == subs[n]
           i == subs[n].item
           d == [Idle EXCEPT !.pc = "planStripe", !.id = n, !.row = row,
                             !.snap.item = i, !.snap.sku = k]
           e == [Idle EXCEPT !.pc = "planStripe", !.id = n, !.row = row,
                             !.snap = [Idle.snap EXCEPT !.item = i, !.sku = k]]
<1>1. ent' = [ent EXCEPT ![w] = d]
  BY DEF CallChangePlan
<1>2. d = e
  <2> HIDE DEF row, i
  <2>1. /\ Idle = [f \in DOMAIN Idle |-> Idle[f]]
        /\ {"pc", "id", "row", "snap"} \subseteq DOMAIN Idle
        /\ Idle.snap = [f \in DOMAIN Idle.snap |-> Idle.snap[f]]
        /\ {"item", "sku"} \subseteq DOMAIN Idle.snap
    BY DEF Idle, NoSnap
  <2> QED
    BY <2>1
<1>3. ent' = [ent EXCEPT ![w] = e]
  <2> HIDE DEF d, e
  <2> QED
    BY <1>1, <1>2
<1> QED
  BY <1>3 DEF PlanCall

LEMMA PlanChangeStarts ==
    ASSUME Types, NEW w \in Workers, NEW n \in SubIds, NEW k \in Skus, CallChangePlan(w, n, k)
    PROVE  OwnStep(w)
PROOF
<1> DEFINE e == PlanCall(n, k)
<1>1. n \in Rows /\ subs[n] \in Row /\ subs[n] \in ReadRow /\ subs[n].item \in Items
  BY RowsAreRead DEF CallChangePlan, Row
<1>2. [Idle.snap EXCEPT !.item = subs[n].item, !.sku = k] \in ReadSnap
  BY <1>1 DEF Idle, NoSnap, ReadSnap
<1>3. e \in CallType
  <2>1. \A c \in CallType, x \in ReadSnap :
           [c EXCEPT !.pc = "planStripe", !.id = n, !.row = subs[n], !.snap = x] \in CallType
    BY <1>1 DEF CallType, Pcs
  <2> QED
    BY <1>2, <2>1, IdleIsACall DEF PlanCall
<1>4. ent' = [ent EXCEPT ![w] = e]
  BY PlanChangeCall
<1>5. e.pc = "planStripe" /\ e.id = n /\ e.snap.item = subs[n].item /\ e.snap.sku = k
  BY DEF PlanCall, Idle, NoSnap
<1> HIDE DEF e
<1>6. CallOK(e) /\ (PlanFree => ReadOK(e))
  BY <1>1, <1>5 DEF CallOK, CallChangePlan, PlanFree
<1>7. budget' \in [plan : Nat, cancel : Nat, refund : Nat] /\ ~PlanFree
  BY DEF CallChangePlan, Types, PlanFree
<1> QED
  BY <1>3, <1>4, <1>6, <1>7, Moves DEF CallChangePlan

LEMMA FindSubscriptionsMoves ==
    ASSUME Types, NEW w \in Workers, FindSubscriptions(w)
    PROVE  OwnStep(w)
PROOF
<1>1. CASE ActiveRows = {}
  BY <1>1, Ends DEF FindSubscriptions, Statuses
<1>2. CASE ActiveRows # {}
  <2> DEFINE n == Newest(ActiveRows)
             p == IF subs[n].used >= subs[n].included
                  THEN "findExistingUsage" ELSE "findUnique"
             e == [ent[w] EXCEPT !.pc = p, !.row = subs[n]]
  <2>1. n \in Rows /\ subs[n] \in ReadRow
    <3>1. n \in ActiveRows
      BY <1>2, NewestIsAmong, ActiveRowsAreFinite
    <3>2. n \in Rows
      BY <3>1 DEF ActiveRows
    <3> QED
      BY <3>2, RowsAreRead
  <2>2. ent' = [ent EXCEPT ![w] = e]
    BY <1>2 DEF FindSubscriptions, Types
  <2>3. p \in Pcs /\ p \in {"findExistingUsage", "findUnique"}
    BY DEF Pcs
  <2> HIDE DEF n, p
  <2>4. ent[w] \in CallType /\ ent[w].resource \in Resources
    BY DEF Types, CallOK, FindSubscriptions
  <2>5. e \in CallType
    BY <2>1, <2>3, <2>4, CallRecords
  <2>6. e.pc = p /\ e.resource = ent[w].resource
    BY <2>4 DEF CallType
  <2> HIDE DEF e
  <2>7. CallOK(e) /\ (PlanFree => ReadOK(e))
    BY <2>3, <2>4, <2>6 DEF CallOK, ReadOK
  <2> QED
    BY <2>2, <2>5, <2>7, Moves DEF FindSubscriptions, world, Types, PlanFree
<1> QED
  BY <1>1, <1>2

LEMMA FindUniqueMoves ==
    ASSUME Types, NEW w \in Workers, FindUnique(w)
    PROVE  OwnStep(w)
PROOF
<1> DEFINE S == RowsOf(ent[w].row.sku)
<1>1. CASE ~ \E n \in S : subs[n].active
  BY <1>1, Ends DEF FindUnique, Statuses
<1>2. CASE \E n \in S : subs[n].active
  <2>1. PICK n \in S : ent' = [ent EXCEPT ![w].pc = "findUsage", ![w].id = n,
                                          ![w].row = subs[n]]
    BY <1>2 DEF FindUnique
  <2> DEFINE e == [ent[w] EXCEPT !.pc = "findUsage", !.id = n, !.row = subs[n]]
  <2>2. n \in Rows /\ n \in SubIds /\ subs[n] \in Row /\ subs[n] \in ReadRow
    BY RowsAreRead DEF RowsOf
  <2>3. ent' = [ent EXCEPT ![w] = e]
    BY <2>1 DEF Types
  <2>4. ent[w] \in CallType /\ ent[w].resource \in Resources
    BY DEF Types, CallOK, FindUnique
  <2>5. e \in CallType
    BY <2>2, <2>4, CallRecords DEF Pcs
  <2>6. e.pc = "findUsage" /\ e.resource = ent[w].resource /\ e.id = n /\ e.row = subs[n]
    BY <2>4 DEF CallType
  <2> HIDE DEF e
  <2>7. CallOK(e) /\ (PlanFree => ReadOK(e))
    BY <2>2, <2>4, <2>6 DEF CallOK, ReadOK, PlanFree
  <2> QED
    BY <2>3, <2>5, <2>7, Moves DEF FindUnique, world, Types, PlanFree
<1> QED
  BY <1>1, <1>2

LEMMA FindUsageMoves ==
    ASSUME Types, NEW w \in Workers, FindUsage(w)
    PROVE  OwnStep(w)
PROOF
<1>1. \/ \E s \in Statuses : Done(w, s) \/ FallBack(w, s)
      \/ Goto(w, "consumeTx")
  BY DEF FindUsage, Statuses
<1>2. UNCHANGED <<store, world>> /\ ent[w].pc = "findUsage"
  BY DEF FindUsage
<1>3. CASE Goto(w, "consumeTx")
  <2> DEFINE e == [ent[w] EXCEPT !.pc = "consumeTx"]
  <2>1. ent[w] \in CallType /\ CallOK(ent[w])
    BY DEF Types
  <2>2. e \in CallType
    BY <2>1, CallRecords DEF Pcs
  <2>3. ent' = [ent EXCEPT ![w] = e]
    BY <1>3 DEF Goto, Types
  <2>4. /\ e.pc = "consumeTx" /\ e.resource = ent[w].resource
        /\ e.id = ent[w].id /\ e.row = ent[w].row
    BY <2>1 DEF CallType
  <2> HIDE DEF e
  <2>5. CallOK(e) /\ (PlanFree => ReadOK(e))
    BY <1>2, <2>1, <2>4 DEF CallOK, ReadOK, PlanFree
  <2> QED
    BY <1>2, <2>2, <2>3, <2>5, Moves DEF world, Types, PlanFree
<1> QED
  BY <1>1, <1>2, <1>3, Ends

LEMMA FindConsumedMoves ==
    ASSUME Types, NEW w \in Workers, FindConsumed(w)
    PROVE  OwnStep(w)
PROOF
<1> DEFINE r == ent[w].resource
           k == CHOOSE j \in Used(r) : \A i \in Used(r) : usage[i, r] <= usage[j, r]
<1>1. ent[w] \in CallType /\ r \in Resources
  BY DEF Types, CallOK, FindConsumed
<1>2. CASE Used(r) = {}
  <2> DEFINE e == [ent[w] EXCEPT !.pc = "creditRefund"]
  <2>1. ent' = [ent EXCEPT ![w] = e]
    BY <1>2 DEF FindConsumed, Goto, Types
  <2>2. e \in CallType
    BY <1>1, CallRecords DEF Pcs
  <2>3. e.pc = "creditRefund"
    BY <1>1 DEF CallType
  <2> HIDE DEF e
  <2>4. CallOK(e) /\ (PlanFree => ReadOK(e))
    BY <2>3 DEF CallOK, ReadOK
  <2> QED
    BY <2>1, <2>2, <2>4, Moves DEF FindConsumed, world, Types, PlanFree
<1>3. CASE Used(r) # {}
  <2> DEFINE e == [ent[w] EXCEPT !.pc = "refundTx", !.row = [ent[w].row EXCEPT !.sku = k]]
  <2>1. ent' = [ent EXCEPT ![w].pc = "refundTx", ![w].row.sku = k]
    BY <1>3 DEF FindConsumed
  <2>2. k \in Skus /\ <<k, r>> \in Charged
    <3>1. k \in Used(r)
      BY <1>1, <1>3, LastChargeIsCharged
    <3> HIDE DEF k
    <3> QED
      BY <1>1, <3>1 DEF Used, Charged
  <2> HIDE DEF k
  <2>3. ent' = [ent EXCEPT ![w] = e]
    BY <2>1 DEF Types
  <2>4. ent[w].row \in ReadRow
    BY <1>1 DEF CallType
  <2>5. [ent[w].row EXCEPT !.sku = k] \in ReadRow
    BY <2>2, <2>4 DEF ReadRow
  <2>6. e \in CallType
    BY <1>1, <2>5, CallRecords DEF Pcs
  <2>7. e.pc = "refundTx" /\ e.resource = r /\ e.row.sku = k
    BY <1>1, <2>4 DEF CallType, ReadRow
  <2> HIDE DEF e
  <2>8. CallOK(e) /\ (PlanFree => ReadOK(e))
    BY <1>1, <2>2, <2>7 DEF CallOK, ReadOK
  <2> QED
    BY <2>3, <2>6, <2>8, Moves DEF FindConsumed, world, Types, PlanFree
<1> QED
  BY <1>2, <1>3

LEMMA SyncReadMoves ==
    ASSUME Types, NEW w \in Workers, SyncRead(w)
    PROVE  OwnStep(w)
PROOF
<1>1. ent[w] \in CallType /\ ent[w].snap \in sent
  BY DEF Types, CallOK, SyncRead
<1>2. UNCHANGED <<store, world>>
  BY DEF SyncRead
<1>3. ASSUME Done(w, "synced") PROVE OwnStep(w)
  BY <1>2, <1>3, Ends DEF Statuses
<1>4. ASSUME ent' = [ent EXCEPT ![w].pc = "syncCreate"] PROVE OwnStep(w)
  <2> DEFINE e == [ent[w] EXCEPT !.pc = "syncCreate"]
  <2>1. ent' = [ent EXCEPT ![w] = e]
    BY <1>4 DEF Types
  <2>2. e \in CallType
    BY <1>1, CallRecords DEF Pcs
  <2>3. e.pc = "syncCreate" /\ e.snap = ent[w].snap
    BY <1>1 DEF CallType
  <2> HIDE DEF e
  <2>4. CallOK(e) /\ (PlanFree => ReadOK(e))
    BY <1>1, <2>3 DEF CallOK, ReadOK
  <2> QED
    BY <1>2, <2>1, <2>2, <2>4, Moves DEF world, Types, PlanFree
<1>5. ASSUME NEW n \in Rows, subs[n].sku = ent[w].snap.sku,
             subs[n].period <= ent[w].snap.period,
             ent' = [ent EXCEPT ![w].pc = "syncUpdate", ![w].id = n, ![w].row = subs[n]]
      PROVE  OwnStep(w)
  <2> DEFINE e == [ent[w] EXCEPT !.pc = "syncUpdate", !.id = n, !.row = subs[n]]
  <2>1. ent' = [ent EXCEPT ![w] = e]
    BY <1>5 DEF Types
  <2>2. n \in SubIds /\ subs[n] \in Row /\ subs[n] \in ReadRow
    BY RowsAreRead
  <2>3. e \in CallType
    BY <1>1, <2>2, CallRecords DEF Pcs
  <2>4. e.pc = "syncUpdate" /\ e.snap = ent[w].snap /\ e.id = n /\ e.row = subs[n]
    BY <1>1 DEF CallType
  <2> HIDE DEF e
  <2>5. CallOK(e) /\ (PlanFree => ReadOK(e))
    BY <1>1, <1>5, <2>2, <2>4 DEF CallOK, ReadOK
  <2> QED
    BY <1>2, <2>1, <2>3, <2>5, Moves DEF world, Types, PlanFree
<1>6. ASSUME NEW n \in Rows, ~ (subs[n].period > ent[w].snap.period)
      PROVE  subs[n].period <= ent[w].snap.period
  <2>1. ent[w].snap \in Snap
    BY <1>1 DEF Types, TypeOK
  <2>2. subs[n] \in Row
    BY RowsAreRead
  <2>3. subs[n].period \in Nat /\ ent[w].snap.period \in Nat
    BY <2>1, <2>2 DEF Row, Snap
  <2> QED
    BY <1>6, <2>3
<1> QED
  BY <1>3, <1>4, <1>5, <1>6 DEF SyncRead, RowsOf

LEMMA SyncLostMoves ==
    ASSUME Types, NEW w \in Workers, SyncLost(w)
    PROVE  OwnStep(w)
PROOF
<1> DEFINE p == IF ent[w].attempt = 0 THEN "syncRead" ELSE "done"
           e == [ent[w] EXCEPT !.pc = p, !.attempt = 1]
<1>1. ent[w] \in CallType /\ ent[w].snap \in sent
  BY DEF Types, CallOK, SyncLost
<1>2. ent' = [ent EXCEPT ![w] = e]
  BY DEF SyncLost, Types
<1>3. p \in Pcs /\ p \in {"syncRead", "done"}
  BY DEF Pcs
<1> HIDE DEF p
<1>4. e \in CallType
  BY <1>1, <1>3, CallRecords
<1>5. e.pc = p /\ e.snap = ent[w].snap
  BY <1>1 DEF CallType
<1> HIDE DEF e
<1>6. CallOK(e) /\ (PlanFree => ReadOK(e))
  BY <1>1, <1>3, <1>5 DEF CallOK, ReadOK
<1> QED
  BY <1>2, <1>4, <1>6, Moves DEF SyncLost, world, Types, PlanFree

LEMMA ReturnMoves ==
    ASSUME Types, NEW w \in Workers, Return(w)
    PROVE  OwnStep(w)
PROOF
<1>1. ent' = [ent EXCEPT ![w] = Idle] /\ UNCHANGED <<store, world>>
  BY DEF Return
<1>2. Idle.pc = "idle"
  BY DEF Idle
<1>3. CallOK(Idle) /\ (PlanFree => ReadOK(Idle))
  BY <1>2 DEF CallOK, ReadOK
<1> QED
  BY <1>1, <1>3, IdleIsACall, Moves DEF world, Types, PlanFree
-----------------------------------------------------------------------------
(* Steps that write the database or change Stripe.                         *)

\* The last statement of a call that writes rows or events.
LEMMA WritesKeepTypes ==
    ASSUME Types, NEW w \in Workers, NEW s \in Statuses, Done(w, s), UNCHANGED world,
           subs' \in [SubIds -> Row \cup {NoSub}],
           usage' \in [Skus \X Resources -> Nat],
           periodGrants' \subseteq Items \X Nat,
           \E N \in Nat : Rows' = 1 .. N,
           Rows \subseteq Rows', Charged \subseteq Charged',
           usageRefund' \subseteq Charged', IsFiniteSet(Charged')
    PROVE  Types'
PROOF
<1> DEFINE e == [ent[w] EXCEPT !.pc = "done", !.status = s]
<1>1. ent[w] \in CallType
  BY DEF Types
<1>2. e \in CallType /\ e.pc = "done"
  BY <1>1, CallRecords DEF CallType
<1>3. ent' = [ent EXCEPT ![w] = e]
  BY DEF Done, Types
<1> HIDE DEF e
<1>4. /\ ent'[w] = e
      /\ ent' \in [Workers -> CallType]
      /\ \A v \in Workers \ {w} : ent'[v] = ent[v]
  BY <1>2, <1>3, OneCallMoves DEF Types
<1>5. TypeOK'
  <2>1. usageRefund' \subseteq Skus \X Resources
    BY DEF Charged
  <2>2. \A v \in Workers : ent'[v].pc \in Pcs
    BY <1>4 DEF CallType
  <2> QED
    BY <2>1, <2>2 DEF Types, TypeOK, world
<1>6. ASSUME NEW v \in Workers PROVE CallOK(ent[v])'
  <2>1. CASE v = w
    BY <1>2, <1>4, <2>1 DEF CallOK
  <2>2. CASE v # w
    <3>1. ent'[v] = ent[v] /\ CallOK(ent[v])
      BY <1>4, <2>2 DEF Types
    <3> QED
      BY <3>1 DEF CallOK, world
  <2> QED
    BY <2>1, <2>2
<1> QED
  BY <1>4, <1>5, <1>6 DEF Types, world

\* A row that is rewritten stays a row.
LEMMA RowsStay ==
    ASSUME Types, NEW n \in Rows, NEW row \in Row, subs' = [subs EXCEPT ![n] = row]
    PROVE  /\ subs' \in [SubIds -> Row \cup {NoSub}]
           /\ Rows' = Rows
PROOF
<1>1. n \in SubIds /\ row.sku # None
  BY RowsAreRead, SkuAssumption DEF Row
<1>2. subs' \in [SubIds -> Row \cup {NoSub}]
  BY DEF Types, TypeOK
<1>3. Rows' = Rows
  BY <1>1 DEF Types, TypeOK, Rows
<1> QED
  BY <1>2, <1>3

LEMMA ConsumeTxWrites ==
    ASSUME Types, NEW w \in Workers, ConsumeTx(w)
    PROVE  /\ ent[w].row.sku \in Skus /\ ent[w].resource \in Resources
           /\ ent[w].id \in Rows /\ ent[w].row \in Row
           /\ Rows' = Rows
           /\ Charged' = Charged \cup {<<ent[w].row.sku, ent[w].resource>>}
           /\ subs' = [subs EXCEPT ![ent[w].id] = [subs[ent[w].id] EXCEPT !.used = @ + 1]]
           /\ Types'
PROOF
<1> DEFINE n == ent[w].id
           kr == <<ent[w].row.sku, ent[w].resource>>
           row == [subs[n] EXCEPT !.used = @ + 1]
<1>1. n \in Rows /\ ent[w].row \in Row /\ ent[w].resource \in Resources
  BY DEF Types, CallOK, ConsumeTx
<1>2. ent[w].row.sku \in Skus /\ kr \in Skus \X Resources
  BY <1>1 DEF Row
<1>3. subs[n] \in Row
  BY <1>1, RowsAreRead
<1>4. row \in Row
  BY <1>3 DEF Row
<1>5. subs' = [subs EXCEPT ![n] = row]
  BY DEF ConsumeTx, Types, TypeOK
<1>6. usage' = [usage EXCEPT ![kr] = NextRank]
  BY DEF ConsumeTx
<1>7. usage' \in [Skus \X Resources -> Nat] /\ Charged' = Charged \cup {kr}
  <2> HIDE DEF kr
  <2> QED
    BY <1>2, <1>6, NextRankIsPositive DEF Types, TypeOK, Charged
<1>8. IsFiniteSet(Charged')
  BY <1>7, FS_AddElement DEF Types
<1>9. Rows' = Rows /\ subs' \in [SubIds -> Row \cup {NoSub}]
  <2> HIDE DEF row
  <2> QED
    BY <1>1, <1>4, <1>5, RowsStay
<1>10. Types'
  <2>1. "consumed" \in Statuses /\ Done(w, "consumed") /\ UNCHANGED <<world, usageRefund, periodGrants>>
    BY DEF ConsumeTx, Statuses
  <2>2. /\ periodGrants' \subseteq Items \X Nat /\ \E N \in Nat : Rows' = 1 .. N
        /\ usageRefund' \subseteq Charged'
    BY <2>1, <1>7, <1>9 DEF Types, TypeOK
  <2> QED
    BY <1>7, <1>8, <1>9, <2>1, <2>2, WritesKeepTypes
<1> QED
  BY <1>1, <1>2, <1>5, <1>7, <1>9, <1>10

LEMMA RefundTxWrites ==
    ASSUME Types, NEW w \in Workers, RefundTx(w)
    PROVE  /\ Rows' = Rows /\ Types'
           /\ <<ent[w].row.sku, ent[w].resource>> \in Charged
PROOF
<1>1. <<ent[w].row.sku, ent[w].resource>> \in Charged
  BY DEF Types, CallOK, RefundTx
<1>2. ASSUME NEW n \in SubIds
      PROVE  /\ subs'[n] \in Row \cup {NoSub}
             /\ subs'[n].sku = subs[n].sku
  <2>1. subs[n] \in Row \cup {NoSub}
    BY DEF Types, TypeOK
  <2>2. ASSUME n \in Rows, subs[n].used > 0
        PROVE  [subs[n] EXCEPT !.used = @ - 1] \in Row
    BY <2>2, RowsAreRead DEF Row
  <2>3. subs'[n] = subs[n] \/ (/\ n \in Rows /\ subs[n].used > 0
                              /\ subs'[n] = [subs[n] EXCEPT !.used = @ - 1])
    BY DEF RefundTx, RowsOf
  <2> QED
    BY <2>1, <2>2, <2>3, RowsAreRead DEF Row
<1>3. DOMAIN subs' = SubIds /\ subs' = [n \in SubIds |-> subs'[n]]
  BY DEF RefundTx, Types, TypeOK
<1>4. subs' \in [SubIds -> Row \cup {NoSub}] /\ Rows' = Rows
  BY <1>2, <1>3 DEF Rows
<1>5. /\ UNCHANGED <<world, usage, periodGrants>> /\ Charged' = Charged
      /\ "refunded" \in Statuses /\ Done(w, "refunded")
  BY DEF RefundTx, Charged, Statuses
<1>6. usageRefund' \subseteq Charged'
  BY <1>1, <1>5 DEF RefundTx, Types
<1>7. Types'
  <2>1. /\ usage' \in [Skus \X Resources -> Nat] /\ periodGrants' \subseteq Items \X Nat
        /\ IsFiniteSet(Charged') /\ \E N \in Nat : Rows' = 1 .. N
    BY <1>4, <1>5 DEF Types, TypeOK
  <2> QED
    BY <1>4, <1>5, <1>6, <2>1, WritesKeepTypes
<1> QED
  BY <1>1, <1>4, <1>7

LEMMA SnapRow ==
    ASSUME NEW s \in Snap, NEW u \in Nat, NEW k \in Skus
    PROVE  RowOf(s, u) \in Row /\ [RowOf(s, u) EXCEPT !.sku = k] \in Row
PROOF
<1>1. Included[s.sku] \in Nat
  BY IncludedAssumption DEF Snap
<1>2. RowOf(s, u) \in Row
  BY <1>1 DEF RowOf, Row, Snap
<1> QED
  BY <1>2 DEF Row

LEMMA SyncCreateWrites ==
    ASSUME Types, NEW w \in Workers, SyncCreate(w)
    PROVE  /\ ent[w].snap \in sent /\ Types'
           /\ \E n \in SubIds \ Rows :
                 /\ Rows' = Rows \cup {n}
                 /\ subs' = [subs EXCEPT ![n] = RowOf(ent[w].snap, 0)]
PROOF
<1> DEFINE s == ent[w].snap
           n == Cardinality(Rows) + 1
<1>1. s \in sent /\ s \in Snap
  BY DEF Types, TypeOK, CallOK, SyncCreate
<1>2. PICK N \in Nat : Rows = 1 .. N
  BY DEF Types
<1>3. n = N + 1
  <2>1. Cardinality(1 .. N) = N
    BY FS_Interval
  <2> QED
    BY <1>2, <2>1
<1>4. n \in SubIds /\ n \notin Rows /\ Rows \cup {n} = 1 .. N + 1
  BY <1>2, <1>3 DEF SyncCreate
<1>5. subs' = [subs EXCEPT ![n] = RowOf(s, 0)]
  BY DEF SyncCreate
<1>6. RowOf(s, 0) \in Row /\ RowOf(s, 0).sku # None
  <2>1. RowOf(s, 0) \in Row
    BY <1>1, SnapRow DEF Snap
  <2> QED
    BY <2>1, SkuAssumption DEF Row
<1> HIDE DEF n, s
<1>7. subs' \in [SubIds -> Row \cup {NoSub}]
  BY <1>5, <1>6 DEF Types, TypeOK
<1>8. Rows' = Rows \cup {n}
  BY <1>4, <1>5, <1>6 DEF Types, TypeOK, Rows
<1>9. Types'
  <2>1. /\ UNCHANGED <<world, usage, usageRefund>> /\ Charged' = Charged
        /\ Done(w, "synced") /\ "synced" \in Statuses
    BY DEF SyncCreate, Charged, Statuses
  <2>2. <<s.item, s.period>> \in Items \X Nat
    BY <1>1 DEF Snap
  <2>3. periodGrants' \subseteq Items \X Nat
    BY <2>2 DEF SyncCreate, Types, TypeOK, s
  <2>4. N + 1 \in Nat /\ Rows' = 1 .. N + 1
    BY <1>4, <1>8
  <2>5. /\ usage' \in [Skus \X Resources -> Nat] /\ usageRefund' \subseteq Charged'
        /\ IsFiniteSet(Charged') /\ \E M \in Nat : Rows' = 1 .. M
    BY <2>1, <2>4 DEF Types, TypeOK
  <2> QED
    BY <1>7, <1>8, <2>1, <2>3, <2>5, WritesKeepTypes
<1> QED
  BY <1>1, <1>4, <1>5, <1>8, <1>9 DEF s

LEMMA SyncUpdateWrites ==
    ASSUME Types, NEW w \in Workers, SyncUpdate(w)
    PROVE  LET s == ent[w].snap
               n == ent[w].id
               used == IF ent[w].row.period # s.period THEN 0 ELSE subs[n].used IN
           /\ s \in sent /\ n \in Rows /\ ent[w].row \in Row
           /\ subs[n] \in Row
           /\ Rows' = Rows /\ Types'
           /\ subs' = [subs EXCEPT ![n] = [RowOf(s, used) EXCEPT !.sku = subs[n].sku]]
PROOF
<1> DEFINE s == ent[w].snap
           n == ent[w].id
           used == IF ent[w].row.period # s.period THEN 0 ELSE subs[n].used
           row == [RowOf(s, used) EXCEPT !.sku = subs[n].sku]
<1>1. s \in sent /\ s \in Snap /\ n \in Rows /\ ent[w].row \in Row
  BY DEF Types, TypeOK, CallOK, SyncUpdate
<1>2. subs[n] \in Row
  BY <1>1, RowsAreRead
<1>3. row \in Row
  <2>1. used \in Nat /\ subs[n].sku \in Skus
    BY <1>2 DEF Row
  <2> HIDE DEF used, s
  <2> QED
    BY <1>1, <2>1, SnapRow
<1>4. subs' = [subs EXCEPT ![n] = row]
  BY DEF SyncUpdate
<1>5. Rows' = Rows /\ subs' \in [SubIds -> Row \cup {NoSub}]
  <2> HIDE DEF row
  <2> QED
    BY <1>1, <1>3, <1>4, RowsStay
<1>6. Types'
  <2>1. /\ UNCHANGED <<world, usage, usageRefund>> /\ Charged' = Charged
        /\ Done(w, "synced") /\ "synced" \in Statuses
    BY DEF SyncUpdate, Charged, Statuses
  <2>2. <<s.item, s.period>> \in Items \X Nat
    BY <1>1 DEF Snap
  <2>3. periodGrants' \subseteq Items \X Nat
    BY <2>2 DEF SyncUpdate, Types, TypeOK
  <2>4. /\ usage' \in [Skus \X Resources -> Nat] /\ usageRefund' \subseteq Charged'
        /\ IsFiniteSet(Charged') /\ \E M \in Nat : Rows' = 1 .. M
    BY <1>5, <2>1 DEF Types, TypeOK
  <2> QED
    BY <1>5, <2>1, <2>3, <2>4, WritesKeepTypes
<1> QED
  BY <1>1, <1>2, <1>4, <1>5, <1>6
LEMMA PlanStripeTypes ==
    ASSUME Types, NEW w \in Workers, PlanStripe(w)
    PROVE  Types'
PROOF
<1> DEFINE i == ent[w].snap.item
           k == ent[w].snap.sku
<1>1. /\ ent[w] \in CallType /\ ent[w].id \in Rows
      /\ i \in Items /\ k \in Skus /\ stripe[i] \in ItemType
      /\ now \in 0 .. MaxPeriod
  BY DEF Types, TypeOK, CallOK, PlanStripe
<1>2. PICK p \in {stripe[i].period, now} :
         /\ Report(i, [sku |-> k, active |-> TRUE, period |-> p])
         /\ ent' = [ent EXCEPT ![w].pc = "planWrite", ![w].snap.active = TRUE,
                               ![w].snap.period = p]
  BY DEF PlanStripe
<1>3. p \in 0 .. MaxPeriod
  BY <1>1 DEF ItemType
<1> DEFINE snap == [ent[w].snap EXCEPT !.active = TRUE, !.period = p]
           e == [ent[w] EXCEPT !.pc = "planWrite", !.snap = snap]
<1>4. snap \in ReadSnap /\ snap.item = i /\ snap.sku = k
  <2>1. ent[w].snap \in ReadSnap /\ p \in Nat
    BY <1>1, <1>3, EntitlementBounds DEF CallType
  <2>2. \A x \in ReadSnap : LET y == [x EXCEPT !.active = TRUE, !.period = p]
                            IN  y \in ReadSnap /\ y.item = x.item /\ y.sku = x.sku
    BY <2>1 DEF ReadSnap
  <2> QED
    BY <2>1, <2>2
<1>5. ent' = [ent EXCEPT ![w] = e]
  BY <1>2 DEF Types
<1> HIDE DEF snap
<1>6. e \in CallType /\ e.pc = "planWrite" /\ e.id = ent[w].id /\ e.snap = snap
  <2>1. e \in CallType
    BY <1>1, <1>4, CallRecords DEF Pcs
  <2> QED
    BY <1>1, <2>1 DEF CallType
<1> HIDE DEF e
<1>7. /\ ent'[w] = e
      /\ ent' \in [Workers -> CallType]
      /\ \A v \in Workers \ {w} : ent'[v] = ent[v]
  BY <1>5, <1>6, OneCallMoves DEF Types
<1>8. UNCHANGED <<store, now, budget>> /\ Rows' = Rows /\ Charged' = Charged
  BY DEF PlanStripe, Rows, Charged, store
<1>9. /\ stripe' \in [Items -> ItemType]
      /\ \A j \in Items : stripe'[j].active => stripe'[j].sku \in Skus
      /\ sent \subseteq sent' /\ sent' \subseteq Snap
  <2> DEFINE x == [sku |-> k, active |-> TRUE, period |-> p]
             y == [item |-> i, sku |-> k, active |-> TRUE, period |-> p]
  <2>1. x \in ItemType /\ x.sku \in Skus
    BY <1>1, <1>3 DEF ItemType
  <2>2. y \in Snap
    BY <1>1, <1>3, EntitlementBounds DEF Snap
  <2>3. stripe' = [stripe EXCEPT ![i] = x] /\ sent' = sent \cup {y}
    BY <1>2 DEF Report
  <2> HIDE DEF i, k, x, y
  <2> QED
    BY <1>1, <2>1, <2>2, <2>3 DEF Types, TypeOK
<1>10. TypeOK'
  <2>1. \A v \in Workers : ent'[v].pc \in Pcs
    BY <1>7 DEF CallType
  <2> QED
    BY <1>8, <1>9, <2>1 DEF Types, TypeOK, store
<1>11. ASSUME NEW v \in Workers PROVE CallOK(ent[v])'
  <2>1. CASE v = w
    BY <1>1, <1>4, <1>6, <1>7, <1>8, <2>1 DEF CallOK
  <2>2. CASE v # w
    <3>1. ent'[v] = ent[v] /\ CallOK(ent[v])
      BY <1>7, <2>2 DEF Types
    <3> QED
      BY <1>8, <1>9, <3>1 DEF CallOK
  <2> QED
    BY <2>1, <2>2
<1> QED
  BY <1>7, <1>8, <1>9, <1>10, <1>11 DEF Types, store

LEMMA PlanWriteTypes ==
    ASSUME Types, NEW w \in Workers, PlanWrite(w)
    PROVE  Types'
PROOF
<1> DEFINE s == ent[w].snap
           n == ent[w].id
           row == RowOf(s, subs[n].used)
<1>1. ent[w] \in CallType /\ n \in Rows /\ s.item \in Items /\ s.sku \in Skus
  BY DEF Types, CallOK, PlanWrite
<1>2. s \in Snap
  <2>1. s \in ReadSnap
    BY <1>1 DEF CallType
  <2> QED
    BY <1>1, <2>1 DEF ReadSnap, Snap
<1>3. row \in Row
  <2>1. subs[n].used \in Nat
    BY <1>1, RowsAreRead DEF Row
  <2> HIDE DEF s
  <2> QED
    BY <1>2, <2>1, SnapRow DEF Snap
<1>4. subs' = [subs EXCEPT ![n] = row]
  BY DEF PlanWrite
<1>5. Rows' = Rows /\ subs' \in [SubIds -> Row \cup {NoSub}]
  <2> HIDE DEF row
  <2> QED
    BY <1>1, <1>3, <1>4, RowsStay
<1>6. /\ UNCHANGED <<world, usage, usageRefund, periodGrants>> /\ Charged' = Charged
      /\ Done(w, "changed") /\ "changed" \in Statuses
  BY DEF PlanWrite, Charged, Statuses
<1>7. /\ usage' \in [Skus \X Resources -> Nat] /\ usageRefund' \subseteq Charged'
      /\ periodGrants' \subseteq Items \X Nat
      /\ IsFiniteSet(Charged') /\ \E M \in Nat : Rows' = 1 .. M
  BY <1>5, <1>6 DEF Types, TypeOK
<1> QED
  BY <1>5, <1>6, <1>7, WritesKeepTypes

\* Credit calls and stuttering leave everything here alone.
LEMMA ElsewhereTypes ==
    ASSUME Types, UNCHANGED <<world, store, ent>>
    PROVE  Types'
PROOF
<1>1. Rows' = Rows /\ Charged' = Charged
  BY DEF Rows, Charged, store
<1>2. TypeOK' /\ \A w \in Workers : CallOK(ent[w])'
  BY <1>1 DEF Types, TypeOK, CallOK, world, store
<1> QED
  BY <1>1, <1>2 DEF Types, world, store

\* The steps of Next by what they write.
LEMMA StepKinds ==
    ASSUME Types, Next
    PROVE  \/ World
           \/ UNCHANGED <<world, store, ent>>
           \/ \E w \in Workers :
                 \/ OwnStep(w)
                 \/ ConsumeTx(w) \/ RefundTx(w) \/ SyncCreate(w) \/ SyncUpdate(w)
                 \/ PlanStripe(w) \/ PlanWrite(w)
PROOF
<1>1. CASE World
  BY <1>1
<1>2. ASSUME NEW w \in Workers, Calls(w)
      PROVE  OwnStep(w) \/ UNCHANGED <<world, store, ent>>
  <2>1. ASSUME NEW g \in Grants, GrantCredit(w, g) PROVE UNCHANGED <<world, store, ent>>
    BY <2>1 DEF GrantCredit
  <2> QED
    BY <1>2, <2>1, ConsumeStarts, RefundStarts, SyncStarts, PlanChangeStarts DEF Calls
<1>3. ASSUME NEW w \in Workers, ConsumeStep(w) PROVE OwnStep(w) \/ ConsumeTx(w)
  BY <1>3, FindSubscriptionsMoves, FindUniqueMoves, FindUsageMoves, EndingSteps
  DEF ConsumeStep
<1>4. ASSUME NEW w \in Workers, RefundStep(w) PROVE OwnStep(w) \/ RefundTx(w)
  BY <1>4, FindConsumedMoves, EndingSteps DEF RefundStep
<1>5. ASSUME NEW w \in Workers, SyncStep(w)
      PROVE  OwnStep(w) \/ SyncCreate(w) \/ SyncUpdate(w)
  BY <1>5, SyncReadMoves, SyncLostMoves, EndingSteps DEF SyncStep
<1>6. ASSUME NEW w \in Workers, PlanStep(w)
      PROVE  OwnStep(w) \/ PlanStripe(w) \/ PlanWrite(w)
  BY <1>6, EndingSteps DEF PlanStep
<1>7. ASSUME NEW w \in Workers, CreditStep(w) \/ GrantReturn(w)
      PROVE  UNCHANGED <<world, store, ent>>
  BY <1>7 DEF CreditStep, GrantReturn
<1> QED
  BY <1>1, <1>2, <1>3, <1>4, <1>5, <1>6, <1>7, ReturnMoves DEF Next

LEMMA TypesAtFirst ==
    ASSUME Init
    PROVE  Types
PROOF
<1>1. Rows = {} /\ Rows = 1 .. 0
  BY DEF Init, Rows, NoSub
<1>2. Charged = {} /\ IsFiniteSet(Charged)
  <2>1. Charged = {}
    BY DEF Init, Charged
  <2> QED
    BY <2>1, FS_EmptySet
<1>3. ent \in [Workers -> CallType]
  BY IdleIsACall DEF Init
<1>4. \A w \in Workers : CallOK(ent[w]) /\ ent[w].pc \in Pcs
  BY DEF Init, CallOK, Idle, Pcs
<1>5. TypeOK
  BY <1>4, EntitlementBounds DEF Init, TypeOK
<1>6. /\ budget \in [plan : Nat, cancel : Nat, refund : Nat]
      /\ stripe \in [Items -> ItemType]
      /\ \A i \in Items : ~stripe[i].active
      /\ usageRefund = {}
  BY EntitlementBounds DEF Init, NoItem, ItemType
<1> QED
  BY <1>1, <1>2, <1>3, <1>4, <1>5, <1>6 DEF Types

LEMMA TypesNext ==
    ASSUME Types, [Next]_vars
    PROVE  Types'
PROOF
<1>1. ASSUME NEW w \in Workers,
             OwnStep(w) \/ ConsumeTx(w) \/ RefundTx(w) \/ SyncCreate(w)
               \/ SyncUpdate(w) \/ PlanStripe(w) \/ PlanWrite(w)
      PROVE  Types'
  BY <1>1, OwnStepTypes, ConsumeTxWrites, RefundTxWrites, SyncCreateWrites,
     SyncUpdateWrites, PlanStripeTypes, PlanWriteTypes
<1>2. CASE UNCHANGED <<world, store, ent>>
  BY <1>2, ElsewhereTypes
<1>3. CASE World
  BY <1>3, WorldTypes
<1>4. CASE vars' = vars
  BY <1>4, ElsewhereTypes DEF vars, store
<1> QED
  BY <1>1, <1>2, <1>3, <1>4, StepKinds

\* The variables keep their types: counters of usage never go below zero and a
\* row that exists keeps a plan and an item, whatever the plan changes.
THEOREM EntitlementTypes == Spec => []TypeOK
PROOF
<1>1. Types => TypeOK
  BY DEF Types
<1> QED
  BY <1>1, TypesAtFirst, TypesNext, PTL DEF Spec
-----------------------------------------------------------------------------
(* Organizations whose plan does not change.                               *)

LEMMA UnrefundedIsFinite ==
    ASSUME Types, NEW k \in Skus
    PROVE  IsFiniteSet(Unrefunded(k)) /\ Cardinality(Unrefunded(k)) \in Nat
PROOF
<1> DEFINE g == [r \in Unrefunded(k) |-> <<k, r>>]
<1>1. g \in Injection(Unrefunded(k), Charged)
  BY DEF Unrefunded, Charged, Injection, IsInjective
<1> HIDE DEF g
<1>2. IsFiniteSet(Unrefunded(k))
  BY <1>1, FS_Injection DEF Types
<1> QED
  BY <1>2, FS_CardinalityType

\* A step that leaves the rows, the events and what Stripe said.
LEMMA OwnStepPlanFree ==
    ASSUME Types, PlanFree, NEW w \in Workers, OwnStep(w)
    PROVE  PlanFree'
PROOF
<1>1. PICK e \in CallType : ent' = [ent EXCEPT ![w] = e] /\ ReadOK(e)
  BY DEF OwnStep
<1>2. ent'[w] = e /\ \A v \in Workers \ {w} : ent'[v] = ent[v]
  BY <1>1, OneCallMoves DEF Types
<1>3. UNCHANGED <<store, stripe, sent>> /\ Rows' = Rows /\ budget'.plan = 0
  BY DEF OwnStep, Rows, store
<1>4. /\ UsedWithinIncluded' /\ UsedIsBacked' /\ RowsComeFromStripe' /\ GrantsAreBehind'
  <2>1. \A k : Unrefunded(k)' = Unrefunded(k)
    BY <1>3 DEF Unrefunded, store
  <2> QED
    BY <1>3, <2>1 DEF PlanFree, UsedWithinIncluded, UsedIsBacked, RowsComeFromStripe,
                      GrantsAreBehind, store
<1>5. ASSUME NEW v \in Workers PROVE ReadOK(ent[v])'
  <2>1. ReadOK(ent'[v])
    BY <1>1, <1>2 DEF PlanFree
  <2> QED
    BY <1>3, <2>1 DEF ReadOK, store
<1> QED
  BY <1>3, <1>4, <1>5 DEF PlanFree, store

LEMMA ElsewherePlanFree ==
    ASSUME PlanFree, UNCHANGED <<world, store, ent>>
    PROVE  PlanFree'
PROOF
<1>1. Rows' = Rows /\ \A k : Unrefunded(k)' = Unrefunded(k)
  BY DEF Rows, Unrefunded, store
<1>2. UsedWithinIncluded' /\ UsedIsBacked' /\ RowsComeFromStripe' /\ GrantsAreBehind'
  BY <1>1 DEF PlanFree, UsedWithinIncluded, UsedIsBacked, RowsComeFromStripe,
              GrantsAreBehind, store, world
<1>3. \A w \in Workers : ReadOK(ent[w])'
  BY DEF PlanFree, ReadOK, store
<1> QED
  BY <1>1, <1>2, <1>3 DEF PlanFree, store, world

\* Stripe reports another state of an item: its plan is the one it had, if it
\* had one.
LEMMA ReportPlanFree ==
    ASSUME Types, PlanFree, NEW i \in Items,
           NEW x \in [sku : Skus, active : BOOLEAN, period : 0 .. MaxPeriod],
           Report(i, x), stripe[i].sku \in {None, x.sku},
           UNCHANGED <<store, ent>>, budget'.plan = 0
    PROVE  PlanFree'
PROOF
<1> DEFINE y == [item |-> i, sku |-> x.sku, active |-> x.active, period |-> x.period]
<1>1. stripe' = [stripe EXCEPT ![i] = x] /\ sent' = sent \cup {y}
  BY DEF Report
<1>2. \A j \in Items : stripe[j].sku # None => stripe'[j].sku = stripe[j].sku
  BY <1>1 DEF Types
<1>3. \A s \in sent' : s.sku = stripe'[s.item].sku
  <2>1. ASSUME NEW s \in sent PROVE s.sku = stripe'[s.item].sku
    <3>1. s.item \in Items /\ s.sku # None
      BY SkuAssumption DEF Types, TypeOK, Snap
    <3> QED
      BY <1>2, <3>1 DEF PlanFree
  <2>2. y.sku = stripe'[y.item].sku
    BY <1>1 DEF Types
  <2> QED
    BY <1>1, <2>1, <2>2
<1>4. Rows' = Rows /\ \A k : Unrefunded(k)' = Unrefunded(k)
  BY DEF Rows, Unrefunded, store
<1>5. GrantsAreBehind'
  <2>1. ASSUME NEW g \in periodGrants
        PROVE  \E n \in Rows : subs[n].sku = stripe'[g[1]].sku /\ subs[n].period >= g[2]
    <3>1. PICK n \in Rows : subs[n].sku = stripe[g[1]].sku /\ subs[n].period >= g[2]
      BY DEF PlanFree, GrantsAreBehind
    <3>2. g[1] \in Items /\ stripe[g[1]].sku # None
      BY <3>1 DEF Types, TypeOK, Rows
    <3> QED
      BY <1>2, <3>1, <3>2
  <2> QED
    BY <1>4, <2>1 DEF GrantsAreBehind, store
<1>6. UsedWithinIncluded' /\ UsedIsBacked' /\ RowsComeFromStripe'
  BY <1>1, <1>4 DEF PlanFree, UsedWithinIncluded, UsedIsBacked, RowsComeFromStripe, store
<1>7. \A w \in Workers : ReadOK(ent[w])'
  BY DEF PlanFree, ReadOK, store
<1> QED
  BY <1>3, <1>4, <1>5, <1>6, <1>7 DEF PlanFree, store

LEMMA WorldPlanFree ==
    ASSUME Types, PlanFree, World
    PROVE  PlanFree'
PROOF
<1>1. ASSUME NextPeriod PROVE PlanFree'
  <2>1. Rows' = Rows /\ \A k : Unrefunded(k)' = Unrefunded(k)
    BY <1>1 DEF NextPeriod, Rows, Unrefunded, store
  <2>2. UsedWithinIncluded' /\ UsedIsBacked' /\ RowsComeFromStripe' /\ GrantsAreBehind'
    BY <1>1, <2>1 DEF NextPeriod, PlanFree, UsedWithinIncluded, UsedIsBacked,
                      RowsComeFromStripe, GrantsAreBehind, store
  <2>3. \A w \in Workers : ReadOK(ent[w])'
    BY <1>1 DEF NextPeriod, PlanFree, ReadOK, store
  <2> QED
    BY <1>1, <2>1, <2>2, <2>3 DEF NextPeriod, PlanFree, store
<1>2. now \in 0 .. MaxPeriod
  BY DEF Types, TypeOK
<1>3. ASSUME NEW i \in Items, NEW k \in Skus, Subscribe(i, k) PROVE PlanFree'
  <2> DEFINE x == [sku |-> k, active |-> TRUE, period |-> now]
  <2>1. /\ x \in [sku : Skus, active : BOOLEAN, period : 0 .. MaxPeriod]
        /\ Report(i, x) /\ stripe[i].sku = None
        /\ UNCHANGED <<store, ent>> /\ budget'.plan = 0
    BY <1>2, <1>3 DEF Subscribe, NoItem, PlanFree
  <2> HIDE DEF x
  <2> QED
    BY <2>1, ReportPlanFree
<1>4. ASSUME NEW i \in Items, Renew(i) PROVE PlanFree'
  <2> DEFINE x == [stripe[i] EXCEPT !.period = now]
  <2>1. /\ x \in [sku : Skus, active : BOOLEAN, period : 0 .. MaxPeriod]
        /\ x.sku = stripe[i].sku
    BY <1>2, <1>4 DEF Renew, Types, ItemType
  <2>2. Report(i, x) /\ UNCHANGED <<store, ent>> /\ budget'.plan = 0
    BY <1>4 DEF Renew, PlanFree
  <2> HIDE DEF x
  <2> QED
    BY <2>1, <2>2, ReportPlanFree
<1>5. ASSUME NEW i \in Items, Cancel(i) PROVE PlanFree'
  <2> DEFINE x == [stripe[i] EXCEPT !.active = FALSE]
  <2>1. /\ x \in [sku : Skus, active : BOOLEAN, period : 0 .. MaxPeriod]
        /\ x.sku = stripe[i].sku
    BY <1>5 DEF Cancel, Types, ItemType
  <2>2. Report(i, x) /\ UNCHANGED <<store, ent>> /\ budget'.plan = 0
    BY <1>5 DEF Cancel, PlanFree, Types
  <2> HIDE DEF x
  <2> QED
    BY <2>1, <2>2, ReportPlanFree
<1> QED
  BY <1>1, <1>3, <1>4, <1>5 DEF World

\* The last statement of a call that writes: the calls in progress keep what
\* they rely on as long as the rows keep their plans.
LEMMA WritesKeepReads ==
    ASSUME Types, PlanFree, NEW w \in Workers, NEW s \in Statuses, Done(w, s),
           \A n \in Rows : subs'[n].sku = subs[n].sku
    PROVE  \A v \in Workers : ReadOK(ent[v])'
PROOF
<1> SUFFICES ASSUME NEW v \in Workers PROVE ReadOK(ent[v])'
  OBVIOUS
<1> DEFINE e == [ent[w] EXCEPT !.pc = "done", !.status = s]
<1>1. ent[w] \in CallType
  BY DEF Types
<1>2. e \in CallType /\ e.pc = "done"
  BY <1>1, CallRecords DEF CallType
<1>3. ent' = [ent EXCEPT ![w] = e]
  BY DEF Done, Types
<1> HIDE DEF e
<1>4. ent'[w] = e /\ \A u \in Workers \ {w} : ent'[u] = ent[u]
  BY <1>2, <1>3, OneCallMoves DEF Types
<1>5. CASE v = w
  BY <1>2, <1>4, <1>5 DEF ReadOK
<1>6. CASE v # w
  <2>1. ent'[v] = ent[v] /\ ReadOK(ent[v]) /\ CallOK(ent[v])
    BY <1>4, <1>6 DEF Types, PlanFree
  <2> QED
    BY <2>1 DEF ReadOK, CallOK
<1> QED
  BY <1>5, <1>6

LEMMA ConsumeTxPlanFree ==
    ASSUME Types, PlanFree, NEW w \in Workers, ConsumeTx(w)
    PROVE  PlanFree'
PROOF
<1>0. PICK n, k, r : n = ent[w].id /\ k = ent[w].row.sku /\ r = ent[w].resource
  OBVIOUS
<1>1. /\ k \in Skus /\ r \in Resources /\ n \in Rows /\ Rows' = Rows
      /\ Charged' = Charged \cup {<<k, r>>}
      /\ subs' = [subs EXCEPT ![n] = [subs[n] EXCEPT !.used = @ + 1]]
  BY <1>0, ConsumeTxWrites
<1>2. /\ UNCHANGED <<world, usageRefund, periodGrants>> /\ Done(w, "consumed")
      /\ usage[k, r] = 0 /\ usage' = [usage EXCEPT ![<<k, r>>] = NextRank]
      /\ subs[n].used < ent[w].row.included
  BY <1>0 DEF ConsumeTx
<1>3. subs[n].sku = k /\ ent[w].row.included = Included[k]
  BY <1>0 DEF PlanFree, ReadOK, ConsumeTx
<1>4. \A m \in Rows : subs[m] \in Row /\ m \in SubIds
  BY RowsAreRead
<1>5. /\ \A m \in Rows \ {n} : subs'[m] = subs[m]
      /\ subs'[n] = [subs[n] EXCEPT !.used = @ + 1]
      /\ subs'[n].used = subs[n].used + 1
  BY <1>1, <1>4 DEF Types, TypeOK, Row
<1>6. \A m \in Rows : /\ subs'[m].sku = subs[m].sku /\ subs'[m].item = subs[m].item
                      /\ subs'[m].active = subs[m].active
                      /\ subs'[m].period = subs[m].period
                      /\ subs'[m].included = subs[m].included
  BY <1>1, <1>4, <1>5 DEF Row
<1>7. UsedWithinIncluded'
  <2>1. subs'[n].used <= subs'[n].included
    <3>1. subs[n].used \in Nat /\ subs[n].included \in Nat /\ subs[n].included = Included[k]
      BY <1>1, <1>3, <1>4 DEF PlanFree, Row
    <3>2. subs[n].used < subs[n].included
      BY <1>2, <1>3, <3>1
    <3> QED
      BY <1>1, <1>5, <1>6, <3>1, <3>2
  <2> QED
    BY <1>1, <1>5, <2>1 DEF PlanFree, UsedWithinIncluded
<1>8. UsedIsBacked'
  <2>0. usage[<<k, r>>] = 0 /\ usage' = [usage EXCEPT ![<<k, r>>] = NextRank]
    BY <1>2
  <2>1. <<k, r>> \notin Charged /\ <<k, r>> \notin usageRefund
    <3>1. <<k, r>> \notin Charged
      BY <2>0 DEF Charged
    <3> QED
      BY <3>1 DEF Types
  <2>2. NextRank > 0
    BY NextRankIsPositive
  <2>3. /\ Unrefunded(k)' = Unrefunded(k) \cup {r}
        /\ r \notin Unrefunded(k)
        /\ \A j \in Skus \ {k} : Unrefunded(j)' = Unrefunded(j)
    <3>1. usage \in [Skus \X Resources -> Nat] /\ <<k, r>> \in Skus \X Resources
      BY <1>1 DEF Types, TypeOK
    <3>2. /\ usage'[<<k, r>>] = NextRank
          /\ \A kr \in Skus \X Resources : kr # <<k, r>> => usage'[kr] = usage[kr]
      BY <2>0, <3>1
    <3>3. usageRefund' = usageRefund
      BY <1>2
    <3> HIDE DEF NextRank
    <3>4. Unrefunded(k)' = Unrefunded(k) \cup {r} /\ r \notin Unrefunded(k)
      <4>1. usage'[<<k, r>>] > 0
        BY <2>2, <3>2
      <4>2. \A x \in Resources \ {r} : usage'[<<k, x>>] = usage[<<k, x>>]
        BY <1>1, <3>2
      <4>3. ~ (usage[<<k, r>>] > 0)
        BY <2>0
      <4>4. ASSUME NEW x \in Resources
            PROVE  x \in Unrefunded(k)' <=> x \in Unrefunded(k) \/ x = r
        <5>1. CASE x = r
          BY <2>1, <3>3, <4>1, <5>1 DEF Unrefunded
        <5>2. CASE x # r
          <6>1. usage'[<<k, x>>] = usage[<<k, x>>]
            BY <4>2, <5>2
          <6> QED
            BY <3>3, <5>2, <6>1 DEF Unrefunded
        <5> QED
          BY <5>1, <5>2
      <4> QED
        BY <1>1, <4>3, <4>4 DEF Unrefunded
    <3>5. \A j \in Skus \ {k} : Unrefunded(j)' = Unrefunded(j)
      BY <3>2, <3>3 DEF Unrefunded
    <3> QED
      BY <3>4, <3>5
  <2>4. Cardinality(Unrefunded(k)') = Cardinality(Unrefunded(k)) + 1
    BY <1>1, <2>3, UnrefundedIsFinite, FS_AddElement
  <2>5. ASSUME NEW m \in Rows
        PROVE  (subs[m].used <= Cardinality(Unrefunded(subs[m].sku)))'
    <3>1. /\ subs[m].used <= Cardinality(Unrefunded(subs[m].sku))
          /\ subs[m].used \in Nat /\ subs[m].sku \in Skus
      BY <1>4 DEF PlanFree, UsedIsBacked, Row
    <3>2. CASE m = n
      <4>1. Cardinality(Unrefunded(k)) \in Nat
        BY <1>1, UnrefundedIsFinite
      <4>2. subs'[n].used <= Cardinality(Unrefunded(k)')
        BY <1>3, <1>5, <2>4, <3>1, <3>2, <4>1
      <4> QED
        BY <1>1, <1>3, <1>6, <3>2, <4>2
    <3>3. CASE m # n
      <4>1. subs[m].sku # k
        BY <1>1, <1>3, <3>3 DEF PlanFree
      <4> QED
        BY <1>5, <2>3, <3>1, <3>3, <4>1
    <3> QED
      BY <3>2, <3>3
  <2> QED
    BY <1>1, <2>5 DEF UsedIsBacked
<1>9. RowsComeFromStripe' /\ GrantsAreBehind'
  <2>1. UNCHANGED <<stripe, sent, periodGrants>>
    BY <1>2 DEF world
  <2> QED
    BY <1>1, <1>6, <2>1 DEF PlanFree, RowsComeFromStripe, GrantsAreBehind
<1>10. \A v \in Workers : ReadOK(ent[v])'
  BY <1>2, <1>6, WritesKeepReads DEF Statuses
<1>11. /\ \A a, b \in Rows : subs'[a].sku = subs'[b].sku => a = b
       /\ \A m \in Rows : subs'[m].included = Included[subs'[m].sku]
  BY <1>6 DEF PlanFree
<1>12. UNCHANGED <<stripe, sent, budget>>
  BY <1>2 DEF world
<1> QED
  BY <1>1, <1>7, <1>8, <1>9, <1>10, <1>11, <1>12 DEF PlanFree

LEMMA RefundTxPlanFree ==
    ASSUME Types, PlanFree, NEW w \in Workers, RefundTx(w)
    PROVE  PlanFree'
PROOF
<1>0. PICK k, r : k = ent[w].row.sku /\ r = ent[w].resource
  OBVIOUS
<1>1. Rows' = Rows /\ <<k, r>> \in Charged
  BY <1>0, RefundTxWrites
<1>2. /\ UNCHANGED <<world, usage, periodGrants>> /\ Done(w, "refunded")
  BY DEF RefundTx
<1>3. \A m \in Rows : subs[m] \in Row /\ m \in SubIds
  BY RowsAreRead
<1>4. CASE <<k, r>> \in usageRefund
  <2>1. UNCHANGED <<subs, usageRefund>>
    BY <1>0, <1>4 DEF RefundTx
  <2>2. \A j : Unrefunded(j)' = Unrefunded(j)
    BY <1>2, <2>1 DEF Unrefunded
  <2>3. UsedWithinIncluded' /\ UsedIsBacked' /\ RowsComeFromStripe' /\ GrantsAreBehind'
    BY <1>1, <1>2, <2>1, <2>2 DEF PlanFree, UsedWithinIncluded, UsedIsBacked,
                                  RowsComeFromStripe, GrantsAreBehind, world
  <2>4. \A v \in Workers : ReadOK(ent[v])'
    BY <1>2, <2>1, WritesKeepReads DEF Statuses
  <2> QED
    BY <1>1, <1>2, <2>1, <2>3, <2>4 DEF PlanFree, world
<1>5. CASE <<k, r>> \notin usageRefund
  <2>1. /\ usageRefund' = usageRefund \cup {<<k, r>>}
        /\ subs' = [n \in SubIds |->
                      IF n \in RowsOf(k) /\ subs[n].used > 0
                      THEN [subs[n] EXCEPT !.used = @ - 1] ELSE subs[n]]
    BY <1>0, <1>5 DEF RefundTx
  <2>2. ASSUME NEW m \in Rows
        PROVE  /\ subs'[m].sku = subs[m].sku /\ subs'[m].item = subs[m].item
               /\ subs'[m].active = subs[m].active
               /\ subs'[m].period = subs[m].period
               /\ subs'[m].included = subs[m].included
               /\ subs'[m].used = IF subs[m].sku = k /\ subs[m].used > 0
                                  THEN subs[m].used - 1 ELSE subs[m].used
    BY <1>3, <2>1 DEF RowsOf, Row
  <2>3. UsedWithinIncluded'
    <3>1. ASSUME NEW m \in Rows PROVE subs'[m].used <= subs'[m].included
      BY <1>3, <2>2 DEF PlanFree, UsedWithinIncluded, Row
    <3> QED
      BY <1>1, <3>1 DEF UsedWithinIncluded
  <2>4. UsedIsBacked'
    <3>1. k \in Skus /\ r \in Unrefunded(k)
      BY <1>1, <1>5 DEF Charged, Unrefunded
    <3>2. /\ Unrefunded(k)' = Unrefunded(k) \ {r}
          /\ \A j \in Skus \ {k} : Unrefunded(j)' = Unrefunded(j)
      BY <1>2, <2>1 DEF Unrefunded
    <3>3. /\ Cardinality(Unrefunded(k)') = Cardinality(Unrefunded(k)) - 1
          /\ Cardinality(Unrefunded(k)') \in Nat /\ Cardinality(Unrefunded(k)) \in Nat
      <4>1. IsFiniteSet(Unrefunded(k)) /\ Cardinality(Unrefunded(k)) \in Nat
        BY <3>1, UnrefundedIsFinite
      <4>2. /\ IsFiniteSet(Unrefunded(k) \ {r})
            /\ Cardinality(Unrefunded(k) \ {r}) = Cardinality(Unrefunded(k)) - 1
        BY <3>1, <4>1, FS_RemoveElement
      <4>3. Cardinality(Unrefunded(k) \ {r}) \in Nat
        BY <4>2, FS_CardinalityType
      <4> QED
        BY <3>2, <4>1, <4>2, <4>3
    <3>4. ASSUME NEW m \in Rows
          PROVE  (subs[m].used <= Cardinality(Unrefunded(subs[m].sku)))'
      <4>1. /\ subs[m].used <= Cardinality(Unrefunded(subs[m].sku))
            /\ subs[m].used \in Nat /\ subs[m].sku \in Skus
        BY <1>3 DEF PlanFree, UsedIsBacked, Row
      <4>2. CASE subs[m].sku = k
        BY <2>2, <3>3, <4>1, <4>2
      <4>3. CASE subs[m].sku # k
        BY <2>2, <3>2, <4>1, <4>3
      <4> QED
        BY <4>2, <4>3
    <3> QED
      BY <1>1, <3>4 DEF UsedIsBacked
  <2>5. RowsComeFromStripe' /\ GrantsAreBehind'
    BY <1>1, <1>2, <2>2 DEF PlanFree, RowsComeFromStripe, GrantsAreBehind, world
  <2>6. \A v \in Workers : ReadOK(ent[v])'
    BY <1>2, <2>2, WritesKeepReads DEF Statuses
  <2> QED
    BY <1>1, <1>2, <2>2, <2>3, <2>4, <2>5, <2>6 DEF PlanFree, world
<1> QED
  BY <1>4, <1>5
\* A sync writes a grant for the period of its snapshot, or none; the rows keep
\* their plans and only move forward.
LEMMA SyncGrants ==
    ASSUME Types, PlanFree, NEW s \in sent, NEW n \in Rows',
           Rows \subseteq Rows', UNCHANGED stripe,
           \A m \in Rows : subs'[m].sku = subs[m].sku,
           \A m \in Rows : subs'[m].period \in Nat /\ subs'[m].period >= subs[m].period,
           subs'[n].sku = s.sku, subs'[n].period = s.period,
           periodGrants' \subseteq periodGrants \cup {<<s.item, s.period>>}
    PROVE  GrantsAreBehind'
PROOF
<1> SUFFICES ASSUME NEW g \in periodGrants'
             PROVE  \E m \in Rows' : subs'[m].sku = stripe[g[1]].sku /\ subs'[m].period >= g[2]
  BY DEF GrantsAreBehind
<1>1. CASE g \in periodGrants
  <2>1. PICK m \in Rows : subs[m].sku = stripe[g[1]].sku /\ subs[m].period >= g[2]
    BY <1>1 DEF PlanFree, GrantsAreBehind
  <2>2. g[2] \in Nat /\ subs[m].period \in Nat
    BY <1>1, RowsAreRead DEF Types, TypeOK, Row
  <2>3. subs'[m].period >= g[2]
    BY <2>1, <2>2
  <2> QED
    BY <2>1, <2>3
<1>2. CASE g = <<s.item, s.period>>
  <2>1. s.sku = stripe[s.item].sku /\ s.period \in Nat
    BY DEF PlanFree, Types, TypeOK, Snap
  <2> QED
    BY <1>2, <2>1
<1> QED
  BY <1>1, <1>2

LEMMA SyncCreatePlanFree ==
    ASSUME Types, PlanFree, NEW w \in Workers, SyncCreate(w)
    PROVE  PlanFree'
PROOF
<1>0. PICK s : s = ent[w].snap
  OBVIOUS
<1>1. s \in sent /\ s \in Snap /\ Types'
  BY <1>0, SyncCreateWrites DEF Types, TypeOK
<1>2. PICK n \in SubIds \ Rows :
         Rows' = Rows \cup {n} /\ subs' = [subs EXCEPT ![n] = RowOf(s, 0)]
  BY <1>0, SyncCreateWrites
<1>3. /\ UNCHANGED <<world, usage, usageRefund>> /\ Done(w, "synced")
      /\ \A m \in Rows : subs[m].sku # s.sku
      /\ periodGrants' = periodGrants \cup {<<s.item, s.period>>}
  BY <1>0 DEF SyncCreate
<1>4. UNCHANGED <<stripe, sent, budget>>
  BY <1>3 DEF world
<1>5. /\ \A m \in Rows : subs'[m] = subs[m]
      /\ subs'[n] = RowOf(s, 0)
  BY <1>2 DEF Types, TypeOK, Rows
<1>6. /\ subs'[n].sku = s.sku /\ subs'[n].item = s.item /\ subs'[n].active = s.active
      /\ subs'[n].period = s.period /\ subs'[n].included = Included[s.sku]
      /\ subs'[n].used = 0
  BY <1>5 DEF RowOf
<1>7. s.sku \in Skus /\ s.period \in Nat /\ Included[s.sku] \in Nat
  BY <1>1, IncludedAssumption DEF Snap
<1>8. /\ \A a, b \in Rows' : subs'[a].sku = subs'[b].sku => a = b
      /\ \A m \in Rows' : subs'[m].included = Included[subs'[m].sku]
  BY <1>2, <1>3, <1>5, <1>6 DEF PlanFree
<1>9. UsedWithinIncluded'
  <2>1. \A m \in Rows' : subs'[m].used <= subs'[m].included
    BY <1>2, <1>5, <1>6, <1>7 DEF PlanFree, UsedWithinIncluded
  <2> QED
    BY <2>1 DEF UsedWithinIncluded
<1>10. UsedIsBacked'
  <2>1. \A j : Unrefunded(j)' = Unrefunded(j)
    BY <1>3 DEF Unrefunded
  <2>2. Cardinality(Unrefunded(s.sku)) \in Nat
    BY <1>7, UnrefundedIsFinite
  <2>3. ASSUME NEW m \in Rows'
        PROVE  (subs[m].used <= Cardinality(Unrefunded(subs[m].sku)))'
    <3>1. CASE m = n
      BY <1>6, <2>1, <2>2, <3>1
    <3>2. CASE m \in Rows
      BY <1>5, <2>1, <3>2 DEF PlanFree, UsedIsBacked
    <3> QED
      BY <1>2, <3>1, <3>2
  <2> QED
    BY <2>3 DEF UsedIsBacked
<1>11. RowsComeFromStripe'
  BY <1>1, <1>2, <1>4, <1>5, <1>6 DEF PlanFree, RowsComeFromStripe
<1>12. \A m \in Rows : /\ subs'[m].sku = subs[m].sku
                       /\ subs'[m].period \in Nat /\ subs'[m].period >= subs[m].period
  BY <1>5, RowsAreRead DEF Row
<1>13. GrantsAreBehind'
  BY <1>1, <1>2, <1>3, <1>4, <1>6, <1>12, SyncGrants
<1>14. \A v \in Workers : ReadOK(ent[v])'
  BY <1>3, <1>12, WritesKeepReads DEF Statuses
<1> QED
  BY <1>4, <1>8, <1>9, <1>10, <1>11, <1>13, <1>14 DEF PlanFree

\* What an update by a sync does to its row when no plan changes.
LEMMA SyncUpdateRow ==
    ASSUME Types, PlanFree, NEW w \in Workers, SyncUpdate(w)
    PROVE  \E s \in sent, n \in Rows :
              /\ Rows' = Rows
              /\ \A m \in Rows \ {n} : subs'[m] = subs[m]
              /\ s.sku = subs[n].sku /\ s.period >= subs[n].period
              /\ subs'[n].sku = s.sku /\ subs'[n].item = s.item
              /\ subs'[n].active = s.active /\ subs'[n].period = s.period
              /\ subs'[n].included = subs[n].included
              /\ \/ /\ subs'[n].used = subs[n].used
                    /\ periodGrants' = periodGrants
                 \/ /\ subs'[n].used = 0
                    /\ subs[n].period # s.period
                    /\ periodGrants' = periodGrants \cup {<<s.item, s.period>>}
PROOF
<1>0. PICK s, n, row : s = ent[w].snap /\ n = ent[w].id /\ row = ent[w].row
  OBVIOUS
<1> DEFINE used == IF row.period # s.period THEN 0 ELSE subs[n].used
<1>1. /\ s \in sent /\ n \in Rows /\ row \in Row /\ subs[n] \in Row /\ Rows' = Rows
      /\ subs' = [subs EXCEPT ![n] = [RowOf(s, used) EXCEPT !.sku = subs[n].sku]]
  BY <1>0, SyncUpdateWrites
<1>2. /\ subs[n].period = row.period
      /\ periodGrants' = IF row.period # s.period
                           THEN periodGrants \cup {<<s.item, s.period>>} ELSE periodGrants
  BY <1>0 DEF SyncUpdate
<1>3. subs[n].sku = s.sku /\ row.period <= s.period
  BY <1>0 DEF SyncUpdate, PlanFree, ReadOK
<1>4. s \in Snap /\ n \in SubIds
  BY <1>1, RowsAreRead DEF Types, TypeOK
<1>5. subs'[n] = [RowOf(s, used) EXCEPT !.sku = subs[n].sku]
      /\ \A m \in Rows \ {n} : subs'[m] = subs[m]
  BY <1>1, <1>4 DEF Types, TypeOK
<1>6. /\ subs'[n].sku = s.sku /\ subs'[n].item = s.item /\ subs'[n].active = s.active
      /\ subs'[n].period = s.period /\ subs'[n].included = Included[s.sku]
      /\ subs'[n].used = used
  <2> HIDE DEF used
  <2> QED
    BY <1>3, <1>5 DEF RowOf
<1>7. subs'[n].included = subs[n].included
  BY <1>1, <1>3, <1>6 DEF PlanFree
<1>8. s.period >= subs[n].period
  BY <1>1, <1>2, <1>3, <1>4 DEF Row, Snap
<1> QED
  BY <1>1, <1>2, <1>3, <1>5, <1>6, <1>7, <1>8

LEMMA SyncUpdatePlanFree ==
    ASSUME Types, PlanFree, NEW w \in Workers, SyncUpdate(w)
    PROVE  PlanFree'
PROOF
<1>1. PICK s \in sent, n \in Rows :
              /\ Rows' = Rows
              /\ \A m \in Rows \ {n} : subs'[m] = subs[m]
              /\ s.sku = subs[n].sku /\ s.period >= subs[n].period
              /\ subs'[n].sku = s.sku /\ subs'[n].item = s.item
              /\ subs'[n].active = s.active /\ subs'[n].period = s.period
              /\ subs'[n].included = subs[n].included
              /\ \/ /\ subs'[n].used = subs[n].used
                    /\ periodGrants' = periodGrants
                 \/ /\ subs'[n].used = 0
                    /\ subs[n].period # s.period
                    /\ periodGrants' = periodGrants \cup {<<s.item, s.period>>}
  BY SyncUpdateRow
<1>2. UNCHANGED <<world, usage, usageRefund>> /\ Done(w, "synced")
  BY DEF SyncUpdate
<1>3. UNCHANGED <<stripe, sent, budget>>
  BY <1>2 DEF world
<1>4. \A m \in Rows : subs[m] \in Row
  BY RowsAreRead
<1>5. \A m \in Rows : subs'[m].sku = subs[m].sku /\ subs'[m].included = subs[m].included
  BY <1>1
<1>6. \A m \in Rows : /\ subs'[m].used <= subs[m].used
                      /\ subs'[m].period \in Nat /\ subs'[m].period >= subs[m].period
  <2>1. s.period \in Nat
    BY DEF Types, TypeOK, Snap
  <2> QED
    BY <1>1, <1>4, <2>1 DEF Row
<1>7. /\ \A a, b \in Rows : subs'[a].sku = subs'[b].sku => a = b
      /\ \A m \in Rows : subs'[m].included = Included[subs'[m].sku]
  BY <1>5 DEF PlanFree
<1>8. \A m \in Rows : subs'[m].used \in Nat
  BY <1>1, <1>4 DEF Row
<1>9. UsedWithinIncluded'
  <2>1. ASSUME NEW m \in Rows PROVE subs'[m].used <= subs'[m].included
    <3>1. /\ subs[m].used <= subs[m].included /\ subs[m].used \in Nat
          /\ subs[m].included \in Nat
      BY <1>4 DEF PlanFree, UsedWithinIncluded, Row
    <3> QED
      BY <1>5, <1>6, <1>8, <3>1
  <2> QED
    BY <1>1, <2>1 DEF UsedWithinIncluded
<1>10. UsedIsBacked'
  <2>1. \A j : Unrefunded(j)' = Unrefunded(j)
    BY <1>2 DEF Unrefunded
  <2>2. ASSUME NEW m \in Rows
        PROVE  (subs[m].used <= Cardinality(Unrefunded(subs[m].sku)))'
    <3>1. /\ subs[m].used <= Cardinality(Unrefunded(subs[m].sku))
          /\ subs[m].used \in Nat /\ Cardinality(Unrefunded(subs[m].sku)) \in Nat
      BY <1>4, UnrefundedIsFinite DEF PlanFree, UsedIsBacked, Row
    <3>2. subs'[m].used <= Cardinality(Unrefunded(subs[m].sku))
      BY <1>6, <1>8, <3>1
    <3> QED
      BY <1>5, <2>1, <3>2
  <2> QED
    BY <1>1, <2>2 DEF UsedIsBacked
<1>11. RowsComeFromStripe'
  BY <1>1, <1>3 DEF PlanFree, RowsComeFromStripe
<1>12. GrantsAreBehind'
  BY <1>1, <1>3, <1>5, <1>6, SyncGrants
<1>13. \A v \in Workers : ReadOK(ent[v])'
  BY <1>2, <1>5, WritesKeepReads DEF Statuses
<1> QED
  BY <1>1, <1>3, <1>7, <1>9, <1>10, <1>11, <1>12, <1>13 DEF PlanFree

\* No step of a plan change happens.
LEMMA StepKindsPlanFree ==
    ASSUME Types, PlanFree, Next
    PROVE  \/ World
           \/ UNCHANGED <<world, store, ent>>
           \/ \E w \in Workers :
                 \/ OwnStep(w)
                 \/ ConsumeTx(w) \/ RefundTx(w) \/ SyncCreate(w) \/ SyncUpdate(w)
PROOF
<1>1. ASSUME NEW w \in Workers PROVE ~PlanStripe(w) /\ ~PlanWrite(w)
  BY DEF PlanFree, ReadOK, PlanStripe, PlanWrite
<1> QED
  BY <1>1, StepKinds

LEMMA PlanFreeAtFirst ==
    ASSUME Init, MaxPlanChanges = 0
    PROVE  PlanFree
PROOF
<1>1. Rows = {}
  BY DEF Init, Rows, NoSub
<1>2. \A w \in Workers : ReadOK(ent[w])
  BY DEF Init, ReadOK, Idle
<1> QED
  BY <1>1, <1>2 DEF Init, PlanFree, UsedWithinIncluded, UsedIsBacked,
                    RowsComeFromStripe, GrantsAreBehind

LEMMA PlanFreeNext ==
    ASSUME Types, PlanFree, [Next]_vars
    PROVE  PlanFree'
PROOF
<1>1. ASSUME NEW w \in Workers,
             OwnStep(w) \/ ConsumeTx(w) \/ RefundTx(w) \/ SyncCreate(w) \/ SyncUpdate(w)
      PROVE  PlanFree'
  BY <1>1, OwnStepPlanFree, ConsumeTxPlanFree, RefundTxPlanFree, SyncCreatePlanFree,
     SyncUpdatePlanFree
<1>2. CASE UNCHANGED <<world, store, ent>>
  BY <1>2, ElsewherePlanFree
<1>3. CASE World
  BY <1>3, WorldPlanFree
<1>4. CASE vars' = vars
  BY <1>4, ElsewherePlanFree DEF vars, store
<1> QED
  BY <1>1, <1>2, <1>3, <1>4, StepKindsPlanFree

LEMMA PlanFreeHolds ==
    ASSUME MaxPlanChanges = 0
    PROVE  Spec => [](Types /\ PlanFree)
PROOF
<1>1. Init => Types /\ PlanFree
  BY TypesAtFirst, PlanFreeAtFirst
<1>2. Types /\ PlanFree /\ [Next]_vars => (Types /\ PlanFree)'
  BY TypesNext, PlanFreeNext
<1> QED
  BY <1>1, <1>2, PTL DEF Spec

\* Concurrent consumes, refunds and renewals never take more units than the plan
\* includes, however many workers there are.
THEOREM NeverMoreThanIncluded ==
    ASSUME MaxPlanChanges = 0
    PROVE  Spec => []UsedWithinIncluded
PROOF
<1>1. PlanFree => UsedWithinIncluded
  BY DEF PlanFree
<1> QED
  BY <1>1, PlanFreeHolds, PTL

\* Every unit a row shows as used stands for a consume event without a refund,
\* over any number of periods and resets.
THEOREM UsageIsBacked ==
    ASSUME MaxPlanChanges = 0
    PROVE  Spec => []UsedIsBacked
PROOF
<1>1. PlanFree => UsedIsBacked
  BY DEF PlanFree
<1> QED
  BY <1>1, PlanFreeHolds, PTL

\* A row that a step keeps moves forward only, and its usage falls for a refund
\* or for the first reset of a period.
LEMMA StepsHaveCauses ==
    ASSUME Types, PlanFree, [Next]_vars, NEW m \in Rows
    PROVE  /\ subs'[m].period >= subs[m].period
           /\ subs'[m].used < subs[m].used =>
                 \/ subs'[m].used = subs[m].used - 1 /\ usageRefund' # usageRefund
                 \/ subs'[m].used = 0 /\ periodGrants' # periodGrants
PROOF
<1>1. subs[m] \in Row /\ m \in SubIds
  BY RowsAreRead
<1>2. subs[m].used \in Nat /\ subs[m].period \in Nat
  BY <1>1 DEF Row
<1>3. CASE subs'[m] = subs[m]
  BY <1>2, <1>3
<1>4. ASSUME UNCHANGED store PROVE subs'[m] = subs[m]
  BY <1>4 DEF store
<1>5. ASSUME NEW w \in Workers, ConsumeTx(w)
      PROVE  subs'[m].period = subs[m].period /\ subs'[m].used >= subs[m].used
  <2>1. subs' = [subs EXCEPT ![ent[w].id] = [subs[ent[w].id] EXCEPT !.used = @ + 1]]
    BY <1>5, ConsumeTxWrites
  <2>2. \/ subs'[m] = subs[m]
        \/ subs'[m].period = subs[m].period /\ subs'[m].used = subs[m].used + 1
    BY <1>1, <2>1 DEF Types, TypeOK, Row
  <2> QED
    BY <1>2, <2>2
<1>6. ASSUME NEW w \in Workers, RefundTx(w)
      PROVE  /\ subs'[m].period = subs[m].period
             /\ subs'[m].used < subs[m].used =>
                   subs'[m].used = subs[m].used - 1 /\ usageRefund' # usageRefund
  <2>1. CASE UNCHANGED <<subs, usageRefund>>
    BY <1>2, <2>1
  <2>2. CASE ~ UNCHANGED <<subs, usageRefund>>
    <3>1. /\ usageRefund' # usageRefund
          /\ subs' = [n \in SubIds |->
                        IF n \in RowsOf(ent[w].row.sku) /\ subs[n].used > 0
                        THEN [subs[n] EXCEPT !.used = @ - 1] ELSE subs[n]]
      BY <1>6, <2>2 DEF RefundTx
    <3>2. /\ subs'[m].period = subs[m].period
          /\ subs'[m].used \in {subs[m].used, subs[m].used - 1}
      BY <1>1, <3>1 DEF Row
    <3> QED
      BY <1>2, <3>1, <3>2
  <2> QED
    BY <2>1, <2>2
<1>7. ASSUME NEW w \in Workers, SyncCreate(w) PROVE subs'[m] = subs[m]
  <2>1. PICK n \in SubIds \ Rows : subs' = [subs EXCEPT ![n] = RowOf(ent[w].snap, 0)]
    BY <1>7, SyncCreateWrites
  <2> QED
    BY <2>1 DEF Types, TypeOK
<1>8. ASSUME NEW w \in Workers, SyncUpdate(w)
      PROVE  /\ subs'[m].period >= subs[m].period
             /\ subs'[m].used < subs[m].used =>
                   subs'[m].used = 0 /\ periodGrants' # periodGrants
  <2>1. PICK s \in sent, n \in Rows :
              /\ \A x \in Rows \ {n} : subs'[x] = subs[x]
              /\ s.sku = subs[n].sku /\ s.period >= subs[n].period
              /\ subs'[n].period = s.period
              /\ \/ subs'[n].used = subs[n].used
                 \/ /\ subs'[n].used = 0
                    /\ subs[n].period # s.period
                    /\ periodGrants' = periodGrants \cup {<<s.item, s.period>>}
    BY <1>8, SyncUpdateRow
  <2>2. CASE m # n
    BY <1>2, <2>1, <2>2
  <2>3. CASE m = n
    <3>1. s.period \in Nat
      BY DEF Types, TypeOK, Snap
    <3>2. subs[n].period # s.period => <<s.item, s.period>> \notin periodGrants
      <4>1. SUFFICES ASSUME subs[n].period # s.period, <<s.item, s.period>> \in periodGrants
                     PROVE  FALSE
        OBVIOUS
      <4>2. PICK x \in Rows : subs[x].sku = stripe[s.item].sku /\ subs[x].period >= s.period
        BY <4>1 DEF PlanFree, GrantsAreBehind
      <4>3. x = n
        BY <2>1, <4>2 DEF PlanFree
      <4> QED
        BY <1>2, <2>1, <2>3, <3>1, <4>1, <4>2, <4>3
    <3> QED
      BY <1>2, <2>1, <2>3, <3>1, <3>2
  <2> QED
    BY <2>2, <2>3
<1>9. CASE vars' = vars
  BY <1>3, <1>4, <1>9 DEF vars
<1>10. CASE World
  BY <1>3, <1>4, <1>10 DEF World, NextPeriod, Renew, Cancel, Subscribe
<1>11. ASSUME NEW w \in Workers, OwnStep(w) PROVE subs'[m] = subs[m]
  BY <1>4, <1>11 DEF OwnStep
<1>12. ASSUME NEW w \in Workers, ConsumeTx(w)
       PROVE  ~ (subs'[m].used < subs[m].used) /\ subs'[m].period >= subs[m].period
  <2>1. subs'[m].used \in Nat
    <3>1. Types'
      BY <1>12, ConsumeTxWrites
    <3>2. m \in Rows'
      BY <1>12, ConsumeTxWrites
    <3> QED
      BY <3>1, <3>2 DEF Types, TypeOK, Rows, Row, NoSub
  <2> QED
    BY <1>2, <1>5, <1>12, <2>1
<1>13. ASSUME NEW w \in Workers, RefundTx(w) PROVE subs'[m].period >= subs[m].period
  BY <1>2, <1>6, <1>13
<1> QED
  BY <1>3, <1>4, <1>6, <1>7, <1>8, <1>9, <1>10, <1>11, <1>12, <1>13, StepKindsPlanFree

\* Usage is given back once per refund event and once per period.
THEOREM UsageFallsOnce ==
    ASSUME MaxPlanChanges = 0
    PROVE  Spec => UsageFallsForCause
PROOF
<1>1. Types /\ PlanFree /\ [Next]_vars =>
        [\A n \in Rows : subs'[n].used < subs[n].used =>
          \/ subs'[n].used = subs[n].used - 1 /\ usageRefund' # usageRefund
          \/ subs'[n].used = 0 /\ periodGrants' # periodGrants]_vars
  BY StepsHaveCauses
<1> QED
  BY <1>1, PlanFreeHolds, PTL DEF Spec, UsageFallsForCause

-----------------------------------------------------------------------------
(* One plan change.                                                        *)

Planning == {"planStripe", "planWrite"}

\* At most one call ever changes the plan, and it is the last there is.
OnePlan ==
    /\ budget.plan <= 1
    /\ \A w \in Workers : ent[w].pc \in Planning => budget.plan = 0
    /\ \A v, w \in Workers : ent[v].pc \in Planning /\ ent[w].pc \in Planning => v = w
PlanOver == budget.plan = 0 /\ \A w \in Workers : ent[w].pc \notin Planning

\* Stripe: an item's state was reported and is its latest, one item is active
\* at a time, and none before it reaches into its time.
Reported(i) == [item |-> i, sku |-> stripe[i].sku, active |-> stripe[i].active,
                period |-> stripe[i].period]
StripeOK ==
    /\ \A i \in Items : stripe[i] # NoItem =>
          stripe[i].sku \in Skus /\ Reported(i) \in sent /\ stripe[i].period <= now
    /\ \A s \in sent : /\ stripe[s.item] # NoItem
                       /\ s.period <= stripe[s.item].period
                       /\ stripe[s.item].active => s.active
    /\ \A i, j \in Items : stripe[i].active /\ stripe[j].active => i = j
    /\ \A s, t \in sent : stripe[t.item].active /\ s.item # t.item => s.period < t.period

\* A sync about to write a row: the row has the plan the sync has been told of,
\* or the plan change is over, and Stripe has reported the new plan for the same
\* period if the row is where the sync read it.
SyncOK(c) ==
    c.pc = "syncUpdate" =>
      /\ c.row.period <= c.snap.period
      /\ c.row.period <= subs[c.id].period
      /\ \/ subs[c.id].sku = c.snap.sku
         \/ /\ PlanOver
            /\ subs[c.id].period = c.row.period
                 => [c.snap EXCEPT !.sku = subs[c.id].sku] \in sent

\* The plan change: its row stays the item's while the item is active, ...
PlanAskedOK(c) ==
    c.pc = "planStripe" =>
      /\ subs[c.id].sku # c.snap.sku
      /\ stripe[c.snap.item] # NoItem
      /\ stripe[c.snap.item].active => subs[c.id].item = c.snap.item

\* ... and once Stripe has changed the plan, what it reports the row cannot take
\* before the call has written it: the row is active, and not ahead.
PlanPaidOK(c) ==
    c.pc = "planWrite" =>
      /\ subs[c.id].sku # c.snap.sku
      /\ c.snap \in sent /\ c.snap.active
      /\ stripe[c.snap.item].sku = c.snap.sku
      /\ \A j \in Items \ {c.snap.item} : ~stripe[j].active
      /\ subs[c.id].item = c.snap.item /\ subs[c.id].active
      /\ subs[c.id].period <= c.snap.period
      /\ \A s \in sent : s.item = c.snap.item /\ s.sku = subs[c.id].sku
                           => s.active /\ s.period <= c.snap.period
      /\ \A s \in sent : s.item # c.snap.item => s.period < subs[c.id].period

PlanInv ==
    /\ OnePlan /\ StripeOK /\ RowsComeFromStripe
    /\ \A w \in Workers : SyncOK(ent[w]) /\ PlanAskedOK(ent[w]) /\ PlanPaidOK(ent[w])

\* What RowsComeFromStripe says of one row.
FromStripe(row) ==
    \E s \in sent : /\ s.item = row.item /\ s.sku = row.sku
                    /\ s.active = row.active /\ s.period = row.period

\* Steps after which Stripe and the rows look the same: no step of a plan change,
\* and no step of a sync that moves a row.
KeepsRows ==
    \A n \in Rows : /\ subs'[n].sku = subs[n].sku /\ subs'[n].item = subs[n].item
                    /\ subs'[n].active = subs[n].active
                    /\ subs'[n].period = subs[n].period
SameRows == Rows' = Rows /\ KeepsRows
Writing == {"syncUpdate"} \cup Planning
Quietly ==
    /\ UNCHANGED <<stripe, sent>> /\ now' \in Nat /\ now <= now'
    /\ budget'.plan = budget.plan /\ KeepsRows
    /\ RowsComeFromStripe => RowsComeFromStripe'
    /\ \A v \in Workers : \/ ent'[v] = ent[v]
                          \/ ent'[v].pc \notin Planning /\ SyncOK(ent[v])'

LEMMA StoreSame ==
    ASSUME UNCHANGED store
    PROVE  SameRows
PROOF
BY DEF store, SameRows, KeepsRows, Rows

LEMMA CallIds ==
    ASSUME Types, NEW w \in Workers, ent[w].pc \in Writing
    PROVE  /\ ent[w].id \in Rows /\ ent[w].id \in SubIds
           /\ ent[w].snap.item \in Items /\ ent[w].snap.sku \in Skus
           /\ ent[w].snap.period \in Nat /\ ent[w].row.period \in Nat
           /\ subs[ent[w].id] \in Row
           /\ ent[w].pc = "syncUpdate" => ent[w].snap \in sent
PROOF
<1>1. CallOK(ent[w]) /\ ent[w] \in CallType
  BY DEF Types
<1>2. ent[w].id \in Rows
  BY <1>1 DEF CallOK, Writing, Planning
<1>3. ent[w].snap.item \in Items /\ ent[w].snap.sku \in Skus
      /\ (ent[w].pc = "syncUpdate" => ent[w].snap \in sent)
  BY <1>1 DEF CallOK, Writing, Planning, Types, TypeOK, Snap
<1>4. ent[w].snap.period \in Nat /\ ent[w].row.period \in Nat
  BY <1>1 DEF CallType, ReadSnap, ReadRow
<1> QED
  BY <1>2, <1>3, <1>4, RowsAreRead

LEMMA QuietPlan ==
    ASSUME Types, PlanInv, Quietly
    PROVE  PlanInv'
PROOF
<1>1. \A v \in Workers : ent'[v].pc \in Planning => ent'[v] = ent[v]
  BY DEF Quietly
<1>2. OnePlan' /\ (PlanOver => PlanOver')
  BY <1>1 DEF PlanInv, OnePlan, PlanOver, Quietly
<1>3. StripeOK'
  <2>1. \A i \in Items : stripe[i].period \in Nat
    BY EntitlementBounds DEF Types, ItemType
  <2>2. now \in Nat /\ now' \in Nat
    BY EntitlementBounds DEF Types, TypeOK, Quietly
  <2>3. ASSUME NEW i \in Items, stripe[i] # NoItem
        PROVE  stripe[i].period <= now'
    <3>1. stripe[i].period <= now /\ now <= now'
      BY <2>2, <2>3 DEF PlanInv, StripeOK, Quietly
    <3> QED
      BY <2>1, <2>2, <3>1
  <2> QED
    BY <2>3 DEF PlanInv, StripeOK, Quietly, Reported
<1>4. RowsComeFromStripe'
  BY DEF PlanInv, Quietly
<1>5. ASSUME NEW v \in Workers, ent'[v].pc \in Writing, ent'[v] = ent[v]
      PROVE  SyncOK(ent[v])' /\ PlanAskedOK(ent[v])' /\ PlanPaidOK(ent[v])'
  <2>1. ent[v].id \in Rows
    BY <1>5, CallIds
  <2>2. SyncOK(ent[v])'
    BY <1>2, <1>5, <2>1 DEF PlanInv, SyncOK, Quietly, KeepsRows
  <2>3. PlanAskedOK(ent[v])' /\ PlanPaidOK(ent[v])'
    BY <1>5, <2>1 DEF PlanInv, PlanAskedOK, PlanPaidOK, Quietly, KeepsRows
  <2> QED
    BY <2>2, <2>3
<1>6. ASSUME NEW v \in Workers, ent'[v].pc \notin Writing
      PROVE  SyncOK(ent[v])' /\ PlanAskedOK(ent[v])' /\ PlanPaidOK(ent[v])'
  BY <1>6 DEF SyncOK, PlanAskedOK, PlanPaidOK, Writing, Planning
<1>7. ASSUME NEW v \in Workers, ent'[v].pc \in Writing, ent'[v] # ent[v]
      PROVE  SyncOK(ent[v])' /\ PlanAskedOK(ent[v])' /\ PlanPaidOK(ent[v])'
  BY <1>7 DEF Quietly, PlanAskedOK, PlanPaidOK, Planning
<1> QED
  BY <1>2, <1>3, <1>4, <1>5, <1>6, <1>7 DEF PlanInv

\* A step of one call that writes no row.
LEMMA CallMoves ==
    ASSUME Types, NEW w \in Workers, NEW e, ent' = [ent EXCEPT ![w] = e]
    PROVE  ent'[w] = e /\ \A v \in Workers \ {w} : ent'[v] = ent[v]
PROOF
BY DEF Types

LEMMA QuietSteps ==
    ASSUME Types, NEW w \in Workers, SameRows, UNCHANGED <<stripe, sent, now>>,
           budget'.plan = budget.plan,
           NEW e, ent' = [ent EXCEPT ![w] = e], e.pc \notin Writing
    PROVE  Quietly
PROOF
<1>1. now \in Nat /\ now <= now
  BY EntitlementBounds DEF Types, TypeOK
<1>2. RowsComeFromStripe => RowsComeFromStripe'
  BY DEF RowsComeFromStripe, SameRows, KeepsRows
<1>3. ent'[w].pc \notin Planning /\ SyncOK(ent[w])'
  <2>1. ent'[w].pc \notin Writing
    BY CallMoves
  <2> QED
    BY <2>1 DEF SyncOK, Writing
<1> QED
  BY <1>1, <1>2, <1>3, CallMoves DEF Quietly, SameRows

LEMMA EndsAreQuiet ==
    ASSUME Types, NEW w \in Workers, SameRows, UNCHANGED <<stripe, sent, now>>,
           budget'.plan = budget.plan, NEW s, Done(w, s) \/ FallBack(w, s)
    PROVE  Quietly
PROOF
<1>0. ent[w] \in CallType
  BY DEF Types
<1>1. CASE Done(w, s)
  <2> DEFINE e == [ent[w] EXCEPT !.pc = "done", !.status = s]
  <2>1. ent' = [ent EXCEPT ![w] = e]
    BY <1>1 DEF Done, Types
  <2>2. e.pc \notin Writing
    BY <1>0 DEF CallType, Writing, Planning
  <2> QED
    BY <2>1, <2>2, QuietSteps
<1>2. CASE FallBack(w, s)
  <2> DEFINE e == [ent[w] EXCEPT !.pc = "credit", !.fallback = s]
  <2>1. ent' = [ent EXCEPT ![w] = e]
    BY <1>2 DEF FallBack, Types
  <2>2. e.pc \notin Writing
    BY <1>0 DEF CallType, Writing, Planning
  <2> QED
    BY <2>1, <2>2, QuietSteps
<1> QED
  BY <1>1, <1>2

LEMMA GoesQuietly ==
    ASSUME Types, NEW w \in Workers, SameRows, UNCHANGED <<stripe, sent, now>>,
           budget'.plan = budget.plan, NEW p, p \notin Writing, Goto(w, p)
    PROVE  Quietly
PROOF
<1> DEFINE e == [ent[w] EXCEPT !.pc = p]
<1>1. ent[w] \in CallType /\ ent' = [ent EXCEPT ![w] = e]
  BY DEF Types, Goto
<1>2. e.pc \notin Writing
  BY <1>1 DEF CallType
<1> QED
  BY <1>1, <1>2, QuietSteps

LEMMA UsageKeepsRows ==
    ASSUME Types, NEW w \in Workers, ConsumeTx(w) \/ RefundTx(w)
    PROVE  SameRows
PROOF
<1>1. \A n \in Rows : subs[n] \in Row /\ n \in SubIds
  BY RowsAreRead
<1>2. CASE ConsumeTx(w)
  <2>1. subs' = [subs EXCEPT ![ent[w].id] = [subs[ent[w].id] EXCEPT !.used = @ + 1]]
        /\ Rows' = Rows
    BY <1>2, ConsumeTxWrites
  <2> QED
    BY <1>1, <2>1 DEF SameRows, KeepsRows, Types, TypeOK, Row
<1>3. CASE RefundTx(w)
  <2>1. Rows' = Rows
    BY <1>3, RefundTxWrites
  <2>2. CASE UNCHANGED subs
    BY <2>1, <2>2 DEF SameRows, KeepsRows
  <2>3. CASE ~ UNCHANGED subs
    <3>1. subs' = [n \in SubIds |->
                     IF n \in RowsOf(ent[w].row.sku) /\ subs[n].used > 0
                     THEN [subs[n] EXCEPT !.used = @ - 1] ELSE subs[n]]
      BY <1>3, <2>3 DEF RefundTx
    <3> QED
      BY <1>1, <2>1, <3>1 DEF SameRows, KeepsRows, Row
  <2> QED
    BY <2>2, <2>3
<1> QED
  BY <1>2, <1>3

LEMMA ConsumesAreQuiet ==
    ASSUME Types, NEW w \in Workers, ConsumeStep(w)
    PROVE  Quietly
PROOF
<1>1. ent[w] \in CallType
  BY DEF Types
<1>2. SameRows /\ UNCHANGED <<stripe, sent, now, budget>>
  BY UsageKeepsRows, StoreSame DEF ConsumeStep, FindSubscriptions, FindExistingUsage,
     FindUnique, FindUsage, ConsumeTx, ConsumeTxDuplicate, ConsumeTxExhausted, CreditReturn,
     world
<1>3. CASE FindSubscriptions(w) /\ ActiveRows # {}
  <2> DEFINE n == Newest(ActiveRows)
             p == IF subs[n].used >= subs[n].included
                  THEN "findExistingUsage" ELSE "findUnique"
             e == [ent[w] EXCEPT !.pc = p, !.row = subs[n]]
  <2>1. ent' = [ent EXCEPT ![w] = e]
    BY <1>3 DEF FindSubscriptions, Types
  <2>2. e.pc \notin Writing
    BY <1>1 DEF CallType, Writing, Planning
  <2> HIDE DEF e
  <2> QED
    BY <1>2, <2>1, <2>2, QuietSteps
<1>4. CASE FindUnique(w) /\ \E n \in RowsOf(ent[w].row.sku) : subs[n].active
  <2>1. PICK n \in RowsOf(ent[w].row.sku) :
           ent' = [ent EXCEPT ![w].pc = "findUsage", ![w].id = n, ![w].row = subs[n]]
    BY <1>4 DEF FindUnique
  <2> DEFINE e == [ent[w] EXCEPT !.pc = "findUsage", !.id = n, !.row = subs[n]]
  <2>2. ent' = [ent EXCEPT ![w] = e]
    BY <2>1 DEF Types
  <2>3. e.pc \notin Writing
    BY <1>1 DEF CallType, Writing, Planning
  <2> HIDE DEF e
  <2> QED
    BY <1>2, <2>2, <2>3, QuietSteps
<1>5. CASE \E s : Done(w, s) \/ FallBack(w, s)
  BY <1>2, <1>5, EndsAreQuiet
<1>6. CASE Goto(w, "consumeTx")
  BY <1>2, <1>6, GoesQuietly DEF Writing, Planning
<1>7. CASE ConsumeTx(w) \/ ConsumeTxDuplicate(w) \/ ConsumeTxExhausted(w) \/ CreditReturn(w)
  BY <1>5, <1>7 DEF ConsumeTx, ConsumeTxDuplicate, ConsumeTxExhausted, CreditReturn
<1>8. CASE FindSubscriptions(w) \/ FindExistingUsage(w) \/ FindUnique(w) \/ FindUsage(w)
  BY <1>3, <1>4, <1>5, <1>6, <1>8
  DEF FindSubscriptions, FindExistingUsage, FindUnique, FindUsage
<1> QED
  BY <1>7, <1>8 DEF ConsumeStep

LEMMA RefundsAreQuiet ==
    ASSUME Types, NEW w \in Workers, RefundStep(w)
    PROVE  Quietly
PROOF
<1>1. ent[w] \in CallType
  BY DEF Types
<1>2. SameRows /\ UNCHANGED <<stripe, sent, now, budget>>
  BY UsageKeepsRows, StoreSame DEF RefundStep, FindConsumed, RefundTx, CreditRefundReturn, world
<1>3. CASE RefundTx(w) \/ CreditRefundReturn(w)
  BY <1>2, <1>3, EndsAreQuiet DEF RefundTx, CreditRefundReturn
<1>4. CASE FindConsumed(w)
  <2> DEFINE r == ent[w].resource
             k == CHOOSE j \in Used(r) : \A i \in Used(r) : usage[i, r] <= usage[j, r]
             e == [ent[w] EXCEPT !.pc = "refundTx", !.row = [ent[w].row EXCEPT !.sku = k]]
  <2>1. Goto(w, "creditRefund") \/ ent' = [ent EXCEPT ![w].pc = "refundTx", ![w].row.sku = k]
    BY <1>4 DEF FindConsumed
  <2>2. CASE Goto(w, "creditRefund")
    BY <1>2, <2>2, GoesQuietly DEF Writing, Planning
  <2>3. CASE ent' = [ent EXCEPT ![w].pc = "refundTx", ![w].row.sku = k]
    <3> HIDE DEF k
    <3>1. ent' = [ent EXCEPT ![w] = e]
      BY <2>3 DEF Types
    <3>2. e.pc \notin Writing
      BY <1>1 DEF CallType, Writing, Planning
    <3> HIDE DEF e
    <3> QED
      BY <1>2, <3>1, <3>2, QuietSteps
  <2> QED
    BY <2>1, <2>2, <2>3
<1> QED
  BY <1>3, <1>4 DEF RefundStep

\* Calls that begin, other than a plan change.
LEMMA CallsAreQuiet ==
    ASSUME Types, NEW w \in Workers,
           \/ \E r \in Resources : CallConsume(w, r) \/ CallRefund(w, r)
           \/ \E s \in sent : CallSync(w, s)
           \/ Return(w)
    PROVE  Quietly
PROOF
<1>1. SameRows /\ UNCHANGED <<stripe, sent, now>>
  BY StoreSame DEF CallConsume, CallRefund, CallSync, Return, world
<1>2. budget'.plan = budget.plan
  BY DEF CallConsume, CallRefund, CallSync, Return, world, Types
<1>3. \E e : ent' = [ent EXCEPT ![w] = e] /\ e.pc \notin Writing
  <2>1. \A r : [Idle EXCEPT !.pc = "findSubscriptions", !.resource = r].pc \notin Writing
               /\ [Idle EXCEPT !.pc = "findConsumed", !.resource = r].pc \notin Writing
    BY DEF Idle, Writing, Planning
  <2>2. \A s : [Idle EXCEPT !.pc = "syncRead", !.snap = s].pc \notin Writing
    BY DEF Idle, Writing, Planning
  <2>3. Idle.pc \notin Writing
    BY DEF Idle, Writing, Planning
  <2> QED
    BY <2>1, <2>2, <2>3 DEF CallConsume, CallRefund, CallSync, Return
<1> QED
  BY <1>1, <1>2, <1>3, QuietSteps

\* The steps of a sync and of a plan change that write nothing.
LEMMA SyncsAreQuiet ==
    ASSUME Types, NEW w \in Workers,
           \/ SyncRead(w) /\ ent'[w].pc # "syncUpdate"
           \/ SyncCreateConflict(w) \/ SyncLost(w) \/ SyncUpdateConflict(w)
           \/ PlanStripeFails(w) \/ PlanWriteConflict(w)
    PROVE  Quietly
PROOF
<1>1. ent[w] \in CallType
  BY DEF Types
<1>2. SameRows /\ UNCHANGED <<stripe, sent, now, budget>>
  BY StoreSame DEF SyncRead, SyncCreateConflict, SyncLost, SyncUpdateConflict,
     PlanStripeFails, PlanWriteConflict, world
<1>3. CASE \E s : Done(w, s)
  BY <1>2, <1>3, EndsAreQuiet
<1>4. CASE SyncRead(w) /\ ent'[w].pc # "syncUpdate"
  <2>1. CASE ent' = [ent EXCEPT ![w].pc = "syncCreate"]
    <3>1. Goto(w, "syncCreate")
      BY <2>1 DEF Goto
    <3> QED
      BY <1>2, <3>1, GoesQuietly DEF Writing, Planning
  <2>2. ASSUME NEW n, ent' = [ent EXCEPT ![w].pc = "syncUpdate", ![w].id = n, ![w].row = subs[n]]
        PROVE  FALSE
    <3>1. ent'[w].pc = "syncUpdate"
      BY <1>1, <2>2 DEF Types, CallType
    <3> QED
      BY <1>4, <3>1
  <2> QED
    BY <1>3, <1>4, <2>1, <2>2 DEF SyncRead
<1>5. CASE SyncLost(w)
  <2> DEFINE p == IF ent[w].attempt = 0 THEN "syncRead" ELSE "done"
             e == [ent[w] EXCEPT !.pc = p, !.attempt = 1]
  <2>1. ent' = [ent EXCEPT ![w] = e]
    BY <1>5 DEF SyncLost, Types
  <2>2. e.pc \notin Writing
    BY <1>1 DEF CallType, Writing, Planning
  <2> HIDE DEF e
  <2> QED
    BY <1>2, <2>1, <2>2, QuietSteps
<1> QED
  BY <1>3, <1>4, <1>5 DEF SyncCreateConflict, SyncUpdateConflict, PlanStripeFails,
     PlanWriteConflict

\* Only its own call has moved, and it has ended.
LEMMA OthersStay ==
    ASSUME Types, NEW w \in Workers, NEW s, Done(w, s)
    PROVE  ent'[w].pc = "done" /\ \A v \in Workers \ {w} : ent'[v] = ent[v]
PROOF
BY DEF Done, Types, CallType

LEMMA SyncReadIsQuiet ==
    ASSUME Types, NEW w \in Workers, SyncRead(w), ent'[w].pc = "syncUpdate"
    PROVE  Quietly
PROOF
<1>1. ent[w] \in CallType /\ ent[w].snap \in Snap
  BY DEF Types, TypeOK, CallOK, SyncRead
<1>2. SameRows /\ UNCHANGED <<stripe, sent, now, budget, subs>>
  BY StoreSame DEF SyncRead, world, store
<1>3. \A p : ent' = [ent EXCEPT ![w].pc = p] => ent'[w].pc = p
  BY <1>1 DEF Types, CallType
<1>4. ~Done(w, "synced")
  BY <1>1 DEF Done, Types, CallType
<1>5. PICK n \in RowsOf(ent[w].snap.sku) :
         /\ ~ (subs[n].period > ent[w].snap.period)
         /\ ent' = [ent EXCEPT ![w].pc = "syncUpdate", ![w].id = n, ![w].row = subs[n]]
  BY <1>3, <1>4 DEF SyncRead
<1> DEFINE e == [ent[w] EXCEPT !.pc = "syncUpdate", !.id = n, !.row = subs[n]]
<1>6. ent' = [ent EXCEPT ![w] = e]
  BY <1>5 DEF Types
<1>7. e.pc = "syncUpdate" /\ e.id = n /\ e.row = subs[n] /\ e.snap = ent[w].snap
  BY <1>1 DEF CallType
<1> HIDE DEF e
<1>8. ent'[w] = e /\ \A v \in Workers \ {w} : ent'[v] = ent[v]
  BY <1>6, CallMoves
<1>9. subs[n].period \in Nat /\ ent[w].snap.period \in Nat /\ subs[n].sku = ent[w].snap.sku
  BY <1>1, RowsAreRead DEF RowsOf, Row, Snap
<1>10. SyncOK(ent[w])' /\ ent'[w].pc \notin Planning
  BY <1>2, <1>5, <1>7, <1>8, <1>9 DEF SyncOK, Planning
<1>11. now \in Nat /\ now <= now
  BY EntitlementBounds DEF Types, TypeOK
<1>12. RowsComeFromStripe => RowsComeFromStripe'
  BY <1>2 DEF RowsComeFromStripe, SameRows, KeepsRows
<1> QED
  BY <1>2, <1>8, <1>10, <1>11, <1>12 DEF Quietly, SameRows

LEMMA SyncCreateIsQuiet ==
    ASSUME Types, NEW w \in Workers, SyncCreate(w)
    PROVE  Quietly
PROOF
<1> DEFINE s == ent[w].snap
<1>1. ent[w] \in CallType /\ s \in sent
  BY SyncCreateWrites DEF Types
<1>2. PICK n \in SubIds \ Rows : /\ Rows' = Rows \cup {n}
                                 /\ subs' = [subs EXCEPT ![n] = RowOf(s, 0)]
  BY SyncCreateWrites
<1>3. UNCHANGED <<stripe, sent, now, budget>>
  BY DEF SyncCreate, world
<1>4. (\A m \in Rows : subs'[m] = subs[m]) /\ subs'[n] = RowOf(s, 0)
  BY <1>2 DEF Types, TypeOK, Rows
<1>5. RowsComeFromStripe => RowsComeFromStripe'
  BY <1>1, <1>2, <1>3, <1>4 DEF RowsComeFromStripe, RowOf
<1>6. \A v \in Workers : \/ ent'[v] = ent[v]
                         \/ ent'[v].pc \notin Planning /\ SyncOK(ent[v])'
  <2>1. Done(w, "synced")
    BY DEF SyncCreate
  <2>2. ent'[w].pc = "done" /\ \A v \in Workers \ {w} : ent'[v] = ent[v]
    BY <2>1, OthersStay
  <2> QED
    BY <2>2 DEF SyncOK, Planning
<1>7. now \in Nat /\ now <= now
  BY EntitlementBounds DEF Types, TypeOK
<1> QED
  BY <1>3, <1>4, <1>5, <1>6, <1>7 DEF Quietly, KeepsRows

\* Calls outside a plan change: the steps that leave every row where it is.
LEMMA QuietWorld ==
    ASSUME Types, NextPeriod \/ UNCHANGED <<world, store, ent>>
    PROVE  Quietly
PROOF
<1>1. SameRows /\ UNCHANGED <<stripe, sent, budget, ent, store>>
  BY StoreSame DEF NextPeriod, world
<1>2. now' \in Nat /\ now <= now'
  BY EntitlementBounds DEF NextPeriod, world, Types, TypeOK
<1>3. RowsComeFromStripe => RowsComeFromStripe'
  BY <1>1 DEF RowsComeFromStripe, SameRows, KeepsRows
<1> QED
  BY <1>1, <1>2, <1>3 DEF Quietly, SameRows

-----------------------------------------------------------------------------
(* Stripe reports a state.                                                 *)

LEMMA ReportKeepsStripe ==
    ASSUME Types, StripeOK, NEW i \in Items,
           NEW x \in [sku : Skus, active : BOOLEAN, period : 0 .. MaxPeriod],
           Report(i, x), now' = now, x.period <= now,
           \A j \in Items \ {i} : ~stripe[j].active,
           stripe[i] # NoItem => stripe[i].active /\ stripe[i].period <= x.period,
           x.active => \A s \in sent : s.item # i => s.period < x.period
    PROVE  StripeOK'
PROOF
<1> DEFINE y == [item |-> i, sku |-> x.sku, active |-> x.active, period |-> x.period]
<1>1. /\ stripe'[i] = x /\ \A j \in Items \ {i} : stripe'[j] = stripe[j]
      /\ sent' = sent \cup {y}
  BY DEF Report, Types
<1>2. x # NoItem
  BY SkuAssumption DEF NoItem
<1>3. /\ \A s \in sent : s \in Snap
      /\ \A j \in Items : stripe[j].period \in Nat
      /\ x.period \in Nat
  BY EntitlementBounds DEF Types, TypeOK, ItemType
<1>4. \A j \in Items : stripe'[j] # NoItem =>
         stripe'[j].sku \in Skus /\ Reported(j)' \in sent' /\ stripe'[j].period <= now'
  BY <1>1 DEF StripeOK, Reported
<1>5. ASSUME NEW s \in sent'
      PROVE  /\ stripe'[s.item] # NoItem
             /\ s.period <= stripe'[s.item].period
             /\ stripe'[s.item].active => s.active
  <2>1. CASE s = y
    BY <1>1, <1>2, <1>3, <2>1
  <2>2. CASE s \in sent
    <3>1. s \in Snap /\ s.item \in Items /\ s.period \in Nat
      BY <1>3, <2>2 DEF Snap
    <3>2. /\ stripe[s.item] # NoItem
          /\ s.period <= stripe[s.item].period
          /\ stripe[s.item].active => s.active
      BY <2>2 DEF StripeOK
    <3>3. CASE s.item = i
      BY <1>1, <1>2, <1>3, <3>1, <3>2, <3>3
    <3> QED
      BY <1>1, <3>1, <3>2, <3>3
  <2> QED
    BY <1>1, <2>1, <2>2
<1>6. \A j, k \in Items : stripe'[j].active /\ stripe'[k].active => j = k
  BY <1>1
<1>7. ASSUME NEW s \in sent', NEW t \in sent', stripe'[t.item].active, s.item # t.item
      PROVE  s.period < t.period
  <2>1. t.item = i
    <3>1. t.item \in Items
      BY <1>1, <1>3 DEF Snap
    <3> QED
      BY <1>1, <1>7, <3>1
  <2>2. s \in sent
    BY <1>1, <1>7, <2>1
  <2>3. x.active
    BY <1>1, <1>7, <2>1
  <2>4. CASE t = y
    BY <1>7, <2>1, <2>2, <2>3, <2>4
  <2>5. CASE t \in sent
    <3>1. stripe[i].active
      BY <2>1, <2>5 DEF StripeOK
    <3> QED
      BY <1>7, <2>1, <2>2, <2>5, <3>1 DEF StripeOK
  <2> QED
    BY <1>1, <2>4, <2>5
<1> QED
  BY <1>4, <1>5, <1>6, <1>7 DEF StripeOK

\* An item that is active is the only one, and the last to have begun.
LEMMA ActiveIsLast ==
    ASSUME Types, StripeOK, NEW i \in Items, stripe[i].active,
           NEW p \in Nat, stripe[i].period <= p
    PROVE  /\ \A j \in Items \ {i} : ~stripe[j].active
           /\ stripe[i] # NoItem /\ stripe[i].sku \in Skus
           /\ \A s \in sent : s.item # i => s.period < p
PROOF
<1>1. stripe[i] # NoItem
  BY DEF NoItem
<1>2. stripe[i].sku \in Skus /\ Reported(i) \in sent
  BY <1>1 DEF StripeOK
<1>3. \A s \in sent : s.item # i => s.period < stripe[i].period
  BY <1>2 DEF StripeOK, Reported
<1>4. \A s \in sent : s.period \in Nat
  BY DEF Types, TypeOK, Snap
<1>5. stripe[i].period \in Nat
  BY EntitlementBounds DEF Types, ItemType
<1> QED
  BY <1>1, <1>2, <1>3, <1>4, <1>5 DEF StripeOK

\* Stripe reports an item outside a plan change: a subscription that was active,
\* under its plan, or the first of an organization whose rows have all ended.
LEMMA ReportKeepsPlan ==
    ASSUME Types, PlanInv, StripeOK', NEW i \in Items,
           NEW x \in [sku : Skus, active : BOOLEAN, period : 0 .. MaxPeriod],
           Report(i, x), UNCHANGED <<now, store, ent>>, budget'.plan = budget.plan,
           \/ stripe[i].active /\ x.sku = stripe[i].sku
           \/ stripe[i] = NoItem /\ \A n \in Rows : ~subs[n].active
    PROVE  PlanInv'
PROOF
<1> DEFINE y == [item |-> i, sku |-> x.sku, active |-> x.active, period |-> x.period]
<1>1. /\ stripe'[i] = x /\ \A j \in Items \ {i} : stripe'[j] = stripe[j]
      /\ sent' = sent \cup {y}
  BY DEF Report, Types
<1>2. x # NoItem
  BY SkuAssumption DEF NoItem
<1>3. OnePlan' /\ (PlanOver => PlanOver')
  BY DEF PlanInv, OnePlan, PlanOver
<1>4. RowsComeFromStripe'
  BY <1>1 DEF PlanInv, RowsComeFromStripe, Rows, store
<1>5. ASSUME NEW v \in Workers
      PROVE  SyncOK(ent[v])' /\ PlanAskedOK(ent[v])' /\ PlanPaidOK(ent[v])'
  <2>1. SyncOK(ent[v])'
    BY <1>1, <1>3 DEF PlanInv, SyncOK, store
  <2>2. PlanAskedOK(ent[v])'
    <3>1. SUFFICES ASSUME ent[v].pc = "planStripe" PROVE PlanAskedOK(ent[v])'
      BY DEF PlanAskedOK
    <3> DEFINE j == ent[v].snap.item
    <3>2. PlanAskedOK(ent[v]) /\ j \in Items
      BY <3>1, CallIds DEF PlanInv, Writing, Planning
    <3>3. stripe[j] # NoItem /\ (stripe[j].active => subs[ent[v].id].item = j)
      BY <3>1, <3>2 DEF PlanAskedOK
    <3>4. stripe'[j] # NoItem /\ (stripe'[j].active => stripe[j].active)
      BY <1>1, <1>2, <3>2, <3>3
    <3> QED
      BY <3>1, <3>2, <3>3, <3>4 DEF PlanAskedOK, store
  <2>3. PlanPaidOK(ent[v])'
    <3>1. SUFFICES ASSUME ent[v].pc = "planWrite" PROVE PlanPaidOK(ent[v])'
      BY DEF PlanPaidOK
    <3> DEFINE s == ent[v].snap
    <3>2. PlanPaidOK(ent[v]) /\ s.item \in Items /\ ent[v].id \in Rows
      BY <3>1, CallIds DEF PlanInv, Writing, Planning
    <3>3. stripe[i].active /\ x.sku = stripe[i].sku /\ i = s.item
      BY <3>1, <3>2 DEF PlanPaidOK
    <3>4. y.item = s.item /\ y.sku = s.sku /\ stripe'[s.item].sku = s.sku
      BY <1>1, <3>1, <3>2, <3>3 DEF PlanPaidOK
    <3>5. \A j \in Items \ {s.item} : ~stripe'[j].active
      BY <1>1, <3>1, <3>2, <3>3 DEF PlanPaidOK
    <3>6. y.active = x.active /\ y.period = x.period
      OBVIOUS
    <3> HIDE DEF y
    <3> DEFINE row == subs[ent[v].id]
    <3>7. /\ row.sku # s.sku /\ s \in sent /\ s.active
          /\ row.item = s.item /\ row.active /\ row.period <= s.period
          /\ \A t \in sent : t.item = s.item /\ t.sku = row.sku
                           => t.active /\ t.period <= s.period
          /\ \A t \in sent : t.item # s.item => t.period < row.period
      BY <3>1, <3>2 DEF PlanPaidOK
    <3>8. s \in sent'
      BY <1>1, <3>7
    <3>9. \A t \in sent' : t.item = s.item /\ t.sku = row.sku
                          => t.active /\ t.period <= s.period
      BY <1>1, <3>4, <3>7
    <3>10. \A t \in sent' : t.item # s.item => t.period < row.period
      BY <1>1, <3>4, <3>7
    <3>11. ent' = ent /\ subs' = subs
      BY DEF store
    <3> HIDE DEF row
    <3> QED
      BY <3>4, <3>5, <3>7, <3>8, <3>9, <3>10, <3>11 DEF PlanPaidOK, row
  <2> QED
    BY <2>1, <2>2, <2>3
<1> QED
  BY <1>3, <1>4, <1>5 DEF PlanInv

LEMMA WorldKeepsPlan ==
    ASSUME Types, PlanInv, World
    PROVE  PlanInv'
PROOF
<1>1. StripeOK
  BY DEF PlanInv
<1>2. now \in 0 .. MaxPeriod /\ now \in Nat /\ now <= now
  BY EntitlementBounds DEF Types, TypeOK
<1>3. ASSUME NEW i \in Items, NEW k \in Skus, Subscribe(i, k) PROVE PlanInv'
  <2> DEFINE x == [sku |-> k, active |-> TRUE, period |-> now]
  <2>1. /\ x \in [sku : Skus, active : BOOLEAN, period : 0 .. MaxPeriod]
        /\ x.period = now /\ Report(i, x)
    BY <1>2, <1>3 DEF Subscribe
  <2>2. /\ UNCHANGED <<now, store, ent>> /\ budget'.plan = budget.plan
        /\ stripe[i] = NoItem /\ \A n \in Rows : ~subs[n].active
        /\ \A j \in Items : ~stripe[j].active
        /\ \A j \in Items : stripe[j] # NoItem => stripe[j].period < now
    BY <1>3 DEF Subscribe
  <2>3. \A s \in sent : s.period < now
    <3>1. ASSUME NEW s \in sent PROVE s.period < now
      <4>1. s.item \in Items /\ s.period \in Nat /\ stripe[s.item].period \in Nat
        BY EntitlementBounds DEF Types, TypeOK, Snap, ItemType
      <4>2. stripe[s.item] # NoItem /\ s.period <= stripe[s.item].period
        BY <1>1 DEF StripeOK
      <4> QED
        BY <1>2, <2>2, <4>1, <4>2
    <3> QED
      BY <3>1
  <2> HIDE DEF x
  <2>4. StripeOK'
    BY <1>1, <1>2, <2>1, <2>2, <2>3, ReportKeepsStripe
  <2> QED
    BY <2>1, <2>2, <2>4, ReportKeepsPlan
<1>4. ASSUME NEW i \in Items, stripe[i].active,
             NEW x \in [sku : Skus, active : BOOLEAN, period : 0 .. MaxPeriod],
             Report(i, x), UNCHANGED <<now, store, ent>>, budget'.plan = budget.plan,
             x.sku = stripe[i].sku, stripe[i].period <= x.period, x.period <= now
      PROVE  PlanInv'
  <2>1. x.period \in Nat
    BY EntitlementBounds
  <2>2. StripeOK'
    BY <1>1, <1>4, <2>1, ActiveIsLast, ReportKeepsStripe
  <2> QED
    BY <1>4, <2>2, ReportKeepsPlan
<1>5. \A i \in Items : stripe[i] \in ItemType /\ stripe[i].period \in Nat
  BY EntitlementBounds DEF Types, ItemType
<1>6. ASSUME NEW i \in Items, Renew(i) PROVE PlanInv'
  <2> DEFINE x == [stripe[i] EXCEPT !.period = now]
  <2>1. /\ x \in [sku : Skus, active : BOOLEAN, period : 0 .. MaxPeriod]
        /\ x.sku = stripe[i].sku /\ x.period = now /\ stripe[i].active
        /\ stripe[i].period <= now
    BY <1>2, <1>5, <1>6 DEF Renew, Types, ItemType
  <2>2. Report(i, x) /\ UNCHANGED <<now, store, ent>> /\ budget'.plan = budget.plan
    BY <1>6 DEF Renew
  <2> HIDE DEF x
  <2> QED
    BY <1>2, <1>4, <2>1, <2>2
<1>7. ASSUME NEW i \in Items, Cancel(i) PROVE PlanInv'
  <2> DEFINE x == [stripe[i] EXCEPT !.active = FALSE]
  <2>1. /\ x \in [sku : Skus, active : BOOLEAN, period : 0 .. MaxPeriod]
        /\ x.sku = stripe[i].sku /\ x.period = stripe[i].period /\ stripe[i].active
    <3>1. stripe[i].active /\ stripe[i].sku \in Skus
      BY <1>7 DEF Cancel, Types
    <3> QED
      BY <1>5, <3>1 DEF ItemType
  <2>2. stripe[i].period <= now
    BY <1>1, <2>1 DEF StripeOK, NoItem
  <2>3. Report(i, x) /\ UNCHANGED <<now, store, ent>> /\ budget'.plan = budget.plan
    BY <1>7 DEF Cancel, Types
  <2>4. stripe[i].period <= stripe[i].period
    BY <1>5
  <2> HIDE DEF x
  <2> QED
    BY <1>4, <2>1, <2>2, <2>3, <2>4
<1>8. CASE NextPeriod
  BY <1>8, QuietWorld, QuietPlan
<1> QED
  BY <1>3, <1>6, <1>7, <1>8 DEF World

-----------------------------------------------------------------------------
(* Writes of a row.                                                        *)

\* A row that is written takes the state it is given, and the other rows stay.
LEMMA RowTakes ==
    ASSUME Types, NEW n \in Rows, NEW row \in Row, subs' = [subs EXCEPT ![n] = row]
    PROVE  /\ Rows' = Rows /\ subs'[n] = row
           /\ \A m \in SubIds \ {n} : subs'[m] = subs[m]
PROOF
<1>1. n \in SubIds
  BY RowsAreRead
<1> QED
  BY <1>1, RowsStay DEF Types, TypeOK

LEMMA SyncUpdateTakes ==
    ASSUME Types, PlanInv, NEW w \in Workers, SyncUpdate(w)
    PROVE  \E s \in sent, n \in Rows :
              /\ Rows' = Rows /\ \A m \in SubIds \ {n} : subs'[m] = subs[m]
              /\ subs[n].period <= s.period
              /\ subs'[n].sku = subs[n].sku /\ subs'[n].item = s.item
              /\ subs'[n].active = s.active /\ subs'[n].period = s.period
              /\ \/ subs[n].sku = s.sku
                 \/ PlanOver /\ [s EXCEPT !.sku = subs[n].sku] \in sent
PROOF
<1>0. PICK s, n, used : s = ent[w].snap /\ n = ent[w].id
         /\ used = IF ent[w].row.period # s.period THEN 0 ELSE subs[n].used
  OBVIOUS
<1>1. /\ s \in sent /\ n \in Rows /\ subs[n] \in Row
      /\ subs' = [subs EXCEPT ![n] = [RowOf(s, used) EXCEPT !.sku = subs[n].sku]]
  BY <1>0, SyncUpdateWrites
<1> DEFINE row == [RowOf(s, used) EXCEPT !.sku = subs[n].sku]
<1>2. row \in Row
  <2>1. used \in Nat /\ subs[n].sku \in Skus /\ s \in Snap
    BY <1>0, <1>1 DEF Row, Types, TypeOK
  <2> QED
    BY <2>1, SnapRow
<1>3. /\ row.sku = subs[n].sku /\ row.item = s.item /\ row.active = s.active
      /\ row.period = s.period
  BY DEF RowOf
<1>4. subs' = [subs EXCEPT ![n] = row]
  BY <1>1
<1> HIDE DEF row
<1>5. /\ Rows' = Rows /\ subs'[n] = row
      /\ \A m \in SubIds \ {n} : subs'[m] = subs[m]
  BY <1>1, <1>2, <1>4, RowTakes
<1>6. SyncOK(ent[w]) /\ ent[w].pc = "syncUpdate" /\ subs[n].period = ent[w].row.period
  BY <1>0 DEF PlanInv, SyncUpdate
<1> QED
  BY <1>0, <1>1, <1>3, <1>5, <1>6 DEF SyncOK

LEMMA SyncUpdateKeepsPlan ==
    ASSUME Types, PlanInv, NEW w \in Workers, SyncUpdate(w)
    PROVE  PlanInv'
PROOF
<1>1. PICK s \in sent, n \in Rows :
              /\ Rows' = Rows /\ \A m \in SubIds \ {n} : subs'[m] = subs[m]
              /\ subs[n].period <= s.period
              /\ subs'[n].sku = subs[n].sku /\ subs'[n].item = s.item
              /\ subs'[n].active = s.active /\ subs'[n].period = s.period
              /\ \/ subs[n].sku = s.sku
                 \/ PlanOver /\ [s EXCEPT !.sku = subs[n].sku] \in sent
  BY SyncUpdateTakes
<1>2. ent'[w].pc = "done" /\ \A v \in Workers \ {w} : ent'[v] = ent[v]
  BY OthersStay DEF SyncUpdate
<1>3. UNCHANGED <<stripe, sent, now, budget>>
  BY DEF SyncUpdate, world
<1>4. ent[w].pc = "syncUpdate"
  BY DEF SyncUpdate
<1>5. OnePlan' /\ (PlanOver => PlanOver') /\ StripeOK'
  BY <1>2, <1>3, <1>4 DEF PlanInv, OnePlan, PlanOver, StripeOK, Reported, Planning
<1>6. /\ \A m \in Rows : m \in SubIds /\ subs[m].period \in Nat
      /\ \A t \in sent : t \in Snap /\ t.period \in Nat
  BY RowsAreRead DEF Row, Types, TypeOK, Snap
<1>7. RowsComeFromStripe'
  <2>1. \E t \in sent : /\ t.item = subs'[n].item /\ t.sku = subs'[n].sku
                        /\ t.active = subs'[n].active /\ t.period = subs'[n].period
    <3>1. CASE subs[n].sku = s.sku
      BY <1>1, <3>1
    <3>2. CASE [s EXCEPT !.sku = subs[n].sku] \in sent
      <4> DEFINE t == [s EXCEPT !.sku = subs[n].sku]
      <4>1. t.item = s.item /\ t.sku = subs[n].sku /\ t.active = s.active
            /\ t.period = s.period
        BY <1>6 DEF Snap
      <4> HIDE DEF t
      <4> QED
        BY <1>1, <3>2, <4>1 DEF t
    <3> QED
      BY <1>1, <3>1, <3>2
  <2> QED
    BY <1>1, <1>3, <1>6, <2>1 DEF PlanInv, RowsComeFromStripe
\* The row is the item's as long as the item is the active one.
<1>8. ASSUME NEW i \in Items, subs[n].item = i, subs[n].sku = s.sku,
             \A t \in sent : t.item # i => t.period < subs[n].period
      PROVE  s.item = i
  <2>1. ~ (s.period < subs[n].period)
    BY <1>1, <1>6
  <2> QED
    BY <1>8, <2>1
<1>9. ASSUME NEW v \in Workers
      PROVE  SyncOK(ent[v])' /\ PlanAskedOK(ent[v])' /\ PlanPaidOK(ent[v])'
  <2>1. CASE ent'[v].pc \notin Writing
    BY <2>1 DEF SyncOK, PlanAskedOK, PlanPaidOK, Writing, Planning
  <2>2. CASE ent'[v].pc \in Writing
    <3>1. /\ ent'[v] = ent[v] /\ ent[v].id \in Rows /\ ent[v].id \in SubIds
          /\ ent[v].snap.item \in Items /\ ent[v].snap.sku \in Skus
          /\ ent[v].snap.period \in Nat /\ ent[v].row.period \in Nat
          /\ SyncOK(ent[v]) /\ PlanAskedOK(ent[v]) /\ PlanPaidOK(ent[v])
      BY <1>2, <2>2, CallIds DEF PlanInv, Writing, Planning
    <3>2. CASE ent[v].id # n
      <4>1. subs'[ent[v].id] = subs[ent[v].id]
        BY <1>1, <3>1, <3>2
      <4>2. SyncOK(ent[v])'
        BY <1>3, <1>5, <3>1, <4>1 DEF SyncOK
      <4> QED
        BY <1>3, <3>1, <4>1, <4>2 DEF PlanAskedOK, PlanPaidOK
    <3>3. CASE ent[v].id = n /\ ent[v].pc = "syncUpdate"
      <4>1. ent[v].row.period <= ent[v].snap.period /\ ent[v].row.period <= subs[n].period
        BY <3>1, <3>3 DEF SyncOK
      <4>2. ent[v].row.period <= s.period
            /\ (s.period = ent[v].row.period => subs[n].period = ent[v].row.period)
        BY <1>1, <1>6, <3>1, <4>1
      <4>3. SyncOK(ent[v])'
        BY <1>1, <1>3, <1>5, <3>1, <3>3, <4>1, <4>2 DEF SyncOK
      <4> QED
        BY <3>1, <3>3, <4>3 DEF PlanAskedOK, PlanPaidOK
    <3>4. CASE ent[v].id = n /\ ent[v].pc \in Planning
      <4> DEFINE i == ent[v].snap.item
      <4>1. ~PlanOver /\ subs[n].sku = s.sku
        BY <1>1, <3>4 DEF PlanOver
      <4>2. PlanAskedOK(ent[v])'
        <5>1. SUFFICES ASSUME ent[v].pc = "planStripe" PROVE PlanAskedOK(ent[v])'
          BY <3>1 DEF PlanAskedOK
        <5>2. stripe[i] # NoItem /\ (stripe[i].active => subs[n].item = i)
          BY <3>1, <3>4, <5>1 DEF PlanAskedOK
        <5>3. stripe[i].active => s.item = i
          <6>1. SUFFICES ASSUME stripe[i].active PROVE s.item = i
            OBVIOUS
          <6>2. PICK t \in sent : t.item = i /\ t.period = subs[n].period
            BY <5>2, <6>1 DEF PlanInv, RowsComeFromStripe
          <6>3. \A r \in sent : r.item # i => r.period < subs[n].period
            BY <6>1, <6>2 DEF PlanInv, StripeOK
          <6> QED
            BY <1>8, <3>1, <4>1, <5>2, <6>1, <6>3
        <5> QED
          BY <1>1, <1>3, <3>1, <3>4, <5>1, <5>2, <5>3 DEF PlanAskedOK
      <4>3. PlanPaidOK(ent[v])'
        <5>1. SUFFICES ASSUME ent[v].pc = "planWrite" PROVE PlanPaidOK(ent[v])'
          BY <3>1 DEF PlanPaidOK
        <5>2. /\ subs[n].sku # ent[v].snap.sku /\ subs[n].item = i
              /\ \A t \in sent : t.item = i /\ t.sku = subs[n].sku
                           => t.active /\ t.period <= ent[v].snap.period
              /\ \A t \in sent : t.item # i => t.period < subs[n].period
          BY <3>1, <3>4, <5>1 DEF PlanPaidOK
        <5>3. s.item = i
          BY <1>8, <3>1, <4>1, <5>2
        <5>4. s.active /\ s.period <= ent[v].snap.period
          BY <4>1, <5>2, <5>3
        <5>5. \A t \in sent : t.item # i => t.period < s.period
          BY <1>1, <1>6, <5>2
        <5>6. /\ ent[v].snap \in sent /\ ent[v].snap.active
              /\ stripe[i].sku = ent[v].snap.sku
              /\ \A j \in Items \ {i} : ~stripe[j].active
          BY <3>1, <5>1 DEF PlanPaidOK
        <5>7. /\ subs'[n].sku # ent[v].snap.sku /\ subs'[n].item = i
              /\ subs'[n].active /\ subs'[n].period <= ent[v].snap.period
          BY <1>1, <5>2, <5>3, <5>4
        <5>8. \A t \in sent : t.item = i /\ t.sku = subs'[n].sku
                             => t.active /\ t.period <= ent[v].snap.period
          BY <1>1, <5>2
        <5>9. \A t \in sent : t.item # i => t.period < subs'[n].period
          BY <1>1, <5>5
        <5>10. ent'[v] = ent[v] /\ ent[v].id = n /\ stripe' = stripe /\ sent' = sent
          BY <1>3, <3>1, <3>4
        <5> QED
          BY <5>6, <5>7, <5>8, <5>9, <5>10 DEF PlanPaidOK
      <4> QED
        BY <3>1, <3>4, <4>2, <4>3 DEF SyncOK, Planning
    <3> QED
      BY <2>2, <3>1, <3>2, <3>3, <3>4 DEF Writing
  <2> QED
    BY <2>1, <2>2
<1> QED
  BY <1>5, <1>7, <1>9 DEF PlanInv

\* The plan change writes its row.
LEMMA PlanWriteTakes ==
    ASSUME Types, PlanInv, NEW w \in Workers, PlanWrite(w)
    PROVE  LET s == ent[w].snap
               n == ent[w].id IN
           /\ s \in sent /\ n \in Rows
           /\ Rows' = Rows /\ \A m \in SubIds \ {n} : subs'[m] = subs[m]
           /\ subs[n].period <= s.period
           /\ subs'[n].sku = s.sku /\ subs'[n].item = s.item
           /\ subs'[n].active = s.active /\ subs'[n].period = s.period
PROOF
<1>0. PICK s, n : s = ent[w].snap /\ n = ent[w].id
  OBVIOUS
<1>1. ent[w].pc = "planWrite" /\ subs' = [subs EXCEPT ![n] = RowOf(s, subs[n].used)]
  BY <1>0 DEF PlanWrite
<1>2. s \in sent /\ subs[n].period <= s.period /\ n \in Rows
  BY <1>0, <1>1, CallIds DEF PlanInv, PlanPaidOK, Writing, Planning
<1> DEFINE row == RowOf(s, subs[n].used)
<1>3. row \in Row
  <2>1. subs[n].used \in Nat /\ s \in Snap /\ subs[n].sku \in Skus
    BY <1>2, RowsAreRead DEF Row, Types, TypeOK
  <2> QED
    BY <2>1, SnapRow
<1>4. /\ row.sku = s.sku /\ row.item = s.item /\ row.active = s.active
      /\ row.period = s.period
  BY DEF RowOf
<1>5. subs' = [subs EXCEPT ![n] = row]
  BY <1>1
<1> HIDE DEF row
<1>6. /\ Rows' = Rows /\ subs'[n] = row
      /\ \A m \in SubIds \ {n} : subs'[m] = subs[m]
  BY <1>2, <1>3, <1>5, RowTakes
<1> QED
  BY <1>0, <1>2, <1>4, <1>6

LEMMA PlanWriteKeepsPlan ==
    ASSUME Types, PlanInv, NEW w \in Workers, PlanWrite(w)
    PROVE  PlanInv'
PROOF
<1>0. PICK s, n : s = ent[w].snap /\ n = ent[w].id
  OBVIOUS
<1>1. /\ s \in sent /\ n \in Rows
      /\ Rows' = Rows /\ \A m \in SubIds \ {n} : subs'[m] = subs[m]
      /\ subs[n].period <= s.period
      /\ subs'[n].sku = s.sku /\ subs'[n].item = s.item
      /\ subs'[n].active = s.active /\ subs'[n].period = s.period
  BY <1>0, PlanWriteTakes
<1>2. ent'[w].pc = "done" /\ \A v \in Workers \ {w} : ent'[v] = ent[v]
  BY OthersStay DEF PlanWrite
<1>3. UNCHANGED <<stripe, sent, now, budget>>
  BY DEF PlanWrite, world
<1>4. ent[w].pc = "planWrite"
  BY DEF PlanWrite
<1>5. OnePlan' /\ PlanOver' /\ StripeOK'
  BY <1>2, <1>3, <1>4 DEF PlanInv, OnePlan, PlanOver, StripeOK, Reported, Planning
<1>6. /\ \A m \in Rows : m \in SubIds /\ subs[m].period \in Nat
      /\ \A t \in sent : t \in Snap /\ t.period \in Nat
  BY RowsAreRead DEF Row, Types, TypeOK, Snap
<1>7. RowsComeFromStripe'
  BY <1>1, <1>3, <1>6 DEF PlanInv, RowsComeFromStripe
<1>8. ~PlanOver /\ PlanPaidOK(ent[w])
  BY <1>4 DEF PlanInv, PlanOver, Planning
<1>9. ASSUME NEW v \in Workers, v # w, ent[v].pc = "syncUpdate"
      PROVE  SyncOK(ent[v])'
  <2> DEFINE r == ent[v].snap
             p == ent[v].row.period
  <2>1. /\ ent'[v] = ent[v] /\ ent[v].id \in SubIds /\ p \in Nat /\ r \in sent
        /\ r \in Snap
        /\ p <= r.period /\ p <= subs[ent[v].id].period
        /\ subs[ent[v].id].sku = r.sku
    BY <1>2, <1>6, <1>8, <1>9, CallIds DEF PlanInv, SyncOK, Writing
  <2>2. CASE ent[v].id # n
    <3>1. subs'[ent[v].id] = subs[ent[v].id]
      BY <1>1, <2>1, <2>2
    <3> QED
      BY <2>1, <3>1 DEF SyncOK
  <2>3. CASE ent[v].id = n
    <3>1. p <= s.period
      BY <1>1, <1>6, <2>1, <2>3
    <3>2. ASSUME s.period = p PROVE [r EXCEPT !.sku = s.sku] = s
      <4>1. subs[n].period = p /\ ~ (r.period < subs[n].period)
        BY <1>1, <1>6, <2>1, <2>3, <3>2
      <4>2. r.item = s.item
        BY <1>0, <1>4, <1>8, <2>1, <4>1 DEF PlanPaidOK
      <4>3. r.active /\ r.period <= s.period /\ s.active
        BY <1>0, <1>4, <1>8, <2>1, <2>3, <4>2 DEF PlanPaidOK
      <4>4. r.period = s.period
        BY <1>1, <1>6, <2>1, <3>2, <4>3
      <4>5. s \in Snap /\ r \in Snap /\ r.active = s.active
        BY <1>1, <1>6, <2>1, <4>3 DEF Snap
      <4> QED
        BY <4>2, <4>4, <4>5 DEF Snap
    <3> QED
      BY <1>1, <1>3, <1>5, <2>1, <2>3, <3>1, <3>2 DEF SyncOK
  <2> QED
    BY <2>2, <2>3
<1>10. ASSUME NEW v \in Workers
       PROVE  SyncOK(ent[v])' /\ PlanAskedOK(ent[v])' /\ PlanPaidOK(ent[v])'
  <2>1. ent'[v].pc \notin Planning
    BY <1>5 DEF PlanOver
  <2>2. SyncOK(ent[v])'
    BY <1>2, <1>9 DEF SyncOK
  <2> QED
    BY <2>1, <2>2 DEF PlanAskedOK, PlanPaidOK, Planning
<1> QED
  BY <1>5, <1>7, <1>10 DEF PlanInv

-----------------------------------------------------------------------------
(* The plan change itself.                                                 *)

LEMMA CallChangePlanKeepsPlan ==
    ASSUME Types, PlanInv, NEW w \in Workers, NEW n \in SubIds, NEW k \in Skus,
           CallChangePlan(w, n, k)
    PROVE  PlanInv'
PROOF
<1> DEFINE e == PlanCall(n, k)
<1>1. ent' = [ent EXCEPT ![w] = e]
  BY PlanChangeCall
<1>2. e.pc = "planStripe" /\ e.id = n /\ e.snap.item = subs[n].item /\ e.snap.sku = k
  BY DEF PlanCall, Idle, NoSnap
<1> HIDE DEF e
<1>3. ent'[w] = e /\ \A v \in Workers \ {w} : ent'[v] = ent[v]
  BY <1>1, CallMoves
<1>4. /\ n \in Rows /\ subs[n].sku # k
      /\ budget.plan > 0 /\ budget'.plan = budget.plan - 1
      /\ UNCHANGED <<now, stripe, sent, subs>> /\ Rows' = Rows
  BY DEF CallChangePlan, Types, store, Rows
<1>5. budget.plan = 1 /\ budget'.plan = 0
  <2>1. budget.plan \in Nat /\ budget.plan <= 1
    BY DEF PlanInv, OnePlan, Types
  <2> QED
    BY <1>4, <2>1
<1>6. \A v \in Workers : ent[v].pc \notin Planning
  BY <1>5 DEF PlanInv, OnePlan
<1>7. OnePlan' /\ StripeOK' /\ RowsComeFromStripe'
  BY <1>3, <1>4, <1>5, <1>6 DEF PlanInv, OnePlan, StripeOK, Reported, RowsComeFromStripe
<1>8. PlanAskedOK(ent[w])'
  <2>1. PICK s \in sent : s.item = subs[n].item
    BY <1>4 DEF PlanInv, RowsComeFromStripe
  <2>2. stripe[s.item] # NoItem
    BY DEF PlanInv, StripeOK
  <2> QED
    BY <1>2, <1>3, <1>4, <2>1, <2>2 DEF PlanAskedOK
<1>9. SyncOK(ent[w])' /\ PlanPaidOK(ent[w])'
  BY <1>2, <1>3 DEF SyncOK, PlanPaidOK
<1>10. ASSUME NEW v \in Workers, v # w
       PROVE  SyncOK(ent[v])' /\ PlanAskedOK(ent[v])' /\ PlanPaidOK(ent[v])'
  <2>1. ent'[v] = ent[v] /\ ~PlanOver /\ ent[v].pc \notin Planning
    BY <1>3, <1>5, <1>6, <1>10 DEF PlanOver
  <2> QED
    BY <1>4, <2>1 DEF PlanInv, SyncOK, PlanAskedOK, PlanPaidOK, Planning
<1> QED
  BY <1>7, <1>8, <1>9, <1>10 DEF PlanInv

LEMMA PlanStripeKeepsPlan ==
    ASSUME Types, PlanInv, NEW w \in Workers, PlanStripe(w)
    PROVE  PlanInv'
PROOF
<1>0. PICK i, k, n : i = ent[w].snap.item /\ k = ent[w].snap.sku /\ n = ent[w].id
  OBVIOUS
<1>1. /\ ent[w].pc = "planStripe" /\ stripe[i].active
      /\ UNCHANGED <<now, budget, subs>> /\ Rows' = Rows
  BY <1>0 DEF PlanStripe, store, Rows
<1>2. PICK p \in {stripe[i].period, now} :
         /\ Report(i, [sku |-> k, active |-> TRUE, period |-> p])
         /\ ent' = [ent EXCEPT ![w].pc = "planWrite", ![w].snap.active = TRUE,
                               ![w].snap.period = p]
  BY <1>0 DEF PlanStripe
<1>3. /\ i \in Items /\ k \in Skus /\ n \in Rows
      /\ subs[n].sku # k /\ subs[n].item = i
  BY <1>0, <1>1, CallIds DEF PlanInv, PlanAskedOK, Writing, Planning
<1>4. StripeOK
  BY DEF PlanInv
<1>5. stripe[i].period <= p /\ p <= now /\ p \in 0 .. MaxPeriod
  <2>1. stripe[i].period \in 0 .. MaxPeriod /\ now \in 0 .. MaxPeriod
    BY <1>3 DEF Types, TypeOK, ItemType
  <2>2. stripe[i].period <= now
    BY <1>1, <1>3, <1>4 DEF StripeOK, NoItem
  <2> QED
    BY <2>1, <2>2, EntitlementBounds
<1>6. p \in Nat
  BY <1>5, EntitlementBounds
<1> DEFINE x == [sku |-> k, active |-> TRUE, period |-> p]
           y == [item |-> i, sku |-> k, active |-> TRUE, period |-> p]
<1>7. /\ \A j \in Items \ {i} : ~stripe[j].active
      /\ stripe[i] # NoItem
      /\ \A s \in sent : s.item # i => s.period < p
  BY <1>1, <1>3, <1>4, <1>5, <1>6, ActiveIsLast
<1>8. StripeOK'
  <2>1. /\ x \in [sku : Skus, active : BOOLEAN, period : 0 .. MaxPeriod]
        /\ Report(i, x) /\ x.period = p
    BY <1>2, <1>3, <1>5
  <2> HIDE DEF x
  <2> QED
    BY <1>1, <1>3, <1>4, <1>5, <1>7, <2>1, ReportKeepsStripe
<1>9. stripe' = [stripe EXCEPT ![i] = x] /\ sent' = sent \cup {y}
  BY <1>2 DEF Report
<1>10. /\ stripe'[i] = x /\ \A j \in Items \ {i} : stripe'[j] = stripe[j]
  BY <1>3, <1>9 DEF Types
<1> DEFINE snap == [ent[w].snap EXCEPT !.active = TRUE, !.period = p]
           e == [ent[w] EXCEPT !.pc = "planWrite", !.snap = snap]
<1>11. ent[w] \in CallType /\ ent[w].snap \in ReadSnap
  BY DEF Types, CallType
<1>12. snap = y
  <2>1. snap \in ReadSnap /\ y \in ReadSnap
    BY <1>3, <1>6, <1>11 DEF ReadSnap
  <2>2. /\ snap.item = i /\ snap.sku = k /\ snap.active = TRUE /\ snap.period = p
    BY <1>0, <1>11 DEF ReadSnap
  <2> HIDE DEF snap
  <2> QED
    BY <2>1, <2>2 DEF ReadSnap
<1>13. ent' = [ent EXCEPT ![w] = e]
  BY <1>2 DEF Types
<1>14. e.pc = "planWrite" /\ e.id = n /\ e.snap = y
  BY <1>0, <1>11, <1>12 DEF CallType
<1> HIDE DEF e, snap
<1>15. ent'[w] = e /\ \A v \in Workers \ {w} : ent'[v] = ent[v]
  BY <1>13, CallMoves
<1>16. ~PlanOver /\ \A v \in Workers \ {w} : ent[v].pc \notin Planning
  BY <1>1 DEF PlanInv, OnePlan, PlanOver, Planning
<1>17. OnePlan' /\ RowsComeFromStripe'
  <2>1. OnePlan'
    BY <1>1, <1>15, <1>16 DEF PlanInv, OnePlan, Planning
  <2>2. RowsComeFromStripe'
    BY <1>1, <1>9 DEF PlanInv, RowsComeFromStripe
  <2> QED
    BY <2>1, <2>2
<1>18. PlanPaidOK(ent[w])'
  <2>1. PICK t \in sent : /\ t.item = i /\ t.active = subs[n].active
                          /\ t.period = subs[n].period
    BY <1>3 DEF PlanInv, RowsComeFromStripe
  <2>2. subs[n].active /\ subs[n].period <= p
    <3>1. t.active /\ t.period <= stripe[i].period
      BY <1>1, <1>4, <2>1 DEF StripeOK
    <3>2. subs[n].active \in BOOLEAN /\ subs[n].period \in Nat /\ stripe[i].period \in Nat
      BY <1>3, RowsAreRead, EntitlementBounds DEF Row, Types, ItemType
    <3> QED
      BY <1>5, <1>6, <2>1, <3>1, <3>2
  <2>3. ASSUME NEW s \in sent', s.item = i, s.sku = subs[n].sku
        PROVE  s.active /\ s.period <= p
    <3>1. s \in sent
      BY <1>3, <1>9, <2>3
    <3>2. s.active /\ s.period <= stripe[i].period
      BY <1>1, <1>4, <2>3, <3>1 DEF StripeOK
    <3>3. s.period \in Nat /\ stripe[i].period \in Nat
      BY <1>3, <3>1, EntitlementBounds DEF Types, TypeOK, Snap, ItemType
    <3> QED
      BY <1>5, <1>6, <3>2, <3>3
  <2>4. ASSUME NEW s \in sent', s.item # i PROVE s.period < subs[n].period
    <3>1. s \in sent
      BY <1>9, <2>4
    <3> QED
      BY <1>1, <1>4, <2>1, <2>4, <3>1 DEF StripeOK
  <2>5. /\ y \in sent' /\ y.active /\ y.item = i /\ y.sku = k /\ y.period = p
        /\ stripe'[i].sku = k /\ \A j \in Items \ {i} : ~stripe'[j].active
    BY <1>7, <1>9, <1>10
  <2> HIDE DEF y
  <2> QED
    BY <1>1, <1>3, <1>14, <1>15, <2>2, <2>3, <2>4, <2>5 DEF PlanPaidOK
<1>19. SyncOK(ent[w])' /\ PlanAskedOK(ent[w])'
  BY <1>14, <1>15 DEF SyncOK, PlanAskedOK
<1>20. ASSUME NEW v \in Workers, v # w
       PROVE  SyncOK(ent[v])' /\ PlanAskedOK(ent[v])' /\ PlanPaidOK(ent[v])'
  BY <1>1, <1>15, <1>16, <1>20 DEF PlanInv, SyncOK, PlanAskedOK, PlanPaidOK, Planning
<1> QED
  BY <1>8, <1>17, <1>18, <1>19, <1>20 DEF PlanInv

\* The steps of Next by what they do to a plan change.
LEMMA PlanKinds ==
    ASSUME Types, [Next]_vars
    PROVE  \/ World \/ Quietly
           \/ \E w \in Workers :
                 \/ SyncUpdate(w) \/ PlanStripe(w) \/ PlanWrite(w)
                 \/ \E n \in SubIds, k \in Skus : CallChangePlan(w, n, k)
PROOF
<1>1. CASE vars' = vars
  BY <1>1, QuietWorld DEF vars, store
<1>2. ASSUME NEW w \in Workers, CreditStep(w) \/ GrantReturn(w)
      PROVE  Quietly
  BY <1>2, QuietWorld DEF CreditStep, GrantReturn
<1>3. ASSUME NEW w \in Workers, NEW g \in Grants, GrantCredit(w, g)
      PROVE  Quietly
  BY <1>3, QuietWorld DEF GrantCredit
<1>4. ASSUME NEW w \in Workers, SyncStep(w)
      PROVE  Quietly \/ SyncUpdate(w)
  BY <1>4, SyncReadIsQuiet, SyncCreateIsQuiet, SyncsAreQuiet DEF SyncStep
<1>5. ASSUME NEW w \in Workers, PlanStep(w)
      PROVE  Quietly \/ PlanStripe(w) \/ PlanWrite(w)
  BY <1>5, SyncsAreQuiet DEF PlanStep
<1>6. ASSUME NEW w \in Workers, Calls(w)
      PROVE  Quietly \/ \E n \in SubIds, k \in Skus : CallChangePlan(w, n, k)
  BY <1>3, <1>6, CallsAreQuiet DEF Calls
<1>7. ASSUME NEW w \in Workers, ConsumeStep(w) \/ RefundStep(w) \/ Return(w)
      PROVE  Quietly
  BY <1>7, ConsumesAreQuiet, RefundsAreQuiet, CallsAreQuiet
<1> QED
  BY <1>1, <1>2, <1>4, <1>5, <1>6, <1>7 DEF Next

LEMMA PlanInvNext ==
    ASSUME Types, PlanInv, [Next]_vars
    PROVE  PlanInv'
PROOF
BY PlanKinds, WorldKeepsPlan, QuietPlan, SyncUpdateKeepsPlan, PlanStripeKeepsPlan,
   PlanWriteKeepsPlan, CallChangePlanKeepsPlan

LEMMA PlanInvAtFirst ==
    ASSUME Init, MaxPlanChanges <= 1
    PROVE  PlanInv
PROOF
<1>1. Rows = {}
  BY DEF Init, Rows, NoSub
<1>2. \A w \in Workers : ent[w].pc = "idle"
  BY DEF Init, Idle
<1>3. StripeOK
  BY DEF Init, StripeOK, NoItem
<1> QED
  BY <1>1, <1>2, <1>3 DEF Init, PlanInv, OnePlan, RowsComeFromStripe, SyncOK, PlanAskedOK,
                          PlanPaidOK, Planning

LEMMA PlanInvHolds ==
    ASSUME MaxPlanChanges <= 1
    PROVE  Spec => [](Types /\ PlanInv)
PROOF
<1>1. Init => Types /\ PlanInv
  BY TypesAtFirst, PlanInvAtFirst
<1>2. Types /\ PlanInv /\ [Next]_vars => (Types /\ PlanInv)'
  BY TypesNext, PlanInvNext
<1> QED
  BY <1>1, <1>2, PTL DEF Spec

\* A row holds a state that Stripe reported of its item: its plan, its standing
\* and its period were reported together, however late, repeated or raced the
\* webhooks are, and while the organization changes its plan among them.
THEOREM RowsMirrorStripe ==
    ASSUME MaxPlanChanges <= 1
    PROVE  Spec => []RowsComeFromStripe
PROOF
<1>1. PlanInv => RowsComeFromStripe
  BY DEF PlanInv
<1> QED
  BY <1>1, PlanInvHolds, PTL

LEMMA RowsMoveForward ==
    ASSUME Types, PlanInv, [Next]_vars, NEW m \in Rows
    PROVE  subs'[m].period >= subs[m].period
PROOF
<1>1. m \in SubIds /\ subs[m].period \in Nat
  BY RowsAreRead DEF Row
<1>2. CASE subs'[m].period = subs[m].period
  BY <1>1, <1>2
<1>3. CASE Quietly
  BY <1>2, <1>3 DEF Quietly, KeepsRows
<1>4. CASE World \/ \E w \in Workers : PlanStripe(w)
                       \/ \E n \in SubIds, k \in Skus : CallChangePlan(w, n, k)
  BY <1>2, <1>4 DEF World, Subscribe, Renew, Cancel, NextPeriod, PlanStripe, CallChangePlan,
     store
<1>5. ASSUME NEW n \in Rows, NEW s \in sent, subs[n].period <= s.period,
             subs'[n].period = s.period, \A j \in SubIds \ {n} : subs'[j] = subs[j]
      PROVE  subs'[m].period >= subs[m].period
  <2>1. s.period \in Nat
    BY DEF Types, TypeOK, Snap
  <2> QED
    BY <1>1, <1>2, <1>5, <2>1
<1>6. ASSUME NEW w \in Workers, SyncUpdate(w) PROVE subs'[m].period >= subs[m].period
  BY <1>5, <1>6, SyncUpdateTakes
<1>7. ASSUME NEW w \in Workers, PlanWrite(w) PROVE subs'[m].period >= subs[m].period
  BY <1>5, <1>7, PlanWriteTakes
<1> QED
  BY <1>3, <1>4, <1>6, <1>7, PlanKinds

\* Late, repeated and raced webhooks never move a row to an earlier period, nor
\* does the answer to a plan change that they overtake.
THEOREM PeriodsGoForward ==
    ASSUME MaxPlanChanges <= 1
    PROVE  Spec => PeriodNeverMovesBack
PROOF
<1>1. Types /\ PlanInv /\ [Next]_vars =>
        [\A n \in Rows : subs'[n].period >= subs[n].period]_vars
  BY RowsMoveForward
<1> QED
  BY <1>1, PlanInvHolds, PTL DEF Spec, PeriodNeverMovesBack

-----------------------------------------------------------------------------
(* Refusals.  The credits are those of CreditLedger, and so is what is     *)
(* proved of them.                                                         *)

Ledger == INSTANCE CreditLedger_proofs

\* The part of the invariant that CreditLedger_proofs keeps.
LedgerKnows == Ledger!LedgerInv /\ Ledger!RowsFirst

Refusals == {"exhausted", "not_configured"}
ConsumePcs == {"findConsume", "findBalances", "spend", "done"}

\* What Stripe reports has begun.
Punctual ==
    /\ \A s \in sent : s.period <= now
    /\ \A i \in Items : stripe[i].period <= now

\* What could have paid for a call all along still can, and it is not where the
\* call has looked in vain: the row it is reading is the plan that could, the list
\* it spends from has the balances that could.
OfferOK(w) ==
    LET c == ent[w] IN
    /\ c.pc # "idle" =>
          funded[w] \subseteq Credits!Positive /\ covered[w] \subseteq PlanOffers
    /\ c.pc = "findExistingUsage" => covered[w] = {}
    /\ c.pc = "findUnique" => covered[w] \subseteq {c.row.sku}
    /\ c.pc \in {"findUsage", "consumeTx"} =>
          /\ covered[w] \subseteq {c.row.sku}
          /\ covered[w] # {} => c.row.period = now /\ c.row.used < c.row.included
    /\ c.pc = "credit" =>
          /\ c.fallback \in Refusals
          /\ covered[w] = {}
          /\ call[w].pc \in ConsumePcs
          /\ call[w].pc = "spend" => funded[w] \subseteq call[w].todo
          /\ call[w].pc = "done" => call[w].status = "consumed" \/ funded[w] = {}
    /\ c.status \in Refusals => c.pc = "done" /\ funded[w] = {} /\ covered[w] = {}

OffersHold == Punctual /\ \A w \in Workers : OfferOK(w)

\* A step of the credits here is a step there.
LEMMA CreditStepIsLedgers ==
    ASSUME NEW w \in Workers, Credits!CreditStep(w)
    PROVE  Ledger!Step(w)
PROOF
<1> USE DEF Credits!Done, Ledger!Done, Credits!Goto, Ledger!Goto,
            Credits!ledger, Ledger!ledger
<1>1. Credits!ConsumeStep(w) => Ledger!ConsumeStep(w)
  <2>1. Credits!FindConsume(w) => Ledger!FindConsume(w)
    BY DEF Credits!FindConsume, Ledger!FindConsume
  <2>2. Credits!FindBalances(w) => Ledger!FindBalances(w)
    BY DEF Credits!FindBalances, Ledger!FindBalances, Credits!Existing,
           Ledger!Existing, Credits!Positive, Ledger!Positive
  <2>3. Credits!SpendDrained(w) => Ledger!SpendDrained(w)
    BY DEF Credits!SpendDrained, Ledger!SpendDrained, Credits!Oldest, Ledger!Oldest
  <2>4. Credits!SpendDuplicate(w) => Ledger!SpendDuplicate(w)
    BY DEF Credits!SpendDuplicate, Ledger!SpendDuplicate, Credits!Oldest, Ledger!Oldest
  <2>5. Credits!Spend(w) => Ledger!Spend(w)
    BY DEF Credits!Spend, Ledger!Spend, Credits!Oldest, Ledger!Oldest
  <2>6. Credits!SpendExhausted(w) => Ledger!SpendExhausted(w)
    BY DEF Credits!SpendExhausted, Ledger!SpendExhausted
  <2> QED
    BY <2>1, <2>2, <2>3, <2>4, <2>5, <2>6 DEF Credits!ConsumeStep, Ledger!ConsumeStep
<1>2. Credits!RefundStep(w) => Ledger!RefundStep(w)
  <2>1. Credits!FindConsumed(w) => Ledger!FindConsumed(w)
    BY DEF Credits!FindConsumed, Ledger!FindConsumed
  <2>2. Credits!WriteRefund(w) => Ledger!WriteRefund(w)
    BY DEF Credits!WriteRefund, Ledger!WriteRefund
  <2> QED
    BY <2>1, <2>2 DEF Credits!RefundStep, Ledger!RefundStep
<1>3. Credits!GrantStep(w) => Ledger!GrantStep(w)
  <2>1. Credits!FindBalance(w) => Ledger!FindBalance(w)
    BY DEF Credits!FindBalance, Ledger!FindBalance
  <2>2. Credits!CreateBalance(w) => Ledger!CreateBalance(w)
    BY Zenon DEF Credits!CreateBalance, Ledger!CreateBalance, Credits!Existing, Ledger!Existing,
           Credits!Cardinality, Ledger!Cardinality
  <2>3. Credits!WriteGrant(w) => Ledger!WriteGrant(w)
    BY DEF Credits!WriteGrant, Ledger!WriteGrant
  <2> QED
    BY <2>1, <2>2, <2>3 DEF Credits!GrantStep, Ledger!GrantStep
<1> QED
  BY <1>1, <1>2, <1>3 DEF Credits!CreditStep, Ledger!CreditStep, Ledger!Step

LEMMA CreditCallIsLedgers ==
    ASSUME NEW w \in Workers,
           \/ \E r \in Resources : Credits!CallConsume(w, r) \/ Credits!CallRefund(w, r)
           \/ \E g \in Grants : Credits!CallGrant(w, g)
           \/ Credits!Return(w)
    PROVE  Ledger!Step(w)
PROOF
<1> USE DEF Credits!Call, Ledger!Call, Credits!Idle, Ledger!Idle,
            Credits!ledger, Ledger!ledger
<1>1. \A r \in Resources :
         /\ Credits!CallConsume(w, r) => Ledger!CallConsume(w, r)
         /\ Credits!CallRefund(w, r) => Ledger!CallRefund(w, r)
  BY DEF Credits!CallConsume, Ledger!CallConsume, Credits!CallRefund, Ledger!CallRefund
<1>2. \A g \in Grants : Credits!CallGrant(w, g) => Ledger!CallGrant(w, g)
  BY DEF Credits!CallGrant, Ledger!CallGrant
<1>3. Credits!Return(w) => Ledger!Return(w)
  BY DEF Credits!Return, Ledger!Return
<1> QED
  BY <1>1, <1>2, <1>3 DEF Ledger!Step

\* A worker's step leaves the credits alone or is a step of CreditLedger.
LEMMA CreditsFollow ==
    ASSUME Types, Next
    PROVE  UNCHANGED credits \/ \E w \in Workers : Ledger!Step(w)
PROOF
<1>1. CASE World
  BY <1>1 DEF World, NextPeriod, Renew, Cancel, Subscribe
<1>2. ASSUME NEW w \in Workers, Calls(w)
      PROVE  UNCHANGED credits \/ Ledger!Step(w)
  BY <1>2, CreditCallIsLedgers
     DEF Calls, CallConsume, CallRefund, CallSync, CallChangePlan, GrantCredit
<1>3. ASSUME NEW w \in Workers, ConsumeStep(w)
      PROVE  UNCHANGED credits \/ Ledger!Step(w)
  <2>1. ASSUME NEW s, FallBack(w, s),
               ent[w].pc \in {"findSubscriptions", "findExistingUsage", "findUnique",
                              "findUsage", "consumeTx"}
        PROVE  Ledger!Step(w)
    BY <2>1, CreditCallIsLedgers DEF FallBack, Types, CallOK
  <2> QED
    BY <1>3, <2>1, CreditCallIsLedgers
       DEF ConsumeStep, FindSubscriptions, FindExistingUsage, FindUnique, FindUsage,
           ConsumeTx, ConsumeTxDuplicate, ConsumeTxExhausted, CreditReturn
<1>4. ASSUME NEW w \in Workers, RefundStep(w)
      PROVE  UNCHANGED credits \/ Ledger!Step(w)
  <2>1. FindConsumed(w) => ent[w].resource \in Resources
    BY DEF FindConsumed, Types, CallOK
  <2> QED
    BY <1>4, <2>1, CreditCallIsLedgers
       DEF RefundStep, FindConsumed, RefundTx, CreditRefundReturn
<1>5. ASSUME NEW w \in Workers, SyncStep(w) \/ PlanStep(w) \/ Return(w)
      PROVE  UNCHANGED credits
  BY <1>5 DEF SyncStep, SyncRead, SyncCreate, SyncCreateConflict, SyncUpdate, SyncLost,
              SyncUpdateConflict, PlanStep, PlanStripe, PlanStripeFails, PlanWrite,
              PlanWriteConflict, Return
<1>6. ASSUME NEW w \in Workers, CreditStep(w) \/ GrantReturn(w)
      PROVE  Ledger!Step(w)
  BY <1>6, CreditStepIsLedgers, CreditCallIsLedgers DEF CreditStep, GrantReturn
<1> QED
  BY <1>1, <1>2, <1>3, <1>4, <1>5, <1>6 DEF Next

LEMMA LedgerStaysKnown ==
    ASSUME Types, LedgerKnows, [Next]_vars
    PROVE  LedgerKnows'
PROOF
<1>1. CASE UNCHANGED credits
  <2>1. Ledger!LedgerInv'
    <3>1. UNCHANGED Ledger!vars
      BY <1>1 DEF credits, Ledger!vars, Ledger!ledger
    <3> QED
      BY <3>1, Ledger!NextKeepsInv, CreditAssumption DEF LedgerKnows
  <2>2. Ledger!RowsFirst'
    BY <1>1 DEF credits, LedgerKnows, Ledger!RowsFirst
  <2> QED
    BY <2>1, <2>2 DEF LedgerKnows
<1>2. ASSUME NEW w \in Workers, Ledger!Step(w)
      PROVE  LedgerKnows'
  <2>1. Ledger!LedgerInv'
    <3>1. Ledger!Next
      BY <1>2 DEF Ledger!Next
    <3> QED
      BY <3>1, Ledger!NextKeepsInv, CreditAssumption DEF LedgerKnows
  <2>2. Ledger!RowsFirst'
    BY <1>2, Ledger!RowsComeFirst, CreditAssumption DEF LedgerKnows
  <2> QED
    BY <2>1, <2>2 DEF LedgerKnows
<1>3. CASE UNCHANGED vars
  BY <1>1, <1>3 DEF vars
<1> QED
  BY <1>1, <1>2, <1>3, CreditsFollow

\* What the history records of a call.
LEMMA HistoryFacts ==
    ASSUME HistoryNext, NEW w \in Workers
    PROVE  /\ ent'[w].pc = "idle" => funded'[w] = {} /\ covered'[w] = {}
           /\ ent'[w].pc # "idle" /\ ent[w].pc = "idle" =>
                 funded'[w] = Credits!Positive /\ covered'[w] = PlanOffers
           /\ ent'[w].pc # "idle" /\ ent[w].pc # "idle" =>
                 /\ funded'[w] = funded[w] \cap Credits!Positive'
                 /\ covered'[w] = covered[w] \cap PlanOffers'
PROOF
  BY DEF HistoryNext, Since

LEMMA NowIsNat ==
    ASSUME Types
    PROVE  now \in Nat
PROOF
<1>1. now \in 0 .. MaxPeriod
  BY DEF Types, TypeOK
<1> QED
  BY <1>1, EntitlementBounds

\* A row is of a period that has begun.
LEMMA RowsHaveBegun ==
    ASSUME Types, PlanFree, Punctual, NEW n \in Rows
    PROVE  subs[n].period \in Nat /\ subs[n].period <= now
PROOF
  BY RowsAreRead DEF PlanFree, RowsComeFromStripe, Punctual, Row

\* The plan that could pay is one row: active, in the current period, with a unit
\* left.
LEMMA OffersAreRows ==
    ASSUME Types, PlanFree, Punctual, NEW k \in PlanOffers
    PROVE  \E n \in ActiveRows :
              /\ n \in Rows /\ n = Newest(ActiveRows) /\ subs[n].sku = k
              /\ subs[n].active /\ subs[n].period = now
              /\ subs[n].used < subs[n].included
PROOF
<1>1. PICK n \in ActiveRows : /\ n = Newest(ActiveRows) /\ subs[n].sku = k
                              /\ subs[n].used < subs[n].included
  BY DEF PlanOffers
<1>2. n \in Rows /\ subs[n].active /\ ~Expired(subs[n])
  BY <1>1 DEF ActiveRows, Active
<1>3. subs[n].period \in Nat /\ subs[n].period <= now /\ now \in Nat
  BY <1>2, RowsHaveBegun, NowIsNat
<1> QED
  BY <1>1, <1>2, <1>3 DEF Expired

\* Where the rows and the clock stay, the plan that could pay stays.
LEMMA OffersStay ==
    ASSUME UNCHANGED <<subs, now>>
    PROVE  PlanOffers' = PlanOffers
PROOF
  BY DEF PlanOffers, ActiveRows, Active, Expired, Rows, Newest

\* A call that does not move keeps what it knows, unless a new period begins while
\* a plan could pay for it.
LEMMA StandingCall ==
    ASSUME HistoryNext, NEW w \in Workers, OfferOK(w), ent'[w] = ent[w],
           ent[w].pc = "credit" => call'[w] = call[w],
           now' = now \/ PlanOffers' = {}
    PROVE  OfferOK(w)'
PROOF
<1>1. CASE ent[w].pc = "idle"
  BY <1>1, HistoryFacts DEF OfferOK
<1>2. CASE ent[w].pc # "idle"
  <2>1. /\ funded'[w] = funded[w] \cap Credits!Positive'
        /\ covered'[w] = covered[w] \cap PlanOffers'
    BY <1>2, HistoryFacts
  <2> QED
    BY <1>2, <2>1 DEF OfferOK
<1> QED
  BY <1>1, <1>2

\* A call that is not on its way to a refusal knows only that its offers stand.
LEMMA PlainCall ==
    ASSUME HistoryNext, NEW w \in Workers, OfferOK(w),
           ent'[w].pc \notin {"findExistingUsage", "findUnique", "findUsage",
                              "consumeTx", "credit"},
           ent'[w].status \notin Refusals,
           ent[w].pc = "idle" => UNCHANGED <<balances, subs, now>>
    PROVE  OfferOK(w)'
PROOF
<1>1. CASE ent'[w].pc = "idle"
  BY <1>1, HistoryFacts DEF OfferOK
<1>2. CASE ent'[w].pc # "idle" /\ ent[w].pc = "idle"
  <2>1. funded'[w] = Credits!Positive' /\ covered'[w] = PlanOffers'
    BY <1>2, HistoryFacts, OffersStay DEF Credits!Positive
  <2> QED
    BY <1>2, <2>1 DEF OfferOK
<1>3. CASE ent'[w].pc # "idle" /\ ent[w].pc # "idle"
  BY <1>3, HistoryFacts DEF OfferOK
<1> QED
  BY <1>1, <1>2, <1>3

-----------------------------------------------------------------------------
(* The steps of a consume.                                                 *)

\* The fallback begins when no plan has covered the call throughout.
LEMMA FallBackHolds ==
    ASSUME Types, LedgerKnows, HistoryNext, NEW w \in Workers, OfferOK(w),
           NEW s \in Refusals, FallBack(w, s), ent[w].pc \notin {"idle", "done"},
           covered[w] \cap PlanOffers' = {}
    PROVE  OfferOK(w)'
PROOF
<1>1. ent[w] \in CallType /\ ent' = [ent EXCEPT ![w].pc = "credit", ![w].fallback = s]
  BY DEF Types, FallBack
<1>2. ent'[w].pc = "credit" /\ ent'[w].fallback = s /\ ent'[w].status = ent[w].status
  BY <1>1 DEF Types, CallType
<1>3. call'[w].pc = "findConsume"
  BY DEF FallBack, Credits!CallConsume, Credits!Call, Credits!Idle, LedgerKnows,
         Ledger!LedgerInv, Ledger!TypeOK
<1>4. ent[w].status \notin Refusals
  <2>1. ent[w].pc # "done"
    OBVIOUS
  <2> QED
    BY <2>1 DEF OfferOK
<1>5. covered'[w] = {} /\ funded'[w] = funded[w] \cap Credits!Positive'
  BY <1>2, HistoryFacts
<1> QED
  BY <1>2, <1>3, <1>4, <1>5 DEF OfferOK, ConsumePcs

LEMMA FindSubscriptionsHolds ==
    ASSUME Types, LedgerKnows, HistoryNext, NEW w \in Workers, OfferOK(w),
           FindSubscriptions(w)
    PROVE  OfferOK(w)'
PROOF
<1> DEFINE n == Newest(ActiveRows)
<1>1. ent[w].pc = "findSubscriptions" /\ PlanOffers' = PlanOffers
  BY OffersStay DEF FindSubscriptions, world, store
<1>2. CASE ActiveRows = {}
  <2>1. PlanOffers = {}
    BY <1>2 DEF PlanOffers
  <2> QED
    BY <1>1, <1>2, <2>1, FallBackHolds DEF FindSubscriptions, Refusals
<1>3. CASE ActiveRows # {}
  <2>1. subs[n].used \in Nat /\ subs[n].included \in Nat
    <3>1. n \in ActiveRows
      BY <1>3, NewestIsAmong, ActiveRowsAreFinite
    <3>2. n \in Rows
      BY <3>1 DEF ActiveRows
    <3> QED
      BY <3>2, RowsAreRead DEF Row
  <2>2. \A k \in PlanOffers : k = subs[n].sku /\ subs[n].used < subs[n].included
    BY DEF PlanOffers
  <2>3. ent' = [ent EXCEPT ![w].pc = IF subs[n].used >= subs[n].included
                                     THEN "findExistingUsage" ELSE "findUnique",
                           ![w].row = subs[n]]
    BY <1>3 DEF FindSubscriptions
  <2> HIDE DEF n
  <2>4. /\ ent'[w].pc = IF subs[n].used >= subs[n].included
                        THEN "findExistingUsage" ELSE "findUnique"
        /\ ent'[w].row = subs[n] /\ ent'[w].status = ent[w].status
    BY <2>3 DEF Types, CallType
  <2>5. ent'[w].pc = "findExistingUsage" => PlanOffers = {}
    BY <2>1, <2>2, <2>4
  <2>6. /\ funded'[w] = funded[w] \cap Credits!Positive'
        /\ covered'[w] = covered[w] \cap PlanOffers'
        /\ ent[w].status \notin Refusals
        /\ ent'[w].pc \in {"findExistingUsage", "findUnique"}
    BY <1>1, <2>4, HistoryFacts DEF OfferOK
  <2> QED
    BY <1>1, <2>2, <2>4, <2>5, <2>6 DEF OfferOK
<1> QED
  BY <1>2, <1>3

\* A call that ends with another status than a refusal.
LEMMA GoodEnd ==
    ASSUME Types, HistoryNext, NEW w \in Workers, OfferOK(w), NEW s, s \notin Refusals,
           Done(w, s), ent[w].pc # "idle"
    PROVE  OfferOK(w)'
PROOF
<1>1. ent'[w].pc = "done" /\ ent'[w].status = s
  BY DEF Done, Types, CallType
<1> QED
  BY <1>1, PlainCall

LEMMA FindExistingUsageHolds ==
    ASSUME Types, LedgerKnows, HistoryNext, NEW w \in Workers, OfferOK(w),
           FindExistingUsage(w)
    PROVE  OfferOK(w)'
PROOF
<1>1. ent[w].pc = "findExistingUsage" /\ covered[w] = {}
  BY DEF FindExistingUsage, OfferOK
<1> QED
  BY <1>1, GoodEnd, FallBackHolds DEF FindExistingUsage, Refusals

LEMMA FindUniqueHolds ==
    ASSUME Types, PlanFree, Punctual, LedgerKnows, HistoryNext,
           NEW w \in Workers, OfferOK(w), FindUnique(w)
    PROVE  OfferOK(w)'
PROOF
<1> DEFINE S == RowsOf(ent[w].row.sku)
<1>1. /\ ent[w].pc = "findUnique" /\ PlanOffers' = PlanOffers /\ now' = now
      /\ covered[w] \subseteq PlanOffers /\ covered[w] \subseteq {ent[w].row.sku}
  BY OffersStay DEF FindUnique, world, store, OfferOK
<1>2. ASSUME covered[w] # {}
      PROVE  \E n \in S : /\ subs[n].active /\ subs[n].period = now
                          /\ subs[n].used < subs[n].included
  <2>1. PICK k \in covered[w] : k \in PlanOffers /\ k = ent[w].row.sku
    BY <1>1, <1>2
  <2> QED
    BY <2>1, OffersAreRows DEF RowsOf
<1>3. CASE ~ \E n \in S : subs[n].active
  <2>1. covered[w] = {}
    BY <1>2, <1>3
  <2> QED
    BY <1>1, <1>3, <2>1, FallBackHolds DEF FindUnique, Refusals
<1>4. CASE \E n \in S : subs[n].active
  <2>1. PICK n \in S : ent' = [ent EXCEPT ![w].pc = "findUsage", ![w].id = n,
                                          ![w].row = subs[n]]
    BY <1>4 DEF FindUnique
  <2>2. /\ ent'[w].pc = "findUsage" /\ ent'[w].row = subs[n]
        /\ ent'[w].status = ent[w].status
    BY <2>1 DEF Types, CallType
  <2>3. subs[n].sku = ent[w].row.sku /\ \A m \in S : m = n
    BY DEF PlanFree, RowsOf
  <2>4. covered[w] # {} => subs[n].period = now /\ subs[n].used < subs[n].included
    BY <1>2, <2>3
  <2>5. /\ funded'[w] = funded[w] \cap Credits!Positive'
        /\ covered'[w] = covered[w] \cap PlanOffers'
        /\ ent[w].status \notin Refusals
    BY <1>1, <2>2, HistoryFacts DEF OfferOK
  <2> QED
    BY <1>1, <2>2, <2>3, <2>4, <2>5 DEF OfferOK
<1> QED
  BY <1>3, <1>4

LEMMA FindUsageHolds ==
    ASSUME Types, LedgerKnows, HistoryNext, NEW w \in Workers, OfferOK(w), FindUsage(w)
    PROVE  OfferOK(w)'
PROOF
<1> DEFINE row == ent[w].row
<1>1. /\ ent[w].pc = "findUsage" /\ PlanOffers' = PlanOffers /\ now' = now
      /\ row \in Row /\ ent[w].resource \in Resources /\ now \in Nat
  <2>1. PlanOffers' = PlanOffers
    BY OffersStay DEF FindUsage, world, store
  <2>2. row \in Row /\ ent[w].resource \in Resources
    BY DEF FindUsage, Types, CallOK
  <2> QED
    BY <2>1, <2>2, NowIsNat DEF FindUsage, world
<1>2. covered[w] # {} => ~Expired(row) /\ ~(row.used >= row.included)
  BY <1>1 DEF OfferOK, Expired, Row
<1>3. usage[row.sku, ent[w].resource] \in Nat
  <2>1. <<row.sku, ent[w].resource>> \in Skus \X Resources
    BY <1>1 DEF Row
  <2> QED
    BY <2>1 DEF Types, TypeOK
<1>4. \/ Done(w, "consumed")
      \/ covered[w] = {} /\ \E s \in Refusals : FallBack(w, s)
      \/ Goto(w, "consumeTx")
  BY <1>2, <1>3 DEF FindUsage, Refusals
<1>5. CASE Goto(w, "consumeTx")
  <2>1. /\ ent'[w].pc = "consumeTx" /\ ent'[w].row = ent[w].row
        /\ ent'[w].status = ent[w].status
    BY <1>5 DEF Goto, Types, CallType
  <2>2. /\ funded'[w] = funded[w] \cap Credits!Positive'
        /\ covered'[w] = covered[w] \cap PlanOffers'
    BY <1>1, <2>1, HistoryFacts
  <2> QED
    BY <1>1, <2>1, <2>2 DEF OfferOK
<1>6. CASE Done(w, "consumed")
  BY <1>1, <1>6, GoodEnd DEF Refusals
<1> QED
  BY <1>1, <1>4, <1>5, <1>6, FallBackHolds

\* The guard of the increment fails only if the plan has nothing left: the row the
\* call has read includes what the row at hand does.
LEMMA ConsumeTxHolds ==
    ASSUME Types, PlanFree, Punctual, LedgerKnows, HistoryNext, NEW w \in Workers,
           OfferOK(w), ConsumeTx(w) \/ ConsumeTxDuplicate(w) \/ ConsumeTxExhausted(w)
    PROVE  OfferOK(w)'
PROOF
<1>1. CASE ConsumeTx(w) \/ ConsumeTxDuplicate(w)
  BY <1>1, GoodEnd DEF ConsumeTx, ConsumeTxDuplicate, Refusals
<1>2. CASE ConsumeTxExhausted(w)
  <2> DEFINE n == ent[w].id
             row == ent[w].row
  <2>1. /\ n \in Rows /\ row \in Row /\ subs[n] \in Row
        /\ subs[n].sku = row.sku /\ row.included = Included[row.sku]
        /\ subs[n].included = Included[subs[n].sku]
    BY <1>2, RowsAreRead DEF ConsumeTxExhausted, Types, CallOK, PlanFree, ReadOK
  <2>2. subs[n].used >= subs[n].included
    BY <1>2, <2>1 DEF ConsumeTxExhausted
  <2>3. covered[w] = {}
    <3>1. SUFFICES ASSUME NEW k \in covered[w] PROVE FALSE
      OBVIOUS
    <3>2. k \in PlanOffers /\ k = row.sku
      BY <1>2 DEF ConsumeTxExhausted, OfferOK
    <3>3. PICK m \in Rows : subs[m].sku = k /\ subs[m].used < subs[m].included
      BY <3>2, OffersAreRows
    <3>4. m = n
      BY <2>1, <3>2, <3>3 DEF PlanFree
    <3> QED
      BY <2>1, <2>2, <3>3, <3>4 DEF Row
  <2> QED
    BY <1>2, <2>3, FallBackHolds DEF ConsumeTxExhausted, Refusals
<1> QED
  BY <1>1, <1>2

\* The credits refuse a call only if no balance has paid all along.
LEMMA CreditStepHolds ==
    ASSUME Types, LedgerKnows, HistoryNext, NEW w \in Workers, OfferOK(w), CreditStep(w)
    PROVE  OfferOK(w)'
PROOF
<1>1. ent' = ent /\ now' = now /\ call[w] \in Ledger!CallState
      /\ call \in [Workers -> Ledger!CallState]
  BY DEF CreditStep, world, LedgerKnows, Ledger!LedgerInv, Ledger!TypeOK
<1>2. CASE ent[w].pc # "credit"
  BY <1>1, <1>2, StandingCall
<1>3. CASE ent[w].pc = "credit"
  <2>1. /\ funded'[w] = funded[w] \cap Credits!Positive' /\ covered'[w] = {}
        /\ call[w].pc \in ConsumePcs
    BY <1>1, <1>3, HistoryFacts DEF OfferOK
  <2>2. /\ call'[w].pc \in ConsumePcs
        /\ call'[w].pc = "spend" => funded'[w] \subseteq call'[w].todo
        /\ call'[w].pc = "done" => call'[w].status = "consumed" \/ funded'[w] = {}
    <3> USE <1>1 DEF ConsumePcs, Credits!Done, Credits!Goto
    <3>1. CASE Credits!FindConsume(w) \/ Credits!SpendDuplicate(w) \/ Credits!Spend(w)
      BY <3>1 DEF Credits!FindConsume, Credits!SpendDuplicate, Credits!Spend,
                  Ledger!CallState
    <3>2. CASE Credits!FindBalances(w)
      <4>1. Credits!Positive \subseteq Credits!Existing
        BY Ledger!CreditsHaveRows, CreditAssumption
           DEF LedgerKnows, Ledger!Positive, Ledger!Existing, Credits!Positive,
               Credits!Existing
      <4>2. Credits!Positive' = Credits!Positive
        BY <3>2 DEF Credits!FindBalances, Credits!ledger, Credits!Positive
      <4> QED
        BY <2>1, <3>2, <4>1, <4>2 DEF Credits!FindBalances, Ledger!CallState
    <3>3. CASE Credits!SpendDrained(w)
      <4>1. PICK s : balances[s].balance = 0 /\ call' = [call EXCEPT ![w].todo = @ \ {s}]
        BY <3>3 DEF Credits!SpendDrained
      <4>2. /\ call'[w].pc = "spend" /\ call'[w].todo = call[w].todo \ {s}
            /\ balances' = balances /\ call[w].pc = "spend"
        BY <3>3, <4>1 DEF Credits!SpendDrained, Credits!ledger, Ledger!CallState
      <4>3. funded[w] \subseteq call[w].todo /\ s \notin Credits!Positive'
        BY <1>3, <4>1, <4>2 DEF OfferOK, Credits!Positive
      <4> QED
        BY <2>1, <4>2, <4>3
    <3>4. CASE Credits!SpendExhausted(w)
      <4>1. funded[w] = {}
        BY <1>3, <3>4 DEF Credits!SpendExhausted, OfferOK
      <4> QED
        BY <2>1, <3>4, <4>1 DEF Credits!SpendExhausted, Ledger!CallState
    <3>5. ~Credits!RefundStep(w) /\ ~Credits!GrantStep(w)
      BY <2>1 DEF Credits!RefundStep, Credits!GrantStep, Credits!FindConsumed,
                  Credits!WriteRefund, Credits!FindBalance, Credits!CreateBalance,
                  Credits!WriteGrant
    <3> QED
      BY <3>1, <3>2, <3>3, <3>4, <3>5
         DEF CreditStep, Credits!CreditStep, Credits!ConsumeStep
  <2> QED
    BY <1>1, <1>3, <2>1, <2>2 DEF OfferOK
<1> QED
  BY <1>2, <1>3

LEMMA CreditReturnHolds ==
    ASSUME Types, HistoryNext, NEW w \in Workers, OfferOK(w), CreditReturn(w)
    PROVE  OfferOK(w)'
PROOF
<1>1. /\ ent[w].pc = "credit" /\ call[w].pc = "done"
      /\ covered[w] = {} /\ (call[w].status = "consumed" \/ funded[w] = {})
  BY DEF CreditReturn, Credits!Return, OfferOK
<1>2. CASE call[w].status = "consumed"
  BY <1>1, <1>2, GoodEnd DEF CreditReturn, Refusals
<1>3. CASE call[w].status # "consumed"
  <2>1. ent'[w].pc = "done" /\ covered'[w] = {} /\ funded'[w] = {}
    <3>1. ent'[w].pc = "done"
      BY <1>1, <1>3 DEF CreditReturn, Done, Types, CallType
    <3> QED
      BY <1>1, <1>3, <3>1, HistoryFacts
  <2> QED
    BY <2>1 DEF OfferOK
<1> QED
  BY <1>2, <1>3

-----------------------------------------------------------------------------
(* All steps.                                                              *)

\* The steps that read or write nothing a refusal rests on.
LEMMA PlainSteps ==
    ASSUME Types, PlanFree, HistoryNext, NEW w \in Workers, OfferOK(w),
           \/ \E r \in Resources : CallConsume(w, r) \/ CallRefund(w, r)
           \/ \E s \in sent : CallSync(w, s)
           \/ RefundStep(w) \/ SyncStep(w) \/ Return(w)
    PROVE  OfferOK(w)'
PROOF
<1>1. ent[w] \in CallType /\ ent \in [Workers -> CallType]
  BY DEF Types
<1>2. CASE \/ \E r \in Resources : CallConsume(w, r) \/ CallRefund(w, r)
           \/ \E s \in sent : CallSync(w, s)
  <2>1. UNCHANGED <<balances, subs, now>>
    BY <1>2 DEF CallConsume, CallRefund, CallSync, credits, world, store
  <2>2. ent'[w].pc \in {"findSubscriptions", "findConsumed", "syncRead"}
        /\ ent'[w].status = "none"
    <3>1. ASSUME NEW r \in Resources, CallConsume(w, r)
          PROVE  ent'[w].pc = "findSubscriptions" /\ ent'[w].status = "none"
      <4>1. ent'[w] = [Idle EXCEPT !.pc = "findSubscriptions", !.resource = r]
        BY <1>1, <3>1 DEF CallConsume
      <4> QED
        BY <4>1 DEF Idle
    <3>2. ASSUME NEW r \in Resources, CallRefund(w, r)
          PROVE  ent'[w].pc = "findConsumed" /\ ent'[w].status = "none"
      <4>1. ent'[w] = [Idle EXCEPT !.pc = "findConsumed", !.resource = r]
        BY <1>1, <3>2 DEF CallRefund
      <4> QED
        BY <4>1 DEF Idle
    <3>3. ASSUME NEW s \in sent, CallSync(w, s)
          PROVE  ent'[w].pc = "syncRead" /\ ent'[w].status = "none"
      <4>1. ent'[w] = [Idle EXCEPT !.pc = "syncRead", !.snap = s]
        BY <1>1, <3>3 DEF CallSync
      <4> QED
        BY <4>1 DEF Idle
    <3> QED
      BY <1>2, <3>1, <3>2, <3>3
  <2> QED
    BY <2>1, <2>2, PlainCall DEF Refusals
<1>3. CASE Return(w)
  <2>1. ent'[w] = Idle /\ ent[w].pc = "done"
    BY <1>1, <1>3 DEF Return
  <2> QED
    BY <2>1, PlainCall DEF Idle, Refusals
<1>4. CASE RefundStep(w) \/ SyncStep(w)
  <2>1. ent[w].pc \notin {"idle", "done"}
    BY <1>4 DEF RefundStep, SyncStep, FindConsumed, RefundTx, CreditRefundReturn,
                SyncRead, SyncCreate, SyncCreateConflict, SyncUpdate, SyncLost,
                SyncUpdateConflict
  <2>2. ent[w].status \notin Refusals
    BY <2>1 DEF OfferOK
  <2>3. CASE FindConsumed(w)
    <3>1. \/ Goto(w, "creditRefund")
          \/ \E k : ent' = [ent EXCEPT ![w].pc = "refundTx", ![w].row.sku = k]
      BY <2>3 DEF FindConsumed
    <3>2. /\ ent'[w].pc \in {"creditRefund", "refundTx"}
          /\ ent'[w].status = ent[w].status
      BY <1>1, <3>1 DEF Goto, CallType
    <3> QED
      BY <2>1, <2>2, <3>2, PlainCall
  <2>4. CASE SyncRead(w)
    <3>1. \/ Done(w, "synced")
          \/ /\ ent'[w].pc \in {"syncCreate", "syncUpdate"}
             /\ ent'[w].status = ent[w].status
      <4>1. CASE ent' = [ent EXCEPT ![w].pc = "syncCreate"]
        BY <1>1, <4>1 DEF CallType
      <4>2. CASE \E n \in RowsOf(ent[w].snap.sku) :
                    ent' = [ent EXCEPT ![w].pc = "syncUpdate",
                                       ![w].id = n, ![w].row = subs[n]]
        BY <1>1, <4>2 DEF CallType
      <4> QED
        BY <2>4, <4>1, <4>2 DEF SyncRead
    <3> QED
      BY <2>1, <2>2, <3>1, PlainCall, GoodEnd DEF Refusals
  <2>5. CASE SyncLost(w)
    <3>1. ent'[w].pc \in {"syncRead", "done"} /\ ent'[w].status = ent[w].status
      BY <1>1, <2>5 DEF SyncLost, CallType
    <3> QED
      BY <2>1, <2>2, <3>1, PlainCall
  <2> QED
    BY <1>4, <2>1, <2>3, <2>4, <2>5, GoodEnd
       DEF RefundStep, SyncStep, RefundTx, CreditRefundReturn, SyncCreate,
           SyncCreateConflict, SyncUpdate, SyncUpdateConflict, Refusals
<1> QED
  BY <1>2, <1>3, <1>4

\* Stripe reports periods that have begun.
LEMMA ReportsHaveBegun ==
    ASSUME Types, PlanFree, Punctual, Next
    PROVE  Punctual'
PROOF
<1>1. now \in Nat /\ \A i \in Items : stripe[i] \in ItemType
  BY NowIsNat DEF Types
<1>2. \A s \in sent : s.period \in Nat
  BY DEF Types, TypeOK, Snap
<1>3. \A i \in Items : stripe[i].period \in Nat
  BY <1>1, EntitlementBounds DEF ItemType
<1>4. CASE NextPeriod
  BY <1>1, <1>2, <1>3, <1>4 DEF NextPeriod, Punctual
<1>5. ASSUME NEW i \in Items, NEW s, Report(i, s), s.period <= now, now' = now
      PROVE  Punctual'
  BY <1>5 DEF Report, Punctual, Types
<1>6. ASSUME NEW i \in Items, Renew(i) \/ Cancel(i) \/ \E k \in Skus : Subscribe(i, k)
      PROVE  Punctual'
  <2>1. CASE Renew(i)
    <3>1. [stripe[i] EXCEPT !.period = now].period <= now
      BY <1>1 DEF ItemType
    <3> QED
      BY <1>5, <2>1, <3>1 DEF Renew
  <2>2. CASE Cancel(i)
    <3>1. [stripe[i] EXCEPT !.active = FALSE].period <= now
      BY <1>1 DEF ItemType, Punctual
    <3> QED
      BY <1>5, <2>2, <3>1 DEF Cancel
  <2>3. ASSUME NEW k \in Skus, Subscribe(i, k) PROVE Punctual'
    BY <1>1, <1>5, <2>3 DEF Subscribe
  <2> QED
    BY <1>6, <2>1, <2>2, <2>3
<1>7. ASSUME UNCHANGED <<now, stripe, sent>> PROVE Punctual'
  BY <1>7 DEF Punctual
<1>8. ASSUME NEW w \in Workers,
             ConsumeTx(w) \/ RefundTx(w) \/ SyncCreate(w) \/ SyncUpdate(w)
      PROVE  UNCHANGED <<now, stripe, sent>>
  BY <1>8 DEF ConsumeTx, RefundTx, SyncCreate, SyncUpdate, world
<1> QED
  BY <1>4, <1>6, <1>7, <1>8, StepKindsPlanFree DEF World, OwnStep, world

\* A step moves one call and one credit call, of the same worker.
LEMMA OneWorkerMoves ==
    ASSUME Types, PlanFree, LedgerKnows, Next
    PROVE  \/ World /\ UNCHANGED <<ent, call>>
           \/ \E w \in Workers :
                 /\ now' = now
                 /\ \A v \in Workers \ {w} : ent'[v] = ent[v] /\ call'[v] = call[v]
                 /\ \/ Calls(w) \/ ConsumeStep(w) \/ RefundStep(w) \/ SyncStep(w)
                    \/ CreditStep(w) \/ GrantReturn(w) \/ Return(w)
PROOF
<1>1. CASE World
  BY <1>1 DEF World, NextPeriod, Renew, Cancel, Subscribe, credits
<1>2. ASSUME NEW w \in Workers,
             \/ Calls(w) \/ ConsumeStep(w) \/ RefundStep(w) \/ SyncStep(w)
             \/ CreditStep(w) \/ GrantReturn(w) \/ Return(w)
      PROVE  /\ now' = now
             /\ \A v \in Workers \ {w} : ent'[v] = ent[v] /\ call'[v] = call[v]
  <2>1. call \in [Workers -> Ledger!CallState] /\ ent \in [Workers -> CallType]
    BY DEF LedgerKnows, Ledger!LedgerInv, Ledger!TypeOK, Types
  <2> DEFINE Alone == \A v \in Workers \ {w} : ent'[v] = ent[v] /\ call'[v] = call[v]
  <2>2. \A v \in Workers \ {w} :
           /\ \A s : Done(w, s) \/ Goto(w, s) => ent'[v] = ent[v]
           /\ \A s : FallBack(w, s) => ent'[v] = ent[v] /\ call'[v] = call[v]
           /\ Credits!Return(w) => call'[v] = call[v]
           /\ \A r : Credits!CallRefund(w, r) => call'[v] = call[v]
           /\ \A g : Credits!CallGrant(w, g) => call'[v] = call[v]
    BY <2>1 DEF Done, Goto, FallBack, Credits!CallConsume, Credits!Return,
                Credits!CallRefund, Credits!CallGrant, Credits!Call
  <2>3. CASE Calls(w)
    BY <2>1, <2>2, <2>3
       DEF Calls, CallConsume, CallRefund, CallSync, CallChangePlan, GrantCredit, credits, world
  <2>4. CASE ConsumeStep(w)
    <3>1. now' = now
      BY <2>4 DEF ConsumeStep, FindSubscriptions, FindExistingUsage, FindUnique,
                  FindUsage, ConsumeTx, ConsumeTxDuplicate, ConsumeTxExhausted,
                  CreditReturn, world
    <3>2. CASE FindSubscriptions(w)
      BY <2>1, <2>2, <3>1, <3>2 DEF FindSubscriptions, credits
    <3>3. CASE FindUnique(w)
      BY <2>1, <2>2, <3>1, <3>3 DEF FindUnique, credits
    <3>4. CASE FindUsage(w)
      BY <2>2, <3>1, <3>4 DEF FindUsage, credits
    <3>5. CASE FindExistingUsage(w) \/ ConsumeTx(w) \/ ConsumeTxDuplicate(w)
               \/ ConsumeTxExhausted(w) \/ CreditReturn(w)
      BY <2>2, <3>1, <3>5 DEF FindExistingUsage, ConsumeTx, ConsumeTxDuplicate,
                        ConsumeTxExhausted, CreditReturn, credits
    <3> QED
      BY <2>4, <3>1, <3>2, <3>3, <3>4, <3>5 DEF ConsumeStep
  <2>5. CASE RefundStep(w)
    BY <2>1, <2>2, <2>5 DEF RefundStep, FindConsumed, RefundTx, CreditRefundReturn,
                            credits, world
  <2>6. CASE SyncStep(w)
    <3>1. now' = now /\ call' = call
      BY <2>6 DEF SyncStep, SyncRead, SyncCreate, SyncCreateConflict, SyncUpdate,
                  SyncLost, SyncUpdateConflict, credits, world
    <3>2. CASE SyncRead(w)
      BY <2>1, <2>2, <3>1, <3>2 DEF SyncRead
    <3>3. CASE SyncLost(w)
      BY <2>1, <3>1, <3>3 DEF SyncLost
    <3> QED
      BY <2>2, <2>6, <3>1, <3>2, <3>3
         DEF SyncStep, SyncCreate, SyncCreateConflict, SyncUpdate, SyncUpdateConflict
  <2>7. CASE CreditStep(w)
    <3>1. ent' = ent /\ now' = now
      BY <2>7 DEF CreditStep, world
    <3> QED
      BY <2>1, <2>7, <3>1
         DEF CreditStep, Credits!CreditStep, Credits!ConsumeStep, Credits!RefundStep,
             Credits!GrantStep, Credits!FindConsume, Credits!FindBalances,
             Credits!SpendDrained, Credits!SpendDuplicate, Credits!Spend,
             Credits!SpendExhausted, Credits!FindConsumed, Credits!WriteRefund,
             Credits!FindBalance, Credits!CreateBalance, Credits!WriteGrant,
             Credits!Done, Credits!Goto
  <2>8. CASE GrantReturn(w) \/ Return(w)
    BY <2>1, <2>2, <2>8 DEF GrantReturn, Return, credits, world
  <2> QED
    BY <1>2, <2>3, <2>4, <2>5, <2>6, <2>7, <2>8
<1>3. ASSUME NEW w \in Workers PROVE ~PlanStep(w)
  BY DEF PlanFree, ReadOK, PlanStep, PlanStripe, PlanStripeFails, PlanWrite, PlanWriteConflict
<1> QED
  BY <1>1, <1>2, <1>3 DEF Next

\* A new period ends the plan's offer until the renewal is told.
LEMMA NewPeriodOffersNothing ==
    ASSUME Types, PlanFree, Punctual, NextPeriod
    PROVE  PlanOffers' = {}
PROOF
<1>1. now \in Nat /\ now' = now + 1 /\ subs' = subs
  BY EntitlementBounds DEF NextPeriod, Types, TypeOK, store
<1>2. \A n \in Rows : Expired(subs[n])'
  BY <1>1, RowsHaveBegun DEF Expired
<1> QED
  BY <1>1, <1>2 DEF PlanOffers, ActiveRows, Active, Rows

LEMMA OffersHoldNext ==
    ASSUME Types, PlanFree, LedgerKnows, OffersHold, HistoryNext
    PROVE  OffersHold'
PROOF
<1>1. Punctual /\ Punctual' /\ Next /\ \A w \in Workers : OfferOK(w)
  BY ReportsHaveBegun DEF OffersHold, HistoryNext
<1>2. CASE World /\ UNCHANGED <<ent, call>>
  <2>1. now' = now \/ PlanOffers' = {}
    BY <1>1, <1>2, NewPeriodOffersNothing DEF World, Renew, Cancel, Subscribe
  <2> QED
    BY <1>1, <1>2, <2>1, StandingCall DEF OffersHold
<1>3. ASSUME NEW w \in Workers, now' = now,
             \A v \in Workers \ {w} : ent'[v] = ent[v] /\ call'[v] = call[v],
             \/ Calls(w) \/ ConsumeStep(w) \/ RefundStep(w) \/ SyncStep(w)
             \/ CreditStep(w) \/ GrantReturn(w) \/ Return(w)
      PROVE  OffersHold'
  <2>1. \A v \in Workers \ {w} : OfferOK(v)'
    BY <1>1, <1>3, StandingCall
  <2>2. ASSUME ConsumeStep(w) PROVE OfferOK(w)'
    BY <1>1, <2>2, FindSubscriptionsHolds, FindExistingUsageHolds, FindUniqueHolds,
       FindUsageHolds, ConsumeTxHolds, CreditReturnHolds DEF ConsumeStep
  <2>3. ASSUME CreditStep(w) PROVE OfferOK(w)'
    BY <1>1, <2>3, CreditStepHolds
  <2>4. ASSUME GrantReturn(w) \/ \E g \in Grants : GrantCredit(w, g) PROVE OfferOK(w)'
    <3>1. ent' = ent /\ ent[w].pc = "idle"
      BY <2>4 DEF GrantReturn, GrantCredit
    <3> QED
      BY <1>1, <1>3, <3>1, StandingCall
  <2>5. \A n \in SubIds, k \in Skus : ~CallChangePlan(w, n, k)
    BY DEF CallChangePlan, PlanFree
  <2>6. OfferOK(w)'
    BY <1>1, <1>3, <2>2, <2>3, <2>4, <2>5, PlainSteps DEF Calls
  <2> QED
    BY <1>1, <2>1, <2>6 DEF OffersHold
<1> QED
  BY <1>1, <1>2, <1>3, OneWorkerMoves

\* A consume is refused only if neither the plan nor any credit balance could have
\* paid for it throughout, whatever renewals, refunds, grants and other consumes
\* come between its reads and its writes.
THEOREM RefusedForCause ==
    ASSUME MaxPlanChanges = 0
    PROVE  HistorySpec => []NoSpuriousRefusal
PROOF
<1> DEFINE Inv == Types /\ PlanFree /\ LedgerKnows /\ OffersHold
<1>1. HistoryInit => Inv
  <2> SUFFICES ASSUME HistoryInit PROVE Inv
    OBVIOUS
  <2>1. Types /\ PlanFree
    BY TypesAtFirst, PlanFreeAtFirst DEF HistoryInit
  <2>2. LedgerKnows
    <3>1. Ledger!Init
      BY DEF HistoryInit, Init, Credits!Init, Ledger!Init, Credits!NoBalance,
             Ledger!NoBalance, Credits!Idle, Ledger!Idle
    <3>2. Ledger!RowsFirst
      BY <3>1 DEF Ledger!Init, Ledger!RowsFirst, Ledger!NoBalance, Ledger!Idle
    <3> QED
      BY <3>1, <3>2, Ledger!InitEstablishesInv, CreditAssumption DEF LedgerKnows
  <2>3. OffersHold
    BY EntitlementBounds DEF HistoryInit, Init, OffersHold, Punctual, OfferOK, NoItem, Idle, Refusals
  <2> QED
    BY <2>1, <2>2, <2>3
<1>2. Inv /\ [HistoryNext]_<<vars, funded, covered>> => Inv'
  <2> SUFFICES ASSUME Inv, [HistoryNext]_<<vars, funded, covered>> PROVE Inv'
    OBVIOUS
  <2>1. [Next]_vars
    BY DEF HistoryNext
  <2>2. (Types /\ PlanFree)' /\ LedgerKnows'
    BY <2>1, TypesNext, PlanFreeNext, LedgerStaysKnown
  <2>3. CASE HistoryNext
    BY <2>2, <2>3, OffersHoldNext
  <2>4. CASE UNCHANGED <<vars, funded, covered>>
    <3>1. OffersHold'
      BY <2>4, OffersStay DEF vars, credits, world, store, OffersHold, Punctual, OfferOK,
                  Credits!Positive
    <3> QED
      BY <2>2, <3>1
  <2> QED
    BY <2>3, <2>4
<1>3. Inv => NoSpuriousRefusal
  BY DEF OffersHold, OfferOK, NoSpuriousRefusal, Refusals
<1> HIDE DEF Inv
<1> QED
  BY <1>1, <1>2, <1>3, PTL DEF HistorySpec
=============================================================================
