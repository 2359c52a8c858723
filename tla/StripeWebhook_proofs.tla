------------------------- MODULE StripeWebhook_proofs -------------------------
(***************************************************************************)
(* Proofs about StripeWebhook: the claim protocol keeps two deliveries of  *)
(* an event apart and never calls an unapplied event processed, for any    *)
(* number of events and deliveries and any bounds.                         *)
(***************************************************************************)
EXTENDS StripeWebhook, FiniteSetTheorems, TLAPS

\* Who is past the claim of an event, by the program counter alone.
Holds(h) == handler[h].pc \in {"processing", "markProcessed", "markFailed"}

\* The inductive invariant.  An event someone handles, or has answered, has a
\* row; a handler about to mark an event processed has applied it; and unless
\* it was taken from a handler that overran, an event has at most one holder,
\* and while it has one its row says processing.
ClaimInv ==
    /\ TypeOK
    /\ \A h \in Handlers : handler[h].pc # "idle" => row[handler[h].event] # NoRow
    /\ \A e \in answered : row[e] # NoRow
    /\ \A h \in Handlers :
          handler[h].pc = "markProcessed" => applied[handler[h].event] > 0
    /\ ProcessedWasApplied
    /\ \A h \in Handlers :
          Holds(h) /\ handler[h].event \notin overran =>
              /\ row[handler[h].event].status = "processing"
              /\ \A g \in Handlers :
                    Holds(g) /\ handler[g].event = handler[h].event => g = h

LEMMA InitEstablishesInv == Init => ClaimInv
PROOF
  BY ReclaimAfterAssumption, BoundsAssumption
     DEF Init, ClaimInv, TypeOK, Idle, HandlerState, NoRow, ProcessedWasApplied, Holds

\* What every handler state is made of.
LEMMA HandlerFacts ==
    ASSUME TypeOK, NEW h \in Handlers
    PROVE  /\ handler[h].pc \in Pcs
           /\ handler[h].pc = "idle" <=> handler[h] = Idle
           /\ handler[h].pc # "idle" => handler[h].event \in Events
PROOF
  BY DEF TypeOK, HandlerState, Idle, Pcs

LEMMA TypeStep == TypeOK /\ [Next]_vars => TypeOK'
PROOF
<1> SUFFICES ASSUME TypeOK, [Next]_vars PROVE TypeOK'
  OBVIOUS
<1> USE BoundsAssumption DEF TypeOK, HandlerState, Pcs, RowStatus, history
<1>1. CASE UNCHANGED vars
  BY <1>1 DEF vars, program
<1>2. CASE Tick
  BY <1>2 DEF Tick
<1>3. ASSUME NEW h \in Handlers, NEW e \in Events, ClaimNew(h, e) PROVE TypeOK'
  BY <1>3 DEF ClaimNew, Claim
<1>4. ASSUME NEW h \in Handlers, NEW e \in Events, ClaimConflict(h, e) PROVE TypeOK'
  BY <1>4 DEF ClaimConflict
<1>5. ASSUME NEW h \in Handlers, Reclaim(h) PROVE TypeOK'
  BY <1>5, HandlerFacts DEF Reclaim, Claim
<1>6. ASSUME NEW h \in Handlers, AnswerDuplicate(h) PROVE TypeOK'
  BY <1>6, HandlerFacts DEF AnswerDuplicate, Return
<1>7. ASSUME NEW h \in Handlers, Process(h) PROVE TypeOK'
  BY <1>7, HandlerFacts DEF Process, Goto
<1>8. ASSUME NEW h \in Handlers, Throw(h) PROVE TypeOK'
  BY <1>8, HandlerFacts DEF Throw, Goto
<1>9. ASSUME NEW h \in Handlers, MarkProcessed(h) PROVE TypeOK'
  BY <1>9, HandlerFacts DEF MarkProcessed, Return
<1>10. ASSUME NEW h \in Handlers, MarkFailed(h) PROVE TypeOK'
  BY <1>10, HandlerFacts DEF MarkFailed, Return, NoRow
<1>11. ASSUME NEW h \in Handlers, MarkFailedThrows(h) PROVE TypeOK'
  BY <1>11 DEF MarkFailedThrows, Return
<1>12. ASSUME NEW h \in Handlers, Crash(h) PROVE TypeOK'
  BY <1>12 DEF Crash, Return
<1> QED
  BY <1>1, <1>2, <1>3, <1>4, <1>5, <1>6, <1>7, <1>8, <1>9, <1>10, <1>11, <1>12
     DEF Next, Step

LEMMA NextKeepsInv == ClaimInv /\ [Next]_vars => ClaimInv'
PROOF
<1> SUFFICES ASSUME ClaimInv, [Next]_vars PROVE ClaimInv'
  OBVIOUS
<1>0. TypeOK /\ TypeOK'
  BY TypeStep DEF ClaimInv
<1> USE <1>0, NoneAssumption DEF ClaimInv, ProcessedWasApplied, Holds, NoRow, Idle, history
<1>1. CASE UNCHANGED vars
  BY <1>1 DEF vars, program
<1>2. CASE Tick
  BY <1>2 DEF Tick
<1>3. ASSUME NEW h \in Handlers, NEW e \in Events, ClaimNew(h, e) PROVE ClaimInv'
  BY <1>3 DEF ClaimNew, Claim, TypeOK
<1>4. ASSUME NEW h \in Handlers, NEW e \in Events, ClaimConflict(h, e) PROVE ClaimInv'
  BY <1>4 DEF ClaimConflict, TypeOK
<1>5. ASSUME NEW h \in Handlers, Reclaim(h) PROVE ClaimInv'
  BY <1>5, HandlerFacts DEF Reclaim, Reclaimable, TooOld, Claim, Holders, InFlight, TypeOK
<1>6. ASSUME NEW h \in Handlers, AnswerDuplicate(h) PROVE ClaimInv'
  BY <1>6, HandlerFacts DEF AnswerDuplicate, Return, TypeOK
<1>7. ASSUME NEW h \in Handlers, Process(h) PROVE ClaimInv'
  BY <1>7, HandlerFacts DEF Process, Goto, TypeOK
<1>8. ASSUME NEW h \in Handlers, Throw(h) PROVE ClaimInv'
  BY <1>8, HandlerFacts DEF Throw, Goto, TypeOK
<1>9. ASSUME NEW h \in Handlers, MarkProcessed(h) PROVE ClaimInv'
  BY <1>9, HandlerFacts DEF MarkProcessed, Return, TypeOK
<1>10. ASSUME NEW h \in Handlers, MarkFailed(h) PROVE ClaimInv'
  BY <1>10, HandlerFacts DEF MarkFailed, Return, TypeOK, RowStatus
<1>11. ASSUME NEW h \in Handlers, MarkFailedThrows(h) PROVE ClaimInv'
  BY <1>11 DEF MarkFailedThrows, Return, TypeOK
<1>12. ASSUME NEW h \in Handlers, Crash(h) PROVE ClaimInv'
  BY <1>12 DEF Crash, Return, TypeOK
<1> QED
  BY <1>1, <1>2, <1>3, <1>4, <1>5, <1>6, <1>7, <1>8, <1>9, <1>10, <1>11, <1>12
     DEF Next, Step

LEMMA ClaimInvariant == Spec => []ClaimInv
PROOF
  BY InitEstablishesInv, NextKeepsInv, PTL DEF Spec

-----------------------------------------------------------------------------
\* A row of stripe_webhook_events says processed only of an event whose
\* processEvent has completed.
THEOREM ProcessedMeansApplied == Spec => []ProcessedWasApplied
PROOF
<1>1. ClaimInv => ProcessedWasApplied
  BY DEF ClaimInv
<1> QED
  BY <1>1, ClaimInvariant, PTL

\* An event acknowledged with a 2xx and never applied can be found by the status
\* of its row.
THEOREM AcknowledgedLossIsVisible == Spec => []LossIsVisible
PROOF
<1>1. ClaimInv => LossIsVisible
  BY DEF ClaimInv, LossIsVisible, TypeOK, RowStatus, ProcessedWasApplied
<1> QED
  BY <1>1, ClaimInvariant, PTL

\* Two deliveries process an event together only if one of them outlived the
\* reclaim window of claimStripeWebhookEvent.
THEOREM DeliveriesExclude == Spec => []NoConcurrentProcessing
PROOF
<1>1. ClaimInv => NoConcurrentProcessing
  <2> SUFFICES ASSUME ClaimInv, NEW e \in Events \ overran
               PROVE  Cardinality(Processing(e)) <= 1
    BY DEF NoConcurrentProcessing
  <2>1. \A g, h \in Processing(e) : g = h
    BY DEF ClaimInv, Processing, InFlight, Holds
  <2>2. CASE Processing(e) = {}
    BY <2>2, FS_EmptySet
  <2>3. CASE Processing(e) # {}
    <3>1. PICK h : Processing(e) = {h}
      BY <2>1, <2>3
    <3> QED
      BY <3>1, FS_Singleton
  <2> QED
    BY <2>2, <2>3
<1> QED
  BY <1>1, ClaimInvariant, PTL

\* While one does, the row says so.
THEOREM ProcessingShows == Spec => []ProcessingIsVisible
PROOF
<1>1. ClaimInv => ProcessingIsVisible
  BY DEF ClaimInv, ProcessingIsVisible, Processing, InFlight, Holds
<1> QED
  BY <1>1, ClaimInvariant, PTL

\* No later delivery and no late failure reopens a processed event, unless a
\* handler outlived the reclaim window.
THEOREM ProcessedStays == Spec => ProcessedIsFinal
PROOF
<1>1. ClaimInv /\ [Next]_vars =>
         [\A e \in Events \ overran' :
             row[e].status = "processed" => row'[e].status = "processed"]_vars
  <2> SUFFICES ASSUME ClaimInv, Next,
                      NEW e \in Events \ overran', row[e].status = "processed"
               PROVE  row'[e].status = "processed"
    OBVIOUS
  <2> USE DEF ClaimInv, TypeOK, Holds, history
  <2>1. CASE Tick
    BY <2>1 DEF Tick
  <2>2. ASSUME NEW h \in Handlers, NEW d \in Events, ClaimNew(h, d)
        PROVE  row'[e].status = "processed"
    BY <2>2 DEF ClaimNew, Claim, NoRow
  <2>3. ASSUME NEW h \in Handlers, Reclaim(h)
        PROVE  row'[e].status = "processed"
    BY <2>3 DEF Reclaim, Claim, Reclaimable, TooOld
  <2>4. ASSUME NEW h \in Handlers, MarkProcessed(h)
        PROVE  row'[e].status = "processed"
    BY <2>4 DEF MarkProcessed
  <2>5. ASSUME NEW h \in Handlers, MarkFailed(h)
        PROVE  row'[e].status = "processed"
    BY <2>5 DEF MarkFailed
  <2>6. ASSUME NEW h \in Handlers,
               \/ \E d \in Events : ClaimConflict(h, d)
               \/ AnswerDuplicate(h) \/ Process(h) \/ Throw(h)
               \/ MarkFailedThrows(h) \/ Crash(h)
        PROVE  row'[e].status = "processed"
    BY <2>6 DEF ClaimConflict, AnswerDuplicate, Process, Throw, MarkFailedThrows, Crash
  <2> QED
    BY <2>1, <2>2, <2>3, <2>4, <2>5, <2>6 DEF Next, Step
<1> QED
  BY <1>1, ClaimInvariant, PTL DEF Spec, ProcessedIsFinal
=============================================================================
