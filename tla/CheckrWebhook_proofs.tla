------------------------- MODULE CheckrWebhook_proofs -------------------------
(***************************************************************************)
(* Proofs about CheckrWebhook: an applied marker is earned and final, and  *)
(* an event is settled at most once unless a delivery had its marker       *)
(* deleted under it, for any number of events and deliveries.              *)
(***************************************************************************)
EXTENDS CheckrWebhook, TLAPS

\* Who is past the claim of an event, by the program counter alone.
Holds(h) == handler[h].pc \in {"applying", "releasing", "acking"}

\* A marker that is applied exists, and was settled or rejected; a delivery
\* about to acknowledge a rejection has rejected the event.
MarkerInv ==
    /\ \A e \in Events : marker[e].applied => marker[e].exists
    /\ AppliedMarkerIsEarned
    /\ \A h \in Handlers : handler[h].pc = "acking" => Event(h) \in rejected

\* Unless its marker was deleted under a holder, an event has at most one
\* holder, whose marker is there and unapplied; and once it is settled its
\* marker is applied, so that it never has a holder again.
HolderInv ==
    /\ \A h \in Handlers :
          Holds(h) /\ Event(h) \notin stolen =>
              /\ Unapplied(Event(h))
              /\ \A g \in Handlers : Holds(g) /\ Event(g) = Event(h) => g = h
    /\ \A e \in Events \ stolen :
          settled[e] > 0 => marker[e].applied /\ settled[e] = 1

DedupInv == TypeOK /\ MarkerInv /\ HolderInv

LEMMA InitEstablishesInv == Init => DedupInv
PROOF
  BY CheckrBounds
     DEF Init, DedupInv, MarkerInv, HolderInv, TypeOK, HandlerState, Idle, NoMarker,
         AppliedMarkerIsEarned, Holds, Event

\* What every handler state is made of.
LEMMA HandlerFacts ==
    ASSUME TypeOK, NEW h \in Handlers
    PROVE  /\ handler[h].pc \in Pcs \cup {"idle"}
           /\ handler[h].pc # "idle" => handler[h].event \in Events
PROOF
  BY DEF TypeOK, HandlerState, Idle, Pcs

\* A delivery marks its event applied and returns.
LEMMA AppliedFacts ==
    ASSUME TypeOK, NEW h \in Handlers, handler[h].pc # "idle",
           MarkApplied(Event(h)), Return(h)
    PROVE  /\ Event(h) \in Events
           /\ handler'[h] = Idle
           /\ \A g \in Handlers \ {h} : handler'[g] = handler[g]
           /\ marker'[Event(h)].exists = marker[Event(h)].exists
           /\ marker'[Event(h)].applied = marker[Event(h)].exists
           /\ \A e \in Events \ {Event(h)} : marker'[e] = marker[e]
PROOF
<1>1. Event(h) \in Events
  BY HandlerFacts DEF Event
<1>2. handler'[h] = Idle /\ \A g \in Handlers \ {h} : handler'[g] = handler[g]
  BY DEF Return, TypeOK
<1>3. /\ marker'[Event(h)].exists = marker[Event(h)].exists
      /\ marker'[Event(h)].applied = marker[Event(h)].exists
      /\ \A e \in Events \ {Event(h)} : marker'[e] = marker[e]
  <2>1. marker[Event(h)] \in [exists : BOOLEAN, applied : BOOLEAN, processedAt : Nat]
    BY <1>1 DEF TypeOK
  <2> QED
    BY <1>1, <2>1 DEF MarkApplied, TypeOK
<1> QED
  BY <1>1, <1>2, <1>3

LEMMA TypeStep == TypeOK /\ [Next]_vars => TypeOK'
PROOF
<1> SUFFICES ASSUME TypeOK, [Next]_vars PROVE TypeOK'
  OBVIOUS
<1> USE CheckrBounds DEF TypeOK, HandlerState, Pcs, Event, Goto, Return, Idle, history, clock
<1>1. CASE UNCHANGED vars
  BY <1>1 DEF vars, program
<1>2. CASE Tick
  BY <1>2 DEF Tick
<1>3. ASSUME NEW h \in Handlers, NEW e \in Events, Claim(h, e) PROVE TypeOK'
  BY <1>3 DEF Claim, Insert
<1>4. ASSUME NEW h \in Handlers, NEW e \in Events, ClaimConflict(h, e) PROVE TypeOK'
  BY <1>4 DEF ClaimConflict
<1>5. ASSUME NEW h \in Handlers, FindAbandoned(h) PROVE TypeOK'
  BY <1>5, HandlerFacts DEF FindAbandoned
<1>6. ASSUME NEW h \in Handlers,
             FindInFlight(h) \/ DeleteNothing(h) \/ ReclaimLost(h) PROVE TypeOK'
  BY <1>6, HandlerFacts DEF FindInFlight, DeleteNothing, ReclaimLost, AnswerDuplicate
<1>7. ASSUME NEW h \in Handlers, DeleteAbandoned(h) PROVE TypeOK'
  BY <1>7, HandlerFacts DEF DeleteAbandoned, Delete, NoMarker
<1>8. ASSUME NEW h \in Handlers, Reclaim(h) PROVE TypeOK'
  BY <1>8, HandlerFacts DEF Reclaim, Insert
<1>9. ASSUME NEW h \in Handlers, Settle(h) PROVE TypeOK'
  BY <1>9, HandlerFacts DEF Settle, MarkApplied
<1>10. ASSUME NEW h \in Handlers, Release(h) PROVE TypeOK'
  <2>1. CASE Unapplied(Event(h))
    <3>1. marker' = [marker EXCEPT ![Event(h)] = NoMarker]
      BY <1>10, <2>1 DEF Release, Delete
    <3> QED
      BY <1>10, <3>1, HandlerFacts DEF Release, NoMarker
  <2>2. CASE ~Unapplied(Event(h))
    BY <1>10, <2>2, HandlerFacts DEF Release, Unapplied
  <2> QED
    BY <2>1, <2>2
<1>11. ASSUME NEW h \in Handlers, Ack(h) PROVE TypeOK'
  BY <1>11, HandlerFacts DEF Ack, MarkApplied
<1>12. ASSUME NEW h \in Handlers, FailTransient(h) PROVE TypeOK'
  BY <1>12, HandlerFacts DEF FailTransient
<1>13. ASSUME NEW h \in Handlers, FailPermanent(h) PROVE TypeOK'
  BY <1>13, HandlerFacts DEF FailPermanent
<1>14. ASSUME NEW h \in Handlers, CleanupThrows(h) PROVE TypeOK'
  BY <1>14 DEF CleanupThrows
<1>15. ASSUME NEW h \in Handlers, Crash(h) PROVE TypeOK'
  BY <1>15 DEF Crash
<1> QED
  BY <1>1, <1>2, <1>3, <1>4, <1>5, <1>6, <1>7, <1>8, <1>9, <1>10, <1>11, <1>12,
     <1>13, <1>14, <1>15
     DEF Next, Progress, Deliver

\* A holder that marks its event applied, having settled or rejected it, keeps the
\* invariant: no other delivery holds the event, unless the marker was stolen.
LEMMA AppliedKeepsInv ==
    ASSUME DedupInv, TypeOK', NEW h \in Handlers, MarkApplied(Event(h)), Return(h),
           rejected' = rejected, stolen' = stolen,
           \/ /\ handler[h].pc = "applying"
              /\ settled' = [settled EXCEPT ![Event(h)] = @ + 1]
           \/ handler[h].pc = "acking" /\ settled' = settled
    PROVE  DedupInv'
PROOF
<1>1. TypeOK /\ MarkerInv /\ HolderInv
  BY DEF DedupInv
<1>2. Holds(h) /\ handler[h].pc # "idle"
  BY DEF Holds
<1> DEFINE d == Event(h)
<1>3. /\ d \in Events
      /\ handler'[h].pc = "idle"
      /\ \A g \in Handlers \ {h} : handler'[g] = handler[g]
      /\ marker'[d].exists = marker[d].exists
      /\ marker'[d].applied = marker[d].exists
      /\ \A e \in Events \ {d} : marker'[e] = marker[e]
  BY <1>1, <1>2, AppliedFacts DEF Idle
<1>4. /\ \/ d \in rejected /\ settled'[d] = settled[d]
         \/ settled'[d] = settled[d] + 1
      /\ \A e \in Events \ {d} : settled'[e] = settled[e]
      /\ settled[d] \in Nat
  BY <1>1, <1>3 DEF MarkerInv, TypeOK
<1>5. d \notin stolen => /\ marker[d].exists /\ ~marker[d].applied /\ settled[d] = 0
                        /\ \A g \in Handlers : Holds(g) /\ Event(g) = d => g = h
  <2>1. d \notin stolen => /\ marker[d].exists /\ ~marker[d].applied
                          /\ \A g \in Handlers : Holds(g) /\ Event(g) = d => g = h
    BY <1>1, <1>2 DEF HolderInv, Unapplied
  <2> QED
    BY <1>1, <1>3, <1>4, <2>1 DEF HolderInv
<1>6. ASSUME NEW g \in Handlers, Holds(g)'
      PROVE  g # h /\ Holds(g) /\ Event(g)' = Event(g)
  BY <1>3, <1>6 DEF Holds, Event
<1> HIDE DEF d
<1>7. MarkerInv'
  <2>1. \A e \in Events : marker'[e].applied => marker'[e].exists
    BY <1>1, <1>3 DEF MarkerInv
  <2>2. AppliedMarkerIsEarned'
    <3>1. settled'[d] > 0 \/ d \in rejected
      BY <1>4
    <3> QED
      BY <1>1, <1>3, <1>4, <3>1 DEF MarkerInv, AppliedMarkerIsEarned
  <2>3. \A g \in Handlers : handler'[g].pc = "acking" => Event(g)' \in rejected'
    BY <1>1, <1>3 DEF MarkerInv, Event
  <2> QED
    BY <2>1, <2>2, <2>3 DEF MarkerInv
<1>8. HolderInv'
  <2>1. ASSUME NEW g \in Handlers, Holds(g)', Event(g)' \notin stolen'
        PROVE  /\ Unapplied(Event(g))'
               /\ \A f \in Handlers : Holds(f)' /\ Event(f)' = Event(g)' => f = g
    <3>1. g # h /\ Holds(g) /\ Event(g)' = Event(g) /\ Event(g) # d
      BY <1>5, <1>6, <2>1
    <3>2. /\ Unapplied(Event(g))
          /\ \A f \in Handlers : Holds(f) /\ Event(f) = Event(g) => f = g
      BY <1>1, <2>1, <3>1 DEF HolderInv
    <3>3. Event(g) \in Events
      BY <1>1, <3>1, HandlerFacts DEF Holds, Event
    <3>4. marker'[Event(g)] = marker[Event(g)]
      BY <1>3, <3>1, <3>3
    <3>5. Unapplied(Event(g))'
      BY <3>1, <3>2, <3>4 DEF Unapplied
    <3>6. ASSUME NEW f \in Handlers, Holds(f)', Event(f)' = Event(g)'
          PROVE  f = g
      BY <1>6, <3>1, <3>2, <3>6
    <3> QED
      BY <3>5, <3>6
  <2>2. ASSUME NEW e \in Events \ stolen', settled'[e] > 0
        PROVE  marker'[e].applied /\ settled'[e] = 1
    <3>1. CASE e = d
      BY <1>3, <1>4, <1>5, <2>2, <3>1
    <3>2. CASE e # d
      BY <1>1, <1>3, <1>4, <2>2, <3>2 DEF HolderInv
    <3> QED
      BY <3>1, <3>2
  <2> QED
    BY <2>1, <2>2 DEF HolderInv
<1> QED
  BY <1>7, <1>8 DEF DedupInv

LEMMA NextKeepsInv == DedupInv /\ [Next]_vars => DedupInv'
PROOF
<1> SUFFICES ASSUME DedupInv, [Next]_vars PROVE DedupInv'
  OBVIOUS
<1>0. TypeOK /\ TypeOK'
  BY TypeStep DEF DedupInv
<1> USE <1>0, CheckrNone
    DEF DedupInv, MarkerInv, HolderInv, AppliedMarkerIsEarned, Holds, Event,
        Unapplied, Goto, Return, Idle, history, clock
<1>1. CASE UNCHANGED vars
  BY <1>1 DEF vars, program
<1>2. CASE Tick
  BY <1>2 DEF Tick
<1>3. ASSUME NEW h \in Handlers, NEW e \in Events, Claim(h, e) PROVE DedupInv'
  BY <1>3 DEF Claim, Insert, MayDeliver, TypeOK
<1>4. ASSUME NEW h \in Handlers, NEW e \in Events, ClaimConflict(h, e) PROVE DedupInv'
  BY <1>4 DEF ClaimConflict, TypeOK
<1>5. ASSUME NEW h \in Handlers, FindAbandoned(h) PROVE DedupInv'
  BY <1>5, HandlerFacts DEF FindAbandoned, TypeOK
<1>6. ASSUME NEW h \in Handlers,
             FindInFlight(h) \/ DeleteNothing(h) \/ ReclaimLost(h) PROVE DedupInv'
  <2>1. /\ handler' = [handler EXCEPT ![h] = [pc |-> "idle", event |-> None]]
        /\ UNCHANGED <<marker, settled, rejected, stolen>>
    BY <1>6 DEF FindInFlight, DeleteNothing, ReclaimLost, AnswerDuplicate
  <2> QED
    BY <2>1, HandlerFacts DEF TypeOK
<1>7. ASSUME NEW h \in Handlers, DeleteAbandoned(h) PROVE DedupInv'
  BY <1>7, HandlerFacts DEF DeleteAbandoned, Delete, NoMarker, Holders, InFlight, TypeOK
<1>8. ASSUME NEW h \in Handlers, Reclaim(h) PROVE DedupInv'
  BY <1>8, HandlerFacts DEF Reclaim, Insert, TypeOK
<1>9. ASSUME NEW h \in Handlers, Settle(h) PROVE DedupInv'
  BY <1>9, AppliedKeepsInv DEF Settle
<1>10. ASSUME NEW h \in Handlers, Release(h) PROVE DedupInv'
  <2>1. CASE Unapplied(Event(h))
    <3>1. marker' = [marker EXCEPT ![Event(h)] = NoMarker]
      BY <1>10, <2>1 DEF Release, Delete
    <3> QED
      BY <1>10, <3>1, HandlerFacts DEF Release, NoMarker, TypeOK
  <2>2. CASE ~Unapplied(Event(h))
    BY <1>10, <2>2, HandlerFacts DEF Release, Unapplied, TypeOK
  <2> QED
    BY <2>1, <2>2
<1>11. ASSUME NEW h \in Handlers, Ack(h) PROVE DedupInv'
  BY <1>11, AppliedKeepsInv DEF Ack
<1>12. ASSUME NEW h \in Handlers, FailTransient(h) PROVE DedupInv'
  BY <1>12, HandlerFacts DEF FailTransient, TypeOK
<1>13. ASSUME NEW h \in Handlers, FailPermanent(h) PROVE DedupInv'
  BY <1>13, HandlerFacts DEF FailPermanent, TypeOK
<1>14. ASSUME NEW h \in Handlers, CleanupThrows(h) PROVE DedupInv'
  BY <1>14 DEF CleanupThrows, TypeOK
<1>15. ASSUME NEW h \in Handlers, Crash(h) PROVE DedupInv'
  BY <1>15 DEF Crash, TypeOK
<1> QED
  BY <1>1, <1>2, <1>3, <1>4, <1>5, <1>6, <1>7, <1>8, <1>9, <1>10, <1>11, <1>12,
     <1>13, <1>14, <1>15
     DEF Next, Progress, Deliver

LEMMA DedupInvariant == Spec => []DedupInv
PROOF
  BY InitEstablishesInv, NextKeepsInv, PTL DEF Spec

-----------------------------------------------------------------------------
\* Redeliveries of an event are answered "duplicate" for good only if the event
\* was written, ignored or rejected by some delivery.
THEOREM MarkersAreEarned == Spec => []AppliedMarkerIsEarned
PROOF
<1>1. DedupInv => AppliedMarkerIsEarned
  BY DEF DedupInv, MarkerInv
<1> QED
  BY <1>1, DedupInvariant, PTL

\* An event is written to the check at most once, unless a reclaim deleted its
\* marker under a delivery that was still handling it.
THEOREM EventsSettleOnce == Spec => []SettledOnceUnlessStolen
PROOF
<1>1. DedupInv => SettledOnceUnlessStolen
  BY DEF DedupInv, HolderInv, SettledOnceUnlessStolen, TypeOK
<1> QED
  BY <1>1, DedupInvariant, PTL

\* A delivery that applies an event can be seen by the others.
THEOREM AppliersAreMarked == Spec => []ApplyingIsMarked
PROOF
<1>1. DedupInv => ApplyingIsMarked
  BY DEF DedupInv, HolderInv, ApplyingIsMarked, Applying, InFlight, Holds, Event
<1> QED
  BY <1>1, DedupInvariant, PTL

\* No release, ack or reclaim, however late, takes an applied marker away.
THEOREM AppliedMarkersStay == Spec => AppliedMarkerIsFinal
PROOF
<1>1. DedupInv /\ [Next]_vars =>
         [\A e \in Events : marker[e].applied => marker'[e].applied]_vars
  <2> SUFFICES ASSUME DedupInv, Next, NEW e \in Events, marker[e].applied
               PROVE  marker'[e].applied
    OBVIOUS
  <2> USE DEF DedupInv, MarkerInv, TypeOK, Unapplied, history, clock
  <2>1. CASE Tick
    BY <2>1 DEF Tick
  <2>2. ASSUME NEW h \in Handlers, \/ \E d \in Events : Claim(h, d)
                                   \/ Reclaim(h)
        PROVE  marker'[e].applied
    BY <2>2 DEF Claim, Reclaim, Insert
  <2>3. ASSUME NEW h \in Handlers, DeleteAbandoned(h) \/ Release(h)
        PROVE  marker'[e].applied
    BY <2>3 DEF DeleteAbandoned, Release, Delete
  <2>4. ASSUME NEW h \in Handlers, Settle(h) \/ Ack(h)
        PROVE  marker'[e].applied
    BY <2>4 DEF Settle, Ack, MarkApplied
  <2>5. ASSUME NEW h \in Handlers,
               \/ \E d \in Events : ClaimConflict(h, d)
               \/ FindAbandoned(h) \/ FindInFlight(h) \/ DeleteNothing(h)
               \/ ReclaimLost(h) \/ FailTransient(h) \/ FailPermanent(h)
               \/ CleanupThrows(h) \/ Crash(h)
        PROVE  marker'[e].applied
    BY <2>5 DEF ClaimConflict, FindAbandoned, FindInFlight, DeleteNothing, ReclaimLost,
                AnswerDuplicate, FailTransient, FailPermanent, CleanupThrows, Crash
  <2> QED
    BY <2>1, <2>2, <2>3, <2>4, <2>5 DEF Next, Progress, Deliver
<1> QED
  BY <1>1, DedupInvariant, PTL DEF Spec, AppliedMarkerIsFinal
=============================================================================
