------------------------- MODULE RefreshLease_proofs -------------------------
(***************************************************************************)
(* Every working call that has not outlived its lease holds it: a lease is *)
(* taken when it is free or has expired, it expires under its holder only  *)
(* by putting the holder into outlived, and a release clears the caller's  *)
(* own.  Two such calls hold the same lease, so they are one call.         *)
(*                                                                         *)
(* And until a rejection has a cause, every token a call holds is live and *)
(* its own, and so is the token the next refresh will read.                *)
(***************************************************************************)
EXTENDS RefreshLease, FiniteSetTheorems, WellFoundedInduction, TLAPS

(* The lease names a call or nobody.                                       *)
LeaseTyped == lease \in [holder : Calls \cup {None}, expired : BOOLEAN]

(* Only calls work.                                                        *)
WorkersAreCalls == working \subseteq Calls

(* A worker within its lease holds it.                                     *)
WorkersHold ==
  \A c \in working : c \in outlived \/ (lease.holder = c /\ ~lease.expired)

Inv == LeaseTyped /\ WorkersAreCalls /\ WorkersHold

-----------------------------------------------------------------------------

LEMMA InitInv == Init => Inv
  BY DEF Init, Inv, LeaseTyped, WorkersAreCalls, WorkersHold

(* Steps that touch neither the lease nor who has outlived it, and at most *)
(* let a worker go.                                                        *)
LEMMA Leaving ==
  ASSUME Inv, UNCHANGED <<lease, outlived>>, working' \subseteq working
  PROVE  Inv'
  BY DEF Inv, LeaseTyped, WorkersAreCalls, WorkersHold

LEMMA EndLeaves ==
  ASSUME NEW c \in Calls, End(c)
  PROVE  working' \subseteq working
  BY DEF End, Return

LEMMA RetryLeaves ==
  ASSUME NEW c \in Calls, Retry(c)
  PROVE  working' \subseteq working
  BY EndLeaves DEF Retry

LEMMA AcquireKeepsInv ==
  ASSUME Inv, NEW c \in Calls, Acquire(c)
  PROVE  Inv'
<1>1. lease' = [holder |-> c, expired |-> FALSE] /\ working' = working \cup {c}
      /\ UNCHANGED outlived
  BY DEF Acquire, history
<1>2. LeaseTyped' /\ WorkersAreCalls'
  BY <1>1 DEF Inv, LeaseTyped, WorkersAreCalls
<1>3. \A d \in working : d \in outlived
  <2> SUFFICES ASSUME NEW d \in working, d \notin outlived
               PROVE  FALSE
    OBVIOUS
  <2>1. lease.holder = d /\ ~lease.expired /\ d \in Calls
    BY DEF Inv, WorkersHold, WorkersAreCalls
  <2> QED
    BY <2>1, NoneAssumption DEF Acquire
<1> QED
  BY <1>1, <1>2, <1>3 DEF Inv, WorkersHold

LEMMA ReleaseKeepsInv ==
  ASSUME Inv, NEW c \in Calls, Release(c)
  PROVE  Inv'
<1>1. /\ lease' = IF lease.holder = c THEN [holder |-> None, expired |-> FALSE] ELSE lease
      /\ working' = working \ {c} /\ UNCHANGED outlived
  BY DEF Release, Return, history
<1>2. LeaseTyped' /\ WorkersAreCalls'
  BY <1>1 DEF Inv, LeaseTyped, WorkersAreCalls
<1>3. ASSUME NEW d \in working', d \notin outlived'
      PROVE  lease'.holder = d /\ ~lease'.expired
  BY <1>1, <1>3 DEF Inv, WorkersHold
<1> QED
  BY <1>2, <1>3 DEF Inv, WorkersHold

LEMMA ExpireKeepsInv ==
  ASSUME Inv, Expire
  PROVE  Inv'
<1>1. /\ lease' = [lease EXCEPT !.expired = TRUE]
      /\ outlived' = outlived \cup ({lease.holder} \cap working)
      /\ working' = working
  BY DEF Expire
<1>2. LeaseTyped' /\ WorkersAreCalls'
  BY <1>1 DEF Inv, LeaseTyped, WorkersAreCalls
<1>3. \A d \in working : d \in outlived'
  BY <1>1 DEF Inv, WorkersHold
<1> QED
  BY <1>1, <1>2, <1>3 DEF Inv, WorkersHold

-----------------------------------------------------------------------------

LEMMA NextInv == Inv /\ [Next]_vars => Inv'
<1> SUFFICES ASSUME Inv, [Next]_vars
             PROVE  Inv'
  OBVIOUS
<1>1. CASE UNCHANGED vars
  BY <1>1, Leaving DEF vars, history
<1>2. ASSUME NEW c \in Calls,
             \/ Begin(c) \/ AcquireBusy(c) \/ AttemptAccepted(c) \/ AttemptRejected(c)
             \/ Number(c) \/ Insert(c) \/ Activate(c) \/ Teardown(c)
      PROVE  UNCHANGED <<lease, outlived, working>>
  BY <1>2 DEF Begin, AcquireBusy, AttemptAccepted, AttemptRejected, Number, Insert,
              Activate, Teardown, history
<1>3. ASSUME NEW c \in Calls,
             AcquireFails(c) \/ ReleaseFails(c) \/ Crash(c) \/ Disconnect(c)
      PROVE  UNCHANGED <<lease, outlived>> /\ working' \subseteq working
  BY <1>3 DEF AcquireFails, ReleaseFails, Crash, Disconnect, Drop, Return, history
<1>4. ASSUME NEW c \in Calls, Poll(c) \/ Reconnect(c)
      PROVE  UNCHANGED <<lease, outlived>> /\ working' \subseteq working
  BY <1>4 DEF Poll, Reconnect, Return, history
<1>5. ASSUME NEW c \in Calls,
             \/ CheckFresh(c) \/ ReadRefreshToken(c) \/ Mark(c) \/ Clean(c)
             \/ InsertConflict(c) \/ QueryFails(c)
      PROVE  UNCHANGED <<lease, outlived>> /\ working' \subseteq working
  BY <1>5, EndLeaves DEF CheckFresh, ReadRefreshToken, Mark, Clean, InsertConflict,
                         QueryFails, history
<1>6. ASSUME NEW c \in Calls, AttemptUnheard(c) \/ AttemptTransient(c)
      PROVE  UNCHANGED <<lease, outlived>> /\ working' \subseteq working
  BY <1>6, RetryLeaves DEF AttemptUnheard, AttemptTransient, history
<1>7. CASE Next
  BY <1>2, <1>3, <1>4, <1>5, <1>6, <1>7, Leaving, AcquireKeepsInv, ReleaseKeepsInv,
     ExpireKeepsInv DEF Next
<1> QED
  BY <1>1, <1>7

(* However many calls refresh one connection, whatever fails and however   *)
(* long a provider hangs, two of them work at once only if one of them     *)
(* outlived its lease.                                                     *)
THEOREM OneCallRefreshes == Spec => []OneRefreshAtATime
<1>1. Inv => OneRefreshAtATime
  BY DEF Inv, WorkersHold, OneRefreshAtATime
<1> QED
  BY InitInv, NextInv, <1>1, PTL DEF Spec

-----------------------------------------------------------------------------
(* Types.  A version number never exceeds the rows created, so the latest  *)
(* version is one of the rows.                                             *)

Pcs == {"new", "acquire", "wait", "check", "read", "attempt", "mark", "number",
        "insert", "activate", "clean", "release", "disconnect", "done"}

CallRecord == [pc : Pcs, since : Nat, polls : Nat, attempt : {1, 2},
               refresh : Nat, next : Nat, row : Nat]

Typed ==
  /\ call \in [Calls -> CallRecord]
  /\ rows \subseteq [id : Nat, no : Nat, refresh : Nat]
  /\ provider \in [live : SUBSET Nat, grants : Nat, rotates : BOOLEAN]
  /\ conn \in [active : Nat, status : {"active", "error", "disconnected"}]
  /\ created \in Nat
  /\ \A v \in rows : v.no <= created
  /\ \A c \in Calls : call[c].next <= created + 1

(* Some element of a set that has a bound is the greatest.                 *)
LEMMA Greatest ==
  ASSUME NEW S \in SUBSET Nat, S # {}, NEW N \in Nat, \A x \in S : x <= N
  PROVE  Max(S) \in S /\ \A x \in S : x <= Max(S)
<1> DEFINE T == {N - x : x \in S}
<1>1. T \in SUBSET Nat /\ T # {}
  <2>1. \A x \in S : N - x \in Nat
    OBVIOUS
  <2> QED
    BY <2>1
<1>2. PICK t \in T : \A u \in T : ~ (<<u, t>> \in OpToRel(<, Nat))
  BY <1>1, NatLessThanWellFounded, WFMin
<1>3. PICK x \in S : t = N - x
  OBVIOUS
<1>4. ASSUME NEW y \in S
      PROVE  x >= y
  <2>1. N - y \in T /\ ~ (N - y < N - x)
    BY <1>1, <1>2, <1>3 DEF OpToRel
  <2> QED
    BY <2>1
<1>5. \E m \in S : \A y \in S : m >= y
  BY <1>4
<1> QED
  BY <1>5 DEF Max

Highest(v) == \A u \in rows : u.no <= v.no

LEMMA LatestIsHighest ==
  ASSUME Typed, rows # {}
  PROVE  Latest \in rows /\ Highest(Latest) /\ LastNo = Latest.no
<1> DEFINE nos == {v.no : v \in rows}
<1>1. nos \in SUBSET Nat /\ nos # {} /\ \A x \in nos : x <= created
  BY DEF Typed
<1>2. Max(nos) \in nos /\ \A x \in nos : x <= Max(nos)
  BY <1>1, Greatest DEF Typed
<1>3. LastNo = Max(nos)
  BY DEF LastNo
<1>4. \E v \in rows : v.no = LastNo
  BY <1>2, <1>3
<1>5. Latest \in rows /\ Latest.no = LastNo
  BY <1>4 DEF Latest
<1> QED
  BY <1>2, <1>3, <1>5 DEF Highest

LEMMA LastNoTyped ==
  ASSUME Typed
  PROVE  LastNo \in Nat /\ LastNo <= created /\ \A v \in rows : v.no <= LastNo
<1>1. CASE rows = {}
  BY <1>1 DEF LastNo, Typed
<1>2. CASE rows # {}
  BY <1>2, LatestIsHighest DEF Typed, Highest
<1> QED
  BY <1>1, <1>2

LEMMA StoredIsARow ==
  ASSUME Typed, rows # {}
  PROVE  Stored \in rows /\ (Stored.id = conn.active \/ Highest(Stored))
  BY LatestIsHighest DEF Stored

-----------------------------------------------------------------------------
(* What the steps of a call do to the calls and to the workers.            *)

OnlyMoves(c) ==
  /\ call' \in [Calls -> CallRecord]
  /\ \A d \in Calls \ {c} : call'[d] = call[d]
  /\ working' \ {c} = working \ {c}

(* The call gives up or is done.                                           *)
Leaves(c) ==
  /\ OnlyMoves(c)
  /\ call'[c].pc \in {"release", "done"} /\ call'[c].next = 0

(* The call goes to pc, and keeps the rest.                                *)
GoesTo(c, pc) ==
  /\ OnlyMoves(c)
  /\ working' = working
  /\ call'[c].pc = pc
  /\ call'[c].refresh = call[c].refresh
  /\ call'[c].next = call[c].next
  /\ call'[c].row = call[c].row

LEMMA CallTyped ==
  ASSUME Typed, NEW c \in Calls
  PROVE  call[c] \in CallRecord
  BY DEF Typed

LEMMA ReturnLeaves ==
  ASSUME Typed, NEW c \in Calls, Return(c)
  PROVE  Leaves(c)
<1>1. [NoCall EXCEPT !.pc = "done"] \in CallRecord
  BY DEF NoCall, CallRecord, Pcs
<1> QED
  BY <1>1 DEF Typed, Return, Leaves, OnlyMoves, NoCall

LEMMA EndLeavesCall ==
  ASSUME Typed, NEW c \in Calls, End(c)
  PROVE  Leaves(c)
<1>1. CASE c \notin working
  BY <1>1, ReturnLeaves DEF End
<1>2. CASE c \in working
  <2>1. [NoCall EXCEPT !.pc = "release"] \in CallRecord
    BY DEF NoCall, CallRecord, Pcs
  <2> QED
    BY <1>2, <2>1 DEF Typed, End, Leaves, OnlyMoves, NoCall
<1> QED
  BY <1>1, <1>2

LEMMA GotoGoes ==
  ASSUME Typed, NEW c \in Calls, NEW pc \in Pcs, Goto(c, pc), working' = working
  PROVE  GoesTo(c, pc)
<1>1. [call[c] EXCEPT !.pc = pc] \in CallRecord
  BY CallTyped DEF CallRecord
<1>2. call' = [call EXCEPT ![c] = [call[c] EXCEPT !.pc = pc]]
  BY DEF Goto
<1> QED
  BY <1>1, <1>2 DEF Typed, GoesTo, OnlyMoves, CallRecord

(* A retry attempts again, with the same token.                            *)
LEMMA RetryMoves ==
  ASSUME Typed, NEW c \in Calls, call[c].pc = "attempt", Retry(c)
  PROVE  Leaves(c) \/ GoesTo(c, "attempt")
<1>1. CASE call[c].attempt # 1
  BY <1>1, EndLeavesCall DEF Retry
<1>2. CASE call[c].attempt = 1
  <2>1. call' = [call EXCEPT ![c] = [call[c] EXCEPT !.attempt = 2]] /\ UNCHANGED working
    BY <1>2 DEF Retry
  <2>2. [call[c] EXCEPT !.attempt = 2] \in CallRecord
    BY CallTyped DEF CallRecord
  <2> QED
    BY <2>1, <2>2 DEF Typed, GoesTo, OnlyMoves, CallRecord
<1> QED
  BY <1>1, <1>2

(* The steps before the token request, and a poll.                         *)
LEMMA BeginGoes ==
  ASSUME Typed, NEW c \in Calls, Begin(c)
  PROVE  GoesTo(c, "acquire")
<1>1. call' = [call EXCEPT ![c] = [call[c] EXCEPT !.pc = "acquire", !.since = created]]
      /\ UNCHANGED working
  BY DEF Begin
<1>2. [call[c] EXCEPT !.pc = "acquire", !.since = created] \in CallRecord
  <2>1. created \in Nat
    BY DEF Typed
  <2> QED
    BY <2>1, CallTyped DEF CallRecord, Pcs
<1> QED
  BY <1>1, <1>2 DEF Typed, GoesTo, OnlyMoves, CallRecord

LEMMA AcquireMoves ==
  ASSUME Typed, NEW c \in Calls, Acquire(c)
  PROVE  /\ OnlyMoves(c)
         /\ working' = working \cup {c}
         /\ call'[c].pc = "check" /\ call'[c].next = call[c].next
<1>1. call' = [call EXCEPT ![c] = [call[c] EXCEPT !.pc = "check"]]
      /\ working' = working \cup {c}
  BY DEF Acquire
<1>2. [call[c] EXCEPT !.pc = "check"] \in CallRecord
  BY CallTyped DEF CallRecord, Pcs
<1> QED
  BY <1>1, <1>2 DEF Typed, OnlyMoves, CallRecord

LEMMA PollMoves ==
  ASSUME Typed, NEW c \in Calls, Poll(c)
  PROVE  Leaves(c) \/ GoesTo(c, "wait")
<1>1. CASE Return(c)
  BY <1>1, ReturnLeaves
<1>2. CASE call' = [call EXCEPT ![c].polls = @ + 1] /\ UNCHANGED working
  <2>1. call' = [call EXCEPT ![c] = [call[c] EXCEPT !.polls = @ + 1]]
    BY <1>2
  <2>2. [call[c] EXCEPT !.polls = @ + 1] \in CallRecord
    BY CallTyped DEF CallRecord
  <2> QED
    BY <1>2, <2>1, <2>2 DEF Typed, GoesTo, OnlyMoves, CallRecord, Poll
<1> QED
  BY <1>1, <1>2 DEF Poll

LEMMA ReadMoves ==
  ASSUME Typed, NEW c \in Calls, ReadRefreshToken(c), rows # {}
  PROVE  /\ OnlyMoves(c) /\ working' = working
         /\ call'[c].pc = "attempt"
         /\ call'[c].refresh = Stored.refresh
         /\ call'[c].next = call[c].next
<1>1. call' = [call EXCEPT ![c] = [call[c] EXCEPT !.pc = "attempt", !.refresh = Stored.refresh]]
      /\ UNCHANGED working
  BY DEF ReadRefreshToken
<1>2. Stored.refresh \in Nat
  BY StoredIsARow DEF Typed
<1>3. [call[c] EXCEPT !.pc = "attempt", !.refresh = Stored.refresh] \in CallRecord
  BY <1>2, CallTyped DEF CallRecord, Pcs
<1> QED
  BY <1>1, <1>3 DEF Typed, OnlyMoves, CallRecord

LEMMA AcceptedMoves ==
  ASSUME Typed, NEW c \in Calls, AttemptAccepted(c)
  PROVE  /\ OnlyMoves(c) /\ working' = working
         /\ call'[c].pc = "number"
         /\ call'[c].refresh = IF provider.rotates THEN provider.grants + 1
                                                   ELSE call[c].refresh
         /\ call'[c].next = call[c].next
<1>1. call' = [call EXCEPT ![c] = Refreshed(c)] /\ UNCHANGED working
  BY DEF AttemptAccepted
<1>2. Refreshed(c) \in CallRecord
  <2> DEFINE token == IF provider.rotates THEN provider.grants + 1 ELSE call[c].refresh
  <2>1. call[c] \in CallRecord /\ provider.grants + 1 \in Nat
    BY DEF Typed
  <2>2. token \in Nat
    BY <2>1 DEF CallRecord
  <2>3. Refreshed(c) = [call[c] EXCEPT !.pc = "number", !.refresh = token]
    BY DEF Refreshed
  <2> HIDE DEF token
  <2> QED
    BY <2>1, <2>2, <2>3 DEF CallRecord, Pcs
<1> QED
  BY <1>1, <1>2 DEF Typed, OnlyMoves, CallRecord, Refreshed

(* The provider's part of a refresh.                                       *)
LEMMA RotatedTyped ==
  ASSUME Typed, NEW c \in Calls
  PROVE  /\ Rotated(c) \in [live : SUBSET Nat, grants : Nat, rotates : BOOLEAN]
         /\ Rotated(c).grants = provider.grants + 1
         /\ Rotated(c).rotates = provider.rotates
         /\ Rotated(c).live = IF provider.rotates
              THEN (provider.live \ {call[c].refresh}) \cup {provider.grants + 1}
              ELSE provider.live
<1> DEFINE live == IF provider.rotates
                   THEN (provider.live \ {call[c].refresh}) \cup {provider.grants + 1}
                   ELSE provider.live
<1>1. provider.grants + 1 \in Nat
  BY DEF Typed
<1>2. live \in SUBSET Nat
  BY <1>1 DEF Typed
<1>3. Rotated(c) = [provider EXCEPT !.grants = provider.grants + 1, !.live = live]
  BY DEF Rotated
<1>4. QED
  <2> HIDE DEF live
  <2>1. /\ Rotated(c) \in [live : SUBSET Nat, grants : Nat, rotates : BOOLEAN]
        /\ Rotated(c).grants = provider.grants + 1
        /\ Rotated(c).rotates = provider.rotates
        /\ Rotated(c).live = live
    BY <1>1, <1>2, <1>3 DEF Typed
  <2> QED
    BY <2>1 DEF live

(* A store's steps.                                                        *)
LEMMA NumberMoves ==
  ASSUME Typed, NEW c \in Calls, Number(c)
  PROVE  /\ OnlyMoves(c) /\ working' = working
         /\ call'[c].pc = "insert"
         /\ call'[c].refresh = call[c].refresh
         /\ call'[c].next = LastNo + 1
<1>1. call' = [call EXCEPT ![c] = [call[c] EXCEPT !.pc = "insert", !.next = LastNo + 1]]
      /\ UNCHANGED working
  BY DEF Number
<1>2. [call[c] EXCEPT !.pc = "insert", !.next = LastNo + 1] \in CallRecord
  <2>1. LastNo + 1 \in Nat
    BY LastNoTyped
  <2> QED
    BY <2>1, CallTyped DEF CallRecord, Pcs
<1> QED
  BY <1>1, <1>2 DEF Typed, OnlyMoves, CallRecord

LEMMA InsertMoves ==
  ASSUME Typed, NEW c \in Calls, Insert(c)
  PROVE  /\ OnlyMoves(c) /\ working' = working
         /\ call'[c].pc = "activate"
         /\ call'[c].refresh = call[c].refresh
         /\ call'[c].next = call[c].next
         /\ call'[c].row = created + 1
<1>1. call' = [call EXCEPT ![c] = [call[c] EXCEPT !.pc = "activate", !.row = created + 1]]
      /\ UNCHANGED working
  BY DEF Insert
<1>2. [call[c] EXCEPT !.pc = "activate", !.row = created + 1] \in CallRecord
  <2>1. created + 1 \in Nat
    BY DEF Typed
  <2> QED
    BY <2>1, CallTyped DEF CallRecord, Pcs
<1> QED
  BY <1>1, <1>2 DEF Typed, OnlyMoves, CallRecord

(* A reconnection stores the token of its grant, or the stored one.        *)
Granted(c) ==
  /\ OnlyMoves(c) /\ working' = working
  /\ call'[c].pc = "number" /\ call'[c].next = call[c].next
  /\ \/ /\ call'[c].refresh = provider.grants + 1
        /\ provider' = [provider EXCEPT !.grants = @ + 1,
                          !.live = @ \cup {provider.grants + 1}]
     \/ /\ ~provider.rotates /\ rows # {}
        /\ call'[c].refresh = Stored.refresh
        /\ provider' = [provider EXCEPT !.grants = @ + 1]

LEMMA ReconnectMoves ==
  ASSUME Typed, NEW c \in Calls, Reconnect(c)
  PROVE  \/ Granted(c)
         \/ /\ Leaves(c) /\ rows = {}
            /\ provider' = [provider EXCEPT !.grants = @ + 1]
<1>1. PICK omitted \in BOOLEAN :
       /\ omitted => ~provider.rotates
       /\ IF omitted /\ rows = {}
            THEN Return(c)
            ELSE /\ call' = [call EXCEPT ![c].pc = "number",
                      ![c].refresh = IF omitted THEN Stored.refresh
                                                ELSE provider.grants + 1]
                 /\ UNCHANGED working
       /\ provider' = [provider EXCEPT !.grants = @ + 1,
            !.live = IF omitted THEN @ ELSE @ \cup {provider.grants + 1}]
  BY DEF Reconnect
<1>2. CASE omitted /\ rows = {}
  <2>1. Leaves(c)
    BY <1>1, <1>2, ReturnLeaves
  <2>2. provider' = [provider EXCEPT !.grants = @ + 1]
    BY <1>1, <1>2 DEF Typed
  <2> QED
    BY <1>2, <2>1, <2>2
<1>3. CASE ~omitted
  <2>1. call' = [call EXCEPT ![c] = [call[c] EXCEPT !.pc = "number", !.refresh = provider.grants + 1]]
    BY <1>1, <1>3
  <2>2. [call[c] EXCEPT !.pc = "number", !.refresh = provider.grants + 1] \in CallRecord
    <3>1. provider.grants + 1 \in Nat /\ call[c] \in CallRecord
      BY DEF Typed
    <3> QED
      BY <3>1 DEF CallRecord, Pcs
  <2>3. /\ OnlyMoves(c) /\ working' = working
        /\ call'[c].pc = "number" /\ call'[c].next = call[c].next
        /\ call'[c].refresh = provider.grants + 1
    BY <1>1, <1>3, <2>1, <2>2 DEF Typed, OnlyMoves, CallRecord
  <2>4. provider' = [provider EXCEPT !.grants = @ + 1, !.live = @ \cup {provider.grants + 1}]
    BY <1>1, <1>3
  <2> QED
    BY <2>3, <2>4 DEF Granted
<1>4. CASE omitted /\ rows # {}
  <2>1. call' = [call EXCEPT ![c] = [call[c] EXCEPT !.pc = "number", !.refresh = Stored.refresh]]
    BY <1>1, <1>4
  <2>2. Stored.refresh \in Nat
    BY <1>4, StoredIsARow DEF Typed
  <2>3. [call[c] EXCEPT !.pc = "number", !.refresh = Stored.refresh] \in CallRecord
    BY <2>2, CallTyped DEF CallRecord, Pcs
  <2>4. /\ OnlyMoves(c) /\ working' = working
        /\ call'[c].pc = "number" /\ call'[c].next = call[c].next
        /\ call'[c].refresh = Stored.refresh
    BY <1>1, <1>4, <2>1, <2>3 DEF Typed, OnlyMoves, CallRecord
  <2>5. provider' = [provider EXCEPT !.grants = @ + 1]
    BY <1>1, <1>4 DEF Typed
  <2> QED
    BY <1>1, <1>4, <2>4, <2>5 DEF Granted
<1> QED
  BY <1>2, <1>3, <1>4

-----------------------------------------------------------------------------
(* Quiet steps: a call moves without a token, or gives its token up, and   *)
(* the versions, the active one and the tokens the provider accepts stay.  *)

Holding == {"number", "insert", "activate"}   \* a grant that is not stored yet
Tokened == {"attempt"} \cup Holding

Conns == [active : Nat, status : {"active", "error", "disconnected"}]
Providers == [live : SUBSET Nat, grants : Nat, rotates : BOOLEAN]

Quiet(c) ==
  /\ OnlyMoves(c)
  /\ call'[c].pc \notin {"mark", "disconnect"}
  /\ \/ Leaves(c)
     \/ /\ call[c].pc \notin Holding /\ call'[c].pc \notin Tokened
        /\ call'[c].next = call[c].next
     \/ GoesTo(c, "attempt") /\ call[c].pc = "attempt"
  /\ call[c].pc \in Holding /\ provider.rotates /\ c \in working => lost'
  /\ UNCHANGED <<rows, created>>
  /\ conn' \in Conns /\ conn'.active = conn.active
  /\ provider' \in Providers /\ provider'.live = provider.live
  /\ provider'.rotates = provider.rotates /\ provider'.grants >= provider.grants

LEMMA GrantUnused ==
  ASSUME Typed, provider' = [provider EXCEPT !.grants = @ + 1]
  PROVE  /\ provider' \in Providers /\ provider'.live = provider.live
         /\ provider'.rotates = provider.rotates /\ provider'.grants = provider.grants + 1
<1>1. provider.grants + 1 \in Nat
  BY DEF Typed
<1> QED
  BY <1>1 DEF Typed, Providers

LEMMA StatusOnly ==
  ASSUME Typed, conn' = [conn EXCEPT !.status = "error"]
  PROVE  conn' \in Conns /\ conn'.active = conn.active
  BY DEF Typed, Conns

LEMMA QuietFrame ==
  ASSUME Typed, UNCHANGED provider
  PROVE  /\ provider' \in Providers /\ provider'.live = provider.live
         /\ provider'.rotates = provider.rotates /\ provider'.grants >= provider.grants
<1>1. provider \in Providers /\ provider.grants \in Nat
  BY DEF Typed, Providers
<1>2. provider.grants >= provider.grants
  BY <1>1
<1> QED
  BY <1>1, <1>2

LEMMA ConnFrame ==
  ASSUME Typed, UNCHANGED conn
  PROVE  conn' \in Conns /\ conn'.active = conn.active
  BY DEF Typed, Conns

LEMMA LeftQuietly ==
  ASSUME Typed, NEW c \in Calls, Leaves(c), UNCHANGED <<rows, provider, created>>,
         conn' \in Conns, conn'.active = conn.active,
         call[c].pc \in Holding /\ provider.rotates /\ c \in working => lost'
  PROVE  Quiet(c)
  BY QuietFrame DEF Quiet, Leaves

LEMMA WentQuietly ==
  ASSUME Typed, NEW c \in Calls, NEW pc \in Pcs \ ({"mark", "disconnect"} \cup Tokened),
         GoesTo(c, pc), call[c].pc \notin Holding,
         UNCHANGED <<rows, provider, created, conn>>
  PROVE  Quiet(c)
  BY QuietFrame, ConnFrame DEF Quiet, GoesTo

LEMMA BeginIsQuiet ==
  ASSUME Typed, NEW c \in Calls, Begin(c)
  PROVE  Quiet(c)
  BY BeginGoes, WentQuietly DEF Begin, Holding, Tokened, Pcs

LEMMA AcquireIsQuiet ==
  ASSUME Typed, NEW c \in Calls, Acquire(c)
  PROVE  Quiet(c)
<1>1. OnlyMoves(c) /\ call'[c].pc = "check" /\ call'[c].next = call[c].next
  BY AcquireMoves
<1>2. call[c].pc = "acquire" /\ UNCHANGED <<rows, provider, created, conn>>
  BY DEF Acquire
<1> QED
  BY <1>1, <1>2, QuietFrame, ConnFrame DEF Quiet, Holding, Tokened

LEMMA AcquireBusyIsQuiet ==
  ASSUME Typed, NEW c \in Calls, AcquireBusy(c)
  PROVE  Quiet(c)
<1>1. GoesTo(c, "wait")
  BY GotoGoes DEF AcquireBusy, Pcs
<1> QED
  BY <1>1, WentQuietly DEF AcquireBusy, Holding, Tokened, Pcs

LEMMA PollIsQuiet ==
  ASSUME Typed, NEW c \in Calls, Poll(c)
  PROVE  Quiet(c)
<1>1. call[c].pc = "wait" /\ UNCHANGED <<rows, provider, created, conn>>
  BY DEF Poll
<1> QED
  BY <1>1, PollMoves, ConnFrame, LeftQuietly, WentQuietly DEF Holding, Tokened, Pcs

LEMMA CheckFreshIsQuiet ==
  ASSUME Typed, NEW c \in Calls, CheckFresh(c)
  PROVE  Quiet(c)
<1>1. call[c].pc = "check" /\ UNCHANGED <<rows, provider, created, conn>>
  BY DEF CheckFresh
<1>2. CASE End(c)
  BY <1>1, <1>2, EndLeavesCall, ConnFrame, LeftQuietly DEF Holding
<1>3. CASE Goto(c, "read") /\ UNCHANGED working
  <2>1. GoesTo(c, "read")
    BY <1>3, GotoGoes DEF Pcs
  <2> QED
    BY <1>1, <2>1, WentQuietly DEF Holding, Tokened, Pcs
<1> QED
  BY <1>2, <1>3 DEF CheckFresh

LEMMA TransientIsQuiet ==
  ASSUME Typed, NEW c \in Calls, AttemptTransient(c)
  PROVE  Quiet(c)
<1>1. call[c].pc = "attempt" /\ UNCHANGED <<rows, provider, created, conn>>
  BY DEF AttemptTransient
<1>2. Leaves(c) \/ GoesTo(c, "attempt")
  BY <1>1, RetryMoves DEF AttemptTransient
<1>3. CASE GoesTo(c, "attempt")
  BY <1>1, <1>3, QuietFrame, ConnFrame DEF Quiet, GoesTo, Holding
<1> QED
  BY <1>1, <1>2, <1>3, ConnFrame, LeftQuietly DEF Holding

(* A provider that does not rotate accepts what it accepted before.        *)
LEMMA UnheardIsQuiet ==
  ASSUME Typed, NEW c \in Calls, AttemptUnheard(c), ~provider.rotates
  PROVE  Quiet(c)
<1>1. call[c].pc = "attempt" /\ UNCHANGED <<rows, created, conn>> /\ provider' = Rotated(c)
  BY DEF AttemptUnheard
<1>2. Leaves(c) \/ GoesTo(c, "attempt")
  BY <1>1, RetryMoves DEF AttemptUnheard
<1>3. /\ provider' \in Providers /\ provider'.live = provider.live
      /\ provider'.rotates = provider.rotates /\ provider'.grants = provider.grants + 1
  BY <1>1, RotatedTyped DEF Providers
<1>4. provider'.grants >= provider.grants
  BY <1>3 DEF Typed
<1>5. call'[c].pc \notin {"mark", "disconnect"} /\ OnlyMoves(c)
  BY <1>2 DEF Leaves, GoesTo
<1> QED
  BY <1>1, <1>2, <1>3, <1>4, <1>5, ConnFrame DEF Quiet, Holding

(* The steps that only end a call.                                         *)
LEMMA EndingIsQuiet ==
  ASSUME Typed, NEW c \in Calls,
         \/ AcquireFails(c) \/ Mark(c) \/ InsertConflict(c) \/ QueryFails(c)
         \/ Release(c) \/ ReleaseFails(c) \/ Crash(c)
  PROVE  Quiet(c)
<1>1. Leaves(c)
  BY ReturnLeaves, EndLeavesCall DEF AcquireFails, Mark, InsertConflict, QueryFails,
     Release, ReleaseFails, Crash
<1>2. UNCHANGED <<rows, provider, created>>
  BY DEF AcquireFails, Mark, InsertConflict, QueryFails, Release, ReleaseFails, Crash
<1>3. conn' \in Conns /\ conn'.active = conn.active
  BY ConnFrame, StatusOnly DEF AcquireFails, Mark, InsertConflict, QueryFails,
     Release, ReleaseFails, Crash
<1>4. call[c].pc \in Holding /\ provider.rotates /\ c \in working => lost'
  BY DEF AcquireFails, Mark, InsertConflict, QueryFails, Release, ReleaseFails, Crash,
         Holding, Drop
<1> QED
  BY <1>1, <1>2, <1>3, <1>4, LeftQuietly

(* Nothing is stored: the refresh ends, and so does a reconnection that    *)
(* was to keep the stored token.                                           *)
LEMMA NothingStoredIsQuiet ==
  ASSUME Typed, NEW c \in Calls, rows = {},
         \/ ReadRefreshToken(c)
         \/ Reconnect(c) /\ Leaves(c) /\ provider' = [provider EXCEPT !.grants = @ + 1]
  PROVE  Quiet(c)
<1>1. CASE ReadRefreshToken(c)
  BY <1>1, EndLeavesCall, StatusOnly, LeftQuietly DEF ReadRefreshToken, Holding
<1>2. CASE Reconnect(c) /\ Leaves(c) /\ provider' = [provider EXCEPT !.grants = @ + 1]
  <2>1. call[c].pc = "new" /\ UNCHANGED <<rows, created, conn>>
    BY <1>2 DEF Reconnect
  <2>2. provider'.grants >= provider.grants
    BY <1>2, GrantUnused DEF Typed
  <2> QED
    BY <1>2, <2>1, <2>2, GrantUnused, ConnFrame DEF Quiet, Leaves, Holding
<1> QED
  BY <1>1, <1>2

-----------------------------------------------------------------------------
(* The types are kept.                                                     *)

LEMMA TypedStep ==
  ASSUME Typed, NEW c \in Calls, OnlyMoves(c),
         created' \in Nat, created <= created', call'[c].next <= created' + 1,
         rows' \subseteq [id : Nat, no : Nat, refresh : Nat],
         \A v \in rows' : v.no <= created',
         conn' \in Conns, provider' \in Providers
  PROVE  Typed'
<1>1. ASSUME NEW d \in Calls
      PROVE  call'[d].next <= created' + 1
  <2>1. CASE d = c
    BY <2>1
  <2>2. CASE d # c
    <3>1. call[d].next <= created + 1 /\ call[d].next \in Nat /\ call'[d] = call[d]
      BY <2>2 DEF Typed, OnlyMoves, CallRecord
    <3>2. created \in Nat
      BY DEF Typed
    <3> QED
      BY <3>1, <3>2
  <2> QED
    BY <2>1, <2>2
<1> QED
  BY <1>1 DEF Typed, OnlyMoves, Conns, Providers

(* Most steps leave the rows alone.                                        *)
LEMMA TypedFrame ==
  ASSUME Typed, NEW c \in Calls, OnlyMoves(c), UNCHANGED <<rows, created>>,
         call'[c].next \in {0, call[c].next},
         conn' \in Conns, provider' \in Providers
  PROVE  Typed'
<1>1. created \in Nat /\ created' = created /\ call[c].next <= created + 1
  BY DEF Typed
<1>2. created <= created' /\ call'[c].next <= created' + 1
  BY <1>1
<1> QED
  BY <1>1, <1>2, TypedStep DEF Typed

LEMMA QuietTyped ==
  ASSUME Typed, NEW c \in Calls, Quiet(c)
  PROVE  Typed'
<1>1. call'[c].next \in {0, call[c].next}
  BY DEF Quiet, Leaves, GoesTo
<1> QED
  BY <1>1, TypedFrame DEF Quiet

LEMMA InitTyped == Init => Typed
<1> SUFFICES ASSUME Init
             PROVE  Typed
  OBVIOUS
<1>1. call = [c \in Calls |-> NoCall] /\ NoCall \in CallRecord /\ NoCall.next = 0
  BY DEF Init, NoCall, CallRecord, Pcs
<1>2. rows = {[id |-> 1, no |-> 1, refresh |-> 1]} /\ created = 1
      /\ conn = [active |-> 1, status |-> "active"]
  BY DEF Init
<1>3. provider \in Providers
  BY DEF Init, Providers
<1> QED
  BY <1>1, <1>2, <1>3 DEF Typed, Providers

LEMMA ReadTyped ==
  ASSUME Typed, NEW c \in Calls, ReadRefreshToken(c)
  PROVE  Typed'
<1>1. CASE rows = {}
  BY <1>1, NothingStoredIsQuiet, QuietTyped
<1>2. CASE rows # {}
  BY <1>2, ReadMoves, TypedFrame, QuietFrame, ConnFrame DEF ReadRefreshToken
<1> QED
  BY <1>1, <1>2

LEMMA AttemptTyped ==
  ASSUME Typed, NEW c \in Calls, AttemptAccepted(c) \/ AttemptUnheard(c)
  PROVE  Typed'
<1>1. provider' = Rotated(c) /\ UNCHANGED <<rows, created, conn>> /\ call[c].pc = "attempt"
  BY DEF AttemptAccepted, AttemptUnheard
<1>2. provider' \in Providers
  BY <1>1, RotatedTyped DEF Providers
<1>3. OnlyMoves(c) /\ call'[c].next \in {0, call[c].next}
  BY <1>1, AcceptedMoves, RetryMoves DEF AttemptUnheard, Leaves, GoesTo
<1> QED
  BY <1>1, <1>2, <1>3, ConnFrame, TypedFrame

LEMMA MovedTyped ==
  ASSUME Typed, NEW c \in Calls, NEW pc \in Pcs, Goto(c, pc), UNCHANGED <<working, rows, created>>,
         conn' \in Conns, provider' \in Providers
  PROVE  Typed'
  BY GotoGoes, TypedFrame DEF GoesTo

LEMMA NumberTyped ==
  ASSUME Typed, NEW c \in Calls, Number(c)
  PROVE  Typed'
<1>1. OnlyMoves(c) /\ call'[c].next = LastNo + 1 /\ UNCHANGED <<rows, created, conn, provider>>
  BY NumberMoves DEF Number
<1>2. LastNo \in Nat /\ LastNo <= created /\ created \in Nat
  BY LastNoTyped DEF Typed
<1>3. created <= created' /\ call'[c].next <= created' + 1
  BY <1>1, <1>2
<1> QED
  BY <1>1, <1>2, <1>3, QuietFrame, ConnFrame, TypedStep DEF Typed

LEMMA InsertTyped ==
  ASSUME Typed, NEW c \in Calls, Insert(c)
  PROVE  Typed'
<1>1. /\ OnlyMoves(c) /\ call'[c].next = call[c].next
      /\ created' = created + 1 /\ UNCHANGED <<conn, provider>>
      /\ rows' = rows \cup {[id |-> created + 1, no |-> call[c].next, refresh |-> call[c].refresh]}
  BY InsertMoves DEF Insert
<1>2. created \in Nat /\ created + 1 \in Nat /\ call[c].next \in Nat /\ call[c].refresh \in Nat
      /\ call[c].next <= created + 1
  BY DEF Typed, CallRecord
<1>3. created <= created' /\ call'[c].next <= created' + 1
  BY <1>1, <1>2
<1>4. rows' \subseteq [id : Nat, no : Nat, refresh : Nat]
  BY <1>1, <1>2 DEF Typed
<1>5. ASSUME NEW v \in rows'
      PROVE  v.no <= created'
  <2>1. CASE v \in rows
    <3>1. v.no <= created /\ v.no \in Nat
      BY <2>1 DEF Typed
    <3> QED
      BY <1>1, <1>2, <3>1
  <2>2. CASE v \notin rows
    <3>1. v.no = call[c].next
      BY <1>1, <2>2
    <3> QED
      BY <1>1, <1>2, <3>1
  <2> QED
    BY <2>1, <2>2
<1> QED
  BY <1>1, <1>2, <1>3, <1>4, <1>5, QuietFrame, ConnFrame, TypedStep

LEMMA ActivateTyped ==
  ASSUME Typed, NEW c \in Calls, Activate(c)
  PROVE  Typed'
<1>1. conn' = [active |-> call[c].row, status |-> "active"] /\ call[c].row \in Nat
  BY DEF Activate, Typed, CallRecord
<1>2. conn' \in Conns
  BY <1>1 DEF Conns
<1> QED
  BY <1>2, MovedTyped, QuietFrame DEF Activate, Pcs

(* Rows are only deleted.                                                  *)
LEMMA DeletedTyped ==
  ASSUME Typed, NEW c \in Calls, OnlyMoves(c), call'[c].next \in {0, call[c].next},
         rows' \subseteq rows, UNCHANGED <<created, conn>>, provider' \in Providers
  PROVE  Typed'
<1>1. created \in Nat /\ created' = created /\ call[c].next <= created + 1
  BY DEF Typed
<1>2. created <= created' /\ call'[c].next <= created' + 1
  BY <1>1
<1> QED
  BY <1>1, <1>2, ConnFrame, TypedStep DEF Typed

LEMMA CleanTyped ==
  ASSUME Typed, NEW c \in Calls, Clean(c)
  PROVE  Typed'
<1>1. Leaves(c) /\ rows' \subseteq rows /\ UNCHANGED <<created, conn, provider>>
  BY EndLeavesCall DEF Clean
<1> QED
  BY <1>1, DeletedTyped, QuietFrame DEF Leaves

LEMMA ReconnectTyped ==
  ASSUME Typed, NEW c \in Calls, Reconnect(c)
  PROVE  Typed'
<1>1. CASE Granted(c)
  <2>1. provider.grants + 1 \in Nat /\ provider \in Providers
    BY DEF Typed, Providers
  <2>2. provider' \in Providers
    <3>1. provider.live \cup {provider.grants + 1} \in SUBSET Nat
      BY <2>1 DEF Providers
    <3>2. [provider EXCEPT !.grants = @ + 1, !.live = @ \cup {provider.grants + 1}] \in Providers
      BY <2>1, <3>1 DEF Providers
    <3> QED
      BY <1>1, <3>2, GrantUnused DEF Granted
  <2> QED
    BY <1>1, <2>2, TypedFrame, ConnFrame DEF Granted, Reconnect
<1>2. CASE ~Granted(c)
  BY <1>2, ReconnectMoves, NothingStoredIsQuiet, QuietTyped
<1> QED
  BY <1>1, <1>2

LEMMA TeardownTyped ==
  ASSUME Typed, NEW c \in Calls, Teardown(c)
  PROVE  Typed'
<1>1. GoesTo(c, "disconnect") /\ UNCHANGED <<created, conn>> /\ rows' \subseteq rows
  BY GotoGoes DEF Teardown, Pcs
<1>2. PICK live \in {provider.live, {}} : provider' = [provider EXCEPT !.live = live]
  BY DEF Teardown
<1>3. provider' \in Providers
  BY <1>2 DEF Typed, Providers
<1> QED
  BY <1>1, <1>3, DeletedTyped DEF GoesTo

LEMMA DisconnectTyped ==
  ASSUME Typed, NEW c \in Calls, Disconnect(c)
  PROVE  Typed'
<1>1. Leaves(c) /\ UNCHANGED <<rows, created, provider>>
  BY ReturnLeaves DEF Disconnect
<1>2. conn' \in Conns
  BY DEF Disconnect, Conns
<1> QED
  BY <1>1, <1>2, QuietFrame, TypedFrame DEF Leaves

-----------------------------------------------------------------------------
(* Until a rejection has a cause, every token a call holds is one the      *)
(* provider accepts, and nobody else's; so is the token of the version the *)
(* next refresh will read, unless a refresh holds a grant it has yet to    *)
(* activate.                                                               *)

Caused == lost \/ early \/ outlived # {}

AtWork == {"check", "read", "attempt", "mark"}
WorkersWork == \A c \in Calls : call[c].pc \in AtWork => c \in working

Dead(v) == v.refresh \notin provider.live
Storing == \E c \in working : call[c].pc \in Holding

Calm == \A c \in Calls : call[c].pc \notin {"mark", "disconnect"}

Issued ==
  /\ rows # {}
  /\ \A t \in provider.live : t <= provider.grants
  /\ \A v \in rows : v.refresh <= provider.grants /\ v.id <= created

TokensLive ==
  \A c \in Calls : call[c].pc \in Tokened => call[c].refresh \in provider.live

(* An inserted row waits for its activation, if it is not deleted; and no  *)
(* deletion undoes the numbering.                                          *)
InsertedRows ==
  \A c \in Calls : call[c].pc = "activate" =>
    /\ call[c].row <= created
    /\ \A v \in rows : v.id = call[c].row => v.refresh = call[c].refresh
    /\ \E v \in rows : v.no >= call[c].next

(* Without rotation no stored token is ever retired.                       *)
AllLive == ~provider.rotates => \A v \in rows : ~Dead(v)

(* With it, no two calls hold one token, ...                               *)
OwnTokens ==
  provider.rotates =>
    \A c, d \in Calls : /\ call[c].pc \in Tokened /\ call[d].pc \in Tokened
                        /\ call[c].refresh = call[d].refresh
                        => c = d

(* ... and a grant being stored is in no row but the one it was stored in. *)
OwnRows ==
  provider.rotates =>
    \A c \in Calls, v \in rows :
      call[c].pc \in Holding /\ v.refresh = call[c].refresh
        => call[c].pc = "activate" /\ v.id = call[c].row

(* What the next refresh reads: the active version or the latest.          *)
StoredLive ==
  ~Storing => \A v \in rows : v.id = conn.active \/ Highest(v) => ~Dead(v)

(* A refresh numbers its version after those whose token it has retired.   *)
NumberedAfter ==
  \A c \in working : call[c].pc \in {"insert", "activate"} =>
    \A v \in rows : Dead(v) => v.no < call[c].next

Sound ==
  /\ Calm /\ Issued /\ TokensLive /\ InsertedRows /\ AllLive
  /\ OwnTokens /\ OwnRows /\ StoredLive /\ NumberedAfter

TokenInv == ~Caused => Sound

-----------------------------------------------------------------------------

LEMMA Alone ==
  ASSUME Inv, ~Caused, NEW c \in working, NEW d \in working
  PROVE  c = d
  BY DEF Inv, WorkersHold, Caused

LEMMA InitSound == Init => Sound
<1> SUFFICES ASSUME Init
             PROVE  Sound
  OBVIOUS
<1>1. \A c \in Calls : call[c].pc = "new"
  BY DEF Init, NoCall
<1>2. /\ rows = {[id |-> 1, no |-> 1, refresh |-> 1]} /\ created = 1 /\ working = {}
      /\ provider.live = {1} /\ provider.grants = 1
  BY DEF Init
<1>3. Calm /\ TokensLive /\ InsertedRows /\ OwnTokens /\ OwnRows
  BY <1>1 DEF Calm, TokensLive, InsertedRows, OwnTokens, OwnRows, Tokened, Holding
<1>4. Issued /\ AllLive /\ StoredLive /\ NumberedAfter
  BY <1>2 DEF Issued, AllLive, StoredLive, NumberedAfter, Dead
<1> QED
  BY <1>3, <1>4 DEF Sound

(* A quiet step gives nobody a token, and takes one only from a call that  *)
(* has no right to a rotated one.                                          *)
LEMMA QuietSound ==
  ASSUME Typed, Inv, Sound, NEW c \in Calls, Quiet(c), ~lost'
  PROVE  Sound'
<1>1. /\ UNCHANGED <<rows, created>> /\ conn'.active = conn.active
      /\ provider'.live = provider.live /\ provider'.rotates = provider.rotates
      /\ provider.grants \in Nat /\ provider'.grants \in Nat
      /\ provider'.grants >= provider.grants /\ provider.live \subseteq Nat
  BY DEF Quiet, Typed, Providers
<1>2. ASSUME NEW d \in Calls, call'[d].pc \in Tokened
      PROVE  /\ call'[d].pc = call[d].pc /\ call'[d].refresh = call[d].refresh
             /\ call'[d].next = call[d].next /\ call'[d].row = call[d].row
  BY <1>2 DEF Quiet, OnlyMoves, Leaves, GoesTo, Tokened, Holding
<1>3. ASSUME NEW d \in Calls, call'[d].pc \in Holding
      PROVE  d # c /\ (d \in working' <=> d \in working)
  BY <1>3 DEF Quiet, OnlyMoves, Leaves, GoesTo, Tokened, Holding
<1>4. \A v : Dead(v)' <=> Dead(v)
  BY <1>1 DEF Dead
<1>5. Calm'
  BY DEF Sound, Calm, Quiet, OnlyMoves
<1>6. Issued'
  <2>1. \A t \in provider.live : t <= provider'.grants
    BY <1>1 DEF Sound, Issued
  <2>2. \A v \in rows : v.refresh \in Nat
    BY DEF Typed
  <2>3. \A v \in rows : v.refresh <= provider'.grants
    BY <1>1, <2>2 DEF Sound, Issued
  <2> QED
    BY <1>1, <2>1, <2>3 DEF Sound, Issued
<1>7. TokensLive' /\ InsertedRows'
  BY <1>1, <1>2 DEF Sound, TokensLive, InsertedRows, Tokened, Holding
<1>8. AllLive' /\ OwnTokens' /\ OwnRows'
  BY <1>1, <1>2, <1>4 DEF Sound, AllLive, OwnTokens, OwnRows, Tokened
<1>9. StoredLive'
  <2>1. CASE ~provider.rotates
    BY <1>1, <1>4, <2>1 DEF Sound, AllLive, StoredLive
  <2>2. CASE provider.rotates
    <3>1. ASSUME Storing
          PROVE  Storing'
      <4>1. PICK d \in working : call[d].pc \in Holding
        BY <3>1 DEF Storing
      <4>2. d \in Calls
        BY DEF Inv, WorkersAreCalls
      <4>3. d # c
        BY <2>2, <4>1 DEF Quiet
      <4>4. d \in working' /\ call'[d].pc \in Holding
        BY <4>1, <4>2, <4>3 DEF Quiet, OnlyMoves
      <4> QED
        BY <4>4 DEF Storing
    <3> QED
      BY <1>1, <1>4, <3>1 DEF Sound, StoredLive, Highest
  <2> QED
    BY <2>1, <2>2
<1>10. \A d \in working' : d \in Calls
  BY DEF Quiet, OnlyMoves, Inv, WorkersAreCalls
<1>11. NumberedAfter'
  BY <1>1, <1>2, <1>3, <1>4, <1>10 DEF Sound, NumberedAfter, Tokened, Holding
<1> QED
  BY <1>5, <1>6, <1>7, <1>8, <1>9, <1>11 DEF Sound

(* A refresh reads a live token, as no other worker holds a grant; and     *)
(* nobody's, as no store has yet to activate that version.                 *)
LEMMA ReadSound ==
  ASSUME Typed, Inv, WorkersWork, Sound, ~Caused, ~early',
         NEW c \in Calls, ReadRefreshToken(c)
  PROVE  Sound'
<1>1. rows # {} /\ Stored \in rows /\ (Stored.id = conn.active \/ Highest(Stored))
  BY StoredIsARow DEF Sound, Issued
<1>2. /\ call[c].pc = "read" /\ ~StoredEarly
      /\ UNCHANGED <<rows, provider, created, conn>>
  BY <1>1 DEF ReadRefreshToken
<1>3. /\ OnlyMoves(c) /\ working' = working
      /\ call'[c].pc = "attempt" /\ call'[c].refresh = Stored.refresh
  BY <1>1, ReadMoves
<1>4. c \in working /\ \A d \in working : d = c
  BY <1>2, Alone DEF WorkersWork, AtWork
<1>5. \A d \in Calls \ {c} : call'[d] = call[d]
  BY <1>3 DEF OnlyMoves
<1>6. ~Storing
  BY <1>2, <1>4 DEF Storing, Holding
<1>7. Stored.refresh \in provider.live
  BY <1>1, <1>6 DEF Sound, StoredLive, Dead
<1>8. Calm' /\ Issued' /\ TokensLive' /\ InsertedRows' /\ AllLive'
  BY <1>2, <1>3, <1>5, <1>7
     DEF Sound, Calm, Issued, TokensLive, InsertedRows, AllLive, Dead
<1>9. ASSUME provider.rotates, NEW d \in Calls \ {c}, call[d].pc \in Tokened
      PROVE  call[d].refresh # Stored.refresh
  <2>1. CASE call[d].pc = "attempt"
    BY <1>4, <2>1 DEF WorkersWork, AtWork
  <2>2. CASE call[d].pc \in Holding
    BY <1>1, <1>2, <1>9, <2>2 DEF Sound, OwnRows, StoredEarly
  <2> QED
    BY <1>9, <2>1, <2>2 DEF Tokened
<1>10. OwnTokens'
  BY <1>2, <1>3, <1>5, <1>9 DEF Sound, OwnTokens
<1>11. OwnRows' /\ StoredLive' /\ NumberedAfter'
  BY <1>2, <1>3, <1>4, <1>5, <1>6
     DEF Sound, OwnRows, StoredLive, NumberedAfter, Highest, Dead, Holding
<1> QED
  BY <1>8, <1>10, <1>11 DEF Sound

(* The provider retires the refresher's token, which no other call holds,  *)
(* and the refresher stores a new one.                                     *)
LEMMA AcceptedSound ==
  ASSUME Typed, Inv, WorkersWork, Sound, ~Caused, NEW c \in Calls, AttemptAccepted(c)
  PROVE  Sound'
<1> DEFINE g == provider.grants + 1
<1>1. /\ call[c].pc = "attempt" /\ call[c].refresh \in provider.live
      /\ UNCHANGED <<rows, created, conn>> /\ provider' = Rotated(c)
  BY DEF AttemptAccepted
<1>2. /\ OnlyMoves(c) /\ working' = working /\ call'[c].pc = "number"
      /\ call'[c].refresh = IF provider.rotates THEN g ELSE call[c].refresh
  BY AcceptedMoves
<1>3. /\ provider'.grants = g /\ provider'.rotates = provider.rotates
      /\ provider'.live = IF provider.rotates
           THEN (provider.live \ {call[c].refresh}) \cup {g} ELSE provider.live
  BY <1>1, RotatedTyped
<1>4. c \in working /\ \A d \in working : d = c
  BY <1>1, Alone DEF WorkersWork, AtWork
<1>5. \A d \in Calls \ {c} : call'[d] = call[d]
  BY <1>2 DEF OnlyMoves
<1>6. provider.grants \in Nat /\ provider.live \subseteq Nat /\ \A v \in rows : v.refresh \in Nat
  BY DEF Typed
<1>7. /\ \A t \in provider.live : t <= g /\ t # g
      /\ \A v \in rows : v.refresh <= g /\ v.refresh # g
  BY <1>6 DEF Sound, Issued
<1>8. g <= g
  BY <1>6
<1> HIDE DEF g
<1>9. Calm'
  BY <1>2, <1>5 DEF Sound, Calm
<1>10. Issued'
  BY <1>1, <1>3, <1>7, <1>8 DEF Sound, Issued
<1>11. ASSUME provider.rotates, NEW d \in Calls \ {c}, call[d].pc \in Tokened
       PROVE  call[d].refresh # call[c].refresh /\ call[d].refresh # g
  BY <1>1, <1>7, <1>11 DEF Sound, OwnTokens, TokensLive, Tokened
<1>12. TokensLive'
  BY <1>1, <1>2, <1>3, <1>5, <1>11 DEF Sound, TokensLive
<1>13. InsertedRows'
  BY <1>1, <1>2, <1>5 DEF Sound, InsertedRows
<1>14. AllLive' /\ OwnTokens'
  BY <1>1, <1>2, <1>3, <1>5, <1>11 DEF Sound, AllLive, OwnTokens, Dead
<1>15. OwnRows'
  BY <1>1, <1>2, <1>3, <1>5, <1>7 DEF Sound, OwnRows, Holding
<1>16. StoredLive'
  BY <1>2, <1>4 DEF StoredLive, Storing, Holding
<1>17. NumberedAfter'
  BY <1>2, <1>4 DEF NumberedAfter
<1> QED
  BY <1>9, <1>10, <1>12, <1>13, <1>14, <1>15, <1>16, <1>17 DEF Sound

LEMMA NumberSound ==
  ASSUME Typed, Inv, Sound, NEW c \in Calls, Number(c)
  PROVE  Sound'
<1>1. call[c].pc = "number" /\ UNCHANGED <<rows, provider, created, conn>>
  BY DEF Number
<1>2. /\ OnlyMoves(c) /\ working' = working /\ call'[c].pc = "insert"
      /\ call'[c].refresh = call[c].refresh /\ call'[c].next = LastNo + 1
  BY NumberMoves
<1>3. \A d \in Calls \ {c} : call'[d] = call[d]
  BY <1>2 DEF OnlyMoves
<1>4. \A v \in rows : v.no < LastNo + 1
  <2>1. \A v \in rows : v.no \in Nat /\ v.no <= LastNo
    BY LastNoTyped DEF Typed
  <2> QED
    BY <2>1, LastNoTyped
<1>5. Calm' /\ Issued' /\ TokensLive' /\ InsertedRows' /\ AllLive' /\ OwnTokens' /\ OwnRows'
  BY <1>1, <1>2, <1>3 DEF Sound, Calm, Issued, TokensLive, InsertedRows, AllLive,
     OwnTokens, OwnRows, Dead, Tokened, Holding
<1>6. StoredLive'
  <2>1. Storing => Storing'
    BY <1>2, <1>3 DEF Storing, Holding, Inv, WorkersAreCalls
  <2> QED
    BY <1>1, <2>1 DEF Sound, StoredLive, Highest, Dead
<1>7. NumberedAfter'
  BY <1>1, <1>2, <1>3, <1>4 DEF Sound, NumberedAfter, Dead, Inv, WorkersAreCalls
<1> QED
  BY <1>5, <1>6, <1>7 DEF Sound

(* The new version holds a live token that was in no row.                  *)
LEMMA InsertSound ==
  ASSUME Typed, Inv, Sound, NEW c \in Calls, Insert(c)
  PROVE  Sound'
<1> DEFINE new == [id |-> created + 1, no |-> call[c].next, refresh |-> call[c].refresh]
<1>1. /\ call[c].pc = "insert" /\ UNCHANGED <<provider, conn>>
      /\ created' = created + 1 /\ rows' = rows \cup {new}
  BY DEF Insert
<1>2. /\ OnlyMoves(c) /\ working' = working /\ call'[c].pc = "activate"
      /\ call'[c].refresh = call[c].refresh /\ call'[c].next = call[c].next
      /\ call'[c].row = created + 1
  BY InsertMoves
<1>3. \A d \in Calls \ {c} : call'[d] = call[d]
  BY <1>2 DEF OnlyMoves
<1>4. new.id = created' /\ new.no = call[c].next /\ new.refresh = call[c].refresh
  BY <1>1
<1>5. /\ created \in Nat /\ \A v \in rows : v.id \in Nat /\ v.no \in Nat
      /\ call[c].next \in Nat /\ \A d \in Calls : call[d].row \in Nat
  BY DEF Typed, CallRecord
<1>6. /\ \A v \in rows : v.id <= created' /\ v.id # created'
      /\ \A d \in Calls : call[d].row <= created
           => call[d].row <= created' /\ call[d].row # created'
      /\ created' <= created' /\ call[c].next >= call[c].next
  BY <1>1, <1>5 DEF Sound, Issued
<1>7. new.refresh \in provider.live /\ ~Dead(new)
  BY <1>1, <1>4 DEF Sound, TokensLive, Tokened, Holding, Dead
<1> HIDE DEF new
<1>8. Calm' /\ TokensLive'
  BY <1>1, <1>2, <1>3 DEF Sound, Calm, TokensLive, Tokened, Holding
<1>9. Issued'
  BY <1>1, <1>4, <1>6, <1>7 DEF Sound, Issued
<1>10. ASSUME NEW d \in Calls, call'[d].pc = "activate"
       PROVE  /\ call'[d].row <= created'
              /\ \A v \in rows' : v.id = call'[d].row => v.refresh = call'[d].refresh
              /\ \E v \in rows' : v.no >= call'[d].next
  <2>1. CASE d = c
    BY <1>1, <1>2, <1>4, <1>6, <2>1
  <2>2. CASE d # c
    <3>1. call'[d] = call[d] /\ call[d].pc = "activate"
      BY <1>3, <1>10, <2>2
    <3>2. call[d].row <= created
      BY <3>1 DEF Sound, InsertedRows
    <3> QED
      BY <1>1, <1>4, <1>6, <3>1, <3>2 DEF Sound, InsertedRows
  <2> QED
    BY <2>1, <2>2
<1>11. InsertedRows'
  BY <1>10 DEF InsertedRows
<1>12. AllLive'
  BY <1>1, <1>7 DEF Sound, AllLive, Dead
<1>13. OwnTokens'
  BY <1>1, <1>2, <1>3 DEF Sound, OwnTokens, Tokened, Holding
<1>14. ASSUME provider.rotates, NEW d \in Calls, NEW v \in rows',
              call'[d].pc \in Holding, v.refresh = call'[d].refresh
       PROVE  call'[d].pc = "activate" /\ v.id = call'[d].row
  <2>1. CASE d = c /\ v = new
    BY <1>1, <1>2, <1>4, <2>1
  <2>2. CASE d # c /\ v = new
    BY <1>1, <1>3, <1>4, <1>14, <2>2 DEF Sound, OwnTokens, Tokened, Holding
  <2>3. CASE d = c /\ v \in rows
    BY <1>1, <1>2, <1>14, <2>3 DEF Sound, OwnRows, Holding
  <2>4. CASE d # c /\ v \in rows
    BY <1>1, <1>3, <1>14, <2>4 DEF Sound, OwnRows, Holding
  <2> QED
    BY <1>1, <2>1, <2>2, <2>3, <2>4
<1>15. OwnRows'
  BY <1>1, <1>14 DEF OwnRows
<1>16. StoredLive'
  <2>1. Storing => Storing'
    BY <1>2, <1>3 DEF Storing, Holding, Inv, WorkersAreCalls
  <2> QED
    BY <1>1, <1>7, <2>1 DEF Sound, StoredLive, Highest, Dead
<1>17. NumberedAfter'
  BY <1>1, <1>2, <1>3, <1>7 DEF Sound, NumberedAfter, Dead, Inv, WorkersAreCalls
<1> QED
  BY <1>8, <1>9, <1>11, <1>12, <1>13, <1>15, <1>16, <1>17 DEF Sound

(* The activated version's token is live, and so is the latest's: a        *)
(* refresh leaves only older versions with the token it retired.           *)
LEMMA ActivateSound ==
  ASSUME Typed, Inv, Sound, ~Caused, NEW c \in Calls, Activate(c)
  PROVE  Sound'
<1>1. /\ call[c].pc = "activate" /\ UNCHANGED <<rows, provider, created, working>>
      /\ conn'.active = call[c].row
  BY DEF Activate
<1>2. GoesTo(c, "clean")
  BY GotoGoes DEF Activate, Pcs
<1>3. call'[c].pc = "clean" /\ \A d \in Calls \ {c} : call'[d] = call[d]
  BY <1>2 DEF GoesTo, OnlyMoves
<1>4. Calm' /\ Issued' /\ TokensLive' /\ InsertedRows' /\ AllLive' /\ OwnTokens' /\ OwnRows'
      /\ NumberedAfter'
  BY <1>1, <1>3 DEF Sound, Calm, Issued, TokensLive, InsertedRows, AllLive, OwnTokens,
     OwnRows, NumberedAfter, Dead, Tokened, Holding, Inv, WorkersAreCalls
<1>5. ASSUME NEW v \in rows, v.id = call[c].row
      PROVE  ~Dead(v)
  BY <1>1, <1>5 DEF Sound, InsertedRows, TokensLive, Tokened, Holding, Dead
<1>6. ASSUME NEW v \in rows, Highest(v), ~Storing'
      PROVE  ~Dead(v)
  <2>1. CASE c \notin working
    <3>1. ~Storing
      BY <1>1, <1>3, <1>6, <2>1 DEF Storing, Inv, WorkersAreCalls
    <3> QED
      BY <1>6, <3>1 DEF Sound, StoredLive
  <2>2. CASE c \in working
    <3>1. PICK u \in rows : u.no >= call[c].next
      BY <1>1 DEF Sound, InsertedRows
    <3>2. u.no \in Nat /\ v.no \in Nat /\ call[c].next \in Nat /\ u.no <= v.no
      BY <1>6 DEF Highest, Typed, CallRecord
    <3>3. ~ (v.no < call[c].next)
      BY <3>1, <3>2
    <3> QED
      BY <1>1, <2>2, <3>3 DEF Sound, NumberedAfter
  <2> QED
    BY <2>1, <2>2
<1>7. StoredLive'
  BY <1>1, <1>5, <1>6 DEF StoredLive, Highest, Dead
<1> QED
  BY <1>4, <1>7 DEF Sound

(* deleteOldVersions keeps the latest version.                             *)
LEMMA CleanKeepsHighest ==
  ASSUME Typed, NEW c \in Calls, Clean(c), NEW h \in rows, Highest(h)
  PROVE  h \in rows'
<1>1. {w \in rows : w.no > h.no} = {}
  <2>1. \A w \in rows : w.no \in Nat /\ h.no \in Nat /\ w.no <= h.no
    BY DEF Typed, Highest
  <2>2. \A w \in rows : ~ (w.no > h.no)
    BY <2>1
  <2> QED
    BY <2>2
<1>2. Cardinality({}) < Keep
  BY FS_EmptySet, BoundsAssumption
<1> QED
  BY <1>1, <1>2 DEF Clean

LEMMA CleanSound ==
  ASSUME Typed, Inv, Sound, NEW c \in Calls, Clean(c)
  PROVE  Sound'
<1>1. /\ call[c].pc = "clean" /\ UNCHANGED <<provider, created, conn>> /\ rows' \subseteq rows
      /\ Leaves(c)
  BY EndLeavesCall DEF Clean
<1>2. PICK h \in rows : Highest(h)
  BY LatestIsHighest DEF Sound, Issued
<1>3. h \in rows'
  BY <1>2, CleanKeepsHighest
<1>4. /\ call'[c].pc \in {"release", "done"} /\ \A d \in Calls \ {c} : call'[d] = call[d]
      /\ \A d \in Calls \ {c} : d \in working' <=> d \in working
  BY <1>1 DEF Leaves, OnlyMoves
<1>5. \A d \in working' : d \in Calls
  BY <1>1 DEF Leaves, OnlyMoves, Inv, WorkersAreCalls
<1>6. Calm' /\ Issued' /\ TokensLive' /\ AllLive' /\ OwnTokens' /\ OwnRows'
  BY <1>1, <1>3, <1>4 DEF Sound, Calm, Issued, TokensLive, AllLive, OwnTokens, OwnRows,
     Dead, Tokened, Holding
<1>7. \A v \in rows : v.no \in Nat /\ v.no <= h.no
  BY <1>2 DEF Highest, Typed
<1>8. ASSUME NEW d \in Calls, call'[d].pc = "activate"
      PROVE  \E v \in rows' : v.no >= call'[d].next
  <2>1. call'[d] = call[d] /\ call[d].pc = "activate" /\ call[d].next \in Nat
    BY <1>4, <1>8 DEF Typed, CallRecord
  <2>2. PICK u \in rows : u.no >= call[d].next
    BY <2>1 DEF Sound, InsertedRows
  <2>3. h.no >= call[d].next
    BY <1>7, <2>1, <2>2
  <2> QED
    BY <1>3, <2>1, <2>3
<1>9. InsertedRows'
  BY <1>1, <1>4, <1>8 DEF Sound, InsertedRows
<1>10. StoredLive'
  <2>1. Storing => Storing'
    <3>1. ASSUME NEW d \in working, call[d].pc \in Holding
          PROVE  d \in working' /\ call'[d].pc \in Holding
      BY <1>1, <1>4, <3>1 DEF Holding, Inv, WorkersAreCalls
    <3> QED
      BY <3>1 DEF Storing
  <2>2. ASSUME NEW v \in rows', Highest(v)'
        PROVE  Highest(v)
    <3>1. h.no <= v.no /\ v \in rows
      BY <1>1, <1>3, <2>2 DEF Highest
    <3> QED
      BY <1>7, <3>1 DEF Highest
  <2> QED
    BY <1>1, <2>1, <2>2 DEF Sound, StoredLive, Dead
<1>11. NumberedAfter'
  BY <1>1, <1>4, <1>5 DEF Sound, NumberedAfter, Dead
<1> QED
  BY <1>6, <1>9, <1>10, <1>11 DEF Sound

(* A reconnection holds a new grant, or a token that is never retired.     *)
LEMMA GrantedSound ==
  ASSUME Typed, Inv, Sound, NEW c \in Calls, Reconnect(c), Granted(c)
  PROVE  Sound'
<1> DEFINE g == provider.grants + 1
<1>1. call[c].pc = "new" /\ UNCHANGED <<rows, created, conn>>
  BY DEF Reconnect
<1>2. OnlyMoves(c) /\ working' = working /\ call'[c].pc = "number"
  BY DEF Granted
<1>3. \A d \in Calls \ {c} : call'[d] = call[d]
  BY <1>2 DEF OnlyMoves
<1>4. /\ g \in Nat /\ provider.grants \in Nat /\ provider.live \subseteq Nat
      /\ \A v \in rows : v.refresh \in Nat
  BY DEF Typed
<1>5. /\ \A t \in provider.live : t <= g /\ t # g
      /\ \A v \in rows : v.refresh <= g /\ v.refresh # g
      /\ g <= g
  BY <1>4 DEF Sound, Issued
<1>6. /\ provider'.rotates = provider.rotates /\ provider'.grants = g
      /\ \/ call'[c].refresh = g /\ provider'.live = provider.live \cup {g}
         \/ /\ ~provider.rotates /\ call'[c].refresh = Stored.refresh
            /\ provider'.live = provider.live
  BY DEF Granted, Typed
<1>7. ~provider.rotates => Stored.refresh \in provider.live
  BY StoredIsARow DEF Sound, AllLive, Issued, Dead
<1> HIDE DEF g
<1>8. \A v : Dead(v)' => Dead(v)
  BY <1>6 DEF Dead
<1>9. Calm' /\ Issued' /\ TokensLive' /\ InsertedRows' /\ AllLive'
  BY <1>1, <1>2, <1>3, <1>5, <1>6, <1>7, <1>8
     DEF Sound, Calm, Issued, TokensLive, InsertedRows, AllLive
<1>10. ASSUME provider.rotates, NEW d \in Calls \ {c}, call[d].pc \in Tokened
       PROVE  call[d].refresh # g
  BY <1>5, <1>10 DEF Sound, TokensLive
<1>11. OwnTokens' /\ OwnRows'
  BY <1>1, <1>2, <1>3, <1>5, <1>6, <1>10 DEF Sound, OwnTokens, OwnRows, Holding
<1>12. StoredLive'
  <2>1. Storing => Storing'
    BY <1>2, <1>3 DEF Storing, Holding, Inv, WorkersAreCalls
  <2> QED
    BY <1>1, <1>8, <2>1 DEF Sound, StoredLive, Highest
<1>13. NumberedAfter'
  BY <1>1, <1>2, <1>3, <1>8 DEF Sound, NumberedAfter, Inv, WorkersAreCalls
<1> QED
  BY <1>9, <1>11, <1>12, <1>13 DEF Sound

-----------------------------------------------------------------------------
(* The steps together.                                                     *)

(* What a rejection may be put down to is never taken back.                *)
LEMMA CausesStay ==
  ASSUME [Next]_vars, Caused
  PROVE  Caused'
<1>1. CASE UNCHANGED vars
  BY <1>1 DEF vars, history, Caused
<1>2. ASSUME NEW c \in Calls,
             \/ Begin(c) \/ Acquire(c) \/ AcquireBusy(c) \/ AcquireFails(c)
             \/ Poll(c) \/ CheckFresh(c) \/ AttemptAccepted(c) \/ AttemptTransient(c)
             \/ AttemptRejected(c) \/ Mark(c) \/ Number(c) \/ Insert(c) \/ Activate(c)
             \/ Clean(c) \/ Release(c) \/ ReleaseFails(c) \/ Reconnect(c) \/ Disconnect(c)
      PROVE  Caused'
  <2>1. UNCHANGED history
    BY <1>2 DEF Begin, Acquire, AcquireBusy, AcquireFails, Poll, CheckFresh,
       AttemptAccepted, AttemptTransient, AttemptRejected, Mark, Number, Insert, Activate,
       Clean, Release, ReleaseFails, Reconnect, Disconnect
  <2> QED
    BY <2>1 DEF history, Caused
<1>3. ASSUME NEW c \in Calls, ReadRefreshToken(c)
      PROVE  Caused'
  <2>1. UNCHANGED <<outlived, lost>> /\ (early => early')
    BY <1>3 DEF ReadRefreshToken
  <2> QED
    BY <2>1 DEF Caused
<1>4. ASSUME NEW c \in Calls,
             \/ AttemptUnheard(c) \/ InsertConflict(c) \/ QueryFails(c) \/ Crash(c)
      PROVE  Caused'
  <2>1. UNCHANGED <<outlived, early>> /\ (lost => lost')
    BY <1>4 DEF AttemptUnheard, InsertConflict, QueryFails, Crash, Drop
  <2> QED
    BY <2>1 DEF Caused
<1>5. ASSUME NEW c \in Calls, Teardown(c)
      PROVE  Caused'
  BY <1>5 DEF Teardown, Caused
<1>6. CASE Expire
  BY <1>6 DEF Expire, Caused
<1>7. CASE Next
  BY <1>2, <1>3, <1>4, <1>5, <1>6, <1>7 DEF Next
<1> QED
  BY <1>1, <1>7

(* A call at work has the lease, or had it.                                *)
LEMMA WorkStep ==
  ASSUME WorkersWork, NEW c \in Calls, OnlyMoves(c),
         call'[c].pc \in AtWork => c \in working'
  PROVE  WorkersWork'
  BY DEF WorkersWork, OnlyMoves

LEMMA LeavesWork ==
  ASSUME WorkersWork, NEW c \in Calls, Leaves(c)
  PROVE  WorkersWork'
  BY WorkStep DEF Leaves, AtWork

LEMMA GoesWork ==
  ASSUME WorkersWork, NEW c \in Calls, NEW pc, GoesTo(c, pc),
         pc \in AtWork => call[c].pc \in AtWork
  PROVE  WorkersWork'
  BY WorkStep DEF GoesTo, WorkersWork

LEMMA NextWork ==
  ASSUME Typed, WorkersWork, [Next]_vars
  PROVE  WorkersWork'
<1>1. CASE UNCHANGED vars
  BY <1>1 DEF vars, WorkersWork
<1>2. ASSUME NEW c \in Calls,
             \/ AcquireFails(c) \/ Mark(c) \/ InsertConflict(c) \/ QueryFails(c) \/ Release(c)
             \/ ReleaseFails(c) \/ Crash(c) \/ Clean(c) \/ Disconnect(c)
      PROVE  WorkersWork'
  <2>1. Leaves(c)
    BY <1>2, ReturnLeaves, EndLeavesCall DEF AcquireFails, Mark, InsertConflict, QueryFails,
       Release, ReleaseFails, Crash, Clean, Disconnect
  <2> QED
    BY <2>1, LeavesWork
<1>3. ASSUME NEW c \in Calls, Begin(c)
      PROVE  WorkersWork'
  BY <1>3, BeginGoes, GoesWork DEF AtWork
<1>4. ASSUME NEW c \in Calls, Acquire(c)
      PROVE  WorkersWork'
  BY <1>4, AcquireMoves, WorkStep
<1>5. ASSUME NEW c \in Calls, AcquireBusy(c)
      PROVE  WorkersWork'
  <2>1. GoesTo(c, "wait")
    BY <1>5, GotoGoes DEF AcquireBusy, Pcs
  <2> QED
    BY <2>1, GoesWork DEF AtWork
<1>6. ASSUME NEW c \in Calls, Poll(c)
      PROVE  WorkersWork'
  BY <1>6, PollMoves, LeavesWork, GoesWork DEF AtWork
<1>7. ASSUME NEW c \in Calls, CheckFresh(c)
      PROVE  WorkersWork'
  <2>1. call[c].pc \in AtWork
    BY <1>7 DEF CheckFresh, AtWork
  <2>2. CASE End(c)
    BY <2>2, EndLeavesCall, LeavesWork
  <2>3. CASE Goto(c, "read") /\ UNCHANGED working
    <3>1. GoesTo(c, "read")
      BY <2>3, GotoGoes DEF Pcs
    <3> QED
      BY <2>1, <3>1, GoesWork
  <2> QED
    BY <1>7, <2>2, <2>3 DEF CheckFresh
<1>8. ASSUME NEW c \in Calls, ReadRefreshToken(c)
      PROVE  WorkersWork'
  <2>1. CASE rows = {}
    BY <1>8, <2>1, EndLeavesCall, LeavesWork DEF ReadRefreshToken
  <2>2. CASE rows # {}
    <3>1. c \in working
      BY <1>8 DEF ReadRefreshToken, WorkersWork, AtWork
    <3> QED
      BY <1>8, <2>2, <3>1, ReadMoves, WorkStep
  <2> QED
    BY <2>1, <2>2
<1>9. ASSUME NEW c \in Calls, AttemptAccepted(c)
      PROVE  WorkersWork'
  BY <1>9, AcceptedMoves, WorkStep DEF AtWork
<1>10. ASSUME NEW c \in Calls, AttemptUnheard(c) \/ AttemptTransient(c)
       PROVE  WorkersWork'
  <2>1. call[c].pc = "attempt" /\ Retry(c)
    BY <1>10 DEF AttemptUnheard, AttemptTransient
  <2> QED
    BY <2>1, RetryMoves, LeavesWork, GoesWork DEF AtWork
<1>11. ASSUME NEW c \in Calls, AttemptRejected(c)
       PROVE  WorkersWork'
  <2>1. call[c].pc \in AtWork /\ GoesTo(c, "mark")
    BY <1>11, GotoGoes DEF AttemptRejected, Pcs, AtWork
  <2> QED
    BY <2>1, GoesWork
<1>12. ASSUME NEW c \in Calls, Number(c)
       PROVE  WorkersWork'
  BY <1>12, NumberMoves, WorkStep DEF AtWork
<1>13. ASSUME NEW c \in Calls, Insert(c)
       PROVE  WorkersWork'
  BY <1>13, InsertMoves, WorkStep DEF AtWork
<1>14. ASSUME NEW c \in Calls, Activate(c) \/ Teardown(c)
       PROVE  WorkersWork'
  <2>1. GoesTo(c, "clean") \/ GoesTo(c, "disconnect")
    BY <1>14, GotoGoes DEF Activate, Teardown, Pcs
  <2> QED
    BY <2>1, GoesWork DEF AtWork
<1>15. ASSUME NEW c \in Calls, Reconnect(c)
       PROVE  WorkersWork'
  BY <1>15, ReconnectMoves, LeavesWork, WorkStep DEF Granted, AtWork
<1>16. CASE Expire
  BY <1>16 DEF Expire, WorkersWork
<1>17. CASE Next
  BY <1>2, <1>3, <1>4, <1>5, <1>6, <1>7, <1>8, <1>9, <1>10, <1>11, <1>12, <1>13, <1>14,
     <1>15, <1>16, <1>17 DEF Next
<1> QED
  BY <1>1, <1>17

LEMMA NextTyped ==
  ASSUME Typed, [Next]_vars
  PROVE  Typed'
<1>1. CASE UNCHANGED vars \/ Expire
  BY <1>1 DEF vars, Expire, Typed
<1>2. ASSUME NEW c \in Calls,
             \/ Begin(c) \/ Acquire(c) \/ AcquireBusy(c) \/ AcquireFails(c) \/ Poll(c)
             \/ CheckFresh(c) \/ AttemptTransient(c) \/ Mark(c) \/ InsertConflict(c)
             \/ QueryFails(c) \/ Release(c) \/ ReleaseFails(c) \/ Crash(c)
      PROVE  Typed'
  BY <1>2, BeginIsQuiet, AcquireIsQuiet, AcquireBusyIsQuiet, PollIsQuiet, CheckFreshIsQuiet,
     TransientIsQuiet, EndingIsQuiet, QuietTyped
<1>3. ASSUME NEW c \in Calls, AttemptRejected(c)
      PROVE  Typed'
  BY <1>3, MovedTyped, QuietFrame, ConnFrame DEF AttemptRejected, Pcs
<1>4. CASE Next
  BY <1>1, <1>2, <1>3, <1>4, ReadTyped, AttemptTyped, NumberTyped, InsertTyped, ActivateTyped,
     CleanTyped, ReconnectTyped, TeardownTyped, DisconnectTyped DEF Next
<1> QED
  BY <1>1, <1>4

TokensInv == Typed /\ WorkersWork /\ TokenInv

LEMMA NextTokens ==
  ASSUME Inv, TokensInv, [Next]_vars
  PROVE  TokensInv'
<1>1. Typed' /\ WorkersWork'
  BY NextTyped, NextWork DEF TokensInv
<1> SUFFICES ASSUME ~Caused'
             PROVE  Sound'
  BY <1>1 DEF TokensInv, TokenInv
<1>2. ~lost' /\ ~early'
  BY DEF Caused
<1>3. Typed /\ WorkersWork /\ ~Caused /\ Sound
  BY CausesStay DEF TokensInv, TokenInv
<1>4. CASE UNCHANGED vars \/ Expire
  <2>1. UNCHANGED <<conn, rows, provider, call, working, created>>
    BY <1>4 DEF vars, Expire
  <2> QED
    BY <1>3, <2>1 DEF Sound, Calm, Issued, TokensLive, InsertedRows, AllLive, OwnTokens,
       OwnRows, StoredLive, NumberedAfter, Storing, Highest, Dead
<1>5. ASSUME NEW c \in Calls,
             \/ Begin(c) \/ Acquire(c) \/ AcquireBusy(c) \/ AcquireFails(c) \/ Poll(c)
             \/ CheckFresh(c) \/ AttemptTransient(c) \/ Mark(c) \/ InsertConflict(c)
             \/ QueryFails(c) \/ Release(c) \/ ReleaseFails(c) \/ Crash(c)
      PROVE  Sound'
  BY <1>2, <1>3, <1>5, BeginIsQuiet, AcquireIsQuiet, AcquireBusyIsQuiet, PollIsQuiet,
     CheckFreshIsQuiet, TransientIsQuiet, EndingIsQuiet, QuietSound
<1>6. ASSUME NEW c \in Calls,
             \/ ReadRefreshToken(c) \/ AttemptAccepted(c) \/ Number(c) \/ Insert(c)
             \/ Activate(c) \/ Clean(c)
      PROVE  Sound'
  BY <1>2, <1>3, <1>6, ReadSound, AcceptedSound, NumberSound, InsertSound, ActivateSound,
     CleanSound
(* A rotated grant that is not heard of is lost.                           *)
<1>7. ASSUME NEW c \in Calls, AttemptUnheard(c)
      PROVE  Sound'
  <2>1. c \in working
    BY <1>3, <1>7 DEF AttemptUnheard, WorkersWork, AtWork
  <2>2. ~provider.rotates
    BY <1>2, <1>7, <2>1 DEF AttemptUnheard, Drop
  <2> QED
    BY <1>2, <1>3, <1>7, <2>2, UnheardIsQuiet, QuietSound
(* Nobody is rejected, and nobody disconnects.                             *)
<1>8. ASSUME NEW c \in Calls, AttemptRejected(c) \/ Teardown(c) \/ Disconnect(c)
      PROVE  Sound'
  <2>1. CASE AttemptRejected(c)
    BY <1>3, <2>1 DEF AttemptRejected, Sound, TokensLive, Tokened
  <2>2. CASE Teardown(c)
    BY <1>2, <2>2 DEF Teardown
  <2>3. CASE Disconnect(c)
    BY <1>3, <2>3 DEF Disconnect, Sound, Calm
  <2> QED
    BY <1>8, <2>1, <2>2, <2>3
<1>9. ASSUME NEW c \in Calls, Reconnect(c)
      PROVE  Sound'
  BY <1>3, <1>9, ReconnectMoves, GrantedSound DEF Sound, Issued
<1>10. CASE Next
  BY <1>4, <1>5, <1>6, <1>7, <1>8, <1>9, <1>10 DEF Next
<1> QED
  BY <1>4, <1>10

(* However many refreshes, reconnections and disconnections overlap, and   *)
(* whatever fails: the provider turns down the refresh token of a refresh  *)
(* only after a lease was outlived, a rotated token was not stored, a user *)
(* disconnected, or a version was read that its store had yet to activate. *)
THEOREM RejectedForCause == Spec => []RejectionHasACause
<1>1. Init => TokensInv
  <2>1. Init => WorkersWork
    BY DEF Init, NoCall, WorkersWork, AtWork
  <2> QED
    BY <2>1, InitTyped, InitSound DEF TokensInv, TokenInv
<1>2. Inv /\ TokensInv /\ [Next]_vars => TokensInv'
  BY NextTokens
<1>3. TokensInv => RejectionHasACause
  BY DEF TokensInv, TokenInv, Sound, Calm, Caused, RejectionHasACause
<1> QED
  BY InitInv, NextInv, <1>1, <1>2, <1>3, PTL DEF Spec
=============================================================================
