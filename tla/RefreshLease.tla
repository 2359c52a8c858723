----------------------------- MODULE RefreshLease -----------------------------
(***************************************************************************)
(* One OAuth connection: its refresh lease, its credential versions and    *)
(* its refresh tokens at the provider, as credential-vault.service.ts      *)
(* drives them from checks and syncs that refresh at the same time, users  *)
(* that reconnect, and a user that disconnects.                            *)
(*                                                                         *)
(* Every call has a lease token of its own (randomUUID), so a call is      *)
(* served once.                                                            *)
(***************************************************************************)
EXTENDS Naturals, FiniteSets, FiniteSetsExt

CONSTANTS
  Calls,       \* the calls, with their lease tokens
  None,        \* no lease token
  MaxPolls,    \* CONCURRENT_REFRESH_MAX_POLLS
  Keep,        \* credential versions kept by deleteOldVersions
  MaxUsers,    \* bound: reconnections and disconnections
  MaxFaults    \* bound: failures, lost answers and crashes

ASSUME NoneAssumption == None \notin Calls
ASSUME BoundsAssumption ==
  /\ MaxPolls \in Nat \ {0} /\ Keep \in Nat \ {0}
  /\ MaxUsers \in Nat /\ MaxFaults \in Nat

VARIABLES
  lease,       \* refreshLeaseToken, and whether refreshLeaseUntil has passed
  conn,        \* activeCredentialVersionId and status of the connection
  rows,        \* the IntegrationCredentialVersion rows
  provider,    \* the refresh tokens it accepts, and the grants it has made
  call,        \* the calls
  working,     \* the calls that acquired the lease and have not returned
  created,     \* rows created so far: the clock of createdAt
  budget,      \* reconnections, disconnections and faults left
  outlived,    \* history: calls that were working when their lease expired
  lost,        \* history: a rotated token was not stored, or a user disconnected
  early        \* history: a version was read that its store had yet to activate

history == <<outlived, lost, early>>
vars == <<lease, conn, rows, provider, call, working, created, budget, history>>

-----------------------------------------------------------------------------
(* A grant is a number; its refresh token is the grant, or an older one    *)
(* when the provider does not rotate.  A row is named by its creation.     *)

NoCall == [pc |-> "new", since |-> 0, polls |-> 0,
           attempt |-> 1, refresh |-> 0, next |-> 0, row |-> 0]

Init ==
  /\ lease = [holder |-> None, expired |-> FALSE]
  /\ conn = [active |-> 1, status |-> "active"]
  /\ rows = {[id |-> 1, no |-> 1, refresh |-> 1]}
  /\ \E rotates \in BOOLEAN :
       provider = [live |-> {1}, grants |-> 1, rotates |-> rotates]
  /\ call = [c \in Calls |-> NoCall]
  /\ working = {}
  /\ created = 1
  /\ budget = [users |-> MaxUsers, faults |-> MaxFaults]
  /\ outlived = {}
  /\ lost = FALSE
  /\ early = FALSE

LastNo == IF rows = {} THEN 0 ELSE Max({v.no : v \in rows})
Latest == CHOOSE v \in rows : v.no = LastNo

(* getDecryptedCredentials: the active version, or else the latest.        *)
Stored == IF \E v \in rows : v.id = conn.active
          THEN CHOOSE v \in rows : v.id = conn.active ELSE Latest

(* Its store has yet to activate it.                                       *)
StoredEarly == \E d \in Calls : call[d].pc = "activate" /\ call[d].row = Stored.id

(* tokenRefreshedSince: a version was stored after the call began.         *)
RefreshedSince(c) == rows # {} /\ Latest.id > call[c].since

Goto(c, pc) == call' = [call EXCEPT ![c].pc = pc]
Return(c) ==
  /\ call' = [call EXCEPT ![c] = [NoCall EXCEPT !.pc = "done"]]
  /\ working' = working \ {c}

(* A call with the lease returns by way of its release.                    *)
End(c) ==
  IF c \in working
  THEN /\ call' = [call EXCEPT ![c] = [NoCall EXCEPT !.pc = "release"]]
       /\ UNCHANGED working
  ELSE Return(c)

Fault == budget.faults > 0 /\ budget' = [budget EXCEPT !.faults = @ - 1]
User == budget.users > 0 /\ budget' = [budget EXCEPT !.users = @ - 1]

(* The refresh token of a rotated grant that ends here is lost.            *)
Drop(c) == lost' = (lost \/ (provider.rotates /\ c \in working))

-----------------------------------------------------------------------------
(* refreshOAuthTokens                                                      *)

Begin(c) ==
  /\ call[c].pc = "new"
  /\ call' = [call EXCEPT ![c].pc = "acquire", ![c].since = created]
  /\ UNCHANGED <<lease, conn, rows, provider, created, budget, history, working>>

(* The conditional UPDATE: one caller wins.                                *)
Acquire(c) ==
  /\ call[c].pc = "acquire"
  /\ lease.holder = None \/ lease.expired
  /\ lease' = [holder |-> c, expired |-> FALSE]
  /\ call' = [call EXCEPT ![c].pc = "check"]
  /\ working' = working \cup {c}
  /\ UNCHANGED <<conn, rows, provider, created, budget, history>>

AcquireBusy(c) ==
  /\ call[c].pc = "acquire"
  /\ lease.holder # None /\ ~lease.expired
  /\ Goto(c, "wait")
  /\ UNCHANGED <<lease, conn, rows, provider, created, budget, history, working>>

\* Mutant: the refresh goes ahead when the lease cannot be coordinated.
AcquireFails_refreshes(c) ==
  /\ call[c].pc = "acquire"
  /\ Fault
  /\ call' = [call EXCEPT ![c].pc = "check"]
  /\ working' = working \cup {c}
  /\ UNCHANGED <<lease, conn, rows, provider, created, history>>

(* The lease cannot be coordinated: the stored token will do.              *)
AcquireFails(c) ==
  /\ call[c].pc = "acquire"
  /\ Fault
  /\ Return(c)
  /\ UNCHANGED <<lease, conn, rows, provider, created, history>>

(* awaitConcurrentRefresh: the peer's token, or after so many polls        *)
(* whatever is stored.                                                     *)
Poll(c) ==
  /\ call[c].pc = "wait"
  /\ IF RefreshedSince(c) \/ call[c].polls + 1 = MaxPolls
       THEN Return(c)
       ELSE call' = [call EXCEPT ![c].polls = @ + 1] /\ UNCHANGED working
  /\ UNCHANGED <<lease, conn, rows, provider, created, budget, history>>

(* The holder reuses what a peer stored since it began.                    *)
CheckFresh(c) ==
  /\ call[c].pc = "check"
  /\ IF RefreshedSince(c) THEN End(c) ELSE Goto(c, "read") /\ UNCHANGED working
  /\ UNCHANGED <<lease, conn, rows, provider, created, budget, history>>

(* performTokenRefresh: without a refresh token the connection is in error.*)
ReadRefreshToken(c) ==
  /\ call[c].pc = "read"
  /\ IF rows = {}
       THEN End(c) /\ conn' = [conn EXCEPT !.status = "error"] /\ UNCHANGED early
       ELSE /\ call' = [call EXCEPT ![c].pc = "attempt", ![c].refresh = Stored.refresh]
            /\ early' = (early \/ StoredEarly)
            /\ UNCHANGED <<conn, working>>
  /\ UNCHANGED <<lease, rows, provider, created, budget, outlived, lost>>

-----------------------------------------------------------------------------
(* attemptTokenRefresh                                                     *)

(* The provider refreshes, and a rotating one retires the token it got.    *)
Refreshed(c) == [call[c] EXCEPT !.pc = "number",
                   !.refresh = IF provider.rotates THEN provider.grants + 1 ELSE @]

Rotated(c) ==
  [provider EXCEPT !.grants = @ + 1,
     !.live = IF provider.rotates
              THEN (@ \ {call[c].refresh}) \cup {provider.grants + 1} ELSE @]

AttemptAccepted(c) ==
  /\ call[c].pc = "attempt" /\ call[c].refresh \in provider.live
  /\ provider' = Rotated(c)
  /\ call' = [call EXCEPT ![c] = Refreshed(c)]
  /\ UNCHANGED <<lease, conn, rows, created, budget, history, working>>

(* A failure that is not terminal is retried once, with the same token.    *)
Retry(c) ==
  IF call[c].attempt = 1
  THEN call' = [call EXCEPT ![c].attempt = 2] /\ UNCHANGED working
  ELSE End(c)

(* The answer times out after the provider has refreshed, ...              *)
AttemptUnheard(c) ==
  /\ call[c].pc = "attempt" /\ call[c].refresh \in provider.live
  /\ Fault
  /\ provider' = Rotated(c)
  /\ Retry(c)
  /\ Drop(c)
  /\ UNCHANGED <<lease, conn, rows, created, outlived, early>>

(* ... or the provider did not.                                            *)
AttemptTransient(c) ==
  /\ call[c].pc = "attempt"
  /\ Fault
  /\ Retry(c)
  /\ UNCHANGED <<lease, conn, rows, provider, created, history>>

(* invalid_grant                                                           *)
AttemptRejected(c) ==
  /\ call[c].pc = "attempt" /\ call[c].refresh \notin provider.live
  /\ Goto(c, "mark")
  /\ UNCHANGED <<lease, conn, rows, provider, created, budget, history, working>>

(* markTerminalTokenRefreshFailure                                         *)
Mark(c) ==
  /\ call[c].pc = "mark"
  /\ conn' = [conn EXCEPT !.status = "error"]
  /\ End(c)
  /\ UNCHANGED <<lease, rows, provider, created, budget, history>>

-----------------------------------------------------------------------------
(* storeOAuthTokens, of a refresh or a reconnection                        *)

Number(c) ==
  /\ call[c].pc = "number"
  /\ call' = [call EXCEPT ![c].pc = "insert", ![c].next = LastNo + 1]
  /\ UNCHANGED <<lease, conn, rows, provider, created, budget, history, working>>

Insert(c) ==
  /\ call[c].pc = "insert"
  /\ \A v \in rows : v.no # call[c].next
  /\ created' = created + 1
  /\ rows' = rows \cup {[id |-> created + 1, no |-> call[c].next,
                         refresh |-> call[c].refresh]}
  /\ call' = [call EXCEPT ![c].pc = "activate", ![c].row = created + 1]
  /\ UNCHANGED <<lease, conn, provider, budget, history, working>>

(* Another store took the number since: the unique key refuses.            *)
InsertConflict(c) ==
  /\ call[c].pc = "insert"
  /\ \E v \in rows : v.no = call[c].next
  /\ End(c)
  /\ Drop(c)
  /\ UNCHANGED <<lease, conn, rows, provider, created, budget, outlived, early>>

Activate(c) ==
  /\ call[c].pc = "activate"
  /\ conn' = [active |-> call[c].row, status |-> "active"]
  /\ Goto(c, "clean")
  /\ UNCHANGED <<lease, rows, provider, created, budget, history, working>>

(* deleteOldVersions                                                       *)
Clean(c) ==
  /\ call[c].pc = "clean"
  /\ rows' = {v \in rows : Cardinality({w \in rows : w.no > v.no}) < Keep}
  /\ End(c)
  /\ UNCHANGED <<lease, conn, provider, created, budget, history>>

(* A query fails: the call gives up, and releases its lease.               *)
QueryFails(c) ==
  /\ call[c].pc \in {"wait", "check", "read", "mark", "number", "insert",
                    "activate", "clean", "disconnect"}
  /\ Fault
  /\ End(c)
  /\ IF call[c].pc \in {"number", "insert", "activate"} THEN Drop(c) ELSE UNCHANGED lost
  /\ UNCHANGED <<lease, conn, rows, provider, created, outlived, early>>

-----------------------------------------------------------------------------
(* The lease ends.                                                         *)

\* Mutant: whoever holds the lease by now loses it.
Release_anyLease(c) ==
  /\ call[c].pc = "release"
  /\ lease' = [holder |-> None, expired |-> FALSE]
  /\ Return(c)
  /\ UNCHANGED <<conn, rows, provider, created, budget, history>>

(* releaseRefreshLease: only of the caller's own lease.                    *)
Release(c) ==
  /\ call[c].pc = "release"
  /\ lease' = IF lease.holder = c THEN [holder |-> None, expired |-> FALSE] ELSE lease
  /\ Return(c)
  /\ UNCHANGED <<conn, rows, provider, created, budget, history>>

ReleaseFails(c) ==
  /\ call[c].pc = "release"
  /\ Fault
  /\ Return(c)
  /\ UNCHANGED <<lease, conn, rows, provider, created, history>>

(* refreshLeaseUntil passes, maybe under a holder that still works: the    *)
(* timeout of a token request does not cover the body of its answer.       *)
Expire ==
  /\ lease.holder # None /\ ~lease.expired
  /\ lease' = [lease EXCEPT !.expired = TRUE]
  /\ outlived' = outlived \cup ({lease.holder} \cap working)
  /\ UNCHANGED <<conn, rows, provider, call, created, budget, lost, early, working>>

(* A worker dies, and its lease stays.                                     *)
Crash(c) ==
  /\ call[c].pc \notin {"new", "done"}
  /\ Fault
  /\ Return(c)
  /\ IF call[c].pc \in {"number", "insert", "activate"} THEN Drop(c) ELSE UNCHANGED lost
  /\ UNCHANGED <<lease, conn, rows, provider, created, outlived, early>>

-----------------------------------------------------------------------------
(* Users.                                                                  *)

(* oauthCallback stores a new grant, without the lease.  Google may leave  *)
(* out the refresh token: the stored one is preserved, or the call fails.  *)
Reconnect(c) ==
  /\ call[c].pc = "new"
  /\ User
  /\ \E omitted \in BOOLEAN :
       /\ omitted => ~provider.rotates
       /\ IF omitted /\ rows = {}
            THEN Return(c)
            ELSE /\ call' = [call EXCEPT ![c].pc = "number",
                      ![c].refresh = IF omitted THEN Stored.refresh
                                                ELSE provider.grants + 1]
                 /\ UNCHANGED working
       /\ provider' = [provider EXCEPT !.grants = @ + 1,
            !.live = IF omitted THEN @ ELSE @ \cup {provider.grants + 1}]
  /\ UNCHANGED <<lease, conn, rows, created, history>>

(* disconnectConnection: at best the tokens are revoked and deleted, ...   *)
Teardown(c) ==
  /\ call[c].pc = "new"
  /\ User
  /\ Goto(c, "disconnect")
  /\ \E live \in {provider.live, {}} : provider' = [provider EXCEPT !.live = live]
  /\ \E left \in {rows, {}} : rows' = left
  /\ lost' = TRUE
  /\ UNCHANGED <<lease, conn, created, outlived, early, working>>

(* ... and the connection is marked.                                       *)
Disconnect(c) ==
  /\ call[c].pc = "disconnect"
  /\ conn' = [active |-> 0, status |-> "disconnected"]
  /\ Return(c)
  /\ UNCHANGED <<lease, rows, provider, created, budget, history>>

-----------------------------------------------------------------------------
Next ==
  \/ \E c \in Calls :
       \/ Begin(c) \/ Acquire(c) \/ AcquireBusy(c) \/ AcquireFails(c)
       \/ Poll(c) \/ CheckFresh(c) \/ ReadRefreshToken(c)
       \/ AttemptAccepted(c) \/ AttemptUnheard(c) \/ AttemptTransient(c)
       \/ AttemptRejected(c) \/ Mark(c)
       \/ Number(c) \/ Insert(c) \/ InsertConflict(c) \/ Activate(c) \/ Clean(c)
       \/ QueryFails(c) \/ Release(c) \/ ReleaseFails(c) \/ Crash(c)
       \/ Reconnect(c) \/ Teardown(c) \/ Disconnect(c)
  \/ Expire

Spec == Init /\ [][Next]_vars

-----------------------------------------------------------------------------
(* Properties.                                                             *)

(* Two calls refresh at once only if one has outlived its lease: a release *)
(* never gives away the lease of somebody else.                            *)
OneRefreshAtATime ==
  \A c, d \in working : c = d \/ c \in outlived \/ d \in outlived

(* The provider rejects the refresh token only if the code lost one: no    *)
(* overlap of refreshes and reconnections sends it a token it has retired, *)
(* unless a lease was outlived, a rotated token was not stored, the user   *)
(* disconnected, or a refresh read a version that was stored but not yet   *)
(* active (the active one having been deleted as old).                     *)
RejectionHasACause ==
  (\E c \in Calls : call[c].pc = "mark") => lost \/ early \/ outlived # {}
=============================================================================
