--------------------------- MODULE BackgroundCheck ---------------------------
(***************************************************************************)
(* One member's background check: the row of background_check_requests and *)
(* everything that writes it.                                              *)
(*                                                                         *)
(* Clients request, retry, cancel, delete and replace the check; Checkr's  *)
(* webhooks, the manual sync and the hourly reconciliation report on it.   *)
(* The request charges one included check, keyed by the member, and gives  *)
(* it back when it compensates.  No two of these share a transaction: they *)
(* meet in the predicates of their updates.  Steps are one database        *)
(* statement, one guarded transaction or one vendor call each.             *)
(***************************************************************************)
EXTENDS Integers, FiniteSets

CONSTANTS
    Clients,        \* calls of the API in flight at once
    Hooks,          \* webhook deliveries in flight at once
    Pollers,        \* syncs and reconciliations in flight at once
    PollKinds,      \* which of "sync" and "reconcile" run
    MayAttach,      \* TRUE if custom reports are attached
    MaxRows,        \* bound: how many rows are created
    MaxRetries,     \* bound: how many retries one row gets
    MaxFaults,      \* bound: how many calls throw or die
    MaxEvents       \* bound: candidates and reports move up to that many events

ASSUME PollKindsAssumption == PollKinds \subseteq {"sync", "reconcile"}
ASSUME MayAttachAssumption == MayAttach \in BOOLEAN
ASSUME CheckBounds == /\ MaxRows \in Nat /\ MaxRetries \in Nat
                      /\ MaxFaults \in Nat /\ MaxEvents \in Nat

\* A vendor check is named by its idempotency key: the row and the rerun.
Attempts == (1 .. MaxRows) \X (0 .. MaxRetries)
NoAttempt == <<0, 0>>

\* identityBackgroundCheckId holds an invitation until the report exists.
Pointers == [kind : {"invitation", "report"}, attempt : Attempts]
NoPointer == [kind |-> "none", attempt |-> NoAttempt]
Invitation(a) == [kind |-> "invitation", attempt |-> a]
Report(a) == [kind |-> "report", attempt |-> a]

Terminal == {"completed", "failed", "cancelled"}
Statuses == {"invited", "in_progress"} \cup Terminal

Rows == [id : 1 .. MaxRows, status : Statuses,
         pointer : Pointers \cup {NoPointer}, invitation : Attempts \cup {NoAttempt},
         superseded : SUBSET Pointers, rerun : 0 .. MaxRetries,
         watermark : Nat, fresh : BOOLEAN, attached : BOOLEAN]
NoRow == [id |-> 0]

VARIABLES
    row,        \* the row of the member, or NoRow
    rows,       \* how many rows there have been
    unit,       \* the member's included check: none, held or returned
    vendor,     \* vendor[a]: none, invited, expired or the state of the report
    sent,       \* the events Checkr has sent
    done,       \* those whose delivery has been settled
    client, hook, poller,   \* where each call stands and what it has read
    faults      \* how much of the bound is used up

VARIABLES       \* history, read by properties only
    deleted,    \* a user has deleted a row
    lost,       \* a compensation was lost: a call died or its cleanup threw
    misled,     \* the last row rewritten by a retry of an earlier row, or 0
    overtaken   \* the last row that a report of an old attempt, resolved before
                \* a retry, has been written to after it, or 0

mail == <<sent, done>>
history == <<deleted, lost, misled, overtaken>>
vars == <<row, rows, unit, vendor, mail, client, hook, poller, faults, history>>

-----------------------------------------------------------------------------
IdleClient == [pc |-> "idle", id |-> 0, rerun |-> 0, status |-> "none", pointer |-> NoPointer]
\* The rerun of the row a delivery has resolved to is history: no code reads it.
IdleHook == [pc |-> "idle", id |-> 0, rerun |-> 0, event |-> [kind |-> "none"],
             direct |-> FALSE]
IdlePoller == [pc |-> "idle", kind |-> "sync", id |-> 0, status |-> "none",
               pointer |-> NoPointer, invitation |-> NoAttempt,
               found |-> NoPointer, next |-> "none"]

Init ==
    /\ row = NoRow
    /\ rows = 0
    /\ unit = "none"
    /\ vendor = [a \in Attempts |-> "none"]
    /\ sent = {}
    /\ done = {}
    /\ client = [c \in Clients |-> IdleClient]
    /\ hook = [h \in Hooks |-> IdleHook]
    /\ poller = [p \in Pollers |-> IdlePoller]
    /\ faults = 0
    /\ deleted = FALSE
    /\ lost = FALSE
    /\ misled = 0
    /\ overtaken = 0

Live(r) == r # NoRow /\ r.status \notin Terminal
Goto(c, pc) == client' = [client EXCEPT ![c].pc = pc]
Return(c) == client' = [client EXCEPT ![c] = IdleClient]

Fault == faults < MaxFaults /\ faults' = faults + 1

\* The payload of a report's event carries a time, an invitation's carries none.
NoTime == 0

NewRow(id) == [id |-> id, status |-> "invited", pointer |-> NoPointer,
               invitation |-> NoAttempt, superseded |-> {}, rerun |-> 0,
               watermark |-> NoTime, fresh |-> TRUE, attached |-> FALSE]

Insert == /\ row = NoRow
          /\ rows < MaxRows
          /\ rows' = rows + 1
          /\ row' = NewRow(rows + 1)

DeleteById(id) == row' = IF row.id = id THEN NoRow ELSE row

Send(kind, a, status) ==
    sent' = sent \cup {[kind |-> kind, attempt |-> a, status |-> status,
                        time |-> IF kind = "report" THEN Cardinality(sent) + 1
                                                    ELSE NoTime]}

\* createBackgroundCheck: the same key yields the same invitation, and Checkr
\* announces a new one (its status "pending" reads as in_progress).
CreateAtVendor(a) ==
    IF vendor[a] = "none"
    THEN /\ vendor' = [vendor EXCEPT ![a] = "invited"]
         /\ Send("invitation", a, "in_progress")
    ELSE UNCHANGED <<vendor, sent>>

-----------------------------------------------------------------------------
(* requestBackgroundCheckForMember                                         *)

world == <<vendor, mail, hook, poller>>

\* getForMember finds no row.
Request(c) ==
    /\ client[c].pc = "idle"
    /\ row = NoRow
    /\ rows < MaxRows
    /\ Goto(c, "create")
    /\ UNCHANGED <<row, rows, unit, world, faults, history>>

\* reclaimStalePaymentlessClaim: the delete repeats the predicate of the read.
\* A charge never sets stripePaymentIntentId, so the row shows no payment.
Reclaim(c) ==
    /\ client[c].pc = "idle"
    /\ rows < MaxRows
    /\ row # NoRow
    /\ row.status = "invited" /\ row.pointer = NoPointer /\ ~row.fresh
    /\ row' = NoRow
    /\ Goto(c, "create")
    /\ UNCHANGED <<rows, unit, world, faults, history>>

\* Step 1: claim the slot.
Create(c) ==
    /\ client[c].pc = "create"
    /\ Insert
    /\ client' = [client EXCEPT ![c].pc = "charge", ![c].id = rows + 1]
    /\ UNCHANGED <<unit, world, faults, history>>

\* The unique constraint: the row of another request is returned.  (A stale
\* one starts the call again, which is a new call here.)
CreateRaced(c) ==
    /\ client[c].pc = "create"
    /\ row # NoRow
    /\ Return(c)
    /\ UNCHANGED <<row, rows, unit, world, faults, history>>

\* Step 2: charge.  A unit consumed for the member before, also one refunded
\* since, counts as consumed again.
Charge(c) ==
    /\ client[c].pc = "charge"
    /\ unit' = IF unit = "none" THEN "held" ELSE unit
    /\ Goto(c, "payment")
    /\ UNCHANGED <<row, rows, world, faults, history>>

ChargeFails(c) ==
    /\ client[c].pc = "charge"
    /\ Fault
    /\ Goto(c, "delete")
    /\ UNCHANGED <<row, rows, unit, world, history>>

\* Step 3: persist the payment, by id.  A row that is gone throws.
PersistPayment(c) ==
    /\ client[c].pc = "payment"
    /\ IF row.id = client[c].id
         THEN row' = [row EXCEPT !.fresh = TRUE] /\ Goto(c, "vendor")
         ELSE Goto(c, "refundDelete") /\ UNCHANGED row
    /\ UNCHANGED <<rows, unit, world, faults, history>>

PersistPaymentFails(c) ==
    /\ client[c].pc = "payment"
    /\ Fault
    /\ Goto(c, "refundDelete")
    /\ UNCHANGED <<row, rows, unit, world, history>>

\* Step 4: the vendor call.
CallVendor(c) ==
    /\ client[c].pc = "vendor"
    /\ CreateAtVendor(<<client[c].id, 0>>)
    /\ Goto(c, "persist")
    /\ UNCHANGED <<row, rows, unit, done, hook, poller, faults, history>>

\* It throws, also when only the answer is lost.
CallVendorFails(c) ==
    /\ client[c].pc = "vendor"
    /\ Fault
    /\ CreateAtVendor(<<client[c].id, 0>>) \/ UNCHANGED <<vendor, sent>>
    /\ Goto(c, "refundMark")
    /\ UNCHANGED <<row, rows, unit, done, hook, poller, history>>

Owns(c) == row.id = client[c].id

\* Step 5: persistCheckrResult.
Unswapped(c) == Owns(c) /\ row.pointer = NoPointer /\ row.status \notin Terminal

PersistResult(c) ==
    LET a == <<client[c].id, 0>> IN
    /\ client[c].pc = "persist"
    /\ Unswapped(c)
    /\ row' = [row EXCEPT !.pointer = Invitation(a), !.invitation = a,
                          !.status = "invited", !.fresh = TRUE]
    /\ Return(c)
    /\ UNCHANGED <<rows, unit, world, faults, history>>

\* Mutant: a claim that is gone is taken for refunded by whoever removed it.
PersistLost_goneKept(c) ==
    /\ client[c].pc = "persist"
    /\ ~Unswapped(c)
    /\ IF Owns(c) /\ row.status \in {"failed", "cancelled"}
         THEN Goto(c, "refund")
         ELSE Return(c)
    /\ UNCHANGED <<row, rows, unit, world, faults, history>>

\* A lost race: refund a deleted row and a failed or cancelled one; a
\* completed one has delivered the check, a live one belongs to a retry.
PersistLost(c) ==
    /\ client[c].pc = "persist"
    /\ ~Unswapped(c)
    /\ IF ~Owns(c) \/ row.status \in {"failed", "cancelled"}
         THEN Goto(c, "refund")
         ELSE Return(c)
    /\ UNCHANGED <<row, rows, unit, world, faults, history>>

PersistFails(c) ==
    /\ client[c].pc = "persist"
    /\ Fault
    /\ Goto(c, "refundMark")
    /\ UNCHANGED <<row, rows, unit, world, history>>

AfterRefund(c) == CASE client[c].pc = "refund" -> Return(c)
                    [] client[c].pc = "refundDelete" -> Goto(c, "delete")
                    [] client[c].pc = "refundMark" -> Goto(c, "mark")

\* refundBestEffort, and its failure.
Refund(c) ==
    /\ client[c].pc \in {"refund", "refundDelete", "refundMark"}
    /\ unit' = IF unit = "held" THEN "returned" ELSE unit
    /\ AfterRefund(c)
    /\ UNCHANGED <<row, rows, world, faults, history>>

RefundThrows(c) ==
    /\ client[c].pc \in {"refund", "refundDelete", "refundMark"}
    /\ Fault
    /\ lost' = TRUE
    /\ AfterRefund(c)
    /\ UNCHANGED <<row, rows, unit, world, deleted, misled, overtaken>>

RemoveClaim(c) ==
    /\ client[c].pc = "delete"
    /\ DeleteById(client[c].id)
    /\ Return(c)
    /\ UNCHANGED <<rows, unit, world, faults, history>>

\* markRequestFailed.
MarkFailed(c) ==
    /\ client[c].pc = "mark"
    /\ row' = IF Unswapped(c) THEN [row EXCEPT !.status = "failed", !.fresh = TRUE]
                              ELSE row
    /\ Return(c)
    /\ UNCHANGED <<rows, unit, world, faults, history>>

CleanupThrows(c) ==
    /\ client[c].pc \in {"delete", "mark"}
    /\ Fault
    /\ lost' = TRUE
    /\ Return(c)
    /\ UNCHANGED <<row, rows, unit, world, deleted, misled, overtaken>>

\* The process dies in any call.
Crash(c) ==
    /\ client[c].pc # "idle"
    /\ Fault
    /\ lost' = TRUE
    /\ Return(c)
    /\ UNCHANGED <<row, rows, unit, world, deleted, misled, overtaken>>

-----------------------------------------------------------------------------
(* retryForMember, cancelForMember, deleteForMember, attachForMember       *)

\* The retry reads the row twice and wants no change in between.  An invited
\* row is refused: it has a pointer, or no stripePaymentIntentId.
Retry(c) ==
    /\ client[c].pc = "idle"
    /\ row # NoRow
    /\ row.status \in {"failed", "cancelled"}
    /\ row.rerun < MaxRetries
    /\ client' = [client EXCEPT ![c] =
                    [pc |-> "retryVendor", id |-> row.id, rerun |-> row.rerun + 1,
                     status |-> row.status, pointer |-> row.pointer]]
    /\ UNCHANGED <<row, rows, unit, world, faults, history>>

RetryVendor(c) ==
    /\ client[c].pc = "retryVendor"
    /\ CreateAtVendor(<<client[c].id, client[c].rerun>>)
    /\ Goto(c, "retrySwap")
    /\ UNCHANGED <<row, rows, unit, done, hook, poller, faults, history>>

\* The restore writes the status it is guarded on.
RetryVendorFails(c) ==
    /\ client[c].pc = "retryVendor"
    /\ Fault
    /\ CreateAtVendor(<<client[c].id, client[c].rerun>>) \/ UNCHANGED <<vendor, sent>>
    /\ Return(c)
    /\ UNCHANGED <<row, rows, unit, done, hook, poller, history>>

\* The swap, by organization and member, guarded on what was read.
Unchanged(c) == /\ row # NoRow
                /\ row.status = client[c].status
                /\ row.pointer = client[c].pointer

RetrySwap(c) ==
    LET a == <<client[c].id, client[c].rerun>> IN
    /\ client[c].pc = "retrySwap"
    /\ row' = IF Unchanged(c)
              THEN [row EXCEPT !.pointer = Invitation(a), !.invitation = a,
                               !.status = "invited", !.rerun = client[c].rerun,
                               !.superseded = @ \cup ({row.pointer} \ {NoPointer}),
                               !.fresh = TRUE]
              ELSE row
    /\ misled' = IF Unchanged(c) /\ row.id # client[c].id THEN row.id ELSE misled
    /\ Return(c)
    /\ UNCHANGED <<rows, unit, world, faults, deleted, lost, overtaken>>

\* Nothing is told to the vendor, and nothing is refunded.
Cancel ==
    /\ Live(row)
    /\ row' = [row EXCEPT !.status = "cancelled", !.fresh = TRUE]
    /\ UNCHANGED <<rows, unit, world, client, faults, history>>

Remove ==
    /\ row # NoRow
    /\ row' = NoRow
    /\ deleted' = TRUE
    /\ UNCHANGED <<rows, unit, world, client, faults, lost, misled, overtaken>>

\* A custom report: the upsert, the upload, and an update by id alone.
Attach(c) ==
    /\ MayAttach
    /\ client[c].pc = "idle"
    /\ Insert \/ (row # NoRow /\ UNCHANGED <<row, rows>>)
    /\ client' = [client EXCEPT ![c].pc = "attach", ![c].id = row'.id]
    /\ UNCHANGED <<unit, world, faults, history>>

AttachComplete(c) ==
    /\ client[c].pc = "attach"
    /\ row' = IF Owns(c)
              THEN [row EXCEPT !.status = "completed", !.attached = TRUE, !.fresh = TRUE]
              ELSE row
    /\ Return(c)
    /\ UNCHANGED <<rows, unit, world, faults, history>>

UploadFails(c) ==
    /\ client[c].pc = "attach"
    /\ Fault
    /\ Return(c)
    /\ UNCHANGED <<row, rows, unit, world, history>>

\* STALE_INFLIGHT_MS pass without a write to the row.  (Only an unfinished
\* claim and the reconciliation care.)
Idle ==
    /\ Live(row) /\ row.fresh
    /\ row.pointer = NoPointer \/ "reconcile" \in PollKinds
    /\ row' = [row EXCEPT !.fresh = FALSE]
    /\ UNCHANGED <<rows, unit, world, client, faults, history>>

-----------------------------------------------------------------------------
(* Checkr                                                                  *)

\* The candidate completes the hosted flow, or the invitation expires or is
\* deleted and never has a report; the report ends.
Advance(a) ==
    /\ Cardinality(sent) < MaxEvents
    /\ \/ /\ vendor[a] = "invited"
          /\ \/ /\ vendor' = [vendor EXCEPT ![a] = "in_progress"]
                /\ Send("report", a, "in_progress")
             \/ /\ vendor' = [vendor EXCEPT ![a] = "expired"]
                /\ Send("invitation", a, "failed")
       \/ \E s \in {"completed", "failed"} :
             /\ vendor[a] = "in_progress"
             /\ vendor' = [vendor EXCEPT ![a] = s]
             /\ Send("report", a, s)
    /\ UNCHANGED <<row, rows, unit, done, client, hook, poller, faults, history>>

\* Mutant: the report of an invitation is not looked up.
HasReport_unasked(a) == FALSE

HasReport(a) == a \in Attempts /\ vendor[a] \in {"in_progress", "completed", "failed"}

-----------------------------------------------------------------------------
(* applyWebhookEvent and processWebhookEvent                               *)

PointerOf(e) == [kind |-> e.kind, attempt |-> e.attempt]
IsReport(e) == e.kind = "report"

\* Mutant: only reports a retry has superseded are stale.
Stale_supersededOnly(r, e, direct) ==
    /\ ~direct /\ IsReport(e)
    /\ r.pointer \notin {NoPointer, PointerOf(e)}
    /\ PointerOf(e) \in r.superseded

\* isStaleIndirectEvent, of row r.
Stale(r, e, direct) ==
    /\ ~direct /\ IsReport(e)
    /\ r.pointer \notin {NoPointer, PointerOf(e)}
    /\ PointerOf(e) \in r.superseded \/ r.pointer # Invitation(r.invitation)

\* A report for a retried row that still points at an invitation: the vendor
\* is asked whether the invitation names this report.
Ambiguous(r, e, direct) ==
    /\ ~direct /\ IsReport(e)
    /\ r.pointer = Invitation(r.invitation)
    /\ r.superseded # {}
    /\ PointerOf(e) \notin r.superseded

Ignored(r, e) ==
    LET direct == r.pointer = PointerOf(e) IN
    \/ Stale(r, e, direct)
    \/ Ambiguous(r, e, direct) /\ r.invitation # e.attempt

others == <<rows, unit, vendor, sent, client, poller, faults>>

\* The event is resolved, by its pointer or by the member in its metadata, and
\* verified, before the transaction.  Without a row it is redelivered later.
Deliver(h, e) ==
    /\ hook[h].pc = "idle"
    /\ e \in sent \ done
    /\ \A g \in Hooks : hook[g].event # e
    /\ row # NoRow
    /\ IF Ignored(row, e)
         THEN done' = done \cup {e} /\ UNCHANGED hook
         ELSE /\ hook' = [hook EXCEPT ![h] =
                            [pc |-> "commit", id |-> row.id, rerun |-> row.rerun,
                             event |-> e, direct |-> row.pointer = PointerOf(e)]]
              /\ UNCHANGED done
    /\ UNCHANGED <<row, others, history>>

\* What the transaction still refuses on the row it reads again: a report the
\* pointer has moved past, an event older than the last one applied (unless one
\* of the two has no time), and the end of an invitation that is not the row's.
Outdated(r, e) == e.time # NoTime /\ e.time < r.watermark

\* Mutant: any invitation of the member may end the row.
Foreign_ignored(r, e) == FALSE

Foreign(r, e) ==
    /\ ~IsReport(e) /\ e.status \in Terminal
    /\ PointerOf(e) # r.pointer
    /\ e.attempt # r.invitation

\* Mutant: a match by pointer is trusted although the pointer has moved.
EffectiveVia_ofRead(r, e, direct) == direct

EffectiveVia(r, e, direct) == direct /\ r.pointer = PointerOf(e)

\* Mutant: the status is not read again in the transaction.
Refused_ofRead(r, e, direct) ==
    \/ Stale(r, e, EffectiveVia(r, e, direct))
    \/ Outdated(r, e)
    \/ Foreign(r, e)

Refused(r, e, direct) ==
    \/ r.status \in Terminal
    \/ Stale(r, e, EffectiveVia(r, e, direct))
    \/ Outdated(r, e)
    \/ Foreign(r, e)

\* shouldWriteWebhookStatus; the only terminal invitation event is an expiry.
WritesStatus(r, e) == \/ IsReport(e)
                      \/ e.status \notin Terminal
                      \/ r.status = "invited"

Applies(h) == row.id = hook[h].id /\ ~Refused(row, hook[h].event, hook[h].direct)

\* Whose report it is was asked before the transaction and is not asked again,
\* and the list of superseded pointers names the old invitation, not its report.
Overtakes(h) ==
    LET e == hook[h].event IN
    /\ IsReport(e) /\ hook[h].rerun # row.rerun
    /\ e.attempt # row.invitation
    /\ PointerOf(e) \notin row.superseded

Commit(h) ==
    LET e == hook[h].event IN
    /\ hook[h].pc = "commit"
    /\ row' = IF Applies(h)
              THEN [row EXCEPT
                      !.pointer = IF IsReport(e) THEN PointerOf(e) ELSE @,
                      !.status = IF WritesStatus(row, e) THEN e.status ELSE @,
                      !.watermark = e.time, !.fresh = TRUE]
              ELSE row
    /\ overtaken' = IF Applies(h) /\ Overtakes(h) THEN row.id ELSE overtaken
    /\ done' = done \cup {e}
    /\ hook' = [hook EXCEPT ![h] = IdleHook]
    /\ UNCHANGED <<others, deleted, lost, misled>>

\* The snapshot cannot be fetched, the transaction throws, or the process dies:
\* the marker is released or reclaimed, and the event delivered again.
DeliveryFails(h) ==
    /\ hook[h].pc = "commit"
    /\ Fault
    /\ hook' = [hook EXCEPT ![h] = IdleHook]
    /\ UNCHANGED <<row, rows, unit, vendor, mail, client, poller, history>>

-----------------------------------------------------------------------------
(* syncBackgroundCheck and runReconciliation                               *)

\* Both read a live row that has a pointer.  (The reconciliation wants an hour
\* of silence; a sync of a terminal row only backfills its snapshot.)
Poll(p, k) ==
    /\ poller[p].pc = "idle"
    /\ Live(row) /\ row.pointer # NoPointer
    /\ k = "reconcile" => ~row.fresh
    /\ poller' = [poller EXCEPT ![p] =
                    [pc |-> "fetch", kind |-> k, id |-> row.id, status |-> row.status,
                     pointer |-> row.pointer, invitation |-> row.invitation,
                     found |-> NoPointer, next |-> "none"]]
    /\ UNCHANGED <<row, rows, unit, vendor, mail, client, hook, faults, history>>

Found(p, id, status) ==
    poller' = [poller EXCEPT ![p].pc = "write", ![p].found = id, ![p].next = status]

\* Neither the pointer nor the invitation names a report that can be read:
\* terminalStatusFromInvitation, which is asked for an invited row only.
Missing(p) ==
    Found(p, NoPointer, IF /\ poller[p].status = "invited"
                           /\ poller[p].invitation \in Attempts
                           /\ vendor[poller[p].invitation] = "expired"
                        THEN "failed" ELSE poller[p].status)

\* The second lookup of resolveReport, by the invitation.
FindByInvitation(p) ==
    LET i == poller[p].invitation IN
    IF HasReport(i) THEN Found(p, Report(i), vendor[i]) ELSE Missing(p)

\* resolveReport: the report the pointer names, or else the invitation's.
Fetch(p) ==
    /\ poller[p].pc = "fetch"
    /\ IF poller[p].pointer.kind = "report"
         THEN Found(p, poller[p].pointer, vendor[poller[p].pointer.attempt])
         ELSE FindByInvitation(p)
    /\ UNCHANGED <<row, rows, unit, vendor, mail, client, hook, faults, history>>

\* getReport answers null for a report that exists (it was removed, or 5xx or
\* 429): the invitation is asked although the pointer is a report.
FetchFallback(p) ==
    /\ poller[p].pc = "fetch"
    /\ poller[p].pointer.kind = "report"
    /\ Fault
    /\ FindByInvitation(p)
    /\ UNCHANGED <<row, rows, unit, vendor, mail, client, hook, history>>

\* writeSyncUpdate asks for the pointer it read, the update of runReconciliation
\* for the row as well ...
SamePointer(p) == /\ Live(row) /\ row.pointer = poller[p].pointer
                  /\ poller[p].kind = "reconcile" => row.id = poller[p].id

\* ... the touches of the reconciliation, and its handleMissingReport, for the
\* row only.
SameRow(p) == Live(row) /\ row.id = poller[p].id

Writable(p) == IF poller[p].kind = "sync" THEN SamePointer(p) ELSE SameRow(p)

\* The vendor is down, or the snapshot of a completed report is missing, when a
\* sync keeps the pointer it has found: the row is touched.
FetchFails(p) ==
    /\ \/ poller[p].pc = "fetch"
       \/ poller[p].pc = "write" /\ poller[p].next = "completed"
    /\ Fault
    /\ row' = IF ~Writable(p) THEN row
              ELSE [row EXCEPT !.fresh = TRUE,
                      !.pointer = IF poller[p].kind = "sync"
                                     /\ poller[p].found # NoPointer
                                  THEN poller[p].found ELSE @]
    /\ poller' = [poller EXCEPT ![p] = IdlePoller]
    /\ UNCHANGED <<rows, unit, vendor, mail, client, hook, history>>

\* The reconciliation leaves out a status that is the one it read.
Silent(p) == poller[p].kind = "reconcile" /\ poller[p].next = poller[p].status

WriteReport(p) ==
    /\ poller[p].pc = "write"
    /\ poller[p].found # NoPointer
    /\ row' = IF SamePointer(p)
              THEN [row EXCEPT !.pointer = poller[p].found, !.fresh = TRUE,
                               !.status = IF Silent(p) THEN @ ELSE poller[p].next]
              ELSE row
    /\ poller' = [poller EXCEPT ![p] = IdlePoller]
    /\ UNCHANGED <<rows, unit, vendor, mail, client, hook, faults, history>>

WriteMissing(p) ==
    /\ poller[p].pc = "write"
    /\ poller[p].found = NoPointer
    /\ row' = IF ~Writable(p) THEN row
              ELSE [row EXCEPT !.fresh = TRUE,
                      !.status = IF poller[p].next = "failed" THEN "failed" ELSE @]
    /\ poller' = [poller EXCEPT ![p] = IdlePoller]
    /\ UNCHANGED <<rows, unit, vendor, mail, client, hook, faults, history>>

-----------------------------------------------------------------------------
Progress(c) ==
    \/ Create(c) \/ CreateRaced(c) \/ Charge(c) \/ PersistPayment(c)
    \/ CallVendor(c) \/ PersistResult(c) \/ PersistLost(c) \/ Refund(c)
    \/ RemoveClaim(c) \/ MarkFailed(c) \/ RetryVendor(c) \/ RetrySwap(c)
    \/ AttachComplete(c)

Failure(c) ==
    \/ ChargeFails(c) \/ PersistPaymentFails(c) \/ CallVendorFails(c)
    \/ PersistFails(c) \/ RefundThrows(c) \/ CleanupThrows(c)
    \/ RetryVendorFails(c) \/ UploadFails(c) \/ Crash(c)

Next ==
    \/ \E c \in Clients : \/ Request(c) \/ Reclaim(c) \/ Retry(c) \/ Attach(c)
                          \/ Progress(c) \/ Failure(c)
    \/ Cancel \/ Remove \/ Idle
    \/ \E a \in Attempts : Advance(a)
    \/ \E h \in Hooks : \/ \E e \in sent : Deliver(h, e)
                        \/ Commit(h) \/ DeliveryFails(h)
    \/ \E p \in Pollers : \/ \E k \in PollKinds : Poll(p, k)
                          \/ Fetch(p) \/ FetchFallback(p) \/ FetchFails(p)
                          \/ WriteReport(p) \/ WriteMissing(p)

Spec == Init /\ [][Next]_vars

\* The reconciliation is scheduled hourly, calls run on and silence lasts;
\* webhooks, candidates, users and faults are free.
FairSpec ==
    /\ Spec
    /\ WF_vars(Idle)
    /\ \A c \in Clients : WF_vars(Progress(c))
    /\ \A p \in Pollers : /\ WF_vars(\E k \in PollKinds : Poll(p, k))
                          /\ WF_vars(Fetch(p) \/ WriteReport(p) \/ WriteMissing(p))

-----------------------------------------------------------------------------
ClientPcs == {"idle", "create", "charge", "payment", "vendor", "persist", "refund",
              "refundDelete", "refundMark", "delete", "mark", "retryVendor",
              "retrySwap", "attach"}

Mails == [kind : {"invitation", "report"}, attempt : Attempts, status : Statuses,
          time : Nat]

TypeOK ==
    /\ row \in Rows \cup {NoRow}
    /\ rows \in 0 .. MaxRows
    /\ unit \in {"none", "held", "returned"}
    /\ vendor \in [Attempts -> {"none", "invited", "expired", "in_progress",
                               "completed", "failed"}]
    /\ sent \subseteq Mails
    /\ done \subseteq sent
    /\ client \in [Clients -> [pc : ClientPcs, id : 0 .. MaxRows,
                              rerun : 0 .. MaxRetries, status : Statuses \cup {"none"},
                              pointer : Pointers \cup {NoPointer}]]
    /\ \A h \in Hooks : hook[h] = IdleHook \/ hook[h].event \in sent \ done
    /\ \A p \in Pollers : poller[p].pc \in {"idle", "fetch", "write"}
    /\ faults \in 0 .. MaxFaults
    /\ deleted \in BOOLEAN
    /\ lost \in BOOLEAN
    /\ misled \in 0 .. rows
    /\ overtaken \in 0 .. rows

\* Two rows of which less can be said, each by a write that asks for too little:
\* a retry's swap asks for the member and for what it read, not for the row's id,
\* so one that read a row deleted since can land on the row after it (misled); a
\* delivery resolved before a retry can write an old report after it (overtaken).
Astray == row.id \in {misled, overtaken}

\* A finished check stays finished: no late webhook, sync, reconciliation, or
\* compensation moves it; only a custom report, or a retry does, which starts a
\* new attempt (or, on a row gone astray, an earlier one again).
TerminalIsFinal ==
    [][(row # NoRow /\ row.status \in Terminal /\ row'.id = row.id) =>
          \/ row'.status = row.status
          \/ row'.rerun > row.rerun
          \/ row'.status = "completed" /\ row'.attached
          \/ Astray' /\ row'.status = "invited" /\ row'.pointer = Invitation(row'.invitation)]_vars

\* A row whose retry has superseded a vendor check points at the invitation or
\* the report of the retry's own check: no event, sync or reconciliation brings
\* back any other attempt of this row or a row before it, unless the row has
\* gone astray.
PointerIsOfThisAttempt ==
    row # NoRow /\ ~Astray /\ row.superseded # {} => row.pointer.attempt = row.invitation

\* Once a row points at a report of its own it points at that report until it is
\* retried: late events and polls move the pointer to no other report, except
\* that of the row's present invitation.
GraduatedPointerIsFinal ==
    [][(/\ row # NoRow /\ row.pointer.kind = "report" /\ row.pointer.attempt[1] = row.id
        /\ row'.id = row.id /\ ~Astray') =>
          \/ row'.pointer \in {row.pointer, Report(row.invitation)}
          \/ row'.rerun > row.rerun]_vars

\* When no call is in flight a held unit stands for a vendor check or a custom
\* report: every path that gives up gives the unit back, unless a call died or
\* its cleanup threw, or a user deleted the row.
NoUnitIsStranded ==
    (~lost /\ ~deleted /\ unit = "held" /\ \A c \in Clients : client[c] = IdleClient)
        => row # NoRow /\ (row.pointer # NoPointer \/ row.attached)

\* A check that has a vendor check fails only on evidence, read before the step:
\* the report of its present attempt failed or the invitation expired.  So after
\* a retry no late expiry or failure of an older attempt ends the new one.  There
\* are three exceptions: a row that has no superseded check takes the first
\* report of the member for its own, and fails with it; a poll writes what it
\* learnt of another row, or a reconciliation of an older pointer (its
\* handleMissingReport does not ask for it); and the row has gone astray.
FailureHasEvidence ==
    [][(/\ row # NoRow /\ row' # NoRow /\ row'.pointer # NoPointer /\ ~Astray'
        /\ row.status # "failed" /\ row'.status = "failed") =>
          \/ row.invitation \in Attempts /\ vendor[row.invitation] \in {"failed", "expired"}
          \/ row.superseded = {} /\ vendor[row'.pointer.attempt] = "failed"
          \/ \E p \in Pollers :
                /\ poller[p].pc = "write" /\ poller'[p].pc = "idle"
                /\ \/ poller[p].id # row.id
                   \/ poller[p].kind = "reconcile" /\ poller[p].pointer # row.pointer]_vars

\* A row that holds the result of its own attempt, as long as it is live.
OnAttempt(a) == Live(row) /\ row.invitation = a /\ row.pointer.attempt = a

\* A finished report reaches its row, also when all its webhooks are lost: the
\* reconciliation finds it.
ReportsReachTheRow ==
    \A a \in Attempts :
        (OnAttempt(a) /\ vendor[a] \in {"completed", "failed"}) ~> ~OnAttempt(a)
=============================================================================
