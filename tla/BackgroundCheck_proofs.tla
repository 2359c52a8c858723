------------------------ MODULE BackgroundCheck_proofs ------------------------
(***************************************************************************)
(* Proofs about BackgroundCheck, for any number of clients, webhook        *)
(* deliveries, pollers, rows, retries, faults and events: a held unit is   *)
(* never stranded, a finished check stays finished, a retried row points   *)
(* at its present attempt, a graduated pointer stays, and a failure has    *)
(* evidence.                                                               *)
(***************************************************************************)
EXTENDS BackgroundCheck, FiniteSetTheorems, TLAPS

-----------------------------------------------------------------------------
(* The invariant, in parts.                                                *)

VendorStates == {"none", "invited", "expired", "in_progress", "completed", "failed"}
ReportStates == {"in_progress", "completed", "failed"}
AnyPointer == Pointers \cup {NoPointer}
AnyAttempt == Attempts \cup {NoAttempt}

ClientStates == [pc : ClientPcs, id : 0 .. MaxRows, rerun : 0 .. MaxRetries,
                 status : Statuses \cup {"none"}, pointer : AnyPointer]
Deliveries == [pc : {"commit"}, id : 1 .. MaxRows, rerun : 0 .. MaxRetries,
               event : sent, direct : BOOLEAN]
PollerStates == [pc : {"idle", "fetch", "write"}, kind : {"sync", "reconcile"},
                 id : 0 .. MaxRows, status : Statuses \cup {"none"},
                 pointer : AnyPointer, invitation : AnyAttempt,
                 found : AnyPointer, next : Statuses \cup {"none"}]

(* The types; the row is the last one there has been.  Two deliveries in   *)
(* flight are of different events.                                         *)
Types ==
    /\ row \in Rows \cup {NoRow}
    /\ row # NoRow => row.id = rows /\ row.id \in 1 .. rows
    /\ rows \in 0 .. MaxRows
    /\ unit \in {"none", "held", "returned"}
    /\ vendor \in [Attempts -> VendorStates]
    /\ sent \subseteq Mails /\ IsFiniteSet(sent)
    /\ done \subseteq sent
    /\ client \in [Clients -> ClientStates]
    /\ hook \in [Hooks -> Deliveries \cup {IdleHook}]
    /\ poller \in [Pollers -> PollerStates]
    /\ faults \in 0 .. MaxFaults
    /\ deleted \in BOOLEAN
    /\ lost \in BOOLEAN
    /\ misled \in 0 .. rows
    /\ overtaken \in 0 .. rows

Undelivered ==
    \A h \in Hooks : hook[h] # IdleHook =>
        /\ hook[h].event \notin done
        /\ \A g \in Hooks \ {h} : hook[g] # IdleHook => hook[g].event # hook[h].event

Retrying(c) == client[c].pc \in {"retryVendor", "retrySwap"}

(* A call past its first step has a row's id; a retry has read a check that *)
(* failed or was cancelled.                                                 *)
ClientsKnow ==
    \A c \in Clients :
        /\ client[c].pc \notin {"idle", "create"} => client[c].id \in 1 .. rows
        /\ Retrying(c) => /\ client[c].rerun \in 1 .. MaxRetries
                          /\ client[c].status \in {"failed", "cancelled"}

(* Checkr tells the truth: an event says what the vendor's check has        *)
(* reached, and a terminal state of it stays.                               *)
EventsAreTrue ==
    \A e \in sent :
        /\ IsReport(e) => /\ vendor[e.attempt] \in ReportStates
                          /\ e.status \in ReportStates
                          /\ e.status \in Terminal => vendor[e.attempt] = e.status
        /\ ~IsReport(e) => /\ e.status \in {"in_progress", "failed"}
                           /\ e.status = "failed" => vendor[e.attempt] = "expired"

(* A pointer to a report points at a report there is, and a pointer to an   *)
(* invitation at the row's.  A row without a pointer has not been retried.  *)
PointsRight(pointer, invitation) ==
    /\ pointer.kind = "report" => vendor[pointer.attempt] \in ReportStates
    /\ pointer.kind = "invitation" => pointer = Invitation(invitation)

RowPointsRight ==
    row # NoRow =>
        /\ PointsRight(row.pointer, row.invitation)
        /\ row.pointer = NoPointer => row.superseded = {} /\ row.rerun = 0
        /\ row.status = "completed" /\ row.pointer = NoPointer => row.attached
        /\ row.attached => row.status = "completed"

(* What a poller has found is what the vendor says.                         *)
KnowsVendor(p) ==
    /\ poller[p].pointer \in Pointers
    /\ PointsRight(poller[p].pointer, poller[p].invitation)
    /\ poller[p].status \in Statuses \ Terminal
    /\ poller[p].pc = "fetch" => poller[p].found = NoPointer
    /\ poller[p].pc = "write" => poller[p].next # "none"
    /\ poller[p].pc = "write" /\ poller[p].found # NoPointer =>
          /\ poller[p].found \in {poller[p].pointer, Report(poller[p].invitation)}
          /\ poller[p].found.kind = "report"
          /\ vendor[poller[p].found.attempt] \in ReportStates
          /\ poller[p].next \in ReportStates
          /\ poller[p].next = "failed" => vendor[poller[p].found.attempt] = "failed"
    /\ poller[p].pc = "write" /\ poller[p].found = NoPointer =>
          \/ poller[p].next = poller[p].status
          \/ /\ poller[p].next = "failed"
             /\ poller[p].invitation \in Attempts
             /\ vendor[poller[p].invitation] = "expired"

PollersKnow == \A p \in Pollers : poller[p].pc # "idle" => KnowsVendor(p)

(* The requests past their claim have claims of their own.                  *)
Claiming(c) == client[c].pc \in {"charge", "payment", "vendor", "persist", "refund",
                                "refundDelete", "refundMark", "delete", "mark"}
Owing(c) == client[c].pc \in {"payment", "vendor", "persist", "refund",
                             "refundDelete", "refundMark"}

ClaimsDiffer ==
    \A c, d \in Clients :
        Claiming(c) /\ Claiming(d) /\ client[c].id = client[d].id => c = d

(* A held unit is owed by a request that will give it back, or stands for   *)
(* the check of a row that no request will remove.                          *)
Settled == /\ row # NoRow
           /\ row.pointer # NoPointer \/ row.attached
           /\ \A c \in Clients : Claiming(c) => client[c].id # row.id

UnitIsCovered ==
    ~lost /\ ~deleted /\ unit = "held" => (\E c \in Clients : Owing(c)) \/ Settled

(* No vendor check is older than its row: the first rows' checks come first. *)
Ordered ==
    /\ \A a \in Attempts : vendor[a] # "none" => a[1] \in 1 .. rows
    /\ row # NoRow => row.pointer.attempt[1] <= row.id
    /\ \A h \in Hooks : hook[h] # IdleHook => hook[h].id \in 1 .. rows
    /\ \A p \in Pollers : poller[p].pc # "idle" =>
          poller[p].id \in 1 .. rows /\ poller[p].pointer.attempt[1] <= poller[p].id

(* The attempts of a row run up to its rerun, and one further while a retry *)
(* is under way, which a row that is live has none of; what is superseded   *)
(* lies behind the rerun, and the invitation is the rerun's.                *)
OwnAttempts ==
    /\ \A k \in 0 .. MaxRetries : vendor[<<row.id, k>>] # "none" =>
          k <= row.rerun \/ (k = row.rerun + 1 /\ row.status \in Terminal)
    /\ \A k \in 0 .. MaxRetries : row.pointer.attempt = <<row.id, k>> => k <= row.rerun
    /\ \A p \in row.superseded, k \in 0 .. MaxRetries :
          p.attempt = <<row.id, k>> => k < row.rerun
    /\ row.invitation \in {NoAttempt, <<row.id, row.rerun>>}

(* A retry that is behind has read a pointer that is superseded; one that   *)
(* is not has read what the row, finished since, still shows.               *)
Behind(c) == /\ client[c].rerun <= row.rerun
             /\ client[c].pointer \in row.superseded \cup {NoPointer}
Ahead(c) == /\ client[c].rerun = row.rerun + 1
            /\ row.status \in Terminal
            /\ client[c].pointer = row.pointer

RetriesKnow ==
    \A c \in Clients : Retrying(c) /\ client[c].id = row.id => Behind(c) \/ Ahead(c)

(* A delivery resolved since the last retry brings the report of the row's  *)
(* present attempt, or finds a report there.                                *)
HookKnows(h) ==
    /\ hook[h].rerun <= row.rerun
    /\ hook[h].rerun = row.rerun /\ IsReport(hook[h].event) /\ row.superseded # {} =>
          hook[h].event.attempt = row.invitation \/ row.pointer.kind = "report"

HooksKnow == \A h \in Hooks : hook[h] # IdleHook /\ hook[h].id = row.id => HookKnows(h)

(* A poll that has read the row's present pointer has read its invitation.  *)
PollReads(p) ==
    /\ row.pointer # NoPointer
    /\ \A k \in 0 .. MaxRetries :
          poller[p].pointer.attempt = <<row.id, k>> => k <= row.rerun
    /\ row.superseded = {} \/ poller[p].pointer = Report(row.invitation) =>
          poller[p].invitation = row.invitation

PollsRead ==
    \A p \in Pollers : poller[p].pc # "idle" /\ poller[p].id = row.id => PollReads(p)

(* What the row points at is of its present attempt.                        *)
PointsAtPresent == row.superseded # {} => row.pointer.attempt = row.invitation

RowOwns == OwnAttempts /\ RetriesKnow /\ HooksKnow /\ PollsRead /\ PointsAtPresent

CheckInv ==
    /\ Types
    /\ Undelivered
    /\ ClientsKnow
    /\ EventsAreTrue
    /\ RowPointsRight
    /\ PollersKnow

AttemptInv == Ordered /\ (row # NoRow /\ ~Astray => RowOwns)

-----------------------------------------------------------------------------
(* How the calls of the API move.                                          *)

OthersWait(c) == \A d \in Clients \ {c} : client'[d] = client[d]

Moved(c, pc) ==
    /\ OthersWait(c)
    /\ client'[c].pc = pc
    /\ client'[c].id = client[c].id
    /\ client'[c].rerun = client[c].rerun
    /\ client'[c].status = client[c].status
    /\ client'[c].pointer = client[c].pointer

Ended(c) == OthersWait(c) /\ client'[c] = IdleClient

LEMMA GotoMoves ==
    ASSUME client \in [Clients -> ClientStates], NEW c \in Clients,
           NEW pc \in ClientPcs, Goto(c, pc)
    PROVE  Moved(c, pc) /\ client' \in [Clients -> ClientStates]
<1>1. client[c] \in ClientStates
  OBVIOUS
<1>2. [client[c] EXCEPT !.pc = pc] \in ClientStates
  BY <1>1 DEF ClientStates
<1>3. client' = [client EXCEPT ![c] = [client[c] EXCEPT !.pc = pc]]
  BY DEF Goto
<1> QED
  BY <1>1, <1>2, <1>3 DEF Moved, OthersWait, ClientStates

LEMMA IdleIsTyped == IdleClient \in ClientStates /\ IdlePoller \in PollerStates
BY CheckBounds
   DEF IdleClient, IdlePoller, ClientStates, PollerStates, ClientPcs, AnyPointer, AnyAttempt

LEMMA ReturnEnds ==
    ASSUME client \in [Clients -> ClientStates], NEW c \in Clients, Return(c)
    PROVE  Ended(c) /\ client' \in [Clients -> ClientStates]
BY IdleIsTyped DEF Return, Ended, OthersWait

LEMMA AfterRefundMoves ==
    ASSUME client \in [Clients -> ClientStates], NEW c \in Clients,
           client[c].pc \in {"refund", "refundDelete", "refundMark"}, AfterRefund(c)
    PROVE  /\ client' \in [Clients -> ClientStates]
           /\ \/ Ended(c)
              \/ client[c].pc = "refundDelete" /\ Moved(c, "delete")
              \/ client[c].pc = "refundMark" /\ Moved(c, "mark")
<1>1. CASE client[c].pc = "refund"
  BY <1>1, ReturnEnds DEF AfterRefund
<1>2. CASE client[c].pc = "refundDelete"
  BY <1>2, GotoMoves DEF AfterRefund, ClientPcs
<1>3. CASE client[c].pc = "refundMark"
  BY <1>3, GotoMoves DEF AfterRefund, ClientPcs
<1> QED
  BY <1>1, <1>2, <1>3

(* The pairs of program counters of a call's own steps, which keep what it *)
(* has read; and the steps that begin a call.                              *)
Steps == {<<"charge", "payment">>, <<"charge", "delete">>, <<"payment", "vendor">>,
          <<"payment", "refundDelete">>, <<"vendor", "persist">>,
          <<"vendor", "refundMark">>, <<"persist", "refund">>,
          <<"persist", "refundMark">>, <<"refundDelete", "delete">>,
          <<"refundMark", "mark">>, <<"retryVendor", "retrySwap">>}

Begun(c) ==
    /\ OthersWait(c)
    /\ \/ client[c].pc = "idle" /\ client'[c].pc = "create" /\ row' = NoRow
       \/ /\ client[c].pc = "create" /\ client'[c].pc = "charge"
          /\ client'[c].id = rows + 1 /\ rows' = rows + 1
          /\ row = NoRow
       \/ /\ client[c].pc = "idle" /\ client'[c].pc = "attach"
          /\ client'[c].id \in 1 .. rows' /\ row' # NoRow
       \/ /\ client[c].pc = "idle" /\ client'[c].pc = "retryVendor"
          /\ row # NoRow /\ row' = row
          /\ row.status \in {"failed", "cancelled"}
          /\ row.rerun + 1 \in 1 .. MaxRetries
          /\ client'[c].id = row.id /\ client'[c].rerun = row.rerun + 1
          /\ client'[c].status = row.status /\ client'[c].pointer = row.pointer

ClientStep ==
    \/ UNCHANGED client
    \/ \E c \in Clients : \/ Begun(c)
                          \/ client[c].pc # "idle" /\ Ended(c)
                          \/ \E s \in Steps : client[c].pc = s[1] /\ Moved(c, s[2])

LEMMA MovesAlong ==
    ASSUME Types, NEW c \in Clients,
           NEW pc \in ClientPcs, <<client[c].pc, pc>> \in Steps, Goto(c, pc)
    PROVE  ClientStep /\ client' \in [Clients -> ClientStates]
<1>1. Moved(c, pc) /\ client' \in [Clients -> ClientStates]
  BY GotoMoves DEF Types
<1>2. PICK s \in Steps : s = <<client[c].pc, pc>>
  OBVIOUS
<1>3. s[1] = client[c].pc /\ s[2] = pc
  BY <1>2
<1> QED
  BY <1>1, <1>3 DEF ClientStep

-----------------------------------------------------------------------------
(* What a step does to the row.                                            *)

Written(status, pointer, invitation, superseded, rerun, attached) ==
    /\ row # NoRow /\ row' # NoRow /\ row' \in Rows
    /\ row'.id = row.id
    /\ row'.status = status
    /\ row'.pointer = pointer
    /\ row'.invitation = invitation
    /\ row'.superseded = superseded
    /\ row'.rerun = rerun
    /\ row'.attached = attached

Stays == row' = row \/ Written(row.status, row.pointer, row.invitation,
                               row.superseded, row.rerun, row.attached)
Born == row = NoRow /\ row' = NewRow(rows + 1) /\ rows' = rows + 1
Gone == row # NoRow /\ row' = NoRow

Persisted ==
    LET a == <<row.id, 0>> IN
    /\ Written("invited", Invitation(a), a, row.superseded, row.rerun, row.attached)
    /\ row.pointer = NoPointer /\ row.status \notin Terminal
MarkedFailed ==
    /\ Written("failed", row.pointer, row.invitation, row.superseded, row.rerun,
               row.attached)
    /\ row.pointer = NoPointer /\ row.status \notin Terminal
Cancelled ==
    /\ Written("cancelled", row.pointer, row.invitation, row.superseded, row.rerun,
               row.attached)
    /\ row.status \notin Terminal
Completed ==
    Written("completed", row.pointer, row.invitation, row.superseded, row.rerun, TRUE)

Swapped(c) ==
    LET a == <<client[c].id, client[c].rerun>> IN
    /\ client[c].pc = "retrySwap" /\ Ended(c)
    /\ Written("invited", Invitation(a), a,
               row.superseded \cup ({row.pointer} \ {NoPointer}), client[c].rerun,
               row.attached)
    /\ row.status = client[c].status /\ row.pointer = client[c].pointer
    /\ misled' = IF row.id # client[c].id THEN row.id ELSE misled
    /\ UNCHANGED <<rows, overtaken>>

(* An event applied to the row it was resolved to.                         *)
Applied(h) ==
    LET e == hook[h].event IN
    /\ hook[h] # IdleHook /\ row.id = hook[h].id
    /\ row.status \notin Terminal
    /\ Written(row'.status, row'.pointer, row.invitation, row.superseded, row.rerun,
               row.attached)
    /\ IsReport(e) =>
          /\ row'.status = e.status /\ row'.pointer = Report(e.attempt)
          /\ \/ row.pointer \in {NoPointer, Report(e.attempt)}
             \/ /\ row.pointer = Invitation(row.invitation)
                /\ Report(e.attempt) \notin row.superseded
          /\ \/ overtaken' = row.id
             \/ hook[h].rerun = row.rerun
             \/ e.attempt = row.invitation
             \/ Report(e.attempt) \in row.superseded
    /\ ~IsReport(e) =>
          /\ row'.pointer = row.pointer
          /\ \/ row'.status = row.status
             \/ row'.status = e.status /\ e.status \notin Terminal
             \/ /\ row'.status = e.status /\ row.status = "invited"
                /\ \/ row.pointer = Invitation(e.attempt)
                   \/ row.invitation = e.attempt
    /\ overtaken' \in {overtaken, row.id}
    /\ UNCHANGED <<rows, misled>>

Misread(p) == /\ poller[p].pc = "write" /\ poller'[p].pc = "idle"
              /\ \/ poller[p].id # row.id
                 \/ poller[p].kind = "reconcile" /\ poller[p].pointer # row.pointer

(* What a poller has found, written to a row that shows the pointer it read; *)
(* or that there is no report, which may be meant for another row or pointer. *)
FoundWritten(p) ==
    /\ poller[p].found # NoPointer
    /\ row.pointer = poller[p].pointer /\ row'.pointer = poller[p].found
    /\ row'.status \in {row.status, poller[p].next}

MissingWritten(p) ==
    /\ poller[p].found = NoPointer /\ poller[p].next = "failed"
    /\ row'.status = "failed" /\ row'.pointer = row.pointer
    /\ \/ row.pointer = poller[p].pointer /\ row.id = poller[p].id
       \/ Misread(p)

Polled(p) ==
    /\ poller[p].pc = "write"
    /\ row.status \notin Terminal /\ row.pointer # NoPointer
    /\ Written(row'.status, row'.pointer, row.invitation, row.superseded, row.rerun,
               row.attached)
    /\ FoundWritten(p) \/ MissingWritten(p)

Aside == UNCHANGED <<rows, misled, overtaken>>

RowStep ==
    \/ Stays /\ Aside
    \/ Born /\ UNCHANGED <<misled, overtaken>>
    \/ Gone /\ Aside
    \/ (Persisted \/ MarkedFailed \/ Cancelled \/ Completed) /\ Aside
    \/ \E c \in Clients : Swapped(c)
    \/ \E h \in Hooks : Applied(h)
    \/ (\E p \in Pollers : Polled(p)) /\ Aside

LEMMA NoRowIsNone == NoRow \notin Rows /\ NoRow.id = 0
BY DEF NoRow, Rows

LEMMA PointersAre ==
    /\ \A a \in Attempts : /\ Invitation(a) \in Pointers /\ Report(a) \in Pointers
                           /\ Invitation(a) # Report(a)
                           /\ Invitation(a) # NoPointer /\ Report(a) # NoPointer
                           /\ Invitation(a).kind = "invitation"
                           /\ Report(a).kind = "report"
                           /\ Invitation(a).attempt = a /\ Report(a).attempt = a
    /\ \A p \in Pointers : /\ p.attempt \in Attempts
                           /\ p = Invitation(p.attempt) \/ p = Report(p.attempt)
                           /\ p # NoPointer
    /\ NoPointer \notin Pointers /\ NoPointer.kind = "none"
BY DEF Invitation, Report, Pointers, NoPointer

LEMMA NewRowIsTyped ==
    ASSUME NEW id \in 1 .. MaxRows
    PROVE  NewRow(id) \in Rows /\ NewRow(id) # NoRow
BY CheckBounds DEF NewRow, Rows, NoRow, NoTime, Statuses

LEMMA Attempts0 ==
    /\ \A i \in 1 .. MaxRows, k \in 0 .. MaxRetries : <<i, k>> \in Attempts
    /\ \A a \in Attempts : /\ a[1] \in 1 .. MaxRows /\ a[2] \in 0 .. MaxRetries
                           /\ a = <<a[1], a[2]>>
BY DEF Attempts

LEMMA PersistPaymentWrites ==
    ASSUME Types, NEW c \in Clients, PersistPayment(c), client[c].id \in 1 .. rows
    PROVE  Stays
<1>1. CASE row.id = client[c].id
  <2>1. row \in Rows /\ row' = [row EXCEPT !.fresh = TRUE]
    BY <1>1, NoRowIsNone DEF PersistPayment, Types
  <2> QED
    BY <2>1, NoRowIsNone DEF Stays, Written, Rows
<1>2. CASE row.id # client[c].id
  BY <1>2 DEF PersistPayment, Stays
<1> QED
  BY <1>1, <1>2

LEMMA PersistResultWrites ==
    ASSUME Types, NEW c \in Clients, PersistResult(c), client[c].id \in 1 .. rows
    PROVE  Persisted /\ row.id = client[c].id
<1> DEFINE a == <<client[c].id, 0>>
<1>1. /\ row \in Rows /\ row.id = client[c].id
      /\ row.pointer = NoPointer /\ row.status \notin Terminal
      /\ row' = [row EXCEPT !.pointer = Invitation(a), !.invitation = a,
                            !.status = "invited", !.fresh = TRUE]
  BY NoRowIsNone DEF PersistResult, Types, Unswapped, Owns
<1>2. a \in Attempts /\ Invitation(a) \in Pointers
  <2>1. rows \in 0 .. MaxRows
    BY DEF Types
  <2>2. client[c].id \in 1 .. MaxRows /\ 0 \in 0 .. MaxRetries
    BY <2>1, CheckBounds
  <2> QED
    BY <2>2, Attempts0, PointersAre
<1> HIDE DEF a
<1>3. row' \in Rows
  BY <1>1, <1>2 DEF Rows, Statuses
<1>4. /\ row'.id = row.id /\ row'.status = "invited" /\ row'.pointer = Invitation(a)
      /\ row'.invitation = a /\ row'.superseded = row.superseded
      /\ row'.rerun = row.rerun /\ row'.attached = row.attached
  BY <1>1 DEF Rows
<1> QED
  BY <1>1, <1>3, <1>4, NoRowIsNone DEF Persisted, Written, a

LEMMA MarkFailedWrites ==
    ASSUME Types, NEW c \in Clients, MarkFailed(c), client[c].id \in 1 .. rows
    PROVE  Stays \/ MarkedFailed
<1>1. CASE Unswapped(c)
  <2>1. /\ row \in Rows /\ row.pointer = NoPointer /\ row.status \notin Terminal
        /\ row' = [row EXCEPT !.status = "failed", !.fresh = TRUE]
    BY <1>1, NoRowIsNone DEF MarkFailed, Types, Unswapped, Owns
  <2>2. row' \in Rows
    <3>1. "failed" \in Statuses
      BY DEF Statuses, Terminal
    <3>2. \A x \in Rows, s \in Statuses : [x EXCEPT !.status = s, !.fresh = TRUE] \in Rows
      BY DEF Rows
    <3> QED
      BY <2>1, <3>1, <3>2
  <2>3. /\ row'.status = "failed" /\ row'.id = row.id /\ row'.pointer = row.pointer
        /\ row'.invitation = row.invitation /\ row'.superseded = row.superseded
        /\ row'.rerun = row.rerun /\ row'.attached = row.attached
    BY <2>1 DEF Rows
  <2> QED
    BY <2>1, <2>2, <2>3, NoRowIsNone DEF MarkedFailed, Written
<1>2. CASE ~Unswapped(c)
  BY <1>2 DEF MarkFailed, Stays
<1> QED
  BY <1>1, <1>2

LEMMA RetrySwapWrites ==
    ASSUME Types, ClientsKnow, NEW c \in Clients, RetrySwap(c)
    PROVE  Ended(c) /\ (Swapped(c) \/ (Stays /\ Aside))
<1> DEFINE a == <<client[c].id, client[c].rerun>>
<1>1. Ended(c)
  BY ReturnEnds DEF RetrySwap, Types
<1>2. CASE Unchanged(c)
  <2>1. /\ row \in Rows /\ row # NoRow
        /\ row.status = client[c].status /\ row.pointer = client[c].pointer
        /\ row' = [row EXCEPT !.pointer = Invitation(a), !.invitation = a,
                              !.status = "invited", !.rerun = client[c].rerun,
                              !.superseded = @ \cup ({row.pointer} \ {NoPointer}),
                              !.fresh = TRUE]
        /\ misled' = IF row.id # client[c].id THEN row.id ELSE misled
        /\ client[c].pc = "retrySwap" /\ UNCHANGED <<rows, overtaken>>
    BY <1>2 DEF RetrySwap, Unchanged, Types
  <2>2. client[c].rerun \in 0 .. MaxRetries /\ client[c].id \in 1 .. MaxRows
    BY <2>1, CheckBounds DEF ClientsKnow, Retrying, Types
  <2>3. a \in Attempts /\ Invitation(a) \in Pointers
    BY <2>2, Attempts0, PointersAre
  <2> DEFINE sup == row.superseded \cup ({row.pointer} \ {NoPointer})
  <2> HIDE DEF a
  <2>4. sup \in SUBSET Pointers
    BY <2>1 DEF Rows
  <2>5. row' = [row EXCEPT !.pointer = Invitation(a), !.invitation = a,
                           !.status = "invited", !.rerun = client[c].rerun,
                           !.superseded = sup, !.fresh = TRUE]
    BY <2>1
  <2> HIDE DEF sup
  <2>6. row' \in Rows
    <3>1. [row EXCEPT !.pointer = Invitation(a), !.invitation = a, !.fresh = TRUE] \in Rows
      BY <2>1, <2>3 DEF Rows
    <3>2. \A x \in Rows : [x EXCEPT !.status = "invited", !.rerun = client[c].rerun,
                                   !.superseded = sup] \in Rows
      BY <2>2, <2>4 DEF Rows, Statuses
    <3> QED
      BY <2>5, <3>1, <3>2
  <2>7. /\ row'.id = row.id /\ row'.status = "invited" /\ row'.pointer = Invitation(a)
        /\ row'.invitation = a /\ row'.superseded = sup
        /\ row'.rerun = client[c].rerun /\ row'.attached = row.attached
    BY <2>1, <2>5 DEF Rows
  <2> QED
    BY <1>1, <2>1, <2>6, <2>7, NoRowIsNone DEF Swapped, Written, a, sup
<1>3. CASE ~Unchanged(c)
  BY <1>1, <1>3 DEF RetrySwap, Stays, Aside
<1> QED
  BY <1>2, <1>3

LEMMA UserWrites ==
    ASSUME Types, Cancel \/ Idle
    PROVE  Stays \/ Cancelled
<1>1. row \in Rows /\ row.status \notin Terminal
  BY DEF Cancel, Idle, Live, Types
<1>2. CASE Cancel
  BY <1>1, <1>2, NoRowIsNone DEF Cancel, Cancelled, Written, Rows, Statuses, Terminal
<1>3. CASE Idle
  BY <1>1, <1>3, NoRowIsNone DEF Idle, Stays, Written, Rows
<1> QED
  BY <1>2, <1>3

LEMMA AttachCompleteWrites ==
    ASSUME Types, NEW c \in Clients, AttachComplete(c), client[c].id \in 1 .. rows
    PROVE  Stays \/ Completed
<1>1. CASE Owns(c)
  <2>1. /\ row \in Rows
        /\ row' = [row EXCEPT !.status = "completed", !.attached = TRUE, !.fresh = TRUE]
    BY <1>1, NoRowIsNone DEF AttachComplete, Types, Owns
  <2> QED
    BY <2>1, NoRowIsNone DEF Completed, Written, Rows, Statuses, Terminal
<1>2. CASE ~Owns(c)
  BY <1>2 DEF AttachComplete, Stays
<1> QED
  BY <1>1, <1>2

LEMMA CommitWrites ==
    ASSUME Types, NEW h \in Hooks, Commit(h)
    PROVE  /\ hook[h] \in Deliveries /\ hook[h].event \in sent
           /\ (Stays /\ Aside) \/ Applied(h)
<1> DEFINE e == hook[h].event
           pointer == IF IsReport(e) THEN PointerOf(e) ELSE row.pointer
           status == IF WritesStatus(row, e) THEN e.status ELSE row.status
<1>1. hook[h] \in Deliveries
  BY DEF Types, Commit, IdleHook
<1>2. /\ hook[h].id \in 1 .. MaxRows /\ e \in sent /\ hook[h].direct \in BOOLEAN
  BY <1>1 DEF Deliveries
<1>3. /\ e \in Mails /\ e.attempt \in Attempts /\ e.status \in Statuses /\ e.time \in Nat
      /\ e.kind \in {"invitation", "report"}
  BY <1>2 DEF Types, Mails
<1>4. PointerOf(e) = IF IsReport(e) THEN Report(e.attempt) ELSE Invitation(e.attempt)
  BY <1>3 DEF PointerOf, IsReport, Report, Invitation
<1>5. CASE ~Applies(h)
  BY <1>2, <1>1, <1>5 DEF Commit, Stays, Aside, others
<1>6. CASE Applies(h)
  <2>1. row \in Rows /\ row # NoRow /\ row.id = hook[h].id
    BY <1>2, <1>6, NoRowIsNone DEF Types, Applies
  <2>2. row' = [row EXCEPT !.pointer = pointer, !.status = status,
                           !.watermark = e.time, !.fresh = TRUE]
    BY <1>6 DEF Commit
  <2>3. pointer \in Pointers \cup {NoPointer} /\ status \in Statuses
    BY <1>3, <1>4, <2>1, PointersAre DEF Rows
  <2>4. row.status \notin Terminal
    BY <1>6 DEF Applies, Refused
  <2>5. IsReport(e) => status = e.status /\ pointer = Report(e.attempt)
    BY <1>4 DEF WritesStatus
  <2>6. ASSUME IsReport(e)
        PROVE  \/ row.pointer \in {NoPointer, Report(e.attempt)}
               \/ /\ row.pointer = Invitation(row.invitation)
                  /\ Report(e.attempt) \notin row.superseded
    BY <1>4, <1>6, <2>6 DEF Applies, Refused, Stale, EffectiveVia
  <2>7. ASSUME ~IsReport(e)
        PROVE  /\ pointer = row.pointer
               /\ \/ status = row.status
                  \/ status = e.status /\ e.status \notin Terminal
                  \/ /\ status = e.status /\ row.status = "invited"
                     /\ \/ row.pointer = Invitation(e.attempt)
                        \/ row.invitation = e.attempt
    BY <1>4, <1>6, <2>7 DEF Applies, Refused, Foreign, WritesStatus
  <2>10. /\ overtaken' \in {overtaken, row.id} /\ UNCHANGED <<rows, misled>>
         /\ hook[h] # IdleHook
    BY DEF Commit, others, IdleHook
  <2>11. IsReport(e) => \/ overtaken' = row.id
                        \/ hook[h].rerun = row.rerun
                        \/ e.attempt = row.invitation
                        \/ Report(e.attempt) \in row.superseded
    BY <1>4, <1>6 DEF Commit, Overtakes
  <2> HIDE DEF pointer, status
  <2>8. row' \in Rows
    BY <1>3, <2>1, <2>2, <2>3 DEF Rows
  <2>9. /\ row'.id = row.id /\ row'.status = status /\ row'.pointer = pointer
        /\ row'.invitation = row.invitation /\ row'.superseded = row.superseded
        /\ row'.rerun = row.rerun /\ row'.attached = row.attached
    BY <2>1, <2>2 DEF Rows
  <2> QED
    BY <1>1, <1>2, <2>1, <2>4, <2>5, <2>6, <2>7, <2>8, <2>9, <2>10, <2>11, NoRowIsNone
       DEF Applied, Written
<1> QED
  BY <1>5, <1>6

(* A poller writes a row that shows the pointer it has read.               *)
LEMMA FetchFailsWrites ==
    ASSUME Types, PollersKnow, NEW p \in Pollers, FetchFails(p)
    PROVE  Stays \/ Polled(p)
<1> DEFINE moves == poller[p].kind = "sync" /\ poller[p].found # NoPointer
           pointer == IF moves THEN poller[p].found ELSE row.pointer
<1>1. CASE ~Writable(p)
  BY <1>1 DEF FetchFails, Stays
<1>2. CASE Writable(p)
  <2>1. /\ row \in Rows /\ row # NoRow /\ row.status \notin Terminal
        /\ (poller[p].kind = "sync" => row.pointer = poller[p].pointer)
    BY <1>2 DEF Types, Writable, SamePointer, SameRow, Live
  <2>2. row' = [row EXCEPT !.fresh = TRUE, !.pointer = pointer]
    BY <1>2 DEF FetchFails
  <2>3. CASE ~moves
    <3>1. row' = [row EXCEPT !.fresh = TRUE, !.pointer = row.pointer]
      BY <2>2, <2>3
    <3> QED
      BY <2>1, <3>1, NoRowIsNone DEF Stays, Written, Rows
  <2>4. CASE moves
    <3>1. KnowsVendor(p) /\ poller[p].pc = "write"
      BY <2>4 DEF FetchFails, PollersKnow, KnowsVendor
    <3>2. /\ row.pointer = poller[p].pointer /\ row.pointer # NoPointer
          /\ poller[p].found \in Pointers /\ poller[p].found # NoPointer
      BY <2>1, <2>4, <3>1, PointersAre DEF KnowsVendor, Types, PollerStates, AnyPointer
    <3>3. row' = [row EXCEPT !.fresh = TRUE, !.pointer = poller[p].found]
      BY <2>2, <2>4
    <3>4. /\ row' \in Rows /\ row'.id = row.id /\ row'.status = row.status
          /\ row'.pointer = poller[p].found
          /\ row'.invitation = row.invitation /\ row'.superseded = row.superseded
          /\ row'.rerun = row.rerun /\ row'.attached = row.attached
      BY <2>1, <3>2, <3>3 DEF Rows
    <3>5. FoundWritten(p)
      BY <3>2, <3>4 DEF FoundWritten
    <3> QED
      BY <2>1, <3>1, <3>2, <3>4, <3>5, NoRowIsNone DEF Polled, Written
  <2> QED
    BY <2>3, <2>4
<1> QED
  BY <1>1, <1>2

LEMMA WriteReportWrites ==
    ASSUME Types, PollersKnow, NEW p \in Pollers, WriteReport(p)
    PROVE  Stays \/ Polled(p)
<1>1. CASE ~SamePointer(p)
  BY <1>1 DEF WriteReport, Stays
<1>2. CASE SamePointer(p)
  <2> DEFINE status == IF Silent(p) THEN row.status ELSE poller[p].next
  <2>1. /\ row \in Rows /\ row # NoRow /\ row.status \notin Terminal
        /\ row.pointer = poller[p].pointer
        /\ row' = [row EXCEPT !.pointer = poller[p].found, !.fresh = TRUE,
                              !.status = status]
    BY <1>2 DEF WriteReport, SamePointer, Live, Types
  <2>2. /\ poller[p].pc = "write" /\ poller[p].found # NoPointer
        /\ KnowsVendor(p)
    BY DEF WriteReport, PollersKnow
  <2>3. /\ row.pointer # NoPointer /\ poller[p].found \in Pointers
        /\ poller[p].next \in ReportStates
    BY <2>1, <2>2, PointersAre DEF KnowsVendor, Types, PollerStates, AnyPointer
  <2>4. status \in {row.status, poller[p].next} /\ status \in Statuses
    BY <2>1, <2>3 DEF Rows, ReportStates, Statuses, Terminal
  <2> HIDE DEF status
  <2>5. /\ row' \in Rows /\ row'.id = row.id /\ row'.status = status
        /\ row'.pointer = poller[p].found
        /\ row'.invitation = row.invitation /\ row'.superseded = row.superseded
        /\ row'.rerun = row.rerun /\ row'.attached = row.attached
    BY <2>1, <2>3, <2>4 DEF Rows
  <2>6. FoundWritten(p)
    BY <2>1, <2>2, <2>4, <2>5 DEF FoundWritten
  <2> QED
    BY <2>1, <2>2, <2>3, <2>5, <2>6, NoRowIsNone DEF Polled, Written
<1> QED
  BY <1>1, <1>2

LEMMA WriteMissingWrites ==
    ASSUME Types, NEW p \in Pollers, WriteMissing(p)
    PROVE  Stays \/ Polled(p) \/ MarkedFailed
<1>1. CASE ~Writable(p)
  BY <1>1 DEF WriteMissing, Stays
<1>2. CASE Writable(p)
  <2> DEFINE status == IF poller[p].next = "failed" THEN "failed" ELSE row.status
  <2>1. /\ row \in Rows /\ row # NoRow /\ row.status \notin Terminal
        /\ IF poller[p].kind = "sync" THEN row.pointer = poller[p].pointer
                                      ELSE row.id = poller[p].id
        /\ row' = [row EXCEPT !.fresh = TRUE, !.status = status]
    BY <1>2 DEF WriteMissing, Writable, SamePointer, SameRow, Live, Types
  <2>2. /\ row' \in Rows /\ row'.id = row.id /\ row'.status = status
        /\ row'.pointer = row.pointer
        /\ row'.invitation = row.invitation /\ row'.superseded = row.superseded
        /\ row'.rerun = row.rerun /\ row'.attached = row.attached
    BY <2>1 DEF Rows, Statuses, Terminal
  <2>3. CASE status = row.status
    BY <2>1, <2>2, <2>3, NoRowIsNone DEF Stays, Written
  <2>4. CASE status # row.status /\ row.pointer = NoPointer
    BY <2>1, <2>2, <2>4, NoRowIsNone DEF MarkedFailed, Written
  <2>5. CASE status # row.status /\ row.pointer # NoPointer
    <3>1. /\ poller[p].pc = "write" /\ poller[p].next = "failed"
          /\ poller[p].found = NoPointer /\ poller'[p].pc = "idle"
          /\ poller[p].kind \in {"sync", "reconcile"}
      BY <2>5 DEF WriteMissing, IdlePoller, Types, PollerStates
    <3>2. (row.pointer = poller[p].pointer /\ row.id = poller[p].id) \/ Misread(p)
      BY <2>1, <3>1 DEF Misread
    <3>3. MissingWritten(p)
      BY <2>2, <3>1, <3>2 DEF MissingWritten
    <3> QED
      BY <2>1, <2>2, <2>5, <3>1, <3>3, NoRowIsNone DEF Polled, Written
  <2> QED
    BY <2>3, <2>4, <2>5
<1> QED
  BY <1>1, <1>2

-----------------------------------------------------------------------------
(* What a step does at the vendor.                                         *)

VendorGrows ==
    \A a \in Attempts :
        /\ vendor[a] # "none" => vendor'[a] # "none"
        /\ vendor[a] \in ReportStates => vendor'[a] \in ReportStates
        /\ vendor[a] \in {"expired", "completed", "failed"} => vendor'[a] = vendor[a]

Asked(c) == IF client[c].pc = "vendor" THEN <<client[c].id, 0>>
            ELSE <<client[c].id, client[c].rerun>>

VendorStep ==
    /\ vendor' \in [Attempts -> VendorStates]
    /\ sent' \subseteq Mails /\ IsFiniteSet(sent') /\ sent \subseteq sent'
    /\ VendorGrows
    /\ EventsAreTrue'
    /\ \A a \in Attempts : vendor[a] = "none" /\ vendor'[a] # "none" =>
          \E c \in Clients : client[c].pc \in {"vendor", "retryVendor"} /\ a = Asked(c)

LEMMA QuietAtVendor ==
    ASSUME Types, EventsAreTrue, UNCHANGED <<vendor, sent>>
    PROVE  VendorStep
BY DEF VendorStep, Types, VendorGrows, EventsAreTrue

LEMMA SendSends ==
    ASSUME Types, NEW kind \in {"invitation", "report"}, NEW a \in Attempts,
           NEW status \in Statuses, Send(kind, a, status)
    PROVE  /\ sent' \subseteq Mails /\ IsFiniteSet(sent') /\ sent \subseteq sent'
           /\ \A e \in sent' \ sent :
                 e.kind = kind /\ e.attempt = a /\ e.status = status
<1> DEFINE time == IF kind = "report" THEN Cardinality(sent) + 1 ELSE NoTime
           mail1 == [kind |-> kind, attempt |-> a, status |-> status, time |-> time]
<1>1. Cardinality(sent) \in Nat
  BY FS_CardinalityType DEF Types
<1>2. time \in Nat
  BY <1>1 DEF NoTime
<1> HIDE DEF time
<1>3. mail1 \in Mails
  BY <1>2 DEF Mails
<1>4. sent' = sent \cup {mail1}
  BY DEF Send, time
<1>5. IsFiniteSet(sent')
  BY <1>4, FS_AddElement DEF Types
<1> QED
  BY <1>3, <1>4, <1>5 DEF Types

(* The events stay true when the vendor's checks move on.                  *)
LEMMA EventsStayTrue ==
    ASSUME Types, EventsAreTrue, VendorGrows, sent' \subseteq Mails,
           \A e \in sent' \ sent :
              /\ IsReport(e) => /\ vendor'[e.attempt] \in ReportStates
                                /\ e.status \in ReportStates
                                /\ e.status \in Terminal => vendor'[e.attempt] = e.status
              /\ ~IsReport(e) => /\ e.status \in {"in_progress", "failed"}
                                 /\ e.status = "failed" => vendor'[e.attempt] = "expired"
    PROVE  EventsAreTrue'
<1> SUFFICES ASSUME NEW e \in sent, e \in sent'
             PROVE  /\ IsReport(e) =>
                          /\ vendor'[e.attempt] \in ReportStates
                          /\ e.status \in ReportStates
                          /\ e.status \in Terminal => vendor'[e.attempt] = e.status
                    /\ ~IsReport(e) =>
                          /\ e.status \in {"in_progress", "failed"}
                          /\ e.status = "failed" => vendor'[e.attempt] = "expired"
  BY DEF EventsAreTrue, IsReport
<1>1. e.attempt \in Attempts
  BY DEF Types, Mails
<1> QED
  BY <1>1 DEF EventsAreTrue, VendorGrows, ReportStates, Terminal

LEMMA CreateAtVendorStarts ==
    ASSUME Types, EventsAreTrue, NEW a \in Attempts, CreateAtVendor(a),
           \E c \in Clients : client[c].pc \in {"vendor", "retryVendor"} /\ a = Asked(c)
    PROVE  VendorStep
<1>1. CASE vendor[a] = "none"
  <2>1. /\ vendor' = [vendor EXCEPT ![a] = "invited"]
        /\ Send("invitation", a, "in_progress")
    BY <1>1 DEF CreateAtVendor
  <2>2. /\ sent' \subseteq Mails /\ IsFiniteSet(sent') /\ sent \subseteq sent'
        /\ \A e \in sent' \ sent :
              e.kind = "invitation" /\ e.attempt = a /\ e.status = "in_progress"
    BY <2>1, SendSends DEF Statuses
  <2>3. vendor' \in [Attempts -> VendorStates] /\ VendorGrows
    BY <1>1, <2>1 DEF Types, VendorStates, ReportStates, VendorGrows
  <2>4. EventsAreTrue'
    BY <2>2, <2>3, EventsStayTrue DEF IsReport
  <2>5. \A b \in Attempts : vendor[b] = "none" /\ vendor'[b] # "none" => b = a
    BY <2>1 DEF Types
  <2> QED
    BY <2>2, <2>3, <2>4, <2>5 DEF VendorStep
<1>2. CASE vendor[a] # "none"
  BY <1>2, QuietAtVendor DEF CreateAtVendor
<1> QED
  BY <1>1, <1>2

LEMMA AdvanceStep ==
    ASSUME Types, EventsAreTrue, NEW a \in Attempts, Advance(a)
    PROVE  VendorStep
<1>1. ASSUME NEW kind \in {"invitation", "report"}, NEW from, NEW to, NEW status,
             vendor[a] = from, vendor' = [vendor EXCEPT ![a] = to],
             Send(kind, a, status),
             \/ /\ kind = "report" /\ from = "invited" /\ to = "in_progress"
                /\ status = "in_progress"
             \/ /\ kind = "invitation" /\ from = "invited" /\ to = "expired"
                /\ status = "failed"
             \/ /\ kind = "report" /\ from = "in_progress"
                /\ to \in {"completed", "failed"} /\ status = to
      PROVE  VendorStep
  <2>1. status \in Statuses
    BY <1>1 DEF Statuses, Terminal
  <2>2. /\ sent' \subseteq Mails /\ IsFiniteSet(sent') /\ sent \subseteq sent'
        /\ \A e \in sent' \ sent : e.kind = kind /\ e.attempt = a /\ e.status = status
    BY <1>1, <2>1, SendSends
  <2>3. /\ vendor' \in [Attempts -> VendorStates]
        /\ vendor'[a] = to /\ \A b \in Attempts \ {a} : vendor'[b] = vendor[b]
    BY <1>1 DEF Types, VendorStates
  <2>4. VendorGrows
    BY <1>1, <2>3 DEF ReportStates, VendorGrows
  <2>5. EventsAreTrue'
    BY <1>1, <2>2, <2>3, <2>4, EventsStayTrue DEF IsReport, ReportStates, Terminal
  <2>6. \A b \in Attempts : ~(vendor[b] = "none" /\ vendor'[b] # "none")
    BY <1>1, <2>3
  <2> QED
    BY <2>2, <2>3, <2>4, <2>5, <2>6 DEF VendorStep
<1>2. CASE /\ vendor[a] = "invited" /\ vendor' = [vendor EXCEPT ![a] = "in_progress"]
           /\ Send("report", a, "in_progress")
  BY <1>1, <1>2
<1>3. CASE /\ vendor[a] = "invited" /\ vendor' = [vendor EXCEPT ![a] = "expired"]
           /\ Send("invitation", a, "failed")
  BY <1>1, <1>3
<1>4. ASSUME NEW s \in {"completed", "failed"}, vendor[a] = "in_progress",
             vendor' = [vendor EXCEPT ![a] = s], Send("report", a, s)
      PROVE  VendorStep
  BY <1>1, <1>4
<1> QED
  BY <1>2, <1>3, <1>4 DEF Advance

-----------------------------------------------------------------------------
(* Every step is of these kinds, and keeps the types.                      *)

LEMMA RowFollows ==
    ASSUME Types, ClientsKnow, RowStep, rows' \in rows .. MaxRows
    PROVE  /\ row' \in Rows \cup {NoRow}
           /\ row' # NoRow => row'.id = rows' /\ row'.id \in 1 .. rows'
           /\ misled' \in 0 .. rows' /\ overtaken' \in 0 .. rows'
<1>1. rows \in Nat /\ rows' \in Nat /\ rows <= rows' /\ rows' <= MaxRows
  BY CheckBounds DEF Types
<1>2. /\ misled \in 0 .. rows' /\ overtaken \in 0 .. rows'
      /\ row # NoRow => row.id = rows /\ row.id \in 1 .. rows'
  BY <1>1 DEF Types
<1>3. CASE Stays /\ Aside
  BY <1>1, <1>2, <1>3 DEF Stays, Written, Aside, Types
<1>4. CASE Born /\ UNCHANGED <<misled, overtaken>>
  BY <1>1, <1>2, <1>4, NewRowIsTyped DEF Born, NewRow
<1>5. CASE Gone /\ Aside
  BY <1>2, <1>5 DEF Gone, Aside
<1>6. CASE (Persisted \/ MarkedFailed \/ Cancelled \/ Completed) /\ Aside
  BY <1>2, <1>6 DEF Persisted, MarkedFailed, Cancelled, Completed, Written, Aside
<1>7. ASSUME NEW c \in Clients, Swapped(c)
      PROVE  /\ row' \in Rows /\ row'.id = rows' /\ row'.id \in 1 .. rows'
             /\ misled' \in 0 .. rows' /\ overtaken' \in 0 .. rows'
  BY <1>1, <1>2, <1>7 DEF Swapped, Written
<1>8. ASSUME NEW h \in Hooks, Applied(h)
      PROVE  /\ row' \in Rows /\ row'.id = rows' /\ row'.id \in 1 .. rows'
             /\ misled' \in 0 .. rows' /\ overtaken' \in 0 .. rows'
  BY <1>1, <1>2, <1>8 DEF Applied, Written
<1>9. ASSUME NEW p \in Pollers, Polled(p), Aside
      PROVE  /\ row' \in Rows /\ row'.id = rows' /\ row'.id \in 1 .. rows'
             /\ misled' \in 0 .. rows' /\ overtaken' \in 0 .. rows'
  BY <1>2, <1>9 DEF Polled, Written, Aside
<1> QED
  BY <1>3, <1>4, <1>5, <1>6, <1>7, <1>8, <1>9 DEF RowStep

LEMMA TypesFollow ==
    ASSUME Types, ClientsKnow, RowStep, VendorStep, rows' \in rows .. MaxRows,
           unit' \in {"none", "held", "returned"}, done' \subseteq sent',
           client' \in [Clients -> ClientStates],
           hook' \in [Hooks -> Deliveries \cup {IdleHook}],
           poller' \in [Pollers -> PollerStates],
           faults' \in 0 .. MaxFaults, deleted' \in BOOLEAN, lost' \in BOOLEAN
    PROVE  Types'
<1>1. hook' \in [Hooks -> Deliveries' \cup {IdleHook}]
  BY DEF VendorStep, Deliveries
<1>2. rows' \in 0 .. MaxRows
  BY CheckBounds DEF Types
<1>3. PollerStates' = PollerStates /\ ClientStates' = ClientStates
  BY DEF PollerStates, ClientStates
<1> QED
  BY <1>1, <1>2, <1>3, RowFollows DEF Types, VendorStep

Step == Types' /\ RowStep /\ ClientStep /\ VendorStep /\ rows' \in rows .. MaxRows

LEMMA FaultTypes ==
    ASSUME Types, Fault PROVE faults' \in 0 .. MaxFaults
BY CheckBounds DEF Types, Fault

(* Steps of a client that leave the row and the vendor alone.              *)
LEMMA QuietSteps ==
    ASSUME CheckInv, NEW c \in Clients,
           \/ Request(c) \/ CreateRaced(c) \/ Charge(c) \/ ChargeFails(c)
           \/ PersistPaymentFails(c) \/ PersistLost(c) \/ PersistFails(c)
           \/ Refund(c) \/ RefundThrows(c) \/ CleanupThrows(c) \/ Crash(c)
           \/ Retry(c) \/ UploadFails(c)
    PROVE  Step
<1> USE DEF CheckInv
<1>1. row' = row /\ Aside /\ UNCHANGED world
  BY DEF Request, CreateRaced, Charge, ChargeFails, PersistPaymentFails, PersistLost,
         PersistFails, Refund, RefundThrows, CleanupThrows, Crash, Retry, UploadFails,
         history, Aside
<1>2. RowStep /\ VendorStep
  BY <1>1, QuietAtVendor DEF RowStep, Stays, world, mail
<1>3. /\ unit' \in {"none", "held", "returned"} /\ faults' \in 0 .. MaxFaults
      /\ deleted' \in BOOLEAN /\ lost' \in BOOLEAN
  BY FaultTypes
     DEF Types, Request, CreateRaced, Charge, ChargeFails, PersistPaymentFails,
         PersistLost, PersistFails, Refund, RefundThrows, CleanupThrows, Crash, Retry,
         UploadFails, history
<1>4. ClientStep /\ client' \in [Clients -> ClientStates]
  <2> USE DEF Types
  <2>1. CASE Request(c)
    <3>1. Moved(c, "create") /\ client' \in [Clients -> ClientStates]
      BY <2>1, GotoMoves DEF Request, ClientPcs
    <3> QED
      BY <2>1, <3>1, <1>1 DEF Request, Moved, Begun, ClientStep, Aside
  <2>2. CASE CreateRaced(c) \/ CleanupThrows(c) \/ Crash(c) \/ UploadFails(c)
    <3>1. client[c].pc # "idle" /\ Return(c)
      BY <2>2 DEF CreateRaced, CleanupThrows, Crash, UploadFails
    <3> QED
      BY <3>1, ReturnEnds DEF ClientStep
  <2>3. CASE Charge(c)
    BY <2>3, MovesAlong DEF Charge, Steps, ClientPcs
  <2>4. CASE ChargeFails(c)
    BY <2>4, MovesAlong DEF ChargeFails, Steps, ClientPcs
  <2>5. CASE PersistPaymentFails(c)
    BY <2>5, MovesAlong DEF PersistPaymentFails, Steps, ClientPcs
  <2>6. CASE PersistFails(c)
    BY <2>6, MovesAlong DEF PersistFails, Steps, ClientPcs
  <2>7. CASE PersistLost(c)
    <3>1. CASE Goto(c, "refund")
      BY <2>7, <3>1, MovesAlong DEF PersistLost, Steps, ClientPcs
    <3>2. CASE Return(c)
      BY <2>7, <3>2, ReturnEnds DEF PersistLost, ClientStep
    <3> QED
      BY <2>7, <3>1, <3>2 DEF PersistLost
  <2>8. CASE Refund(c) \/ RefundThrows(c)
    <3>1. /\ client[c].pc \in {"refund", "refundDelete", "refundMark"}
          /\ AfterRefund(c)
      BY <2>8 DEF Refund, RefundThrows
    <3>2. /\ client' \in [Clients -> ClientStates]
          /\ \/ Ended(c)
             \/ client[c].pc = "refundDelete" /\ Moved(c, "delete")
             \/ client[c].pc = "refundMark" /\ Moved(c, "mark")
      BY <3>1, AfterRefundMoves
    <3>3. <<"refundDelete", "delete">> \in Steps /\ <<"refundMark", "mark">> \in Steps
      BY DEF Steps
    <3>4. ASSUME NEW s \in Steps, client[c].pc = s[1], Moved(c, s[2]) PROVE ClientStep
      BY <3>4 DEF ClientStep
    <3>5. CASE client[c].pc = "refundDelete" /\ Moved(c, "delete")
      BY <3>3, <3>4, <3>5, <3>2
    <3>6. CASE client[c].pc = "refundMark" /\ Moved(c, "mark")
      BY <3>3, <3>4, <3>6, <3>2
    <3> QED
      BY <3>1, <3>2, <3>5, <3>6 DEF ClientStep
  <2>9. CASE Retry(c)
    <3> DEFINE next == [pc |-> "retryVendor", id |-> row.id, rerun |-> row.rerun + 1,
                        status |-> row.status, pointer |-> row.pointer]
    <3>1. /\ row \in Rows /\ row # NoRow /\ row.status \in {"failed", "cancelled"}
          /\ row.rerun < MaxRetries /\ client[c].pc = "idle"
          /\ client' = [client EXCEPT ![c] = next]
      BY <2>9 DEF Retry
    <3>2. row.rerun + 1 \in 1 .. MaxRetries
      BY <3>1, CheckBounds DEF Rows
    <3>3. next \in ClientStates
      BY <3>1, <3>2, CheckBounds DEF ClientStates, Rows, ClientPcs, AnyPointer
    <3>4. Begun(c)
      BY <3>1, <3>2, <1>1 DEF Begun, OthersWait
    <3> HIDE DEF next
    <3> QED
      BY <3>1, <3>3, <3>4 DEF ClientStep
  <2> QED
    BY <2>1, <2>2, <2>3, <2>4, <2>5, <2>6, <2>7, <2>8, <2>9
<1>5. rows' \in rows .. MaxRows
  BY <1>1, CheckBounds DEF Types, Aside
<1>6. /\ done' \subseteq sent' /\ hook' \in [Hooks -> Deliveries \cup {IdleHook}]
      /\ poller' \in [Pollers -> PollerStates]
  BY <1>1 DEF world, mail, Types
<1> QED
  BY <1>2, <1>3, <1>4, <1>5, <1>6, TypesFollow DEF Step

(* The calls to the vendor.                                                *)
LEMMA VendorCallSteps ==
    ASSUME CheckInv, NEW c \in Clients,
           CallVendor(c) \/ CallVendorFails(c) \/ RetryVendor(c) \/ RetryVendorFails(c)
    PROVE  Step
<1> USE DEF CheckInv
<1>1. row' = row /\ Aside /\ UNCHANGED <<unit, done, hook, poller, deleted, lost>>
  BY DEF CallVendor, CallVendorFails, RetryVendor, RetryVendorFails, history, Aside
<1>2. /\ client[c].pc \in {"vendor", "retryVendor"}
      /\ CreateAtVendor(Asked(c)) \/ UNCHANGED <<vendor, sent>>
  BY DEF CallVendor, CallVendorFails, RetryVendor, RetryVendorFails, Asked
<1>3. Asked(c) \in Attempts
  <2>1. /\ client[c].id \in 1 .. rows
        /\ client[c].pc = "retryVendor" => client[c].rerun \in 1 .. MaxRetries
    BY <1>2 DEF ClientsKnow, Retrying
  <2>2. client[c].id \in 1 .. MaxRows /\ 0 \in 0 .. MaxRetries
    BY <2>1, CheckBounds DEF Types
  <2> QED
    BY <1>2, <2>1, <2>2, Attempts0, CheckBounds DEF Asked
<1>4. VendorStep
  BY <1>2, <1>3, CreateAtVendorStarts, QuietAtVendor
<1>5. RowStep
  BY <1>1 DEF RowStep, Stays
<1>6. ClientStep /\ client' \in [Clients -> ClientStates]
  <2>1. CASE CallVendor(c)
    BY <2>1, MovesAlong DEF CallVendor, Steps, ClientPcs
  <2>2. CASE CallVendorFails(c)
    BY <2>2, MovesAlong DEF CallVendorFails, Steps, ClientPcs
  <2>3. CASE RetryVendor(c)
    BY <2>3, MovesAlong DEF RetryVendor, Steps, ClientPcs
  <2>4. CASE RetryVendorFails(c)
    BY <1>2, <2>4, ReturnEnds DEF RetryVendorFails, ClientStep, Types
  <2> QED
    BY <2>1, <2>2, <2>3, <2>4
<1>7. rows' \in rows .. MaxRows /\ faults' \in 0 .. MaxFaults
  BY <1>1, CheckBounds, FaultTypes
     DEF Types, CallVendor, CallVendorFails, RetryVendor, RetryVendorFails, Aside
<1>8. /\ done' \subseteq sent' /\ hook' \in [Hooks -> Deliveries \cup {IdleHook}]
      /\ poller' \in [Pollers -> PollerStates] /\ unit' \in {"none", "held", "returned"}
      /\ deleted' \in BOOLEAN /\ lost' \in BOOLEAN
  BY <1>1, <1>4 DEF Types, VendorStep
<1> QED
  BY <1>4, <1>5, <1>6, <1>7, <1>8, TypesFollow DEF Step

(* Steps of a client that write the row.                                   *)
LEMMA WritingSteps ==
    ASSUME CheckInv, NEW c \in Clients,
           \/ Reclaim(c) \/ Create(c) \/ PersistPayment(c) \/ PersistResult(c)
           \/ RemoveClaim(c) \/ MarkFailed(c) \/ RetrySwap(c) \/ Attach(c)
           \/ AttachComplete(c)
    PROVE  Step
<1> USE DEF CheckInv
<1>1. UNCHANGED <<vendor, sent, done, hook, poller, unit, faults, deleted, lost>>
  BY DEF Reclaim, Create, PersistPayment, PersistResult, RemoveClaim, MarkFailed,
         RetrySwap, Attach, AttachComplete, world, mail, history
<1>2. VendorStep
  BY <1>1, QuietAtVendor
<1>3. client[c].pc \notin {"idle", "create"} => client[c].id \in 1 .. rows
  BY DEF ClientsKnow
<1>4. client \in [Clients -> ClientStates]
  BY DEF Types
<1>5. /\ RowStep /\ ClientStep /\ rows' \in rows .. MaxRows
      /\ client' \in [Clients -> ClientStates]
  <2>1. rows \in rows .. MaxRows
    BY CheckBounds DEF Types
  <2>2. CASE Reclaim(c)
    <3>1. Gone /\ Aside
      BY <2>2 DEF Reclaim, Gone, history, Aside
    <3>2. Moved(c, "create") /\ client' \in [Clients -> ClientStates]
      BY <1>4, <2>2, GotoMoves DEF Reclaim, ClientPcs
    <3> QED
      BY <2>1, <2>2, <3>1, <3>2 DEF Reclaim, RowStep, ClientStep, Begun, Moved, Aside
  <2>3. CASE Create(c)
    <3> DEFINE next == [client[c] EXCEPT !.pc = "charge", !.id = rows + 1]
    <3>1. /\ row = NoRow /\ row' = NewRow(rows + 1) /\ rows' = rows + 1
          /\ rows < MaxRows /\ client[c].pc = "create" /\ UNCHANGED <<misled, overtaken>>
          /\ client' = [client EXCEPT ![c] = next]
      BY <2>3 DEF Create, Insert, history
    <3>2. rows + 1 \in 0 .. MaxRows /\ rows + 1 \in rows .. MaxRows
      BY <3>1, CheckBounds DEF Types
    <3>3. client[c] \in ClientStates
      BY <1>4
    <3>4. next \in ClientStates /\ next.pc = "charge" /\ next.id = rows + 1
      BY <3>2, <3>3 DEF ClientStates, ClientPcs
    <3> HIDE DEF next
    <3>5. Begun(c)
      BY <1>4, <3>1, <3>4 DEF Begun, OthersWait
    <3> QED
      BY <1>4, <3>1, <3>2, <3>4, <3>5 DEF RowStep, Born, ClientStep
  <2>4. CASE PersistPayment(c)
    <3>1. Stays /\ Aside
      BY <1>3, <2>4, PersistPaymentWrites DEF PersistPayment, history, Aside
    <3>2. ClientStep /\ client' \in [Clients -> ClientStates]
      BY <2>4, MovesAlong DEF PersistPayment, Steps, ClientPcs
    <3> QED
      BY <2>1, <3>1, <3>2 DEF RowStep, Aside
  <2>5. CASE PersistResult(c)
    <3>1. Persisted /\ Aside
      BY <1>3, <2>5, PersistResultWrites DEF PersistResult, history, Aside
    <3>2. client[c].pc # "idle" /\ Ended(c) /\ client' \in [Clients -> ClientStates]
      BY <1>4, <2>5, ReturnEnds DEF PersistResult
    <3> QED
      BY <2>1, <3>1, <3>2 DEF RowStep, ClientStep, Aside
  <2>6. CASE RemoveClaim(c)
    <3>1. (Stays \/ Gone) /\ Aside
      BY <1>3, <2>6, NoRowIsNone DEF RemoveClaim, DeleteById, Stays, Gone, history, Aside
    <3>2. client[c].pc # "idle" /\ Ended(c) /\ client' \in [Clients -> ClientStates]
      BY <1>4, <2>6, ReturnEnds DEF RemoveClaim
    <3> QED
      BY <2>1, <3>1, <3>2 DEF RowStep, ClientStep, Aside
  <2>7. CASE MarkFailed(c)
    <3>1. (Stays \/ MarkedFailed) /\ Aside
      BY <1>3, <2>7, MarkFailedWrites DEF MarkFailed, history, Aside
    <3>2. client[c].pc # "idle" /\ Ended(c) /\ client' \in [Clients -> ClientStates]
      BY <1>4, <2>7, ReturnEnds DEF MarkFailed
    <3> QED
      BY <2>1, <3>1, <3>2 DEF RowStep, ClientStep, Aside
  <2>8. CASE RetrySwap(c)
    <3>1. Ended(c) /\ (Swapped(c) \/ (Stays /\ Aside))
      BY <2>8, RetrySwapWrites
    <3>2. client[c].pc # "idle" /\ Ended(c) /\ client' \in [Clients -> ClientStates]
      BY <1>4, <2>8, ReturnEnds DEF RetrySwap
    <3> QED
      BY <2>1, <3>1, <3>2 DEF RowStep, ClientStep, Aside, Swapped
  <2>9. CASE Attach(c)
    <3> DEFINE next == [client[c] EXCEPT !.pc = "attach", !.id = row'.id]
    <3>1. /\ client[c].pc = "idle" /\ UNCHANGED <<misled, overtaken>>
          /\ client' = [client EXCEPT ![c] = next]
          /\ \/ Born /\ rows < MaxRows
             \/ row # NoRow /\ row' = row /\ rows' = rows
      BY <2>9 DEF Attach, Insert, Born, history
    <3>2. /\ RowStep /\ rows' \in rows .. MaxRows
      BY <2>1, <3>1, CheckBounds DEF Types, RowStep, Stays, Born, Aside
    <3>3. row' # NoRow /\ row'.id \in 1 .. rows'
      <4>1. CASE Born /\ rows < MaxRows
        <5>1. rows + 1 \in 1 .. MaxRows
          BY <4>1, CheckBounds DEF Types
        <5> QED
          BY <4>1, <5>1, NewRowIsTyped, CheckBounds DEF Born, NewRow, Types
      <4>2. CASE row # NoRow /\ row' = row /\ rows' = rows
        BY <4>2 DEF Types
      <4> QED
        BY <3>1, <4>1, <4>2
    <3>4. client[c] \in ClientStates /\ row'.id \in 0 .. MaxRows
      BY <1>4, <3>2, <3>3, CheckBounds DEF Types
    <3>5. next \in ClientStates /\ next.pc = "attach" /\ next.id = row'.id
      BY <3>4 DEF ClientStates, ClientPcs
    <3> HIDE DEF next
    <3>6. Begun(c)
      BY <1>4, <3>1, <3>3, <3>5 DEF Begun, OthersWait
    <3> QED
      BY <1>4, <3>1, <3>2, <3>5, <3>6 DEF ClientStep
  <2>10. CASE AttachComplete(c)
    <3>1. (Stays \/ Completed) /\ Aside
      BY <1>3, <2>10, AttachCompleteWrites DEF AttachComplete, history, Aside
    <3>2. client[c].pc # "idle" /\ Ended(c) /\ client' \in [Clients -> ClientStates]
      BY <1>4, <2>10, ReturnEnds DEF AttachComplete
    <3> QED
      BY <2>1, <3>1, <3>2 DEF RowStep, ClientStep, Aside
  <2> QED
    BY <2>2, <2>3, <2>4, <2>5, <2>6, <2>7, <2>8, <2>9, <2>10
<1>6. /\ done' \subseteq sent' /\ hook' \in [Hooks -> Deliveries \cup {IdleHook}]
      /\ poller' \in [Pollers -> PollerStates] /\ unit' \in {"none", "held", "returned"}
      /\ faults' \in 0 .. MaxFaults /\ deleted' \in BOOLEAN /\ lost' \in BOOLEAN
  BY <1>1 DEF Types
<1> QED
  BY <1>2, <1>5, <1>6, TypesFollow DEF Step

(* Users, silence, and Checkr.                                             *)
LEMMA OutsideSteps ==
    ASSUME CheckInv,
           \/ Cancel \/ Remove \/ Idle
           \/ \E a \in Attempts : Advance(a)
    PROVE  Step
<1> USE DEF CheckInv
<1>1. /\ Aside /\ UNCHANGED <<unit, done, client, hook, poller, faults, lost>>
      /\ deleted' \in BOOLEAN
  BY DEF Cancel, Remove, Idle, Advance, world, mail, history, Types, Aside
<1>2. RowStep
  <2>1. CASE Cancel \/ Idle
    BY <1>1, <2>1, UserWrites DEF RowStep
  <2>2. CASE Remove
    BY <1>1, <2>2 DEF RowStep, Remove, Gone
  <2>3. CASE \E a \in Attempts : Advance(a)
    BY <1>1, <2>3 DEF RowStep, Stays, Advance
  <2> QED
    BY <2>1, <2>2, <2>3
<1>3. VendorStep
  <2>1. CASE Cancel \/ Remove \/ Idle
    BY <2>1, QuietAtVendor DEF Cancel, Remove, Idle, world, mail
  <2> QED
    BY <2>1, AdvanceStep
<1>4. /\ rows' \in rows .. MaxRows /\ done' \subseteq sent'
      /\ client' \in [Clients -> ClientStates]
      /\ hook' \in [Hooks -> Deliveries \cup {IdleHook}]
      /\ poller' \in [Pollers -> PollerStates] /\ unit' \in {"none", "held", "returned"}
      /\ faults' \in 0 .. MaxFaults /\ lost' \in BOOLEAN
  BY <1>1, <1>3, CheckBounds DEF Types, VendorStep, Aside
<1> QED
  BY <1>1, <1>2, <1>3, <1>4, TypesFollow DEF Step, ClientStep

(* Deliveries.                                                             *)
LEMMA DeliverySteps ==
    ASSUME CheckInv, NEW h \in Hooks,
           (\E e \in sent : Deliver(h, e)) \/ Commit(h) \/ DeliveryFails(h)
    PROVE  Step
<1> USE DEF CheckInv
<1>1. UNCHANGED <<rows, unit, vendor, sent, client, poller, deleted, lost, misled>>
  BY DEF Deliver, Commit, DeliveryFails, others, mail, history
<1>2. VendorStep
  BY <1>1, QuietAtVendor
<1>3. RowStep
  <2>1. CASE (\E e \in sent : Deliver(h, e)) \/ DeliveryFails(h)
    BY <1>1, <2>1 DEF RowStep, Stays, Deliver, DeliveryFails, history, Aside
  <2>2. CASE Commit(h)
    BY <2>2, CommitWrites DEF RowStep
  <2> QED
    BY <2>1, <2>2
<1>4. /\ done' \subseteq sent' /\ hook' \in [Hooks -> Deliveries \cup {IdleHook}]
      /\ faults' \in 0 .. MaxFaults
  <2>1. ASSUME NEW e \in sent, Deliver(h, e)
        PROVE  /\ done' \subseteq sent' /\ hook' \in [Hooks -> Deliveries \cup {IdleHook}]
               /\ faults' \in 0 .. MaxFaults
    <3> DEFINE next == [pc |-> "commit", id |-> row.id, rerun |-> row.rerun,
                        event |-> e, direct |-> row.pointer = PointerOf(e)]
    <3>1. row.id \in 1 .. MaxRows /\ row.rerun \in 0 .. MaxRetries
      BY <2>1 DEF Deliver, Types, Rows
    <3>2. next \in Deliveries
      BY <3>1 DEF Deliveries
    <3>3. \/ done' = done \cup {e} /\ hook' = hook
          \/ hook' = [hook EXCEPT ![h] = next] /\ done' = done
      BY <2>1 DEF Deliver
    <3> HIDE DEF next
    <3> QED
      BY <1>1, <2>1, <3>2, <3>3 DEF Types, Deliver, others
  <2>2. CASE Commit(h)
    BY <1>1, <2>2, CommitWrites DEF Commit, Types, others
  <2>3. CASE DeliveryFails(h)
    BY <1>1, <2>3, FaultTypes DEF DeliveryFails, Types, mail
  <2> QED
    BY <2>1, <2>2, <2>3
<1>5. /\ rows' \in rows .. MaxRows /\ client' \in [Clients -> ClientStates]
      /\ poller' \in [Pollers -> PollerStates] /\ unit' \in {"none", "held", "returned"}
      /\ lost' \in BOOLEAN /\ deleted' \in BOOLEAN
  BY <1>1, CheckBounds DEF Types
<1> QED
  BY <1>1, <1>2, <1>3, <1>4, <1>5, TypesFollow DEF Step, ClientStep

(* Syncs and reconciliations.                                              *)
Fetched(p, found, next) ==
    /\ \A q \in Pollers \ {p} : poller'[q] = poller[q]
    /\ poller'[p].pc = "write" /\ poller'[p].found = found /\ poller'[p].next = next
    /\ poller'[p].kind = poller[p].kind /\ poller'[p].id = poller[p].id
    /\ poller'[p].status = poller[p].status
    /\ poller'[p].pointer = poller[p].pointer
    /\ poller'[p].invitation = poller[p].invitation

LEMMA FoundFetches ==
    ASSUME poller \in [Pollers -> PollerStates], NEW p \in Pollers,
           NEW found \in AnyPointer, NEW next \in Statuses, Found(p, found, next)
    PROVE  Fetched(p, found, next) /\ poller' \in [Pollers -> PollerStates]
<1> DEFINE state == [poller[p] EXCEPT !.pc = "write", !.found = found, !.next = next]
<1>1. poller[p] \in PollerStates /\ poller' = [poller EXCEPT ![p] = state]
  BY DEF Found
<1>2. /\ state \in PollerStates /\ state.pc = "write" /\ state.found = found
      /\ state.next = next /\ state.kind = poller[p].kind /\ state.id = poller[p].id
      /\ state.status = poller[p].status /\ state.pointer = poller[p].pointer
      /\ state.invitation = poller[p].invitation
  BY <1>1 DEF PollerStates
<1> HIDE DEF state
<1> QED
  BY <1>1, <1>2 DEF Fetched

(* What the vendor answers: the report of the pointer, the report of the   *)
(* invitation, or neither.                                                 *)
Answers(p, found, next) ==
    /\ Fetched(p, found, next)
    /\ found # NoPointer =>
          /\ found \in {poller[p].pointer, Report(poller[p].invitation)}
          /\ found.kind = "report"
          /\ vendor[found.attempt] \in ReportStates
          /\ next = vendor[found.attempt]
    /\ found = NoPointer =>
          \/ next = poller[p].status
          \/ /\ next = "failed" /\ poller[p].invitation \in Attempts
             /\ vendor[poller[p].invitation] = "expired"

LEMMA FetchFinds ==
    ASSUME CheckInv, NEW p \in Pollers, Fetch(p) \/ FetchFallback(p)
    PROVE  /\ poller' \in [Pollers -> PollerStates]
           /\ \E found \in AnyPointer, next \in Statuses : Answers(p, found, next)
<1> USE DEF CheckInv
<1> DEFINE a == poller[p].pointer.attempt
           i == poller[p].invitation
           other == IF poller[p].status = "invited" /\ i \in Attempts /\ vendor[i] = "expired"
                    THEN "failed" ELSE poller[p].status
<1>1. /\ poller[p].pointer \in Pointers
      /\ PointsRight(poller[p].pointer, i)
      /\ poller[p].status \in Statuses
      /\ poller \in [Pollers -> PollerStates]
  BY DEF Fetch, FetchFallback, PollersKnow, KnowsVendor, Types
<1>2. CASE poller[p].pointer.kind = "report" /\ Found(p, poller[p].pointer, vendor[a])
  <2>1. vendor[a] \in ReportStates /\ vendor[a] \in Statuses
    BY <1>1, <1>2 DEF PointsRight, ReportStates, Statuses, Terminal
  <2>2. poller[p].pointer # NoPointer /\ poller[p].pointer \in AnyPointer
    BY <1>1, PointersAre DEF AnyPointer
  <2>3. Fetched(p, poller[p].pointer, vendor[a]) /\ poller' \in [Pollers -> PollerStates]
    BY <1>1, <1>2, <2>1, <2>2, FoundFetches
  <2>4. Answers(p, poller[p].pointer, vendor[a])
    BY <1>2, <2>1, <2>2, <2>3 DEF Answers
  <2> QED
    BY <2>1, <2>2, <2>3, <2>4
<1>3. CASE FindByInvitation(p) /\ HasReport(i)
  <2>1. Found(p, Report(i), vendor[i])
    BY <1>3 DEF FindByInvitation
  <2>2. vendor[i] \in ReportStates /\ vendor[i] \in Statuses /\ i \in Attempts
    BY <1>3 DEF HasReport, ReportStates, Statuses, Terminal
  <2>3. /\ Report(i) # NoPointer /\ Report(i) \in AnyPointer
        /\ Report(i).attempt = i /\ Report(i).kind = "report"
    BY <2>2, PointersAre DEF AnyPointer
  <2>4. Fetched(p, Report(i), vendor[i]) /\ poller' \in [Pollers -> PollerStates]
    BY <1>1, <2>1, <2>2, <2>3, FoundFetches
  <2>5. Answers(p, Report(i), vendor[i])
    BY <2>2, <2>3, <2>4 DEF Answers
  <2> QED
    BY <2>2, <2>3, <2>4, <2>5
<1>4. CASE FindByInvitation(p) /\ ~HasReport(i)
  <2>1. Found(p, NoPointer, other)
    BY <1>4 DEF FindByInvitation, Missing
  <2>2. other \in Statuses /\ NoPointer \in AnyPointer
    BY <1>1 DEF Statuses, Terminal, AnyPointer
  <2>3. Fetched(p, NoPointer, other) /\ poller' \in [Pollers -> PollerStates]
    BY <1>1, <2>1, <2>2, FoundFetches
  <2>4. Answers(p, NoPointer, other)
    BY <2>3 DEF Answers
  <2> QED
    BY <2>2, <2>3, <2>4
<1> QED
  BY <1>2, <1>3, <1>4 DEF Fetch, FetchFallback

LEMMA PollingSteps ==
    ASSUME CheckInv, NEW p \in Pollers,
           \/ \E k \in PollKinds : Poll(p, k)
           \/ Fetch(p) \/ FetchFallback(p) \/ FetchFails(p)
           \/ WriteReport(p) \/ WriteMissing(p)
    PROVE  Step
<1> USE DEF CheckInv
<1>1. /\ Aside /\ UNCHANGED <<unit, vendor, sent, done, client, hook, deleted, lost>>
      /\ faults' \in 0 .. MaxFaults
  BY FaultTypes
     DEF Poll, Fetch, FetchFallback, FetchFails, WriteReport, WriteMissing, mail, history,
         Types, Aside
<1>2. VendorStep
  BY <1>1, QuietAtVendor
<1>3. RowStep
  <2>1. CASE (\E k \in PollKinds : Poll(p, k)) \/ Fetch(p) \/ FetchFallback(p)
    BY <1>1, <2>1 DEF RowStep, Stays, Poll, Fetch, FetchFallback
  <2>2. CASE FetchFails(p)
    BY <1>1, <2>2, FetchFailsWrites DEF RowStep
  <2>3. CASE WriteReport(p)
    BY <1>1, <2>3, WriteReportWrites DEF RowStep
  <2>4. CASE WriteMissing(p)
    BY <1>1, <2>4, WriteMissingWrites DEF RowStep
  <2> QED
    BY <2>1, <2>2, <2>3, <2>4
<1>4. poller' \in [Pollers -> PollerStates]
  <2>1. ASSUME NEW k \in PollKinds, Poll(p, k)
        PROVE  poller' \in [Pollers -> PollerStates]
    <3> DEFINE next == [pc |-> "fetch", kind |-> k, id |-> row.id, status |-> row.status,
                        pointer |-> row.pointer, invitation |-> row.invitation,
                        found |-> NoPointer, next |-> "none"]
    <3>1. row \in Rows /\ k \in {"sync", "reconcile"}
      BY <2>1, PollKindsAssumption DEF Poll, Live, Types
    <3>2. next \in PollerStates
      BY <3>1, CheckBounds DEF PollerStates, Rows, AnyPointer, AnyAttempt
    <3>3. poller' = [poller EXCEPT ![p] = next]
      BY <2>1 DEF Poll
    <3> HIDE DEF next
    <3> QED
      BY <3>2, <3>3 DEF Types
  <2>2. CASE FetchFails(p) \/ WriteReport(p) \/ WriteMissing(p)
    BY <2>2, IdleIsTyped DEF FetchFails, WriteReport, WriteMissing, Types
  <2> QED
    BY <2>1, <2>2, FetchFinds
<1>5. /\ rows' \in rows .. MaxRows /\ done' \subseteq sent'
      /\ client' \in [Clients -> ClientStates]
      /\ hook' \in [Hooks -> Deliveries \cup {IdleHook}]
      /\ unit' \in {"none", "held", "returned"}
      /\ lost' \in BOOLEAN /\ deleted' \in BOOLEAN
  BY <1>1, CheckBounds DEF Types, Aside
<1> QED
  BY <1>1, <1>2, <1>3, <1>4, <1>5, TypesFollow DEF Step, ClientStep

LEMMA NextIsStep == CheckInv /\ [Next]_vars => Step
<1> SUFFICES ASSUME CheckInv, [Next]_vars PROVE Step
  OBVIOUS
<1>1. CASE UNCHANGED vars
  <2>1. /\ UNCHANGED <<row, rows, unit, vendor, sent, done, client, hook, poller,
                       faults, deleted, lost, misled, overtaken>>
    BY <1>1 DEF vars, mail, history
  <2>2. VendorStep /\ RowStep /\ ClientStep
    BY <2>1, QuietAtVendor DEF CheckInv, RowStep, Stays, ClientStep, Aside
  <2>3. rows' \in rows .. MaxRows
    BY <2>1, CheckBounds DEF CheckInv, Types
  <2> QED
    BY <2>1, <2>2, <2>3 DEF Step, CheckInv, Types, Deliveries, PollerStates, ClientStates
<1> QED
  BY <1>1, QuietSteps, VendorCallSteps, WritingSteps, OutsideSteps, DeliverySteps,
     PollingSteps
     DEF Next, Progress, Failure

-----------------------------------------------------------------------------
(* The invariant holds.                                                    *)

(* The deliveries and the pollers each move by steps of their own.         *)
LEMMA WhoMoves ==
    ASSUME [Next]_vars
    PROVE  \/ UNCHANGED <<hook, done, poller>>
           \/ /\ UNCHANGED poller
              /\ \E h \in Hooks : \/ \E e \in sent : Deliver(h, e)
                                  \/ Commit(h) \/ DeliveryFails(h)
           \/ /\ UNCHANGED <<hook, done>>
              /\ \E p \in Pollers : \/ \E k \in PollKinds : Poll(p, k)
                                    \/ Fetch(p) \/ FetchFallback(p) \/ FetchFails(p)
                                    \/ WriteReport(p) \/ WriteMissing(p)
<1>1. CASE UNCHANGED vars
  BY <1>1 DEF vars, mail
<1>2. ASSUME NEW c \in Clients, \/ Request(c) \/ Reclaim(c) \/ Retry(c) \/ Attach(c)
                                \/ Progress(c)
      PROVE  UNCHANGED <<hook, done, poller>>
  BY <1>2 DEF Request, Reclaim, Retry, Attach, Progress, Create, CreateRaced, Charge,
              PersistPayment, CallVendor, PersistResult, PersistLost, Refund,
              RemoveClaim, MarkFailed, RetryVendor, RetrySwap, AttachComplete, world, mail
<1>3. ASSUME NEW c \in Clients, Failure(c)
      PROVE  UNCHANGED <<hook, done, poller>>
  BY <1>3 DEF Failure, ChargeFails, PersistPaymentFails, CallVendorFails, PersistFails,
              RefundThrows, CleanupThrows, RetryVendorFails, UploadFails, Crash,
              world, mail
<1>4. CASE Cancel \/ Remove \/ Idle \/ \E a \in Attempts : Advance(a)
  BY <1>4 DEF Cancel, Remove, Idle, Advance, world, mail
<1>5. ASSUME NEW h \in Hooks, \/ \E e \in sent : Deliver(h, e)
                              \/ Commit(h) \/ DeliveryFails(h)
      PROVE  UNCHANGED poller
  BY <1>5 DEF Deliver, Commit, DeliveryFails, others
<1>6. ASSUME NEW p \in Pollers, \/ \E k \in PollKinds : Poll(p, k)
                                \/ Fetch(p) \/ FetchFallback(p) \/ FetchFails(p)
                                \/ WriteReport(p) \/ WriteMissing(p)
      PROVE  UNCHANGED <<hook, done>>
  BY <1>6 DEF Poll, Fetch, FetchFallback, FetchFails, WriteReport, WriteMissing, mail
<1> QED
  BY <1>1, <1>2, <1>3, <1>4, <1>5, <1>6 DEF Next

LEMMA UndeliveredFollows ==
    ASSUME CheckInv, [Next]_vars PROVE Undelivered'
<1> USE DEF CheckInv
<1>1. CASE UNCHANGED <<hook, done>>
  BY <1>1 DEF Undelivered
<1>2. ASSUME NEW h \in Hooks, NEW e \in sent, Deliver(h, e)
      PROVE  Undelivered'
  <2> DEFINE next == [pc |-> "commit", id |-> row.id, rerun |-> row.rerun,
                      event |-> e, direct |-> row.pointer = PointerOf(e)]
  <2>1. CASE hook' = hook /\ done' = done \cup {e}
    BY <1>2, <2>1 DEF Undelivered, Deliver
  <2>2. CASE hook' = [hook EXCEPT ![h] = next] /\ done' = done
    <3>1. /\ hook'[h].event = e /\ e \notin done
          /\ \A g \in Hooks \ {h} : hook'[g] = hook[g] /\ hook[g].event # e
      BY <1>2, <2>2 DEF Deliver, Types
    <3> QED
      BY <2>2, <3>1 DEF Undelivered
  <2> QED
    BY <1>2, <2>1, <2>2 DEF Deliver
<1>3. ASSUME NEW h \in Hooks, Commit(h) \/ DeliveryFails(h)
      PROVE  Undelivered'
  <2>1. /\ hook'[h] = IdleHook /\ \A g \in Hooks \ {h} : hook'[g] = hook[g]
        /\ done' \subseteq done \cup {hook[h].event}
        /\ hook[h] # IdleHook
    <3>1. hook[h].pc = "commit" /\ hook \in [Hooks -> Deliveries \cup {IdleHook}]
      BY <1>3 DEF Commit, DeliveryFails, Types
    <3>2. hook' = [hook EXCEPT ![h] = IdleHook]
      BY <1>3 DEF Commit, DeliveryFails
    <3>3. done' \subseteq done \cup {hook[h].event}
      BY <1>3 DEF Commit, DeliveryFails, mail
    <3> QED
      BY <3>1, <3>2, <3>3 DEF IdleHook
  <2> QED
    BY <2>1 DEF Undelivered
<1> QED
  BY <1>1, <1>2, <1>3, WhoMoves

LEMMA ClientsKnowFollows ==
    ASSUME CheckInv, Step PROVE ClientsKnow'
<1> USE DEF CheckInv
<1>1. /\ rows \in Nat /\ rows' \in Nat /\ rows <= rows'
      /\ \A i \in 1 .. rows : i \in 1 .. rows'
  BY CheckBounds DEF Step, Types
<1> DEFINE Knows(c) == /\ client[c].pc \notin {"idle", "create"} => client[c].id \in 1 .. rows
                       /\ Retrying(c) => /\ client[c].rerun \in 1 .. MaxRetries
                                         /\ client[c].status \in {"failed", "cancelled"}
<1> SUFFICES ASSUME NEW d \in Clients PROVE Knows(d)'
  BY DEF ClientsKnow, Retrying
<1>2. Knows(d)
  BY DEF ClientsKnow, Retrying
<1>3. CASE client'[d] = client[d]
  BY <1>1, <1>2, <1>3 DEF Retrying
<1>4. CASE client'[d] # client[d] /\ Begun(d)
  <2>1. CASE client'[d].pc = "create"
    BY <2>1 DEF Retrying
  <2>2. CASE client'[d].pc = "charge"
    <3>1. client'[d].id = rows'
      BY <1>4, <2>2 DEF Begun
    <3> QED
      BY <1>1, <1>4, <2>2, <3>1, CheckBounds DEF Begun, Retrying, Types
  <2>3. CASE client'[d].pc = "attach"
    BY <1>4, <2>3 DEF Begun, Retrying
  <2>4. CASE client'[d].pc = "retryVendor"
    BY <1>1, <1>4, <2>4 DEF Begun, Retrying, Types
  <2> QED
    BY <1>4, <2>1, <2>2, <2>3, <2>4 DEF Begun
<1>5. CASE client'[d] = IdleClient
  BY <1>5 DEF IdleClient, Retrying
<1>6. ASSUME NEW s \in Steps, client[d].pc = s[1], Moved(d, s[2]) PROVE Knows(d)'
  <2>1. /\ s[1] \notin {"idle", "create"}
        /\ s[2] = "retrySwap" => s[1] = "retryVendor"
        /\ s[2] # "retryVendor"
    BY DEF Steps
  <2> QED
    BY <1>1, <1>2, <1>6, <2>1 DEF Moved, Retrying
<1>7. \A c \in Clients : OthersWait(c) /\ d # c => client'[d] = client[d]
  BY DEF OthersWait
<1> HIDE DEF Knows
<1> QED
  BY <1>3, <1>4, <1>5, <1>6, <1>7 DEF Step, ClientStep, Begun, Ended, Moved

(* What points right keeps pointing right when the vendor's checks move on. *)
LEMMA PointsRightStays ==
    ASSUME VendorGrows, NEW pointer \in AnyPointer, NEW invitation,
           PointsRight(pointer, invitation)
    PROVE  /\ pointer.kind = "report" => vendor'[pointer.attempt] \in ReportStates
           /\ pointer.kind = "invitation" => pointer = Invitation(invitation)
<1>1. pointer.kind = "report" => pointer.attempt \in Attempts
  BY PointersAre DEF AnyPointer
<1> QED
  BY <1>1 DEF PointsRight, VendorGrows

LEMMA RowPointsRightFollows ==
    ASSUME CheckInv, Step PROVE RowPointsRight'
<1> USE DEF CheckInv
<1>1. VendorGrows /\ EventsAreTrue'
  BY DEF Step, VendorStep
<1>2. row # NoRow =>
          /\ row \in Rows /\ row.pointer \in AnyPointer
          /\ row.pointer.kind = "report" => vendor'[row.pointer.attempt] \in ReportStates
          /\ row.pointer.kind = "invitation" => row.pointer = Invitation(row.invitation)
  <2>1. ASSUME row # NoRow
        PROVE  row \in Rows /\ row.pointer \in AnyPointer
    BY <2>1 DEF Types, Rows, AnyPointer
  <2> QED
    BY <1>1, <2>1, PointsRightStays DEF RowPointsRight
<1>3. CASE Stays
  BY <1>2, <1>3 DEF Stays, Written, RowPointsRight, PointsRight
<1>4. CASE Born
  <2>1. row'.pointer.kind = "none"
    BY <1>4 DEF Born, NewRow, NoPointer
  <2> QED
    BY <1>4, <2>1 DEF Born, NewRow, RowPointsRight, PointsRight
<1>5. CASE Gone
  BY <1>5 DEF Gone, RowPointsRight
<1>6. ASSUME NEW a \in Attempts, row'.pointer = Invitation(a), row'.invitation = a,
             row'.attached = row.attached, ~row.attached,
             row'.status = "invited"
      PROVE  RowPointsRight'
  BY <1>6, PointersAre DEF RowPointsRight, PointsRight
<1>7. CASE Persisted
  <2> DEFINE a == <<row.id, 0>>
  <2>1. a \in Attempts
    BY <1>7, Attempts0, CheckBounds DEF Persisted, Written, Types
  <2>2. ~row.attached
    BY <1>7 DEF Persisted, Written, RowPointsRight, Terminal, Types, Rows
  <2> QED
    BY <1>6, <1>7, <2>1, <2>2 DEF Persisted, Written
<1>8. CASE MarkedFailed \/ Cancelled \/ Completed
  BY <1>2, <1>8 DEF MarkedFailed, Cancelled, Completed, Written, RowPointsRight,
                    PointsRight, Terminal, NoPointer
<1>9. ASSUME NEW c \in Clients, Swapped(c)
      PROVE  RowPointsRight'
  <2> DEFINE a == <<client[c].id, client[c].rerun>>
  <2>1. /\ client[c].id \in 1 .. MaxRows /\ client[c].rerun \in 0 .. MaxRetries
        /\ client[c].status \in {"failed", "cancelled"}
    BY <1>9, CheckBounds DEF Swapped, ClientsKnow, Retrying, Types
  <2>2. a \in Attempts
    BY <2>1, Attempts0
  <2>3. ~row.attached
    BY <1>9, <2>1 DEF Swapped, Written, RowPointsRight, Types, Rows
  <2> QED
    BY <1>6, <1>9, <2>2, <2>3 DEF Swapped, Written
<1>10. ASSUME NEW h \in Hooks, Applied(h)
       PROVE  RowPointsRight'
  <2> DEFINE e == hook[h].event
  <2>1. /\ row # NoRow /\ row'.invitation = row.invitation /\ row'.rerun = row.rerun
        /\ row'.superseded = row.superseded /\ row'.attached = row.attached
        /\ ~row.attached /\ row.status \notin Terminal
    BY <1>10 DEF Applied, Written, RowPointsRight, Terminal, Types, Rows
  <2>2. e \in sent /\ e \in sent' /\ e.attempt \in Attempts
    BY <1>10 DEF Applied, Deliveries, Step, VendorStep, Types, Mails
  <2>3. CASE IsReport(e)
    <3>1. /\ row'.status = e.status /\ row'.pointer = Report(e.attempt)
          /\ vendor'[e.attempt] \in ReportStates /\ e.status \in ReportStates
      BY <1>1, <1>10, <2>2, <2>3 DEF Applied, EventsAreTrue, IsReport
    <3> QED
      BY <2>1, <2>2, <3>1, PointersAre DEF RowPointsRight, PointsRight
  <2>4. CASE ~IsReport(e)
    <3>1. /\ row'.pointer = row.pointer
          /\ row'.status \in {row.status, "in_progress", "failed"}
      BY <1>10, <2>2, <2>4 DEF Applied, EventsAreTrue
    <3> HIDE DEF e
    <3> QED
      BY <1>2, <2>1, <3>1 DEF RowPointsRight, PointsRight, Terminal
  <2> QED
    BY <2>3, <2>4
<1>11. ASSUME NEW p \in Pollers, Polled(p)
       PROVE  RowPointsRight'
  <2>1. /\ row # NoRow /\ row'.invitation = row.invitation /\ row'.rerun = row.rerun
        /\ row'.superseded = row.superseded /\ row'.attached = row.attached
        /\ ~row.attached /\ row.status \notin Terminal /\ row.pointer # NoPointer
    BY <1>11 DEF Polled, Written, RowPointsRight, Terminal, Types, Rows
  <2>2. CASE MissingWritten(p)
    BY <1>2, <2>1, <2>2 DEF MissingWritten, RowPointsRight, PointsRight
  <2>3. CASE FoundWritten(p)
    <3>1. /\ row'.pointer \in Pointers /\ row'.pointer.kind = "report"
          /\ vendor[row'.pointer.attempt] \in ReportStates
      BY <1>11, <2>3
         DEF FoundWritten, Polled, PollersKnow, KnowsVendor, Types, PollerStates, AnyPointer
    <3>2. vendor'[row'.pointer.attempt] \in ReportStates
      BY <1>1, <3>1, PointersAre DEF VendorGrows
    <3> QED
      BY <2>1, <3>1, <3>2, PointersAre DEF RowPointsRight, PointsRight
  <2> QED
    BY <1>11, <2>2, <2>3 DEF Polled
<1> QED
  BY <1>3, <1>4, <1>5, <1>7, <1>8, <1>9, <1>10, <1>11 DEF Step, RowStep

LEMMA OnePollMoves ==
    ASSUME CheckInv, [Next]_vars, NEW p \in Pollers
    PROVE  \/ poller'[p] = poller[p]
           \/ \E k \in PollKinds : Poll(p, k)
           \/ Fetch(p) \/ FetchFallback(p) \/ FetchFails(p)
           \/ WriteReport(p) \/ WriteMissing(p)
<1>1. ASSUME NEW q \in Pollers, q # p,
             \/ \E k \in PollKinds : Poll(q, k)
             \/ Fetch(q) \/ FetchFallback(q) \/ FetchFails(q)
             \/ WriteReport(q) \/ WriteMissing(q)
      PROVE  poller'[p] = poller[p]
  <2>1. CASE Fetch(q) \/ FetchFallback(q)
    BY <1>1, <2>1, FetchFinds DEF Answers, Fetched
  <2>2. CASE ~(Fetch(q) \/ FetchFallback(q))
    BY <1>1, <2>2 DEF Poll, FetchFails, WriteReport, WriteMissing, CheckInv, Types
  <2> QED
    BY <2>1, <2>2
<1> QED
  BY <1>1, WhoMoves

LEMMA PollersKnowFollows ==
    ASSUME CheckInv, Step, [Next]_vars PROVE PollersKnow'
<1> USE DEF CheckInv
<1> SUFFICES ASSUME NEW p \in Pollers, poller'[p].pc # "idle" PROVE KnowsVendor(p)'
  BY DEF PollersKnow
<1>1. VendorGrows
  BY DEF Step, VendorStep
<1>2. CASE poller'[p] = poller[p]
  <2>1. KnowsVendor(p)
    BY <1>2 DEF PollersKnow
  <2>2. /\ poller[p].pointer \in Pointers /\ poller[p].found \in AnyPointer
        /\ poller[p].pointer \in AnyPointer
    BY <2>1 DEF Types, PollerStates, KnowsVendor, AnyPointer
  <2>3. PointsRight(poller[p].pointer, poller[p].invitation)'
    <3>1. /\ poller[p].pointer.kind = "report" =>
                vendor'[poller[p].pointer.attempt] \in ReportStates
          /\ poller[p].pointer.kind = "invitation" =>
                poller[p].pointer = Invitation(poller[p].invitation)
      BY <1>1, <2>1, <2>2, PointsRightStays DEF KnowsVendor
    <3> QED
      BY <1>2, <3>1 DEF PointsRight
  <2>4. poller[p].found # NoPointer => poller[p].found.attempt \in Attempts
    BY <2>2, PointersAre DEF AnyPointer
  <2> QED
    BY <1>1, <1>2, <2>1, <2>3, <2>4 DEF KnowsVendor, VendorGrows
<1>3. ASSUME NEW k \in PollKinds, Poll(p, k) PROVE KnowsVendor(p)'
  <2>1. /\ poller'[p].pc = "fetch" /\ poller'[p].status = row.status
        /\ poller'[p].pointer = row.pointer /\ poller'[p].invitation = row.invitation
        /\ poller'[p].found = NoPointer /\ vendor' = vendor
        /\ row # NoRow /\ row.status \notin Terminal /\ row.pointer # NoPointer
        /\ row.pointer \in Pointers /\ row.status \in Statuses
    BY <1>3 DEF Poll, Types, Live, Rows
  <2> QED
    BY <2>1 DEF KnowsVendor, RowPointsRight, PointsRight
<1>4. CASE Fetch(p) \/ FetchFallback(p)
  <2>1. vendor' = vendor /\ KnowsVendor(p)
    BY <1>4 DEF Fetch, FetchFallback, PollersKnow
  <2>2. PICK found \in AnyPointer, next \in Statuses : Answers(p, found, next)
    BY <1>4, FetchFinds
  <2>3. next # "none"
    BY DEF Statuses, Terminal
  <2> QED
    BY <2>1, <2>2, <2>3 DEF KnowsVendor, PointsRight, Answers, Fetched
<1>5. CASE FetchFails(p) \/ WriteReport(p) \/ WriteMissing(p)
  BY <1>5 DEF FetchFails, WriteReport, WriteMissing, IdlePoller, Types
<1> QED
  BY <1>2, <1>3, <1>4, <1>5, OnePollMoves

LEMMA CheckInvHolds == Spec => []CheckInv
<1>1. Init => CheckInv
  <2> SUFFICES ASSUME Init PROVE CheckInv
    OBVIOUS
  <2>1. Types
    <3>1. /\ 0 \in 0 .. MaxRows /\ 0 \in 0 .. MaxFaults /\ 0 \in 0 .. 0
          /\ IsFiniteSet({})
      BY CheckBounds, FS_EmptySet
    <3>2. vendor \in [Attempts -> VendorStates]
      BY DEF Init, VendorStates
    <3> QED
      BY <3>1, <3>2, IdleIsTyped DEF Init, Types
  <2>2. Undelivered /\ ClientsKnow /\ EventsAreTrue /\ RowPointsRight /\ PollersKnow
    BY DEF Init, Undelivered, ClientsKnow, EventsAreTrue, RowPointsRight, PollersKnow,
           IdleClient, IdlePoller, Retrying
  <2> QED
    BY <2>1, <2>2 DEF CheckInv
<1>2. CheckInv /\ [Next]_vars => CheckInv'
  <2> SUFFICES ASSUME CheckInv, [Next]_vars PROVE CheckInv'
    OBVIOUS
  <2>1. Step
    BY NextIsStep
  <2> QED
    BY <2>1, UndeliveredFollows, ClientsKnowFollows, RowPointsRightFollows,
       PollersKnowFollows
       DEF CheckInv, Step, VendorStep
<1> QED
  BY <1>1, <1>2, PTL DEF Spec

(* What is stored is well formed for any number of calls: a delivery in     *)
(* flight holds an event that is sent and not settled, and no operation     *)
(* leaves the states of the row, the vendor's checks, the calls and the     *)
(* pollers.                                                                 *)
THEOREM CheckTypes == Spec => []TypeOK
<1>1. CheckInv => TypeOK
  <2> SUFFICES ASSUME CheckInv PROVE TypeOK
    OBVIOUS
  <2>1. \A h \in Hooks : hook[h] = IdleHook \/ hook[h].event \in sent \ done
    BY DEF CheckInv, Types, Undelivered, Deliveries
  <2>2. \A p \in Pollers : poller[p].pc \in {"idle", "fetch", "write"}
    BY DEF CheckInv, Types, PollerStates
  <2> QED
    BY <2>1, <2>2 DEF CheckInv, Types, TypeOK, VendorStates, ClientStates, AnyPointer
<1> QED
  BY <1>1, CheckInvHolds, PTL

-----------------------------------------------------------------------------
(* No unit is stranded.                                                    *)

Gives(c) == Refund(c) \/ RefundThrows(c)

(* The steps of one call leave the other calls alone.                      *)
LEMMA OneCallMoves ==
    ASSUME CheckInv, [Next]_vars, NEW c \in Clients
    PROVE  \/ client'[c] = client[c]
           \/ Request(c) \/ Reclaim(c) \/ Retry(c) \/ Attach(c)
           \/ Progress(c) \/ Failure(c)
<1> SUFFICES ASSUME client'[c] # client[c]
             PROVE  \/ Request(c) \/ Reclaim(c) \/ Retry(c) \/ Attach(c)
                    \/ Progress(c) \/ Failure(c)
  OBVIOUS
<1>0. client \in [Clients -> ClientStates]
  BY DEF CheckInv, Types
<1>1. ASSUME NEW d \in Clients, d # c,
             \/ Request(d) \/ Reclaim(d) \/ Retry(d) \/ Attach(d) \/ Create(d)
             \/ CreateRaced(d) \/ Charge(d) \/ PersistPayment(d) \/ CallVendor(d)
             \/ PersistResult(d) \/ PersistLost(d)
      PROVE  FALSE
  BY <1>0, <1>1 DEF Request, Reclaim, Retry, Attach, Create, CreateRaced, Charge,
                    PersistPayment, CallVendor, PersistResult, PersistLost, Goto, Return
<1>2. ASSUME NEW d \in Clients, d # c,
             \/ RemoveClaim(d) \/ MarkFailed(d) \/ RetryVendor(d) \/ RetrySwap(d)
             \/ AttachComplete(d) \/ ChargeFails(d) \/ PersistPaymentFails(d)
             \/ CallVendorFails(d) \/ PersistFails(d) \/ CleanupThrows(d)
             \/ RetryVendorFails(d) \/ UploadFails(d) \/ Crash(d)
      PROVE  FALSE
  BY <1>0, <1>2 DEF RemoveClaim, MarkFailed, RetryVendor, RetrySwap, AttachComplete,
                    ChargeFails, PersistPaymentFails, CallVendorFails, PersistFails,
                    CleanupThrows, RetryVendorFails, UploadFails, Crash, Goto, Return
<1>3. ASSUME NEW d \in Clients, d # c, Gives(d)
      PROVE  FALSE
  <2>1. /\ client[d].pc \in {"refund", "refundDelete", "refundMark"}
        /\ AfterRefund(d)
    BY <1>3 DEF Gives, Refund, RefundThrows
  <2> QED
    BY <1>0, <1>3, <2>1, AfterRefundMoves DEF Ended, Moved, OthersWait
<1>4. ~(Cancel \/ Remove \/ Idle \/ \E a \in Attempts : Advance(a))
  BY DEF Cancel, Remove, Idle, Advance
<1>5. ASSUME NEW h \in Hooks, \/ \E e \in sent : Deliver(h, e)
                              \/ Commit(h) \/ DeliveryFails(h)
      PROVE  FALSE
  BY <1>5 DEF Deliver, Commit, DeliveryFails, others
<1>6. ASSUME NEW p \in Pollers, \/ \E k \in PollKinds : Poll(p, k)
                                \/ Fetch(p) \/ FetchFallback(p) \/ FetchFails(p)
                                \/ WriteReport(p) \/ WriteMissing(p)
      PROVE  FALSE
  BY <1>6 DEF Poll, Fetch, FetchFallback, FetchFails, WriteReport, WriteMissing
<1>7. ~UNCHANGED vars
  BY DEF vars
<1>8. ASSUME NEW d \in Clients, d # c, Progress(d) \/ Failure(d)
      PROVE  FALSE
  BY <1>1, <1>2, <1>3, <1>8 DEF Progress, Failure, Gives
<1> QED
  BY <1>1, <1>4, <1>5, <1>6, <1>7, <1>8 DEF Next

(* A call that owes a unit goes on owing it, or has the check it paid for,  *)
(* or finds it on the row of a retry or of a custom report.                 *)
LEMMA OwingMoves ==
    ASSUME CheckInv, [Next]_vars, NEW c \in Clients, Owing(c), ~lost', unit' = "held"
    PROVE  \/ Owing(c)'
           \/ PersistResult(c)
           \/ PersistLost(c) /\ Return(c) /\ Owns(c) /\ ~Unswapped(c)
              /\ row.status \notin {"failed", "cancelled"}
<1>0. client \in [Clients -> ClientStates] /\ unit \in {"none", "held", "returned"}
  BY DEF CheckInv, Types
<1>1. CASE client'[c] = client[c]
  BY <1>1 DEF Owing
<1>2. CASE PersistPayment(c) \/ PersistPaymentFails(c) \/ CallVendor(c)
           \/ CallVendorFails(c) \/ PersistFails(c)
  BY <1>0, <1>2, GotoMoves
     DEF PersistPayment, PersistPaymentFails, CallVendor, CallVendorFails, PersistFails,
         Owing, Goto, ClientStates
<1>3. CASE PersistLost(c)
  <2>1. CASE ~Owns(c) \/ row.status \in {"failed", "cancelled"}
    BY <1>0, <1>3, <2>1 DEF PersistLost, Goto, Owing, ClientStates
  <2>2. CASE ~(~Owns(c) \/ row.status \in {"failed", "cancelled"})
    BY <1>3, <2>2 DEF PersistLost
  <2> QED
    BY <2>1, <2>2
<1>4. ~(RefundThrows(c) \/ Crash(c) \/ CleanupThrows(c) \/ Refund(c))
  BY <1>0 DEF RefundThrows, Crash, CleanupThrows, Refund
<1>5. ~(\/ Request(c) \/ Reclaim(c) \/ Retry(c) \/ Attach(c) \/ Create(c)
        \/ CreateRaced(c) \/ Charge(c) \/ RemoveClaim(c) \/ MarkFailed(c)
        \/ RetryVendor(c) \/ RetrySwap(c) \/ AttachComplete(c) \/ ChargeFails(c)
        \/ RetryVendorFails(c) \/ UploadFails(c))
  BY DEF Request, Reclaim, Retry, Attach, Create, CreateRaced, Charge, RemoveClaim,
         MarkFailed, RetryVendor, RetrySwap, AttachComplete, ChargeFails,
         RetryVendorFails, UploadFails, Owing
<1> QED
  BY <1>1, <1>2, <1>3, <1>4, <1>5, OneCallMoves DEF Progress, Failure

(* Only a charge takes a unit, and what was lost or deleted stays so.      *)
LEMMA UnitMoves ==
    ASSUME CheckInv, [Next]_vars, ~lost', ~deleted', unit' = "held"
    PROVE  /\ ~lost /\ ~deleted
           /\ unit = "held" \/ \E c \in Clients : Charge(c)
<1>2. ASSUME NEW c \in Clients,
             \/ Request(c) \/ Reclaim(c) \/ Retry(c) \/ Attach(c) \/ Create(c)
             \/ CreateRaced(c) \/ Charge(c) \/ PersistPayment(c) \/ CallVendor(c)
             \/ PersistResult(c) \/ PersistLost(c) \/ Refund(c) \/ RemoveClaim(c)
             \/ MarkFailed(c) \/ RetryVendor(c) \/ RetrySwap(c) \/ AttachComplete(c)
      PROVE  UNCHANGED <<unit, lost, deleted>> \/ Charge(c)
  BY <1>2 DEF Request, Reclaim, Retry, Attach, Create, CreateRaced, PersistPayment,
              CallVendor, PersistResult, PersistLost, Refund, RemoveClaim, MarkFailed,
              RetryVendor, RetrySwap, AttachComplete, history
<1>3. ASSUME NEW c \in Clients, Charge(c)
      PROVE  UNCHANGED <<lost, deleted>>
  BY <1>3 DEF Charge, history
<1>4. ASSUME NEW c \in Clients, Failure(c)
      PROVE  UNCHANGED <<unit, lost, deleted>>
  BY <1>4 DEF Failure, ChargeFails, PersistPaymentFails, CallVendorFails, PersistFails,
              RefundThrows, CleanupThrows, RetryVendorFails, UploadFails, Crash, history
<1>5. ASSUME Cancel \/ Remove \/ Idle \/ \E a \in Attempts : Advance(a)
      PROVE  UNCHANGED <<unit, lost, deleted>>
  BY <1>5 DEF Cancel, Remove, Idle, Advance, history
<1>6. ASSUME NEW h \in Hooks, \/ \E e \in sent : Deliver(h, e)
                              \/ Commit(h) \/ DeliveryFails(h)
      PROVE  UNCHANGED <<unit, lost, deleted>>
  BY <1>6 DEF Deliver, Commit, DeliveryFails, others, history
<1>7. ASSUME NEW p \in Pollers, \/ \E k \in PollKinds : Poll(p, k)
                                \/ Fetch(p) \/ FetchFallback(p) \/ FetchFails(p)
                                \/ WriteReport(p) \/ WriteMissing(p)
      PROVE  UNCHANGED <<unit, lost, deleted>>
  BY <1>7 DEF Poll, Fetch, FetchFallback, FetchFails, WriteReport, WriteMissing, history
<1>8. ASSUME UNCHANGED vars
      PROVE  UNCHANGED <<unit, lost, deleted>>
  BY <1>8 DEF vars, history
<1>9. lost \in BOOLEAN /\ deleted \in BOOLEAN
  BY DEF CheckInv, Types
<1>10. \/ UNCHANGED <<unit, lost, deleted>>
       \/ \E c \in Clients : Charge(c)
  BY <1>2, <1>4, <1>5, <1>6, <1>7, <1>8 DEF Next, Progress
<1> QED
  BY <1>3, <1>9, <1>10

(* Only a stale claim's successor, a failed request and a user remove rows. *)
LEMMA WhoRemoves ==
    ASSUME CheckInv, [Next]_vars, Gone
    PROVE  (\E c \in Clients : Reclaim(c) \/ RemoveClaim(c)) \/ Remove
<1> USE DEF CheckInv
<1> SUFFICES ASSUME ~Remove, \A c \in Clients : ~(Reclaim(c) \/ RemoveClaim(c))
             PROVE  FALSE
  OBVIOUS
<1>1. ~(Stays \/ MarkedFailed \/ Cancelled \/ Completed \/ Persisted)
  BY DEF Gone, Stays, MarkedFailed, Cancelled, Completed, Persisted, Written
<1>2. ASSUME NEW c \in Clients,
             \/ Request(c) \/ Retry(c) \/ CreateRaced(c) \/ Charge(c) \/ CallVendor(c)
             \/ PersistLost(c) \/ Refund(c) \/ RetryVendor(c) \/ Failure(c)
      PROVE  FALSE
  BY <1>2 DEF Gone, Request, Retry, CreateRaced, Charge, CallVendor, PersistLost, Refund,
              RetryVendor, Failure, ChargeFails, PersistPaymentFails, CallVendorFails,
              PersistFails, RefundThrows, CleanupThrows, RetryVendorFails, UploadFails,
              Crash
<1>3. ASSUME NEW c \in Clients,
             \/ Create(c) \/ Attach(c) \/ PersistPayment(c) \/ PersistResult(c)
             \/ MarkFailed(c) \/ RetrySwap(c) \/ AttachComplete(c)
      PROVE  FALSE
  <2>1. client[c].pc \notin {"idle", "create"} => client[c].id \in 1 .. rows
    BY DEF ClientsKnow
  <2>2. CASE Create(c) \/ Attach(c)
    BY <2>2 DEF Create, Attach, Insert, Gone
  <2>3. CASE PersistPayment(c)
    BY <1>1, <2>1, <2>3, PersistPaymentWrites DEF PersistPayment
  <2>4. CASE PersistResult(c)
    BY <1>1, <2>1, <2>4, PersistResultWrites DEF PersistResult
  <2>5. CASE MarkFailed(c)
    BY <1>1, <2>1, <2>5, MarkFailedWrites DEF MarkFailed
  <2>6. CASE RetrySwap(c)
    BY <1>1, <2>6, RetrySwapWrites DEF Swapped, Written, Gone
  <2>7. CASE AttachComplete(c)
    BY <1>1, <2>1, <2>7, AttachCompleteWrites DEF AttachComplete
  <2> QED
    BY <1>3, <2>2, <2>3, <2>4, <2>5, <2>6, <2>7
<1>4. ~(Cancel \/ Idle \/ UNCHANGED vars \/ \E a \in Attempts : Advance(a))
  BY <1>1, UserWrites DEF Advance, Gone, vars
<1>5. ASSUME NEW h \in Hooks, \/ \E e \in sent : Deliver(h, e)
                              \/ Commit(h) \/ DeliveryFails(h)
      PROVE  FALSE
  BY <1>1, <1>5, CommitWrites DEF Deliver, DeliveryFails, Applied, Written, Gone
<1>6. ASSUME NEW p \in Pollers, \/ \E k \in PollKinds : Poll(p, k)
                                \/ Fetch(p) \/ FetchFallback(p) \/ FetchFails(p)
                                \/ WriteReport(p) \/ WriteMissing(p)
      PROVE  FALSE
  <2>1. ~Polled(p)
    BY DEF Polled, Written, Gone
  <2>2. CASE (\E k \in PollKinds : Poll(p, k)) \/ Fetch(p) \/ FetchFallback(p)
    BY <2>2 DEF Poll, Fetch, FetchFallback, Gone
  <2> QED
    BY <1>1, <1>6, <2>1, <2>2, FetchFailsWrites, WriteReportWrites,
       WriteMissingWrites
<1> QED
  BY <1>2, <1>3, <1>4, <1>5, <1>6 DEF Next, Progress

LEMMA ClaimsDifferFollows ==
    ASSUME CheckInv, ClaimsDiffer, Step PROVE ClaimsDiffer'
<1> USE DEF CheckInv
<1>1. /\ rows \in Nat
      /\ \A c \in Clients : Claiming(c) => client[c].id \in 1 .. rows
  BY CheckBounds DEF Types, ClientsKnow, Claiming
<1>2. CASE UNCHANGED client
  BY <1>2 DEF ClaimsDiffer, Claiming
<1>3. ASSUME NEW c \in Clients, Begun(c), client'[c].pc = "charge"
      PROVE  ClaimsDiffer'
  <2>1. client'[c].id = rows + 1
    BY <1>3 DEF Begun
  <2>2. \A d \in Clients \ {c} : /\ client'[d] = client[d]
                                 /\ Claiming(d) => client[d].id # rows + 1
    BY <1>1, <1>3 DEF Begun, OthersWait
  <2> QED
    BY <2>1, <2>2 DEF ClaimsDiffer, Claiming
<1>4. ASSUME NEW c \in Clients, OthersWait(c),
             Claiming(c)' => Claiming(c) /\ client'[c].id = client[c].id
      PROVE  ClaimsDiffer'
  BY <1>4 DEF ClaimsDiffer, Claiming, OthersWait
<1>5. ASSUME NEW c \in Clients, Begun(c), client'[c].pc # "charge"
      PROVE  ClaimsDiffer'
  BY <1>4, <1>5 DEF Begun, Claiming
<1>6. ASSUME NEW c \in Clients, Ended(c)
      PROVE  ClaimsDiffer'
  BY <1>4, <1>6 DEF Ended, Claiming, IdleClient
<1>7. ASSUME NEW c \in Clients, NEW s \in Steps, client[c].pc = s[1], Moved(c, s[2])
      PROVE  ClaimsDiffer'
  <2>1. Claiming(c)' => Claiming(c)
    BY <1>7 DEF Moved, Claiming, Steps
  <2> QED
    BY <1>4, <1>7, <2>1 DEF Moved
<1> QED
  BY <1>2, <1>3, <1>5, <1>6, <1>7 DEF Step, ClientStep

(* A check that holds a unit keeps it: its row stays, and stays pointed or  *)
(* attached.                                                                *)
LEMMA SettledStays ==
    ASSUME CheckInv, [Next]_vars, Step, Settled, ~deleted'
    PROVE  Settled'
<1> USE DEF CheckInv
<1>1. /\ row \in Rows /\ row # NoRow
      /\ row.pointer # NoPointer \/ row.attached
      /\ \A c \in Clients : Claiming(c) => client[c].id # row.id
  BY DEF Settled, Types
<1>2. ~Gone
  <2>1. ~Remove
    BY DEF Remove
  <2>2. ASSUME NEW c \in Clients, Reclaim(c) PROVE FALSE
    BY <1>1, <2>2 DEF Reclaim, RowPointsRight
  <2>3. ASSUME NEW c \in Clients, RemoveClaim(c), Gone PROVE FALSE
    BY <1>1, <2>3 DEF RemoveClaim, DeleteById, Gone, Claiming
  <2> QED
    BY <2>1, <2>2, <2>3, WhoRemoves
<1>3. /\ row' # NoRow /\ row'.id = row.id
      /\ row'.pointer # NoPointer \/ row'.attached
  <2>1. CASE Stays
    BY <1>1, <2>1 DEF Stays, Written
  <2>2. CASE Persisted
    <3>1. <<row.id, 0>> \in Attempts
      BY <1>1, Attempts0, CheckBounds DEF Rows
    <3> QED
      BY <2>2, <3>1, PointersAre DEF Persisted, Written
  <2>3. CASE MarkedFailed \/ Cancelled
    BY <1>1, <2>3 DEF MarkedFailed, Cancelled, Written
  <2>4. CASE Completed
    BY <2>4 DEF Completed, Written
  <2>5. ASSUME NEW c \in Clients, Swapped(c)
        PROVE  row' # NoRow /\ row'.id = row.id /\ row'.pointer # NoPointer
    BY <2>5 DEF Swapped, Written, Invitation, NoPointer
  <2>6. ASSUME NEW h \in Hooks, Applied(h)
        PROVE  /\ row' # NoRow /\ row'.id = row.id
               /\ row'.pointer # NoPointer \/ row'.attached
    BY <1>1, <2>6 DEF Applied, Written, Report, NoPointer
  <2>7. ASSUME NEW p \in Pollers, Polled(p)
        PROVE  row' # NoRow /\ row'.id = row.id /\ row'.pointer # NoPointer
    BY <2>7 DEF Polled, Written, FoundWritten, MissingWritten
  <2> QED
    BY <1>1, <1>2, <2>1, <2>2, <2>3, <2>4, <2>5, <2>6, <2>7 DEF Step, RowStep, Born
<1>4. ASSUME NEW c \in Clients, Claiming(c)'
      PROVE  client'[c].id # row'.id
  <2>1. CASE client'[c] = client[c]
    BY <1>1, <1>3, <1>4, <2>1 DEF Claiming
  <2>2. ~Begun(c)
    BY <1>1, <1>4 DEF Begun, Claiming
  <2>3. ~Ended(c)
    BY <1>4 DEF Ended, Claiming, IdleClient
  <2>4. ASSUME NEW s \in Steps, client[c].pc = s[1], Moved(c, s[2])
        PROVE  client'[c].id # row'.id
    BY <1>1, <1>3, <1>4, <2>4 DEF Moved, Claiming, Steps
  <2> QED
    BY <2>1, <2>2, <2>3, <2>4 DEF Step, ClientStep, Begun, Moved, Ended, OthersWait
<1> QED
  BY <1>3, <1>4 DEF Settled

LEMMA UnitIsCoveredFollows ==
    ASSUME CheckInv, ClaimsDiffer, UnitIsCovered, [Next]_vars, Step
    PROVE  UnitIsCovered'
<1> USE DEF CheckInv
<1> SUFFICES ASSUME ~lost', ~deleted', unit' = "held"
             PROVE  (\E c \in Clients : Owing(c)') \/ Settled'
  BY DEF UnitIsCovered, Owing
<1>1. /\ ~lost /\ ~deleted
      /\ unit = "held" \/ \E c \in Clients : Charge(c)
  BY UnitMoves
<1>2. ASSUME NEW c \in Clients, Charge(c)
      PROVE  Owing(c)'
  BY <1>2 DEF Charge, Goto, Owing, Types, ClientStates
<1>3. CASE Settled
  BY <1>3, SettledStays
<1>4. ASSUME NEW c \in Clients, Owing(c), ~Owing(c)'
      PROVE  Settled'
  <2>1. \/ PersistResult(c)
        \/ PersistLost(c) /\ Return(c) /\ Owns(c) /\ ~Unswapped(c)
           /\ row.status \notin {"failed", "cancelled"}
    BY <1>4, OwingMoves
  <2>2. /\ Claiming(c) /\ client[c].pc = "persist"
        /\ client[c].id \in 1 .. rows
        /\ Ended(c)
    BY <2>1, ReturnEnds
       DEF PersistResult, PersistLost, Claiming, ClientsKnow, Types
  <2>3. \A d \in Clients : Claiming(d)' => client'[d].id # client[c].id
    BY <2>2 DEF Ended, OthersWait, ClaimsDiffer, Claiming, IdleClient
  <2>4. CASE PersistResult(c)
    <3>1. Persisted /\ row.id = client[c].id
      BY <2>2, <2>4, PersistResultWrites
    <3>2. /\ row' # NoRow /\ row'.id = client[c].id /\ row'.pointer # NoPointer
      BY <3>1 DEF Persisted, Written, Invitation, NoPointer
    <3> QED
      BY <2>3, <3>2 DEF Settled, Claiming
  <2>5. CASE /\ PersistLost(c) /\ Owns(c) /\ ~Unswapped(c)
             /\ row.status \notin {"failed", "cancelled"}
    <3>1. row' = row /\ row.id = client[c].id /\ row # NoRow
      BY <2>2, <2>5, NoRowIsNone DEF PersistLost, Owns
    <3>2. row.pointer # NoPointer \/ row.attached
      BY <2>5, <3>1 DEF Unswapped, Terminal, RowPointsRight
    <3> QED
      BY <2>3, <3>1, <3>2 DEF Settled, Claiming
  <2> QED
    BY <2>1, <2>4, <2>5
<1> QED
  BY <1>1, <1>2, <1>3, <1>4 DEF UnitIsCovered

(* A unit that is held when no call is in flight stands for a vendor check  *)
(* or a custom report, whatever the calls, retries, webhooks and polls      *)
(* before: every path of requestBackgroundCheckForMember that gives up      *)
(* refunds, and no path removes the row another call's unit stands for.     *)
THEOREM UnitsAreCovered == Spec => []NoUnitIsStranded
<1>1. Init => ClaimsDiffer /\ UnitIsCovered
  BY DEF Init, ClaimsDiffer, Claiming, IdleClient, UnitIsCovered
<1>2. CheckInv /\ ClaimsDiffer /\ UnitIsCovered /\ [Next]_vars
        => ClaimsDiffer' /\ UnitIsCovered'
  BY NextIsStep, ClaimsDifferFollows, UnitIsCoveredFollows
<1>3. UnitIsCovered => NoUnitIsStranded
  BY DEF UnitIsCovered, NoUnitIsStranded, Owing, Settled, IdleClient
<1> QED
  BY <1>1, <1>2, <1>3, CheckInvHolds, PTL DEF Spec

-----------------------------------------------------------------------------
(* Attempts: what a retry has superseded stays behind.                     *)

(* A row that is on track after a step has been so before it.              *)
LEMMA OnTrack ==
    ASSUME RowStep, row # NoRow, row' # NoRow, ~Astray'
    PROVE  ~Astray /\ row'.id = row.id
<1>1. CASE Stays /\ Aside
  BY <1>1 DEF Stays, Written, Aside, Astray
<1>2. CASE (Persisted \/ MarkedFailed \/ Cancelled \/ Completed) /\ Aside
  BY <1>2 DEF Persisted, MarkedFailed, Cancelled, Completed, Written, Aside, Astray
<1>3. ASSUME NEW c \in Clients, Swapped(c) PROVE ~Astray /\ row'.id = row.id
  BY <1>3 DEF Swapped, Written, Astray
<1>4. ASSUME NEW h \in Hooks, Applied(h) PROVE ~Astray /\ row'.id = row.id
  BY <1>4 DEF Applied, Written, Astray
<1>5. ASSUME NEW p \in Pollers, Polled(p), Aside PROVE ~Astray /\ row'.id = row.id
  BY <1>5 DEF Polled, Written, Aside, Astray
<1> QED
  BY <1>1, <1>2, <1>3, <1>4, <1>5 DEF RowStep, Born, Gone

LEMMA NoAttemptIs ==
    /\ NoAttempt \notin Attempts /\ NoAttempt[1] = 0 /\ NoPointer.attempt = NoAttempt
    /\ \A i \in 1 .. MaxRows, k \in 0 .. MaxRetries : NoAttempt # <<i, k>>
<1>1. NoAttempt[1] = 0 /\ \A i \in 1 .. MaxRows, k \in 0 .. MaxRetries : <<i, k>>[1] # 0
  BY DEF NoAttempt
<1> QED
  BY <1>1, Attempts0 DEF NoPointer

(* A swap that is not misled is that of a retry that is ahead: one that is  *)
(* behind does not find the pointer it read.                                *)
LEMMA SwapIsAhead ==
    ASSUME CheckInv, AttemptInv, NEW c \in Clients, Swapped(c), ~Astray'
    PROVE  client[c].id = row.id /\ Ahead(c) /\ RowOwns
<1> USE DEF CheckInv
<1>1. /\ client[c].id = row.id /\ row # NoRow /\ ~Astray
      /\ row.pointer = client[c].pointer /\ Retrying(c)
  BY DEF Swapped, Written, Retrying, Astray
<1>2. RowOwns /\ row \in Rows
  BY <1>1 DEF AttemptInv, Types
<1>3. ASSUME Behind(c) PROVE FALSE
  <2>1. CASE row.pointer = NoPointer
    <3>1. row.rerun = 0 /\ client[c].rerun \in 1 .. MaxRetries
      BY <1>1, <2>1 DEF RowPointsRight, ClientsKnow
    <3> QED
      BY <1>3, <3>1 DEF Behind
  <2>2. CASE row.pointer # NoPointer
    <3>1. row.pointer \in row.superseded /\ row.pointer \in Pointers
      BY <1>1, <1>2, <1>3, <2>2 DEF Behind, Rows
    <3>2. row.pointer.attempt \in Attempts /\ row.pointer.attempt = row.invitation
      BY <1>2, <3>1, PointersAre DEF RowOwns, PointsAtPresent
    <3>3. row.pointer.attempt = <<row.id, row.rerun>>
      BY <1>2, <3>2, NoAttemptIs DEF RowOwns, OwnAttempts
    <3>4. row.rerun \in 0 .. MaxRetries
      BY <1>2, <1>1 DEF Rows
    <3>5. row.rerun < row.rerun
      BY <1>2, <3>1, <3>3, <3>4 DEF RowOwns, OwnAttempts
    <3> QED
      BY <3>4, <3>5
  <2> QED
    BY <2>1, <2>2
<1> QED
  BY <1>1, <1>2, <1>3 DEF RowOwns, RetriesKnow

(* A retry under way has just read the row, or goes on with what it read.  *)
LEMMA RetryGoesOn ==
    ASSUME CheckInv, Step, NEW c \in Clients, Retrying(c)'
    PROVE  \/ row' = row /\ row # NoRow /\ Ahead(c)' /\ client'[c].id = row.id
           \/ /\ Retrying(c) /\ client'[c].id = client[c].id
              /\ client'[c].rerun = client[c].rerun
              /\ client'[c].pointer = client[c].pointer
<1>1. CASE client'[c] = client[c]
  BY <1>1 DEF Retrying
<1>2. CASE Begun(c)
  <2>1. /\ client'[c].pc = "retryVendor" /\ row # NoRow /\ row' = row
        /\ row.status \in {"failed", "cancelled"}
        /\ client'[c].id = row.id /\ client'[c].rerun = row.rerun + 1
        /\ client'[c].pointer = row.pointer
    BY <1>2 DEF Begun, Retrying
  <2> QED
    BY <2>1 DEF Ahead, Terminal
<1>3. ~Ended(c)
  BY DEF Ended, Retrying, IdleClient
<1>4. ASSUME NEW s \in Steps, client[c].pc = s[1], Moved(c, s[2])
      PROVE  /\ Retrying(c) /\ client'[c].id = client[c].id
             /\ client'[c].rerun = client[c].rerun
             /\ client'[c].pointer = client[c].pointer
  BY <1>4 DEF Moved, Retrying, Steps
<1> QED
  BY <1>1, <1>2, <1>3, <1>4 DEF Step, ClientStep, Begun, Moved, Ended, OthersWait

(* So has a delivery, which was not ignored, ...                           *)
LEMMA HookGoesOn ==
    ASSUME CheckInv, [Next]_vars, NEW h \in Hooks, hook'[h] # IdleHook
    PROVE  \/ hook'[h] = hook[h]
           \/ /\ row' = row /\ row # NoRow
              /\ hook'[h].id = row.id /\ hook'[h].rerun = row.rerun
              /\ ~Ignored(row, hook'[h].event)
<1>1. hook \in [Hooks -> Deliveries \cup {IdleHook}]
  BY DEF CheckInv, Types
<1>2. ASSUME NEW g \in Hooks, NEW e \in sent, Deliver(g, e), hook'[h] # hook[h]
      PROVE  /\ row' = row /\ row # NoRow
             /\ hook'[h].id = row.id /\ hook'[h].rerun = row.rerun
             /\ ~Ignored(row, hook'[h].event)
  <2> DEFINE next == [pc |-> "commit", id |-> row.id, rerun |-> row.rerun,
                      event |-> e, direct |-> row.pointer = PointerOf(e)]
  <2>1. /\ ~Ignored(row, e) /\ hook' = [hook EXCEPT ![g] = next]
        /\ row' = row /\ row # NoRow
    BY <1>2 DEF Deliver
  <2>2. next.id = row.id /\ next.rerun = row.rerun /\ next.event = e
    OBVIOUS
  <2> HIDE DEF next
  <2> QED
    BY <1>1, <1>2, <2>1, <2>2
<1>3. ASSUME NEW g \in Hooks, Commit(g) \/ DeliveryFails(g)
      PROVE  hook'[h] = hook[h]
  BY <1>1, <1>3 DEF Commit, DeliveryFails
<1> QED
  BY <1>2, <1>3, WhoMoves

(* ... and a poll.                                                         *)
LEMMA PollGoesOn ==
    ASSUME CheckInv, [Next]_vars, NEW p \in Pollers, poller'[p].pc # "idle"
    PROVE  \/ /\ poller[p].pc # "idle" /\ poller'[p].id = poller[p].id
              /\ poller'[p].pointer = poller[p].pointer
              /\ poller'[p].invitation = poller[p].invitation
           \/ /\ row' = row /\ row # NoRow /\ row.pointer # NoPointer
              /\ poller'[p].id = row.id /\ poller'[p].pointer = row.pointer
              /\ poller'[p].invitation = row.invitation
<1>1. CASE poller'[p] = poller[p]
  BY <1>1
<1>2. ASSUME NEW k \in PollKinds, Poll(p, k)
      PROVE  /\ row' = row /\ row # NoRow /\ row.pointer # NoPointer
             /\ poller'[p].id = row.id /\ poller'[p].pointer = row.pointer
             /\ poller'[p].invitation = row.invitation
  BY <1>2 DEF Poll, Live, CheckInv, Types
<1>3. CASE Fetch(p) \/ FetchFallback(p)
  BY <1>3, FetchFinds DEF Answers, Fetched, Fetch, FetchFallback
<1>4. ~(FetchFails(p) \/ WriteReport(p) \/ WriteMissing(p))
  BY DEF FetchFails, WriteReport, WriteMissing, IdlePoller, CheckInv, Types
<1> QED
  BY <1>1, <1>2, <1>3, <1>4, OnePollMoves

(* Where the vendor's checks of the row stand after the step, seen from the *)
(* row before it.                                                           *)
LEMMA NoFurtherAttempts ==
    ASSUME CheckInv, AttemptInv, Step
    PROVE  /\ \A a \in Attempts : vendor'[a] # "none" => a[1] \in 1 .. rows
           /\ row # NoRow /\ ~Astray =>
                 \A k \in 0 .. MaxRetries : vendor'[<<row.id, k>>] # "none" =>
                    k <= row.rerun \/ (k = row.rerun + 1 /\ row.status \in Terminal)
<1> USE DEF CheckInv, AttemptInv
<1>1. ASSUME NEW a \in Attempts, vendor[a] = "none", vendor'[a] # "none"
      PROVE  \E c \in Clients : /\ client[c].pc \in {"vendor", "retryVendor"}
                                /\ client[c].id = a[1]
                                /\ client[c].id \in 1 .. rows
                                /\ \/ a[2] = 0
                                   \/ Retrying(c) /\ client[c].rerun = a[2]
  <2>1. PICK c \in Clients : client[c].pc \in {"vendor", "retryVendor"} /\ a = Asked(c)
    BY <1>1 DEF Step, VendorStep
  <2>2. client[c].id \in 1 .. rows
    BY <2>1 DEF ClientsKnow
  <2> QED
    BY <2>1, <2>2 DEF Asked, Retrying
<1>2. \A a \in Attempts : vendor'[a] # "none" => a[1] \in 1 .. rows
  BY <1>1 DEF Ordered
<1>3. ASSUME row # NoRow, ~Astray, NEW k \in 0 .. MaxRetries,
             vendor'[<<row.id, k>>] # "none"
      PROVE  k <= row.rerun \/ (k = row.rerun + 1 /\ row.status \in Terminal)
  <2>1. row \in Rows /\ row.rerun \in Nat /\ <<row.id, k>> \in Attempts
    BY <1>3, Attempts0 DEF Types, Rows
  <2>2. CASE vendor[<<row.id, k>>] # "none"
    BY <1>3, <2>2 DEF RowOwns, OwnAttempts
  <2>3. CASE vendor[<<row.id, k>>] = "none"
    <3>1. PICK c \in Clients : /\ client[c].id = row.id
                               /\ k = 0 \/ (Retrying(c) /\ client[c].rerun = k)
      BY <1>1, <1>3, <2>1, <2>3
    <3> QED
      BY <1>3, <2>1, <3>1 DEF RowOwns, RetriesKnow, Behind, Ahead
  <2> QED
    BY <2>2, <2>3
<1> QED
  BY <1>2, <1>3

LEMMA OrderedFollows ==
    ASSUME CheckInv, AttemptInv, Step, [Next]_vars
    PROVE  Ordered'
<1> USE DEF CheckInv
<1>1. /\ rows \in Nat /\ rows' \in Nat /\ rows <= rows' /\ Ordered
      /\ \A i \in 1 .. rows : i \in 1 .. rows'
  BY CheckBounds DEF Step, Types, AttemptInv
<1>2. \A a \in Attempts : vendor'[a] # "none" => a[1] \in 1 .. rows'
  BY <1>1, NoFurtherAttempts
<1>3. ASSUME row' # NoRow PROVE row'.pointer.attempt[1] <= row'.id
  <2>1. row # NoRow => row.id = rows /\ row.pointer.attempt[1] <= row.id
    BY <1>1 DEF Ordered, Types
  <2>2. CASE Stays \/ MarkedFailed \/ Cancelled \/ Completed
    BY <1>3, <2>1, <2>2 DEF Stays, MarkedFailed, Cancelled, Completed, Written
  <2>3. CASE Born
    BY <1>1, <2>3, NoAttemptIs DEF Born, NewRow
  <2>4. CASE Persisted
    <3>1. row'.pointer = Invitation(<<row.id, 0>>) /\ row'.id = row.id /\ row.id = rows
      BY <2>1, <2>4 DEF Persisted, Written
    <3> QED
      BY <1>1, <3>1 DEF Invitation
  <2>5. ASSUME NEW c \in Clients, Swapped(c)
        PROVE  row'.pointer.attempt[1] <= row'.id
    <3>1. /\ row'.pointer = Invitation(<<client[c].id, client[c].rerun>>)
          /\ row'.id = rows /\ client[c].id \in 1 .. rows
      BY <2>1, <2>5 DEF Swapped, Written, ClientsKnow
    <3> QED
      BY <1>1, <3>1 DEF Invitation
  <2>6. ASSUME NEW a \in Attempts, vendor[a] \in ReportStates,
               row # NoRow, row'.id = row.id, row'.pointer.attempt = a
        PROVE  row'.pointer.attempt[1] <= row'.id
    BY <1>1, <2>1, <2>6 DEF Ordered, ReportStates
  <2>7. ASSUME NEW h \in Hooks, Applied(h)
        PROVE  row'.pointer.attempt[1] <= row'.id
    <3>1. CASE row'.pointer = row.pointer
      BY <2>1, <2>7, <3>1 DEF Applied, Written
    <3>2. CASE row'.pointer # row.pointer
      <4>1. /\ IsReport(hook[h].event) /\ hook[h].event \in sent
            /\ hook[h].event.attempt \in Attempts
            /\ row'.pointer.attempt = hook[h].event.attempt
        BY <2>7, <3>2 DEF Applied, Types, Deliveries, Mails, Report
      <4> QED
        BY <2>6, <2>7, <4>1 DEF EventsAreTrue, Applied, Written
    <3> QED
      BY <3>1, <3>2
  <2>8. ASSUME NEW p \in Pollers, Polled(p)
        PROVE  row'.pointer.attempt[1] <= row'.id
    <3>1. CASE MissingWritten(p)
      BY <2>1, <2>8, <3>1 DEF Polled, Written, MissingWritten
    <3>2. CASE FoundWritten(p)
      <4>1. /\ row'.pointer \in Pointers /\ vendor[row'.pointer.attempt] \in ReportStates
        BY <2>8, <3>2
           DEF FoundWritten, Polled, PollersKnow, KnowsVendor, Types, PollerStates,
               AnyPointer
      <4> QED
        BY <2>6, <2>8, <4>1, PointersAre DEF Polled, Written
    <3> QED
      BY <2>8, <3>1, <3>2 DEF Polled
  <2>9. ~Gone
    BY <1>3 DEF Gone
  <2> QED
    BY <2>2, <2>3, <2>4, <2>5, <2>7, <2>8, <2>9 DEF Step, RowStep
<1>4. ASSUME NEW h \in Hooks, hook'[h] # IdleHook PROVE hook'[h].id \in 1 .. rows'
  BY <1>1, <1>4, HookGoesOn DEF Ordered, Types
<1>5. ASSUME NEW p \in Pollers, poller'[p].pc # "idle"
      PROVE  poller'[p].id \in 1 .. rows' /\ poller'[p].pointer.attempt[1] <= poller'[p].id
  BY <1>1, <1>5, PollGoesOn DEF Ordered, Types
<1> QED
  BY <1>2, <1>3, <1>4, <1>5 DEF Ordered

-----------------------------------------------------------------------------
(* The row goes on owning its attempts.                                    *)

(* A delivery that is not ignored knows what it brings.                    *)
LEMMA ResolvedKnows ==
    ASSUME CheckInv, row # NoRow, NEW e, ~Ignored(row, e), IsReport(e),
           row.superseded # {}
    PROVE  e.attempt = row.invitation \/ row.pointer.kind = "report"
<1> SUFFICES ASSUME row.pointer.kind # "report" PROVE e.attempt = row.invitation
  OBVIOUS
<1>1. /\ row.pointer \in Pointers /\ row.pointer # NoPointer
      /\ row.pointer.kind = "invitation" /\ row.pointer = Invitation(row.invitation)
  BY DEF CheckInv, Types, Rows, RowPointsRight, PointsRight, Pointers
<1>2. PointerOf(e) # row.pointer
  BY <1>1 DEF PointerOf, IsReport
<1> QED
  BY <1>1, <1>2 DEF Ignored, Stale, Ambiguous

(* As long as a row keeps its rerun and what it has superseded, and points  *)
(* at its present attempt, it owns what it owned.                           *)
LEMMA RowOwnsStays ==
    ASSUME CheckInv, AttemptInv, Step, [Next]_vars,
           row # NoRow, row' # NoRow, ~Astray',
           row'.rerun = row.rerun, row'.superseded = row.superseded,
           row.status \in Terminal => row'.status \in Terminal /\ row'.pointer = row.pointer,
           \A k \in 0 .. MaxRetries : row'.pointer.attempt = <<row.id, k>> => k <= row.rerun,
           row'.invitation \in {NoAttempt, <<row.id, row.rerun>>},
           row.pointer # NoPointer =>
              row'.pointer # NoPointer /\ row'.invitation = row.invitation,
           row.superseded # {} =>
              /\ row'.pointer.attempt = row'.invitation
              /\ row'.pointer = row.pointer \/ row'.pointer.kind = "report"
    PROVE  RowOwns'
<1>1. RowOwns /\ ~Astray /\ row'.id = row.id
  BY OnTrack DEF AttemptInv, Step
<1>2. row.superseded # {} => row.pointer # NoPointer
  BY DEF CheckInv, RowPointsRight
<1>3. OwnAttempts'
  BY <1>1, NoFurtherAttempts DEF RowOwns, OwnAttempts
<1>4. ASSUME NEW c \in Clients, Retrying(c)', client'[c].id = row'.id
      PROVE  Behind(c)' \/ Ahead(c)'
  <2>1. CASE /\ Retrying(c) /\ client'[c].id = client[c].id
             /\ client'[c].rerun = client[c].rerun
             /\ client'[c].pointer = client[c].pointer
    BY <1>1, <1>4, <2>1 DEF RowOwns, RetriesKnow, Behind, Ahead
  <2> QED
    BY <1>4, <2>1, RetryGoesOn
<1>5. ASSUME NEW h \in Hooks, hook'[h] # IdleHook, hook'[h].id = row'.id
      PROVE  HookKnows(h)'
  <2>1. CASE hook'[h] = hook[h]
    <3>1. HookKnows(h)
      BY <1>1, <1>5, <2>1 DEF RowOwns, HooksKnow
    <3> QED
      BY <1>2, <2>1, <3>1 DEF HookKnows
  <2>2. CASE /\ row' = row /\ hook'[h].rerun = row.rerun
             /\ ~Ignored(row, hook'[h].event)
    <3>1. row.rerun \in Nat
      BY DEF CheckInv, Types, Rows
    <3> QED
      BY <2>2, <3>1, ResolvedKnows DEF HookKnows
  <2> QED
    BY <1>5, <2>1, <2>2, HookGoesOn
<1>6. ASSUME NEW p \in Pollers, poller'[p].pc # "idle", poller'[p].id = row'.id
      PROVE  PollReads(p)'
  <2>1. CASE /\ poller[p].pc # "idle" /\ poller'[p].id = poller[p].id
             /\ poller'[p].pointer = poller[p].pointer
             /\ poller'[p].invitation = poller[p].invitation
    <3>1. PollReads(p)
      BY <1>1, <1>6, <2>1 DEF RowOwns, PollsRead
    <3> QED
      BY <1>1, <2>1, <3>1 DEF PollReads
  <2>2. CASE /\ row' = row /\ row.pointer # NoPointer
             /\ poller'[p].pointer = row.pointer
             /\ poller'[p].invitation = row.invitation
    BY <2>2 DEF PollReads
  <2> QED
    BY <1>6, <2>1, <2>2, PollGoesOn
<1> QED
  BY <1>3, <1>4, <1>5, <1>6 DEF RowOwns, RetriesKnow, HooksKnow, PollsRead, PointsAtPresent

(* The same, for a row whose pointer stays.                                *)
LEMMA PointerKept ==
    ASSUME CheckInv, AttemptInv, Step, [Next]_vars,
           row # NoRow, row' # NoRow, ~Astray',
           row'.rerun = row.rerun, row'.superseded = row.superseded,
           row'.pointer = row.pointer, row'.invitation = row.invitation,
           row.status \in Terminal => row'.status \in Terminal
    PROVE  RowOwns'
<1>1. RowOwns
  BY OnTrack DEF AttemptInv, Step
<1>2. /\ \A k \in 0 .. MaxRetries : row'.pointer.attempt = <<row.id, k>> => k <= row.rerun
      /\ row'.invitation \in {NoAttempt, <<row.id, row.rerun>>}
      /\ row.superseded # {} => row'.pointer.attempt = row'.invitation
  BY <1>1 DEF RowOwns, OwnAttempts, PointsAtPresent
<1> QED
  BY <1>2, RowOwnsStays

LEMMA SwapOwns ==
    ASSUME CheckInv, AttemptInv, Step, [Next]_vars,
           NEW c \in Clients, Swapped(c), ~Astray'
    PROVE  RowOwns'
<1> USE DEF CheckInv
<1> DEFINE a == <<row.id, row.rerun + 1>>
<1>1. /\ client[c].id = row.id /\ client[c].rerun = row.rerun + 1 /\ RowOwns
      /\ client[c].pointer = row.pointer
  BY SwapIsAhead DEF Ahead
<1>2. /\ row # NoRow /\ row' # NoRow /\ row'.id = row.id
      /\ row'.rerun = row.rerun + 1 /\ row'.pointer = Invitation(a)
      /\ row'.invitation = a
      /\ row'.superseded = row.superseded \cup ({row.pointer} \ {NoPointer})
      /\ Ended(c)
  BY <1>1 DEF Swapped, Written
<1>3. ~Astray
  BY <1>2, OnTrack DEF Step
<1>4. /\ row.rerun \in Nat /\ row.rerun + 1 \in 0 .. MaxRetries /\ a \in Attempts
      /\ row' # row
  <2>1. row \in Rows /\ row' \in Rows
    BY <1>2 DEF Types, Step
  <2> QED
    BY <1>2, <2>1, Attempts0 DEF Rows
<1>5. Invitation(a) # NoPointer /\ Invitation(a).attempt = a
  BY <1>4, PointersAre
<1>6. OwnAttempts'
  <2>1. ASSUME NEW k \in 0 .. MaxRetries, vendor'[<<row'.id, k>>] # "none"
        PROVE  k <= row'.rerun
    BY <1>2, <1>3, <1>4, <2>1, NoFurtherAttempts
  <2>2. ASSUME NEW k \in 0 .. MaxRetries, row'.pointer.attempt = <<row'.id, k>>
        PROVE  k <= row'.rerun
    BY <1>2, <1>4, <1>5, <2>2
  <2>3. ASSUME NEW p \in row'.superseded, NEW k \in 0 .. MaxRetries,
               p.attempt = <<row'.id, k>>
        PROVE  k < row'.rerun
    BY <1>1, <1>2, <1>4, <2>3 DEF RowOwns, OwnAttempts
  <2> QED
    BY <1>2, <2>1, <2>2, <2>3 DEF OwnAttempts
<1>7. ASSUME NEW d \in Clients, Retrying(d)', client'[d].id = row'.id
      PROVE  Behind(d)'
  <2>1. /\ Retrying(d) /\ client'[d].id = client[d].id
        /\ client'[d].rerun = client[d].rerun
        /\ client'[d].pointer = client[d].pointer
    BY <1>4, <1>7, RetryGoesOn
  <2>2. CASE Behind(d)
    <3>1. client[d].rerun \in Nat
      BY DEF Types, ClientStates
    <3> QED
      BY <1>2, <1>4, <2>1, <2>2, <3>1 DEF Behind
  <2>3. CASE Ahead(d)
    BY <1>2, <1>4, <2>1, <2>3 DEF Behind, Ahead
  <2> QED
    BY <1>1, <1>2, <1>7, <2>1, <2>2, <2>3 DEF RowOwns, RetriesKnow
<1>8. ASSUME NEW h \in Hooks, hook'[h] # IdleHook, hook'[h].id = row'.id
      PROVE  HookKnows(h)'
  <2>1. hook'[h] = hook[h] /\ hook[h] \in Deliveries
    BY <1>4, <1>8, HookGoesOn DEF Types
  <2>2. hook[h].rerun \in Nat /\ hook[h].rerun <= row.rerun
    BY <1>1, <1>2, <1>8, <2>1 DEF RowOwns, HooksKnow, HookKnows, Deliveries
  <2> QED
    BY <1>2, <1>4, <2>1, <2>2 DEF HookKnows
<1>9. ASSUME NEW p \in Pollers, poller'[p].pc # "idle", poller'[p].id = row'.id
      PROVE  PollReads(p)'
  <2>1. /\ PollReads(p) /\ poller'[p].pointer = poller[p].pointer
        /\ poller'[p].invitation = poller[p].invitation
    BY <1>1, <1>2, <1>4, <1>9, PollGoesOn DEF RowOwns, PollsRead
  <2>2. row'.superseded # {}
    BY <1>2, <2>1 DEF PollReads
  <2>3. poller[p].pointer # Report(a)
    <3>1. Report(a).attempt = a
      BY <1>4, PointersAre
    <3> QED
      BY <1>4, <2>1, <3>1 DEF PollReads
  <2> QED
    BY <1>2, <1>4, <1>5, <2>1, <2>2, <2>3 DEF PollReads
<1>10. PointsAtPresent'
  BY <1>2, <1>5 DEF PointsAtPresent
<1> QED
  BY <1>6, <1>7, <1>8, <1>9, <1>10 DEF RowOwns, RetriesKnow, HooksKnow, PollsRead

LEMMA BornOwns ==
    ASSUME CheckInv, AttemptInv, Step, [Next]_vars, Born
    PROVE  RowOwns'
<1> USE DEF CheckInv
<1>1. /\ row'.id = rows + 1 /\ row'.superseded = {} /\ row'.pointer = NoPointer
      /\ row'.invitation = NoAttempt /\ row = NoRow /\ row' # row /\ rows \in Nat
  BY NoRowIsNone, CheckBounds DEF Born, NewRow, Types
<1>2. rows + 1 \in 1 .. MaxRows
  BY <1>1, CheckBounds DEF Born, Step, Types
<1>3. \A k \in 0 .. MaxRetries : vendor'[<<row'.id, k>>] = "none"
  <2>1. ASSUME NEW k \in 0 .. MaxRetries, vendor'[<<rows + 1, k>>] # "none"
        PROVE  FALSE
    <3>1. <<rows + 1, k>> \in Attempts /\ <<rows + 1, k>>[1] = rows + 1
      BY <1>2, Attempts0
    <3> QED
      BY <1>1, <2>1, <3>1, NoFurtherAttempts
  <2> QED
    BY <1>1, <2>1
<1>4. OwnAttempts'
  BY <1>1, <1>2, <1>3, NoAttemptIs DEF OwnAttempts
<1>5. ASSUME NEW c \in Clients, Retrying(c)', client'[c].id = row'.id
      PROVE  FALSE
  <2>1. Retrying(c) /\ client'[c].id = client[c].id
    BY <1>1, <1>5, RetryGoesOn
  <2>2. client[c].id \in 1 .. rows
    BY <2>1 DEF ClientsKnow, Retrying
  <2> QED
    BY <1>1, <1>5, <2>1, <2>2
<1>6. ASSUME NEW h \in Hooks, hook'[h] # IdleHook, hook'[h].id = row'.id
      PROVE  FALSE
  BY <1>1, <1>6, HookGoesOn DEF AttemptInv, Ordered
<1>7. ASSUME NEW p \in Pollers, poller'[p].pc # "idle", poller'[p].id = row'.id
      PROVE  FALSE
  BY <1>1, <1>7, PollGoesOn DEF AttemptInv, Ordered
<1> QED
  BY <1>1, <1>4, <1>5, <1>6, <1>7
     DEF RowOwns, RetriesKnow, HooksKnow, PollsRead, PointsAtPresent

(* A report that does not overtake a retry is of the present attempt.      *)
LEMMA ReportIsPresent ==
    ASSUME CheckInv, AttemptInv, Step, NEW h \in Hooks, Applied(h), ~Astray',
           IsReport(hook[h].event), row.superseded # {}
    PROVE  hook[h].event.attempt = row.invitation
<1> DEFINE e == hook[h].event
<1>1. /\ row # NoRow /\ row' # NoRow /\ hook[h] # IdleHook /\ hook[h].id = row.id
      /\ row'.id = row.id
  BY DEF Applied, Written
<1>2. RowOwns
  BY <1>1, OnTrack DEF AttemptInv, Step
<1>3. /\ row.pointer # NoPointer /\ row.pointer.attempt = row.invitation
      /\ HookKnows(h)
  BY <1>1, <1>2
     DEF CheckInv, RowPointsRight, RowOwns, PointsAtPresent, HooksKnow
<1>4. CASE row.pointer = Report(e.attempt)
  BY <1>3, <1>4 DEF Report
<1>5. CASE row.pointer = Invitation(row.invitation) /\ Report(e.attempt) \notin row.superseded
  <2>1. overtaken' # row.id
    BY <1>1 DEF Astray
  <2>2. row.pointer.kind # "report"
    BY <1>5 DEF Invitation
  <2> QED
    BY <1>3, <1>5, <2>1, <2>2 DEF Applied, HookKnows
<1> QED
  BY <1>3, <1>4, <1>5 DEF Applied

LEMMA AppliedOwns ==
    ASSUME CheckInv, AttemptInv, Step, [Next]_vars,
           NEW h \in Hooks, Applied(h), ~Astray'
    PROVE  RowOwns'
<1> USE DEF CheckInv
<1> DEFINE e == hook[h].event
<1>1. /\ row # NoRow /\ row' # NoRow /\ row'.id = row.id /\ row'.rerun = row.rerun
      /\ row'.superseded = row.superseded /\ row'.invitation = row.invitation
      /\ row.status \notin Terminal
  BY DEF Applied, Written
<1>2. RowOwns
  BY <1>1, OnTrack DEF AttemptInv, Step
<1>3. CASE row'.pointer = row.pointer
  BY <1>1, <1>3, PointerKept
<1>4. CASE row'.pointer # row.pointer
  <2>1. /\ IsReport(e) /\ row'.pointer = Report(e.attempt) /\ e \in sent
    BY <1>4 DEF Applied, Types, Deliveries
  <2>2. /\ row'.pointer.attempt = e.attempt /\ row'.pointer.kind = "report"
        /\ row'.pointer # NoPointer /\ vendor[e.attempt] # "none"
    BY <2>1 DEF Report, NoPointer, EventsAreTrue, ReportStates
  <2>3. /\ \A k \in 0 .. MaxRetries : row'.pointer.attempt = <<row.id, k>> => k <= row.rerun
        /\ row'.invitation \in {NoAttempt, <<row.id, row.rerun>>}
    BY <1>1, <1>2, <2>2 DEF RowOwns, OwnAttempts
  <2>4. row.superseded # {} => row'.pointer.attempt = row'.invitation
    BY <1>1, <2>1, <2>2, ReportIsPresent
  <2> QED
    BY <1>1, <2>2, <2>3, <2>4, RowOwnsStays
<1> QED
  BY <1>3, <1>4

(* A poll that has read the row's pointer, of an attempt of the row, has    *)
(* read this row and its invitation.                                        *)
LEMMA PollIsOfThisRow ==
    ASSUME CheckInv, AttemptInv, NEW p \in Pollers, poller[p].pc # "idle",
           row # NoRow, row.pointer = poller[p].pointer, row.pointer.attempt[1] = row.id
    PROVE  poller[p].id = row.id
<1>1. /\ row.id = rows /\ rows \in Nat /\ poller[p].id \in 1 .. rows
      /\ row.id <= poller[p].id
  BY CheckBounds DEF CheckInv, Types, AttemptInv, Ordered
<1> QED
  BY <1>1

LEMMA PollHasInvitation ==
    ASSUME CheckInv, AttemptInv, NEW p \in Pollers, poller[p].pc # "idle",
           row # NoRow, ~Astray, row.pointer = poller[p].pointer, poller[p].id = row.id
    PROVE  poller[p].invitation = row.invitation
<1>1. RowOwns /\ PollReads(p)
  BY DEF AttemptInv, RowOwns, PollsRead
<1>2. CASE row.superseded = {}
  BY <1>1, <1>2 DEF PollReads
<1>3. CASE row.superseded # {} /\ row.pointer.kind = "invitation"
  <2>1. /\ row.pointer = Invitation(row.invitation)
        /\ row.pointer = Invitation(poller[p].invitation)
    BY <1>3 DEF CheckInv, RowPointsRight, PollersKnow, KnowsVendor, PointsRight
  <2> QED
    BY <2>1 DEF Invitation
<1>4. CASE row.superseded # {} /\ row.pointer.kind = "report"
  <2>1. row.pointer \in Pointers /\ row.pointer.attempt = row.invitation
    BY <1>1, <1>4 DEF CheckInv, PollersKnow, KnowsVendor, RowOwns, PointsAtPresent
  <2>2. row.pointer = Report(row.invitation)
    BY <1>4, <2>1 DEF Pointers, Report
  <2> QED
    BY <1>1, <2>2 DEF PollReads
<1>5. row.pointer.kind \in {"invitation", "report"}
  BY DEF CheckInv, PollersKnow, KnowsVendor, Pointers
<1> QED
  BY <1>2, <1>3, <1>4, <1>5

(* What a poll writes is what the row's own invitation leads to.           *)
LEMMA FoundIsPresent ==
    ASSUME CheckInv, AttemptInv, NEW p \in Pollers, Polled(p), FoundWritten(p), ~Astray,
           row.superseded # {} \/ row.pointer.attempt[1] = row.id
    PROVE  row'.pointer \in {row.pointer, Report(row.invitation)}
<1> USE DEF CheckInv
<1>1. /\ row # NoRow /\ RowOwns /\ row.pointer # NoPointer
      /\ poller[p].pc # "idle" /\ KnowsVendor(p)
      /\ row.pointer = poller[p].pointer
      /\ row'.pointer \in {row.pointer, Report(poller[p].invitation)}
  BY DEF Polled, Written, FoundWritten, PollersKnow, KnowsVendor, AttemptInv
<1>2. row.pointer.attempt[1] = row.id
  <2>1. CASE row.superseded # {}
    <3>1. row.pointer \in Pointers /\ row.pointer.attempt = row.invitation
      BY <1>1, <2>1 DEF KnowsVendor, RowOwns, PointsAtPresent
    <3>2. row.invitation = <<row.id, row.rerun>>
      BY <1>1, <3>1, PointersAre, NoAttemptIs DEF RowOwns, OwnAttempts
    <3> QED
      BY <3>1, <3>2
  <2> QED
    BY <2>1
<1>3. poller[p].invitation = row.invitation
  BY <1>1, <1>2, PollIsOfThisRow, PollHasInvitation
<1> QED
  BY <1>1, <1>3

LEMMA PolledOwns ==
    ASSUME CheckInv, AttemptInv, Step, [Next]_vars,
           NEW p \in Pollers, Polled(p), ~Astray'
    PROVE  RowOwns'
<1> USE DEF CheckInv
<1>1. /\ row # NoRow /\ row' # NoRow /\ row'.id = row.id /\ row'.rerun = row.rerun
      /\ row'.superseded = row.superseded /\ row'.invitation = row.invitation
      /\ row.status \notin Terminal
  BY DEF Polled, Written
<1>2. RowOwns /\ ~Astray
  BY <1>1, OnTrack DEF AttemptInv, Step
<1>3. CASE row'.pointer = row.pointer
  BY <1>1, <1>3, PointerKept
<1>4. CASE row'.pointer # row.pointer
  <2>1. FoundWritten(p)
    BY <1>4 DEF Polled, MissingWritten
  <2>2. /\ row'.pointer # NoPointer /\ row'.pointer.kind = "report"
        /\ vendor[row'.pointer.attempt] # "none"
    BY <2>1 DEF Polled, FoundWritten, PollersKnow, KnowsVendor, ReportStates
  <2>3. /\ \A k \in 0 .. MaxRetries : row'.pointer.attempt = <<row.id, k>> => k <= row.rerun
        /\ row'.invitation \in {NoAttempt, <<row.id, row.rerun>>}
    BY <1>1, <1>2, <2>2 DEF RowOwns, OwnAttempts
  <2>4. row.superseded # {} => row'.pointer.attempt = row'.invitation
    BY <1>1, <1>2, <1>4, <2>1, FoundIsPresent DEF Report
  <2> QED
    BY <1>1, <2>2, <2>3, <2>4, RowOwnsStays
<1> QED
  BY <1>3, <1>4

LEMMA PersistedOwns ==
    ASSUME CheckInv, AttemptInv, Step, [Next]_vars, Persisted, ~Astray'
    PROVE  RowOwns'
<1> USE DEF CheckInv
<1> DEFINE a == <<row.id, 0>>
<1>1. /\ row # NoRow /\ row' # NoRow /\ row'.id = row.id /\ row'.rerun = row.rerun
      /\ row'.superseded = row.superseded /\ row'.invitation = a
      /\ row.status \notin Terminal /\ row'.pointer = Invitation(a)
      /\ row.pointer = NoPointer
  BY DEF Persisted, Written
<1>2. row.superseded = {} /\ row.rerun = 0
  BY <1>1 DEF RowPointsRight
<1>3. \A k \in 0 .. MaxRetries : row'.pointer.attempt = <<row.id, k>> => k <= row.rerun
  BY <1>1, <1>2 DEF Invitation
<1> QED
  BY <1>1, <1>2, <1>3, RowOwnsStays

LEMMA AttemptInvFollows ==
    ASSUME CheckInv, AttemptInv, Step, [Next]_vars PROVE AttemptInv'
<1>1. ASSUME row' # NoRow, ~Astray' PROVE RowOwns'
  <2>1. CASE Stays /\ row # NoRow
    BY <1>1, <2>1, PointerKept DEF Stays, Written
  <2>2. CASE Born
    BY <2>2, BornOwns
  <2>3. CASE Persisted
    BY <1>1, <2>3, PersistedOwns
  <2>4. CASE MarkedFailed \/ Cancelled \/ Completed
    BY <1>1, <2>4, PointerKept DEF MarkedFailed, Cancelled, Completed, Written, Terminal
  <2>5. ASSUME NEW c \in Clients, Swapped(c) PROVE RowOwns'
    BY <1>1, <2>5, SwapOwns
  <2>6. ASSUME NEW h \in Hooks, Applied(h) PROVE RowOwns'
    BY <1>1, <2>6, AppliedOwns
  <2>7. ASSUME NEW p \in Pollers, Polled(p) PROVE RowOwns'
    BY <1>1, <2>7, PolledOwns
  <2>8. ~Gone /\ (Stays => row # NoRow)
    BY <1>1 DEF Gone, Stays, Written
  <2> QED
    BY <2>1, <2>2, <2>3, <2>4, <2>5, <2>6, <2>7, <2>8 DEF Step, RowStep
<1> QED
  BY <1>1, OrderedFollows DEF AttemptInv

LEMMA AttemptInvHolds == Spec => [](CheckInv /\ AttemptInv)
<1>1. Init => AttemptInv
  BY DEF Init, AttemptInv, Ordered, IdlePoller
<1>2. CheckInv /\ AttemptInv /\ [Next]_vars => AttemptInv'
  BY NextIsStep, AttemptInvFollows
<1> QED
  BY <1>1, <1>2, CheckInvHolds, PTL DEF Spec

(* A retried row points at the invitation or the report of its present      *)
(* attempt, for any number of retries, deliveries and polls in flight: a    *)
(* retry that is behind finds its guard moved, isStaleIndirectEvent ignores *)
(* what was resolved since the retry, and a poll writes under the pointer   *)
(* it has read.  (Left out are a row that a retry of an earlier row has     *)
(* rewritten, and one that a report resolved before a retry was written to  *)
(* after it.)                                                               *)
THEOREM SupersededStaysBehind == Spec => []PointerIsOfThisAttempt
<1>1. AttemptInv => PointerIsOfThisAttempt
  BY DEF AttemptInv, RowOwns, PointsAtPresent, PointerIsOfThisAttempt
<1> QED
  BY <1>1, AttemptInvHolds, PTL

LEMMA SwapReruns ==
    ASSUME CheckInv, AttemptInv, NEW c \in Clients, Swapped(c), ~Astray'
    PROVE  row'.rerun > row.rerun
<1>1. row'.rerun = row.rerun + 1 /\ row \in Rows
  BY SwapIsAhead DEF Swapped, Written, Ahead, CheckInv, Types
<1> QED
  BY <1>1 DEF Rows

(* A finished check stays finished, against every order of late events,     *)
(* polls, requests and compensations: only a retry, a new attempt, or a     *)
(* custom report moves it; on a row gone astray the retry may start an      *)
(* earlier attempt again.                                                   *)
THEOREM FinishedStaysFinished == Spec => TerminalIsFinal
<1>1. ASSUME CheckInv, AttemptInv, [Next]_vars,
             row # NoRow, row.status \in Terminal, row'.id = row.id
      PROVE  \/ row'.status = row.status
             \/ row'.rerun > row.rerun
             \/ row'.status = "completed" /\ row'.attached
             \/ /\ Astray' /\ row'.status = "invited"
                /\ row'.pointer = Invitation(row'.invitation)
  <2>1. RowStep /\ row.id # 0
    BY <1>1, NextIsStep DEF Step, CheckInv, Types
  <2>2. CASE Stays \/ Completed
    BY <2>2 DEF Stays, Completed, Written
  <2>3. ~(Born \/ Gone \/ Persisted \/ MarkedFailed \/ Cancelled)
    BY <1>1, <2>1, NoRowIsNone DEF Born, Gone, Persisted, MarkedFailed, Cancelled
  <2>4. ASSUME NEW c \in Clients, Swapped(c), ~Astray' PROVE row'.rerun > row.rerun
    BY <1>1, <2>4, SwapReruns
  <2>5. ASSUME NEW c \in Clients, Swapped(c)
        PROVE  row'.status = "invited" /\ row'.pointer = Invitation(row'.invitation)
    BY <2>5 DEF Swapped, Written
  <2>6. (\A h \in Hooks : ~Applied(h)) /\ (\A p \in Pollers : ~Polled(p))
    BY <1>1 DEF Applied, Polled
  <2> QED
    BY <2>1, <2>2, <2>3, <2>4, <2>5, <2>6 DEF RowStep
<1>2. CheckInv /\ AttemptInv /\ [Next]_vars =>
        [(row # NoRow /\ row.status \in Terminal /\ row'.id = row.id) =>
            \/ row'.status = row.status
            \/ row'.rerun > row.rerun
            \/ row'.status = "completed" /\ row'.attached
            \/ /\ Astray' /\ row'.status = "invited"
               /\ row'.pointer = Invitation(row'.invitation)]_vars
  BY <1>1
<1> QED
  BY <1>2, AttemptInvHolds, PTL DEF Spec, TerminalIsFinal

(* A pointer that has graduated to a report of the row moves only with a    *)
(* retry, or to the report of the row's present invitation, to which        *)
(* resolveReport falls back when the pointer's report cannot be read: late  *)
(* events of other attempts, and syncs and reconciliations that read an     *)
(* older pointer, do not move it.                                           *)
THEOREM GraduatedStays == Spec => GraduatedPointerIsFinal
<1>1. ASSUME CheckInv, AttemptInv, [Next]_vars,
             row # NoRow, row.pointer.kind = "report", row.pointer.attempt[1] = row.id,
             row'.id = row.id, ~Astray'
      PROVE  row'.pointer \in {row.pointer, Report(row.invitation)} \/ row'.rerun > row.rerun
  <2>1. RowStep /\ row.id # 0
    BY <1>1, NextIsStep DEF Step, CheckInv, Types
  <2>2. CASE Stays \/ Completed \/ MarkedFailed \/ Cancelled
    BY <2>2 DEF Stays, Completed, MarkedFailed, Cancelled, Written
  <2>3. ~(Born \/ Gone \/ Persisted)
    BY <1>1, <2>1, NoRowIsNone DEF Born, Gone, Persisted, NoPointer
  <2>4. ASSUME NEW c \in Clients, Swapped(c) PROVE row'.rerun > row.rerun
    BY <1>1, <2>4, SwapReruns
  <2>5. ASSUME NEW h \in Hooks, Applied(h) PROVE row'.pointer = row.pointer
    BY <1>1, <2>5 DEF Applied, NoPointer, Invitation
  <2>6. ASSUME NEW p \in Pollers, Polled(p)
        PROVE  row'.pointer \in {row.pointer, Report(row.invitation)}
    <3>1. ~Astray
      BY <1>1, <2>1, <2>6, OnTrack DEF Polled, Written
    <3>2. CASE FoundWritten(p)
      BY <1>1, <2>6, <3>1, <3>2, FoundIsPresent
    <3>3. CASE MissingWritten(p)
      BY <3>3 DEF MissingWritten
    <3> QED
      BY <2>6, <3>2, <3>3 DEF Polled
  <2> QED
    BY <2>1, <2>2, <2>3, <2>4, <2>5, <2>6 DEF RowStep
<1>2. CheckInv /\ AttemptInv /\ [Next]_vars =>
        [(/\ row # NoRow /\ row.pointer.kind = "report" /\ row.pointer.attempt[1] = row.id
          /\ row'.id = row.id /\ ~Astray') =>
            \/ row'.pointer \in {row.pointer, Report(row.invitation)}
            \/ row'.rerun > row.rerun]_vars
  BY <1>1
<1> QED
  BY <1>2, AttemptInvHolds, PTL DEF Spec, GraduatedPointerIsFinal

-----------------------------------------------------------------------------
(* A failure has evidence.                                                 *)

(* The report of the present attempt failed, or its invitation expired; a   *)
(* row without a superseded check takes the first report for its own.       *)
Evident == \/ row.invitation \in Attempts /\ vendor[row.invitation] \in {"failed", "expired"}
           \/ row.superseded = {} /\ vendor[row'.pointer.attempt] = "failed"

(* A report that is written to a row on track is of its present attempt.    *)
LEMMA FailedReportIsEvident ==
    ASSUME CheckInv, AttemptInv, Step, [Next]_vars,
           row # NoRow, row' # NoRow, ~Astray', row'.pointer \in Pointers,
           row'.superseded = row.superseded, row'.invitation = row.invitation,
           vendor[row'.pointer.attempt] = "failed"
    PROVE  Evident
<1>1. RowOwns'
  BY AttemptInvFollows DEF AttemptInv
<1>2. row.superseded # {} => row'.pointer.attempt = row.invitation
  BY <1>1 DEF RowOwns, PointsAtPresent
<1> QED
  BY <1>2, PointersAre DEF Evident

LEMMA AppliedIsEvident ==
    ASSUME CheckInv, AttemptInv, Step, [Next]_vars,
           NEW h \in Hooks, Applied(h), row'.pointer # NoPointer, ~Astray',
           row.status # "failed", row'.status = "failed"
    PROVE  Evident
<1> USE DEF CheckInv
<1> DEFINE e == hook[h].event
<1>1. /\ e \in sent /\ e.attempt \in Attempts /\ row # NoRow /\ row' # NoRow
      /\ row'.superseded = row.superseded /\ row'.invitation = row.invitation
  BY DEF Applied, Written, Types, Deliveries, Mails
<1>2. CASE IsReport(e)
  <2>1. row'.pointer = Report(e.attempt) /\ e.status = "failed"
    BY <1>2 DEF Applied
  <2>2. vendor[e.attempt] = "failed"
    BY <1>1, <1>2, <2>1 DEF EventsAreTrue, Terminal
  <2> QED
    BY <1>1, <2>1, <2>2, FailedReportIsEvident, PointersAre
<1>3. CASE ~IsReport(e)
  <2>1. /\ row'.pointer = row.pointer /\ row.pointer # NoPointer
        /\ e.status = "failed" /\ row.status = "invited"
        /\ row.pointer = Invitation(e.attempt) \/ row.invitation = e.attempt
    BY <1>3 DEF Applied, Terminal
  <2>2. vendor[e.attempt] = "expired"
    BY <1>1, <1>3, <2>1 DEF EventsAreTrue
  <2>3. row.invitation = e.attempt
    BY <1>1, <2>1, PointersAre DEF RowPointsRight, PointsRight, Invitation
  <2> QED
    BY <1>1, <2>2, <2>3 DEF Evident
<1> QED
  BY <1>2, <1>3

LEMMA PolledIsEvident ==
    ASSUME CheckInv, AttemptInv, Step, [Next]_vars,
           NEW p \in Pollers, Polled(p), ~Astray',
           row.status # "failed", row'.status = "failed"
    PROVE  Evident \/ Misread(p)
<1> USE DEF CheckInv
<1>1. /\ row # NoRow /\ row' # NoRow /\ poller[p].pc = "write" /\ KnowsVendor(p)
      /\ row'.superseded = row.superseded /\ row'.invitation = row.invitation
      /\ row'.id = row.id
  BY DEF Polled, Written, PollersKnow
<1>2. ~Astray
  BY <1>1, OnTrack DEF Step
<1>3. CASE FoundWritten(p)
  <2>1. row'.pointer \in Pointers /\ vendor[row'.pointer.attempt] = "failed"
    BY <1>1, <1>3 DEF FoundWritten, KnowsVendor, Types, PollerStates, AnyPointer
  <2> QED
    BY <1>1, <2>1, FailedReportIsEvident
<1>4. CASE MissingWritten(p) /\ ~Misread(p)
  <2>1. /\ row.pointer = poller[p].pointer /\ poller[p].id = row.id
        /\ poller[p].invitation \in Attempts
        /\ vendor[poller[p].invitation] = "expired"
    BY <1>1, <1>4 DEF MissingWritten, KnowsVendor, Terminal
  <2>2. poller[p].invitation = row.invitation
    BY <1>1, <1>2, <2>1, PollHasInvitation
  <2> QED
    BY <2>1, <2>2 DEF Evident
<1> QED
  BY <1>3, <1>4 DEF Polled

(* A check with a vendor check becomes failed only if the report of its     *)
(* present attempt failed or the invitation expired before the step, for    *)
(* every order of events, polls and retries; a row that was never retried   *)
(* fails with the report it takes, and a poll may write what it learnt of   *)
(* another row or an older pointer.                                         *)
THEOREM FailuresHaveEvidence == Spec => FailureHasEvidence
<1>1. ASSUME CheckInv, AttemptInv, [Next]_vars,
             row # NoRow, row' # NoRow, row'.pointer # NoPointer, ~Astray',
             row.status # "failed", row'.status = "failed"
      PROVE  Evident \/ \E p \in Pollers : Misread(p)
  <2>1. Step /\ RowStep
    BY <1>1, NextIsStep DEF Step
  <2>2. ~(Stays \/ Born \/ Gone \/ Persisted \/ MarkedFailed \/ Cancelled \/ Completed)
    BY <1>1 DEF Stays, Born, Gone, Persisted, MarkedFailed, Cancelled, Completed, Written
  <2>3. \A c \in Clients : ~Swapped(c)
    BY <1>1 DEF Swapped, Written
  <2> QED
    BY <1>1, <2>1, <2>2, <2>3, AppliedIsEvident, PolledIsEvident DEF RowStep
<1>2. CheckInv /\ AttemptInv /\ [Next]_vars =>
        [(/\ row # NoRow /\ row' # NoRow /\ row'.pointer # NoPointer /\ ~Astray'
          /\ row.status # "failed" /\ row'.status = "failed") =>
            \/ row.invitation \in Attempts /\ vendor[row.invitation] \in {"failed", "expired"}
            \/ row.superseded = {} /\ vendor[row'.pointer.attempt] = "failed"
            \/ \E p \in Pollers :
                  /\ poller[p].pc = "write" /\ poller'[p].pc = "idle"
                  /\ \/ poller[p].id # row.id
                     \/ poller[p].kind = "reconcile" /\ poller[p].pointer # row.pointer]_vars
  BY <1>1 DEF Misread, Evident
<1> QED
  BY <1>2, AttemptInvHolds, PTL DEF Spec, FailureHasEvidence
=============================================================================
