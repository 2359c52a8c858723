---------------------------- MODULE IsmsDocument ----------------------------
(***************************************************************************)
(* One ISO 27001 document of the ISMS module (src/apps/api/src/isms): its  *)
(* draft (register rows and narrative), the approval of the draft, and the *)
(* published versions frozen by each approval.                             *)
(*                                                                         *)
(* Every edit and every submission is a READ COMMITTED transaction that    *)
(* first takes the document's advisory lock: taking it, with the reads     *)
(* made under it, is one step and the commit another.  approve() is a      *)
(* REPEATABLE READ transaction: it sees the database as it was when its    *)
(* first statement, the one that asks for the lock, BEGAN; it is aborted   *)
(* when it writes a row that somebody wrote since (P2034).  A decline and  *)
(* the seeding of a narrative are single guarded updates without the lock. *)
(***************************************************************************)
EXTENDS Naturals, Sequences

CONSTANTS
  Requests,      \* HTTP requests in flight at once
  Members,       \* members that can be asked to approve
  RowIds,        \* rows of the document's register made or owned by people
  Types,         \* kinds of document: {"register", "review"} or one of them
  None,          \* no member, no lock holder, no row
  MaxEdits,      \* bound: texts written by people
  MaxRounds,     \* bound: submissions for approval
  MaxVersions,   \* bound: published versions
  MaxPlatform    \* bound: states of the platform data

ASSUME TypesAssumption == Types \subseteq {"register", "review"}
ASSUME NoneAssumption == None \notin Requests \cup Members \cup RowIds
ASSUME BoundsAssumption ==
  /\ MaxEdits \in Nat /\ MaxRounds \in Nat
  /\ MaxVersions \in Nat /\ MaxPlatform \in Nat \ {0}

VARIABLES
  type,      \* IsmsDocument.type: a derived register, or management review
  doc,       \* the IsmsDocument row
  rows,      \* the rows people made; a row with text 0 does not exist
  derived,   \* the platform data the derived rows were made from; 0: no rows
  versions,  \* IsmsDocumentVersion rows, by version number
  lock,      \* holder of pg_advisory_xact_lock on the document
  req,       \* the requests
  platform,  \* the data of the platform: frameworks, risks, vendors, wizard
  edits,     \* texts handed out so far
  rounds     \* history: the submissions made, and what became of them

vars == <<type, doc, rows, derived, versions, lock, req, platform, edits, rounds>>

-----------------------------------------------------------------------------
(* Data.  A text is a number: 0 none, 1 the default narrative, the others  *)
(* written by people, each different.                                      *)

Text == 0 .. MaxEdits + 1
Data == 0 .. MaxPlatform
Statuses == {"draft", "needs_review", "approved", "declined"}
Row == [text : Text, done : BOOLEAN, signed : BOOLEAN]
NoRow == [text |-> 0, done |-> FALSE, signed |-> FALSE]
Table == [RowIds -> Row]

Doc == [status : Statuses, approver : Members \cup {None},
        narrative : Text, baseline : Data, current : Nat]

(* What the transaction of approve() sees.                                 *)
Snapshot == [status : Statuses, approver : Members \cup {None},
             rows : Table, narrative : Text, data : Data]

Version == [rows : Table, derived : Data, narrative : Text, source : Data,
            by : Members, latest : BOOLEAN, round : Nat,
            overlapped : BOOLEAN, edited : BOOLEAN]

Round == [approver : Members, declined : BOOLEAN, edited : BOOLEAN]

Present(table) == {i \in RowIds : table[i].text # 0}

(* Clause 9.3: a procedure, a review, and the chair's signature on every   *)
(* review that is done.  The derived registers have no such check.         *)
Complete(table, narrative) ==
  type = "review" =>
    /\ narrative # 0
    /\ Present(table) # {}
    /\ \A i \in Present(table) : table[i].done => table[i].signed

Draft == [rows |-> rows, derived |-> derived, narrative |-> doc.narrative]

Now == [status |-> doc.status, approver |-> doc.approver, rows |-> rows,
        narrative |-> doc.narrative, data |-> platform]

Idle == [pc |-> "idle", op |-> "none", id |-> None, by |-> None, text |-> 0,
         flag |-> FALSE, data |-> 0, seen |-> "draft", ok |-> FALSE,
         snap |-> [status |-> "draft", approver |-> None,
                   rows |-> [i \in RowIds |-> NoRow], narrative |-> 0, data |-> 0],
         conflict |-> FALSE, overlap |-> FALSE, retried |-> FALSE]

Request == [pc : {"idle", "locked", "collected", "checked", "waiting", "declining"},
            op : {"none", "create", "update", "sign", "remove", "adopt", "drop",
                  "narrative", "generate", "submit"},
            id : RowIds \cup {None}, by : Members \cup {None}, text : Text,
            flag : BOOLEAN, data : Data, seen : Statuses, ok : BOOLEAN,
            snap : Snapshot, conflict : BOOLEAN, overlap : BOOLEAN,
            retried : BOOLEAN]

TypeOK ==
  /\ type \in Types
  /\ doc \in Doc
  /\ rows \in Table
  /\ derived \in Data
  /\ versions \in Seq(Version)
  /\ lock \in Requests \cup {None}
  /\ req \in [Requests -> Request]
  /\ platform \in Data
  /\ edits \in 0 .. MaxEdits
  /\ rounds \in Seq(Round)

(* ensureSetup creates the document empty and in draft.                    *)
Init ==
  /\ type \in Types
  /\ doc = [status |-> "draft", approver |-> None, narrative |-> 0,
            baseline |-> 0, current |-> 0]
  /\ rows = [i \in RowIds |-> NoRow]
  /\ derived = 0
  /\ versions = << >>
  /\ lock = None
  /\ req = [r \in Requests |-> Idle]
  /\ platform = 1
  /\ edits = 0
  /\ rounds = << >>

-----------------------------------------------------------------------------
(* What a commit does to the snapshots of the approvals under way: a       *)
(* change of a row that approve() writes too (the document, the derived    *)
(* rows) dooms it; a change of another row goes unnoticed.                 *)

Committed(r, next, hits, unseen) ==
  req' = [q \in Requests |->
            IF q = r THEN next
            ELSE IF req[q].pc = "waiting"
            THEN [req[q] EXCEPT !.conflict = @ \/ hits,
                                !.overlap = @ \/ unseen]
            ELSE req[q]]

(* The lock of the document, taken first in a transaction.                 *)
lockDocument(r, request) ==
  /\ lock = None
  /\ lock' = r
  /\ req' = [req EXCEPT ![r] = [request EXCEPT !.pc = "locked",
                                               !.seen = doc.status]]

\* Mutant: only a document still in review falls back to draft.
invalidateApprovalIfNeeded_reviewOnly(r) ==
  IF req[r].seen = "needs_review"
  THEN [doc EXCEPT !.status = "draft", !.approver = None]
  ELSE doc

(* An approved document falls back to draft with the edit that changes it. *)
invalidateApprovalIfNeeded(r) ==
  IF req[r].seen = "approved"
  THEN [doc EXCEPT !.status = "draft", !.approver = None]
  ELSE doc

(* History: the draft was changed after the submission.                    *)
MarkEdited ==
  rounds' = IF rounds = << >> THEN rounds
            ELSE [rounds EXCEPT ![Len(rounds)].edited = TRUE]

-----------------------------------------------------------------------------
(* Edits of the register rows.  The services of the eleven registers share *)
(* the shape: lock, read, invalidate, write.                               *)

Free(i) == rows[i] = NoRow

CreateRow(r, i) ==
  /\ req[r].pc = "idle" /\ edits < MaxEdits /\ Free(i)
  /\ lockDocument(r, [Idle EXCEPT !.op = "create", !.id = i,
                                  !.text = edits + 2, !.ok = TRUE])
  /\ edits' = edits + 1
  /\ UNCHANGED <<type, doc, rows, derived, versions, platform, rounds>>

\* Mutant: the signature is not read again under the lock.
UpdateRow_unchecked(r, i) ==
  /\ req[r].pc = "idle" /\ edits < MaxEdits /\ ~Free(i)
  /\ \E done \in (IF type = "review" THEN BOOLEAN ELSE {FALSE}) :
       lockDocument(r, [Idle EXCEPT !.op = "update", !.id = i, !.flag = done,
                                    !.text = edits + 2, !.ok = TRUE])
  /\ edits' = edits + 1
  /\ UNCHANGED <<type, doc, rows, derived, versions, platform, rounds>>

(* Update the minutes or the fields of a row: refused when the row is a    *)
(* review that is found signed under the lock.                             *)
UpdateRow(r, i) ==
  /\ req[r].pc = "idle" /\ edits < MaxEdits /\ ~Free(i)
  /\ \E done \in (IF type = "review" THEN BOOLEAN ELSE {FALSE}) :
       lockDocument(r, [Idle EXCEPT !.op = "update", !.id = i, !.flag = done,
                                    !.text = edits + 2, !.ok = ~rows[i].signed])
  /\ edits' = edits + 1
  /\ UNCHANGED <<type, doc, rows, derived, versions, platform, rounds>>

(* The sign-off slot of a review stays editable: sign, or clear to unlock. *)
SignReview(r, i) ==
  /\ req[r].pc = "idle" /\ type = "review" /\ ~Free(i)
  /\ lockDocument(r, [Idle EXCEPT !.op = "sign", !.id = i,
                                  !.flag = ~rows[i].signed, !.ok = TRUE])
  /\ UNCHANGED <<type, doc, rows, derived, versions, platform, edits, rounds>>

RemoveRow(r, i) ==
  /\ req[r].pc = "idle" /\ ~Free(i)
  /\ lockDocument(r, [Idle EXCEPT !.op = "remove", !.id = i,
                                  !.ok = ~rows[i].signed])
  /\ UNCHANGED <<type, doc, rows, derived, versions, platform, edits, rounds>>

(* An update of a derived row makes it the customer's (source: manual).    *)
AdoptDerived(r, i) ==
  /\ req[r].pc = "idle" /\ derived # 0 /\ edits < MaxEdits /\ Free(i)
  /\ lockDocument(r, [Idle EXCEPT !.op = "adopt", !.id = i,
                                  !.text = edits + 2, !.ok = TRUE])
  /\ edits' = edits + 1
  /\ UNCHANGED <<type, doc, rows, derived, versions, platform, rounds>>

RemoveDerived(r) ==
  /\ req[r].pc = "idle" /\ derived # 0
  /\ lockDocument(r, [Idle EXCEPT !.op = "drop", !.ok = TRUE])
  /\ UNCHANGED <<type, doc, rows, derived, versions, platform, edits, rounds>>

RowOps == {"create", "update", "sign", "remove", "adopt", "drop"}

(* The row after the edit.                                                 *)
EditedRow(q) ==
  CASE q.op \in {"create", "adopt"} -> [NoRow EXCEPT !.text = q.text]
    [] q.op = "update" -> [rows[q.id] EXCEPT !.text = q.text, !.done = q.flag]
    [] q.op = "sign" -> [rows[q.id] EXCEPT !.signed = q.flag]
    [] OTHER -> NoRow

EditRefused(r) ==
  /\ req[r].pc = "locked" /\ req[r].op \in RowOps /\ ~req[r].ok
  /\ lock' = None
  /\ req' = [req EXCEPT ![r] = Idle]
  /\ UNCHANGED <<type, doc, rows, derived, versions, platform, edits, rounds>>

EditCommit(r) ==
  LET q == req[r]
      touchesDerived == q.op \in {"adopt", "drop"}
  IN /\ q.pc = "locked" /\ q.op \in RowOps /\ q.ok
     /\ doc' = invalidateApprovalIfNeeded(r)
     /\ rows' = IF q.op = "drop" THEN rows
                ELSE [rows EXCEPT ![q.id] = EditedRow(q)]
     /\ derived' = IF touchesDerived THEN 0 ELSE derived
     /\ lock' = None
     /\ Committed(r, Idle, touchesDerived \/ q.seen = "approved", TRUE)
     /\ MarkEdited
     /\ UNCHANGED <<type, versions, platform, edits>>

-----------------------------------------------------------------------------
(* Edits that write the document row itself.                               *)

SaveNarrative(r) ==
  /\ req[r].pc = "idle" /\ type = "review" /\ edits < MaxEdits
  /\ lockDocument(r, [Idle EXCEPT !.op = "narrative", !.text = edits + 2])
  /\ edits' = edits + 1
  /\ UNCHANGED <<type, doc, rows, derived, versions, platform, rounds>>

SaveNarrativeCommit(r) ==
  /\ req[r].pc = "locked" /\ req[r].op = "narrative"
  /\ doc' = [invalidateApprovalIfNeeded(r) EXCEPT !.narrative = req[r].text]
  /\ lock' = None
  /\ Committed(r, Idle, TRUE, FALSE)
  /\ MarkEdited
  /\ UNCHANGED <<type, rows, derived, versions, platform, edits>>

(* Generate collects the platform data BEFORE its transaction.             *)
GenerateCollect(r) ==
  /\ req[r].pc = "idle"
  /\ req' = [req EXCEPT ![r] = [Idle EXCEPT !.pc = "collected", !.data = platform]]
  /\ UNCHANGED <<type, doc, rows, derived, versions, lock, platform, edits, rounds>>

GenerateLock(r) ==
  /\ req[r].pc = "collected"
  /\ lockDocument(r, [req[r] EXCEPT !.op = "generate"])
  /\ UNCHANGED <<type, doc, rows, derived, versions, platform, edits, rounds>>

(* Derivation replaces the derived rows, or seeds an empty narrative.      *)
DerivedRows(data) == IF type = "register" THEN data ELSE 0
DerivedNarrative(narrative) ==
  IF type = "review" /\ narrative = 0 THEN 1 ELSE narrative

\* Mutant: the baseline is collected again when it is stored.
GenerateCommit_freshBaseline(r) ==
  /\ req[r].pc = "locked" /\ req[r].op = "generate"
  /\ doc' = [invalidateApprovalIfNeeded(r)
               EXCEPT !.narrative = DerivedNarrative(@), !.baseline = platform]
  /\ derived' = DerivedRows(req[r].data)
  /\ lock' = None
  /\ Committed(r, Idle, TRUE, FALSE)
  /\ MarkEdited
  /\ UNCHANGED <<type, rows, versions, platform, edits>>

GenerateCommit(r) ==
  /\ req[r].pc = "locked" /\ req[r].op = "generate"
  /\ doc' = [invalidateApprovalIfNeeded(r)
               EXCEPT !.narrative = DerivedNarrative(@),
                      !.baseline = req[r].data]
  /\ derived' = DerivedRows(req[r].data)
  /\ lock' = None
  /\ Committed(r, Idle, TRUE, FALSE)
  /\ MarkEdited
  /\ UNCHANGED <<type, rows, versions, platform, edits>>

(* ensureSetup fills a narrative that is still empty, without the lock.    *)
SeedNarrative ==
  /\ type = "review" /\ doc.narrative = 0
  /\ doc' = [doc EXCEPT !.narrative = 1]
  /\ Committed(None, Idle, TRUE, FALSE)
  /\ UNCHANGED <<type, rows, derived, versions, lock, platform, edits, rounds>>

-----------------------------------------------------------------------------
(* Submission for approval: from any status, when the draft is found       *)
(* complete under the lock.                                                *)

\* Mutant: completeness is left to the client.
SubmitLock_unchecked(r, m) ==
  /\ req[r].pc = "idle" /\ Len(rounds) < MaxRounds
  /\ lockDocument(r, [Idle EXCEPT !.op = "submit", !.by = m, !.ok = TRUE])
  /\ UNCHANGED <<type, doc, rows, derived, versions, platform, edits, rounds>>

SubmitLock(r, m) ==
  /\ req[r].pc = "idle" /\ Len(rounds) < MaxRounds
  /\ lockDocument(r, [Idle EXCEPT !.op = "submit", !.by = m,
                                  !.ok = Complete(rows, doc.narrative)])
  /\ UNCHANGED <<type, doc, rows, derived, versions, platform, edits, rounds>>

SubmitRefused(r) ==
  /\ req[r].pc = "locked" /\ req[r].op = "submit" /\ ~req[r].ok
  /\ lock' = None
  /\ req' = [req EXCEPT ![r] = Idle]
  /\ UNCHANGED <<type, doc, rows, derived, versions, platform, edits, rounds>>

SubmitCommit(r) ==
  /\ req[r].pc = "locked" /\ req[r].op = "submit" /\ req[r].ok
  /\ doc' = [doc EXCEPT !.status = "needs_review", !.approver = req[r].by]
  /\ rounds' = Append(rounds, [approver |-> req[r].by, declined |-> FALSE,
                               edited |-> FALSE])
  /\ lock' = None
  /\ Committed(r, Idle, TRUE, FALSE)
  /\ UNCHANGED <<type, rows, derived, versions, platform, edits>>

-----------------------------------------------------------------------------
(* Decisions.                                                              *)

assertPendingApprovalBy(m) == doc.status = "needs_review" /\ doc.approver = m

ApproveCheck(r, m) ==
  /\ req[r].pc = "idle"
  /\ assertPendingApprovalBy(m)
  /\ req' = [req EXCEPT ![r] = [Idle EXCEPT !.pc = "checked", !.by = m]]
  /\ UNCHANGED <<type, doc, rows, derived, versions, lock, platform, edits, rounds>>

(* The transaction opens; its first statement fixes what it sees and asks  *)
(* for the lock.                                                           *)
ApproveSnapshot(r) ==
  /\ req[r].pc = "checked"
  /\ req' = [req EXCEPT ![r] = [@ EXCEPT !.pc = "waiting", !.snap = Now,
                                         !.conflict = FALSE, !.overlap = FALSE]]
  /\ UNCHANGED <<type, doc, rows, derived, versions, lock, platform, edits, rounds>>

\* Mutant: the claim does not name the approver.
Claims_anyApprover(q) == q.snap.status = "needs_review"

(* The guarded claim, evaluated on the snapshot.                           *)
Claims(q) == q.snap.status = "needs_review" /\ q.snap.approver = q.by

(* The lock is free: the claim matches no row, or finds a row changed.     *)
ApproveRefused(r) ==
  LET q == req[r]
      again == Claims(q) /\ ~q.retried      \* P2034, once
  IN /\ q.pc = "waiting" /\ lock = None
     /\ ~Claims(q) \/ q.conflict
     /\ req' = [req EXCEPT ![r] =
                  IF again THEN [Idle EXCEPT !.pc = "checked", !.by = q.by,
                                             !.retried = TRUE]
                  ELSE Idle]
     /\ UNCHANGED <<type, doc, rows, derived, versions, lock, platform, edits, rounds>>

createPublishedVersion(q) ==
  Append([v \in DOMAIN versions |-> [versions[v] EXCEPT !.latest = FALSE]],
         [rows |-> q.snap.rows,
          derived |-> DerivedRows(q.snap.data),
          narrative |-> DerivedNarrative(q.snap.narrative),
          source |-> q.snap.data, by |-> q.by, latest |-> TRUE,
          round |-> Len(rounds), overlapped |-> q.overlap,
          edited |-> rounds[Len(rounds)].edited])

ApprovePublish(r) ==
  LET q == req[r]
  IN /\ q.pc = "waiting" /\ lock = None
     /\ Claims(q) /\ ~q.conflict
     /\ Len(versions) < MaxVersions
     /\ versions' = createPublishedVersion(q)
     /\ doc' = [doc EXCEPT !.status = "approved",
                           !.narrative = DerivedNarrative(q.snap.narrative),
                           !.baseline = q.snap.data,
                           !.current = Len(versions) + 1]
     /\ derived' = DerivedRows(q.snap.data)
     /\ Committed(r, Idle, TRUE, FALSE)
     /\ UNCHANGED <<type, rows, lock, platform, edits, rounds>>

DeclineCheck(r, m) ==
  /\ req[r].pc = "idle"
  /\ assertPendingApprovalBy(m)
  /\ req' = [req EXCEPT ![r] = [Idle EXCEPT !.pc = "declining", !.by = m]]
  /\ UNCHANGED <<type, doc, rows, derived, versions, lock, platform, edits, rounds>>

DeclineClaim(r) ==
  /\ req[r].pc = "declining"
  /\ IF assertPendingApprovalBy(req[r].by)
     THEN /\ doc' = [doc EXCEPT !.status = "declined"]
          /\ rounds' = [rounds EXCEPT ![Len(rounds)].declined = TRUE]
          /\ Committed(r, Idle, TRUE, FALSE)
     ELSE /\ req' = [req EXCEPT ![r] = Idle]
          /\ UNCHANGED <<doc, rounds>>
  /\ UNCHANGED <<type, rows, derived, versions, lock, platform, edits>>

-----------------------------------------------------------------------------
(* A request fails or times out: its transaction is rolled back.           *)
Abort(r) ==
  /\ req[r].pc # "idle"
  /\ req' = [req EXCEPT ![r] = Idle]
  /\ lock' = IF lock = r THEN None ELSE lock
  /\ UNCHANGED <<type, doc, rows, derived, versions, platform, edits, rounds>>

PlatformEdit ==
  /\ platform < MaxPlatform
  /\ platform' = platform + 1
  /\ UNCHANGED <<type, doc, rows, derived, versions, lock, req, edits, rounds>>

Next ==
  \/ PlatformEdit
  \/ SeedNarrative
  \/ \E r \in Requests :
       \/ \E i \in RowIds :
            \/ CreateRow(r, i) \/ UpdateRow(r, i) \/ SignReview(r, i)
            \/ RemoveRow(r, i) \/ AdoptDerived(r, i)
       \/ RemoveDerived(r) \/ EditRefused(r) \/ EditCommit(r)
       \/ SaveNarrative(r) \/ SaveNarrativeCommit(r)
       \/ GenerateCollect(r) \/ GenerateLock(r) \/ GenerateCommit(r)
       \/ SubmitRefused(r) \/ SubmitCommit(r)
       \/ ApproveSnapshot(r) \/ ApproveRefused(r) \/ ApprovePublish(r)
       \/ DeclineClaim(r) \/ Abort(r)
       \/ \E m \in Members :
            SubmitLock(r, m) \/ ApproveCheck(r, m) \/ DeclineCheck(r, m)

Spec == Init /\ [][Next]_vars

-----------------------------------------------------------------------------
(* Properties.                                                             *)

Content(v) == [rows |-> v.rows, derived |-> v.derived, narrative |-> v.narrative]

(* The claim of utils/approval.ts 16-18: the lock keeps edits and approve()*)
(* apart, so an approved document never differs from the version approved. *)
(* The code does not keep it: see ApprovedIsPublished.                     *)
NoEditIsOmitted ==
  doc.status = "approved" => Draft = Content(versions[doc.current])

(* An approved draft is word for word the published version it became: any *)
(* edit, save or regenerate since then has withdrawn the approval.  The one*)
(* exception is a row edit that committed after approve() had begun and was*)
(* waiting for the lock.                                                   *)
ApprovedIsPublished ==
  doc.status = "approved" /\ ~versions[doc.current].overlapped
    => Draft = Content(versions[doc.current])

(* A submission is decided once, and by the member it named: racing        *)
(* approvals publish one version, a declined submission publishes none.    *)
DecidedOnceByItsApprover ==
  \A v \in DOMAIN versions :
    /\ versions[v].round \in DOMAIN rounds
    /\ versions[v].by = rounds[versions[v].round].approver
    /\ ~rounds[versions[v].round].declined
    /\ \A w \in DOMAIN versions :
         versions[v].round = versions[w].round => v = w

(* What an auditor is given met the clause's completeness check, unless the*)
(* draft was edited between its submission and its approval (the check is  *)
(* not repeated).                                                          *)
PublishedWasComplete ==
  \A v \in DOMAIN versions :
    ~versions[v].edited => Complete(versions[v].rows, versions[v].narrative)

(* The drift baseline is the data the derived rows were made from, however *)
(* generate() (which collects its data early), approve() and edits of the  *)
(* derived rows interleave: drift is never hidden.                         *)
BaselineIsWhatWasDerived == derived # 0 => derived = doc.baseline

(* The minutes of a review the chair signed do not change and do not go:   *)
(* the signature is cleared first, in a request of its own.                *)
SignedMinutesAreFrozen ==
  [][\A i \in RowIds : rows[i].signed =>
        rows'[i].text = rows[i].text /\ rows'[i].done = rows[i].done]_vars
=============================================================================
