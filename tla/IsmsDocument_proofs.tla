------------------------ MODULE IsmsDocument_proofs ------------------------
(***************************************************************************)
(* Theorems about IsmsDocument, for every set of requests, members and     *)
(* rows and every bound.                                                   *)
(***************************************************************************)
EXTENDS IsmsDocument, TLAPS

(* A transaction that is past its lock holds it.                           *)
HoldersHold == \A r \in Requests : req[r].pc = "locked" => lock = r

(* An edit that read, under the lock, that the document is not approved,   *)
(* is right about it until it commits.                                     *)
SeenIsRight ==
  \A r \in Requests :
    req[r].pc = "locked" /\ doc.status = "approved" => req[r].seen = "approved"

(* The snapshot of an approval is out of date only where that is noticed,  *)
(* or where the overlap is recorded.                                       *)
SnapshotsAreRecent ==
  \A r \in Requests :
    req[r].pc = "waiting" /\ ~req[r].conflict =>
      /\ req[r].snap.status = doc.status
      /\ req[r].snap.approver = doc.approver
      /\ req[r].snap.narrative = doc.narrative
      /\ ~req[r].overlap => req[r].snap.rows = rows

(* An approved document has a version, and a review's has a narrative.     *)
ApprovedHasVersion ==
  doc.status = "approved" =>
    /\ doc.current \in DOMAIN versions
    /\ type = "review" => doc.narrative # 0

(* Who submits or decides is a member.                                     *)
ActorsAreMembers ==
  \A r \in Requests :
    (\/ req[r].pc \in {"checked", "waiting", "declining"}
     \/ req[r].pc = "locked" /\ req[r].op = "submit")
      => req[r].by \in Members

(* A document in review is in the review of its last, undecided submission.*)
ReviewIsOpen ==
  doc.status = "needs_review" =>
    /\ rounds # << >>
    /\ rounds[Len(rounds)].approver = doc.approver
    /\ ~rounds[Len(rounds)].declined
    /\ \A v \in DOMAIN versions : versions[v].round # Len(rounds)

(* A version belongs to a submission that was made.                        *)
RoundsBound ==
  \A v \in DOMAIN versions :
    versions[v].round \in Nat /\ versions[v].round <= Len(rounds)

Inv ==
  /\ TypeOK
  /\ ActorsAreMembers
  /\ HoldersHold
  /\ SeenIsRight
  /\ SnapshotsAreRecent
  /\ ReviewIsOpen
  /\ ApprovedHasVersion
  /\ ApprovedIsPublished
  /\ RoundsBound

(* The fields of a request at rest have their types.                       *)
LEMMA IdleIsRequest == Idle \in Request
<1>1. [i \in RowIds |-> NoRow] \in Table
  BY BoundsAssumption DEF Table, Row, NoRow, Text
<1>2. Idle.snap \in Snapshot
  BY <1>1, BoundsAssumption DEF Idle, Snapshot, Statuses, Text, Data
<1> QED
  BY <1>2, BoundsAssumption DEF Idle, Request, Statuses, Text, Data

(* The initial state has the types.                                        *)
LEMMA InitTypes == Init => TypeOK
<1> SUFFICES ASSUME Init PROVE TypeOK OBVIOUS
<1>1. doc \in Doc
  BY BoundsAssumption DEF Init, Doc, Statuses, Text, Data
<1>2. rows \in Table
  BY BoundsAssumption DEF Init, Table, Row, NoRow, Text
<1>3. req \in [Requests -> Request]
  BY IdleIsRequest DEF Init
<1> QED
  BY <1>1, <1>2, <1>3, BoundsAssumption DEF Init, TypeOK, Data

(* Taking the lock keeps the requests well typed.                          *)
LEMMA LockTypes ==
  ASSUME TypeOK, NEW r \in Requests, NEW q \in Request, lockDocument(r, q)
  PROVE  lock' \in Requests \cup {None} /\ req' \in [Requests -> Request]
<1>1. [q EXCEPT !.pc = "locked", !.seen = doc.status] \in Request
  BY DEF TypeOK, Doc, Request
<1> QED
  BY <1>1 DEF lockDocument, TypeOK

(* So does a commit.                                                       *)
LEMMA CommitTypes ==
  ASSUME TypeOK, NEW r, NEW q \in Request, NEW hits \in BOOLEAN,
         NEW unseen \in BOOLEAN, Committed(r, q, hits, unseen)
  PROVE  req' \in [Requests -> Request]
<1>1. ASSUME NEW p \in Requests
      PROVE  [req[p] EXCEPT !.conflict = @ \/ hits,
                            !.overlap = @ \/ unseen] \in Request
  <2>1. req[p] \in Request
    BY DEF TypeOK
  <2>2. /\ (req[p].conflict \/ hits) \in BOOLEAN
        /\ (req[p].overlap \/ unseen) \in BOOLEAN
    BY <2>1 DEF Request
  <2>3. \A x, y \in BOOLEAN :
           [req[p] EXCEPT !.conflict = x, !.overlap = y] \in Request
    BY <2>1 DEF Request
  <2> QED
    BY <2>2, <2>3
<1> QED
  BY <1>1 DEF Committed, TypeOK

(* Withdrawing the approval keeps the document well typed.                 *)
LEMMA InvalidateTypes ==
  ASSUME TypeOK, NEW r \in Requests
  PROVE  invalidateApprovalIfNeeded(r) \in Doc
BY DEF invalidateApprovalIfNeeded, TypeOK, Doc, Statuses

(* Marking the last submission as edited keeps the submissions well typed. *)
LEMMA MarkTypes ==
  ASSUME TypeOK, MarkEdited
  PROVE  rounds' \in Seq(Round) /\ Len(rounds') = Len(rounds)
<1>1. CASE rounds = << >>
  BY <1>1 DEF MarkEdited, TypeOK
<1>2. CASE rounds # << >>
  <2>1. Len(rounds) \in DOMAIN rounds
    BY <1>2 DEF TypeOK
  <2>2. rounds[Len(rounds)] \in Round
    BY <2>1 DEF TypeOK
  <2>3. [rounds[Len(rounds)] EXCEPT !.edited = TRUE] \in Round
    BY <2>2 DEF Round
  <2> QED
    BY <1>2, <2>1, <2>3 DEF MarkEdited, TypeOK
<1> QED BY <1>1, <1>2

(* The requests that take the lock are well typed.                         *)
LEMMA LockStepTypes ==
  ASSUME TypeOK, NEW r \in Requests,
         \/ \E i \in RowIds :
              \/ CreateRow(r, i) \/ UpdateRow(r, i) \/ SignReview(r, i)
              \/ RemoveRow(r, i) \/ AdoptDerived(r, i)
         \/ RemoveDerived(r) \/ SaveNarrative(r) \/ GenerateLock(r)
         \/ \E m \in Members : SubmitLock(r, m)
  PROVE  TypeOK'
<1> USE IdleIsRequest
<1> DEFINE Asks(q) == /\ q \in Request /\ lockDocument(r, q)
                      /\ edits' \in 0 .. MaxEdits
                      /\ UNCHANGED <<type, doc, rows, derived, versions,
                                     platform, rounds>>
<1>1. ASSUME NEW q, Asks(q) PROVE TypeOK'
  <2>1. lock' \in Requests \cup {None} /\ req' \in [Requests -> Request]
    BY <1>1, LockTypes
  <2> QED
    BY <1>1, <2>1 DEF TypeOK
<1>2. edits < MaxEdits => edits + 1 \in 0 .. MaxEdits /\ edits + 2 \in Text
  BY BoundsAssumption DEF TypeOK, Text
<1>3. ASSUME NEW i \in RowIds, CreateRow(r, i) PROVE TypeOK'
  <2>1. [Idle EXCEPT !.op = "create", !.id = i, !.text = edits + 2, !.ok = TRUE]
          \in Request
    BY <1>2, <1>3 DEF CreateRow, Request
  <2> QED BY <1>1, <1>2, <1>3, <2>1 DEF CreateRow
<1>4. ASSUME NEW i \in RowIds, UpdateRow(r, i) PROVE TypeOK'
  <2>1. PICK done \in BOOLEAN :
          lockDocument(r, [Idle EXCEPT !.op = "update", !.id = i, !.flag = done,
                                       !.text = edits + 2, !.ok = ~rows[i].signed])
    BY <1>4 DEF UpdateRow
  <2>2. rows[i].signed \in BOOLEAN
    BY DEF TypeOK, Table, Row
  <2>3. [Idle EXCEPT !.op = "update", !.id = i, !.flag = done,
                     !.text = edits + 2, !.ok = ~rows[i].signed] \in Request
    BY <1>2, <1>4, <2>2 DEF UpdateRow, Request
  <2> QED BY <1>1, <1>2, <1>4, <2>1, <2>3 DEF UpdateRow
<1>5. ASSUME NEW i \in RowIds, SignReview(r, i) PROVE TypeOK'
  <2>1. rows[i].signed \in BOOLEAN
    BY DEF TypeOK, Table, Row
  <2>2. [Idle EXCEPT !.op = "sign", !.id = i, !.flag = ~rows[i].signed,
                     !.ok = TRUE] \in Request
    BY <2>1 DEF Request
  <2>3. edits' \in 0 .. MaxEdits
    BY <1>5 DEF SignReview, TypeOK
  <2> QED BY <1>1, <1>5, <2>2, <2>3 DEF SignReview
<1>6. ASSUME NEW i \in RowIds, RemoveRow(r, i) PROVE TypeOK'
  <2>1. rows[i].signed \in BOOLEAN
    BY DEF TypeOK, Table, Row
  <2>2. [Idle EXCEPT !.op = "remove", !.id = i, !.ok = ~rows[i].signed] \in Request
    BY <2>1 DEF Request
  <2>3. edits' \in 0 .. MaxEdits
    BY <1>6 DEF RemoveRow, TypeOK
  <2> QED BY <1>1, <1>6, <2>2, <2>3 DEF RemoveRow
<1>7. ASSUME NEW i \in RowIds, AdoptDerived(r, i) PROVE TypeOK'
  <2>1. [Idle EXCEPT !.op = "adopt", !.id = i, !.text = edits + 2, !.ok = TRUE]
          \in Request
    BY <1>2, <1>7 DEF AdoptDerived, Request
  <2> QED BY <1>1, <1>2, <1>7, <2>1 DEF AdoptDerived
<1>8. CASE RemoveDerived(r)
  <2>1. [Idle EXCEPT !.op = "drop", !.ok = TRUE] \in Request
    BY DEF Request
  <2>2. edits' \in 0 .. MaxEdits
    BY <1>8 DEF RemoveDerived, TypeOK
  <2> QED BY <1>1, <1>8, <2>1, <2>2 DEF RemoveDerived
<1>9. CASE SaveNarrative(r)
  <2>1. [Idle EXCEPT !.op = "narrative", !.text = edits + 2] \in Request
    BY <1>2, <1>9 DEF SaveNarrative, Request
  <2> QED BY <1>1, <1>2, <1>9, <2>1 DEF SaveNarrative
<1>10. CASE GenerateLock(r)
  <2>1. req[r] \in Request
    BY DEF TypeOK
  <2>2. [req[r] EXCEPT !.op = "generate"] \in Request
    BY <2>1 DEF Request
  <2>3. edits' \in 0 .. MaxEdits
    BY <1>10 DEF GenerateLock, TypeOK
  <2> QED BY <1>1, <1>10, <2>2, <2>3 DEF GenerateLock
<1>11. ASSUME NEW m \in Members, SubmitLock(r, m) PROVE TypeOK'
  <2>1. Complete(rows, doc.narrative) \in BOOLEAN
    BY DEF Complete
  <2>2. [Idle EXCEPT !.op = "submit", !.by = m,
                     !.ok = Complete(rows, doc.narrative)] \in Request
    BY <2>1 DEF Request
  <2>3. edits' \in 0 .. MaxEdits
    BY <1>11 DEF SubmitLock, TypeOK
  <2> QED BY <1>1, <1>11, <2>2, <2>3 DEF SubmitLock
<1> QED
  BY <1>3, <1>4, <1>5, <1>6, <1>7, <1>8, <1>9, <1>10, <1>11

(* What approve() freezes is a well-typed version.                         *)
LEMMA PublishTypes ==
  ASSUME TypeOK, NEW r \in Requests, req[r].by \in Members, rounds # << >>
  PROVE  /\ createPublishedVersion(req[r]) \in Seq(Version)
         /\ DerivedRows(req[r].snap.data) \in Data
         /\ DerivedNarrative(req[r].snap.narrative) \in Text
<1>1. req[r] \in Request /\ req[r].snap \in Snapshot
  BY DEF TypeOK, Request
<1>2. /\ DerivedRows(req[r].snap.data) \in Data
      /\ DerivedNarrative(req[r].snap.narrative) \in Text
  BY <1>1, BoundsAssumption
     DEF DerivedRows, DerivedNarrative, Snapshot, Data, Text
<1>3. rounds[Len(rounds)] \in Round /\ Len(rounds) \in Nat
  BY DEF TypeOK
<1> DEFINE old == [v \in DOMAIN versions |-> [versions[v] EXCEPT !.latest = FALSE]]
           new == [rows |-> req[r].snap.rows,
                   derived |-> DerivedRows(req[r].snap.data),
                   narrative |-> DerivedNarrative(req[r].snap.narrative),
                   source |-> req[r].snap.data, by |-> req[r].by, latest |-> TRUE,
                   round |-> Len(rounds), overlapped |-> req[r].overlap,
                   edited |-> rounds[Len(rounds)].edited]
<1>4. new \in Version
  BY <1>1, <1>2, <1>3 DEF Version, Snapshot, Request, Round
<1>5. old \in Seq(Version)
  <2>1. ASSUME NEW v \in DOMAIN versions
        PROVE  [versions[v] EXCEPT !.latest = FALSE] \in Version
    <3>1. versions[v] \in Version
      BY DEF TypeOK
    <3> QED BY <3>1 DEF Version
  <2>2. DOMAIN versions = 1 .. Len(versions) /\ Len(versions) \in Nat
    BY DEF TypeOK
  <2>3. old = [v \in 1 .. Len(versions) |-> [versions[v] EXCEPT !.latest = FALSE]]
    BY <2>2
  <2> HIDE DEF old
  <2> QED BY <2>1, <2>2, <2>3
<1> HIDE DEF old, new
<1>6. Append(old, new) \in Seq(Version)
  BY <1>4, <1>5
<1> QED
  BY <1>2, <1>6 DEF createPublishedVersion, old, new

(* The commits are well typed.                                             *)
LEMMA CommitStepTypes ==
  ASSUME TypeOK, NEW r \in Requests,
         \/ EditCommit(r) \/ SaveNarrativeCommit(r) \/ GenerateCommit(r)
         \/ SubmitCommit(r) /\ req[r].by \in Members
  PROVE  TypeOK'
<1> DEFINE q == req[r]
<1>1. q \in Request
  BY DEF TypeOK
<1>2. lock' = None
  BY DEF EditCommit, SaveNarrativeCommit, GenerateCommit, SubmitCommit
<1>3. invalidateApprovalIfNeeded(r) \in Doc
  BY InvalidateTypes
<1>4. CASE EditCommit(r)
  <2>1. rows' \in Table
    <3>1. CASE q.op = "drop"
      BY <1>4, <3>1 DEF EditCommit, TypeOK
    <3>2. CASE q.op # "drop"
      <4>1. ASSUME q.id \in RowIds PROVE EditedRow(q) \in Row
        <5>1. rows[q.id] \in Row
          BY <4>1 DEF TypeOK, Table
        <5>5. NoRow \in Row
          BY BoundsAssumption DEF NoRow, Row, Text
        <5>2. [NoRow EXCEPT !.text = q.text] \in Row
          BY <1>1, <5>5 DEF Row, Request
        <5>3. [rows[q.id] EXCEPT !.text = q.text, !.done = q.flag] \in Row
          BY <1>1, <5>1 DEF Row, Request
        <5>4. [rows[q.id] EXCEPT !.signed = q.flag] \in Row
          BY <1>1, <5>1 DEF Row, Request
        <5> QED
          BY <5>5, <5>2, <5>3, <5>4 DEF EditedRow
      <4>2. rows' = [rows EXCEPT ![q.id] = EditedRow(q)]
        BY <1>4, <3>2 DEF EditCommit
      <4> QED
        BY <4>1, <4>2 DEF TypeOK, Table
    <3> QED BY <3>1, <3>2
  <2>2. derived' \in Data
    BY <1>4, BoundsAssumption DEF EditCommit, TypeOK, Data
  <2>3. (q.op \in {"adopt", "drop"} \/ q.seen = "approved") \in BOOLEAN
    OBVIOUS
  <2>4. req' \in [Requests -> Request]
    BY <1>4, <2>3, CommitTypes, IdleIsRequest DEF EditCommit
  <2>5. rounds' \in Seq(Round)
    BY <1>4, MarkTypes DEF EditCommit
  <2> QED
    BY <1>2, <1>3, <1>4, <2>1, <2>2, <2>4, <2>5 DEF EditCommit, TypeOK
<1>5. CASE SaveNarrativeCommit(r)
  <2>1. doc' \in Doc
    BY <1>1, <1>3, <1>5 DEF SaveNarrativeCommit, Doc, Request
  <2>2. req' \in [Requests -> Request]
    BY <1>5, CommitTypes, IdleIsRequest DEF SaveNarrativeCommit
  <2>3. rounds' \in Seq(Round)
    BY <1>5, MarkTypes DEF SaveNarrativeCommit
  <2> QED
    BY <1>2, <1>5, <2>1, <2>2, <2>3 DEF SaveNarrativeCommit, TypeOK
<1>6. CASE GenerateCommit(r)
  <2>1. doc' \in Doc
    <3>1. DerivedNarrative(invalidateApprovalIfNeeded(r).narrative) \in Text
      BY <1>3, BoundsAssumption DEF DerivedNarrative, Doc, Text
    <3>2. doc' = [invalidateApprovalIfNeeded(r)
                    EXCEPT !.narrative = DerivedNarrative(@), !.baseline = q.data]
      BY <1>6 DEF GenerateCommit
    <3> QED
      BY <1>1, <1>3, <3>1, <3>2 DEF Doc, Request
  <2>2. derived' \in Data
    BY <1>1, <1>6, BoundsAssumption DEF GenerateCommit, DerivedRows, Data, Request
  <2>3. req' \in [Requests -> Request]
    BY <1>6, CommitTypes, IdleIsRequest DEF GenerateCommit
  <2>4. rounds' \in Seq(Round)
    BY <1>6, MarkTypes DEF GenerateCommit
  <2> QED
    BY <1>2, <1>6, <2>1, <2>2, <2>3, <2>4 DEF GenerateCommit, TypeOK
<1>7. CASE SubmitCommit(r) /\ req[r].by \in Members
  <2>1. doc' \in Doc
    BY <1>7 DEF SubmitCommit, TypeOK, Doc, Statuses
  <2>2. rounds' \in Seq(Round)
    BY <1>7 DEF SubmitCommit, TypeOK, Round
  <2>3. req' \in [Requests -> Request]
    BY <1>7, CommitTypes, IdleIsRequest DEF SubmitCommit
  <2> QED
    BY <1>2, <1>7, <2>1, <2>2, <2>3 DEF SubmitCommit, TypeOK
<1> QED
  BY <1>4, <1>5, <1>6, <1>7

(* Every other step is well typed.                                         *)
LEMMA OtherStepTypes ==
  ASSUME TypeOK, ActorsAreMembers, SnapshotsAreRecent, ReviewIsOpen,
         \/ UNCHANGED vars \/ PlatformEdit \/ SeedNarrative
         \/ \E r \in Requests :
              \/ EditRefused(r) \/ GenerateCollect(r) \/ SubmitRefused(r)
              \/ ApproveSnapshot(r) \/ ApproveRefused(r) \/ ApprovePublish(r)
              \/ DeclineClaim(r) \/ Abort(r)
              \/ \E m \in Members : ApproveCheck(r, m) \/ DeclineCheck(r, m)
  PROVE  TypeOK'
<1> USE IdleIsRequest
<1>1. CASE UNCHANGED vars
  BY <1>1 DEF vars, TypeOK
<1>2. CASE PlatformEdit
  BY <1>2, BoundsAssumption DEF PlatformEdit, TypeOK, Data
<1>3. CASE SeedNarrative
  <2>1. doc' \in Doc
    BY <1>3, BoundsAssumption DEF SeedNarrative, TypeOK, Doc, Text
  <2>2. req' \in [Requests -> Request]
    BY <1>3, CommitTypes DEF SeedNarrative
  <2> QED
    BY <1>3, <2>1, <2>2 DEF SeedNarrative, TypeOK
<1>4. ASSUME NEW r \in Requests, EditRefused(r) \/ SubmitRefused(r) \/ Abort(r)
      PROVE  TypeOK'
  BY <1>4 DEF EditRefused, SubmitRefused, Abort, TypeOK
<1>5. ASSUME NEW r \in Requests, GenerateCollect(r) PROVE TypeOK'
  <2>1. [Idle EXCEPT !.pc = "collected", !.data = platform] \in Request
    BY DEF TypeOK, Request
  <2> QED BY <1>5, <2>1 DEF GenerateCollect, TypeOK
<1>6. ASSUME NEW r \in Requests, ApproveSnapshot(r) PROVE TypeOK'
  <2>1. Now \in Snapshot
    BY DEF Now, TypeOK, Snapshot, Doc
  <2>2. req[r] \in Request
    BY DEF TypeOK
  <2>3. [req[r] EXCEPT !.pc = "waiting", !.snap = Now, !.conflict = FALSE,
                       !.overlap = FALSE] \in Request
    BY <2>1, <2>2 DEF Request
  <2>4. req' \in [Requests -> Request]
    BY <1>6, <2>3 DEF ApproveSnapshot, TypeOK
  <2> QED BY <1>6, <2>4 DEF ApproveSnapshot, TypeOK
<1>7. ASSUME NEW r \in Requests, ApproveRefused(r) PROVE TypeOK'
  <2>1. req[r].by \in Members
    BY <1>7 DEF ApproveRefused, ActorsAreMembers
  <2>2. [Idle EXCEPT !.pc = "checked", !.by = req[r].by, !.retried = TRUE]
          \in Request
    BY <2>1 DEF Request
  <2> QED BY <1>7, <2>2 DEF ApproveRefused, TypeOK
<1>8. ASSUME NEW r \in Requests, ApprovePublish(r) PROVE TypeOK'
  <2>1. req[r].by \in Members /\ rounds # << >>
    BY <1>8 DEF ApprovePublish, Claims, ActorsAreMembers, SnapshotsAreRecent,
                ReviewIsOpen
  <2>2. /\ createPublishedVersion(req[r]) \in Seq(Version)
        /\ DerivedRows(req[r].snap.data) \in Data
        /\ DerivedNarrative(req[r].snap.narrative) \in Text
    BY <2>1, PublishTypes
  <2>3. req[r].snap.data \in Data
    BY DEF TypeOK, Request, Snapshot
  <2>4. Len(versions) + 1 \in Nat
    BY DEF TypeOK
  <2>5. doc' \in Doc
    BY <1>8, <2>2, <2>3, <2>4 DEF ApprovePublish, TypeOK, Doc, Statuses
  <2>6. req' \in [Requests -> Request]
    BY <1>8, CommitTypes DEF ApprovePublish
  <2> QED BY <1>8, <2>2, <2>5, <2>6 DEF ApprovePublish, TypeOK
<1>9. ASSUME NEW r \in Requests, DeclineClaim(r) PROVE TypeOK'
  <2>1. CASE assertPendingApprovalBy(req[r].by)
    <3>1. doc' \in Doc
      BY <1>9, <2>1 DEF DeclineClaim, TypeOK, Doc, Statuses
    <3>2. req' \in [Requests -> Request]
      BY <1>9, <2>1, CommitTypes DEF DeclineClaim
    <3>3. rounds # << >>
      BY <2>1 DEF assertPendingApprovalBy, ReviewIsOpen
    <3>4. Len(rounds) \in DOMAIN rounds /\ rounds[Len(rounds)] \in Round
      BY <3>3 DEF TypeOK
    <3>5. [rounds[Len(rounds)] EXCEPT !.declined = TRUE] \in Round
      BY <3>4 DEF Round
    <3>6. rounds' = [rounds EXCEPT ![Len(rounds)] =
                       [rounds[Len(rounds)] EXCEPT !.declined = TRUE]]
      BY <1>9, <2>1, <3>4 DEF DeclineClaim
    <3>7. rounds' \in Seq(Round)
      BY <3>4, <3>5, <3>6 DEF TypeOK
    <3> QED BY <1>9, <3>1, <3>2, <3>7 DEF DeclineClaim, TypeOK
  <2>2. CASE ~assertPendingApprovalBy(req[r].by)
    BY <1>9, <2>2 DEF DeclineClaim, TypeOK
  <2> QED BY <2>1, <2>2
<1>10. ASSUME NEW r \in Requests, NEW m \in Members,
              ApproveCheck(r, m) \/ DeclineCheck(r, m)
       PROVE  TypeOK'
  <2>1. /\ [Idle EXCEPT !.pc = "checked", !.by = m] \in Request
        /\ [Idle EXCEPT !.pc = "declining", !.by = m] \in Request
    BY DEF Request
  <2> QED BY <1>10, <2>1 DEF ApproveCheck, DeclineCheck, TypeOK
<1> QED
  BY <1>1, <1>2, <1>3, <1>4, <1>5, <1>6, <1>7, <1>8, <1>9, <1>10

(* A step that concerns one request alone: it fails or ends, moves on      *)
(* without a transaction, takes the lock, or takes its snapshot.           *)
Rests(r) ==
  /\ req'[r].pc \notin {"locked", "waiting"}
  /\ req'[r].pc \in {"checked", "declining"} => req'[r].by \in Members
  /\ \/ lock' = lock
     \/ lock' = None /\ (lock = r \/ req[r].pc = "locked")
TakesLock(r) ==
  /\ req'[r].pc = "locked" /\ lock = None /\ lock' = r
  /\ req'[r].seen = doc.status
  /\ req'[r].op = "submit" =>
       req'[r].by \in Members /\ (req'[r].ok => Complete(rows, doc.narrative))
TakesSnapshot(r) ==
  /\ req[r].pc = "checked" /\ req'[r].pc = "waiting" /\ lock' = lock
  /\ req'[r].by = req[r].by /\ req'[r].snap = Now /\ ~req'[r].overlap
Private(r) ==
  /\ UNCHANGED <<type, doc, rows, derived, versions, rounds>>
  /\ \A q \in Requests \ {r} : req'[q] = req[q]
  /\ Rests(r) \/ TakesLock(r) \/ TakesSnapshot(r)

LEMMA PrivateSteps ==
  ASSUME TypeOK, ActorsAreMembers, NEW r \in Requests,
         \/ \E i \in RowIds :
              \/ CreateRow(r, i) \/ UpdateRow(r, i) \/ SignReview(r, i)
              \/ RemoveRow(r, i) \/ AdoptDerived(r, i)
         \/ RemoveDerived(r) \/ EditRefused(r) \/ SaveNarrative(r)
         \/ GenerateCollect(r) \/ GenerateLock(r) \/ SubmitRefused(r)
         \/ ApproveSnapshot(r) \/ ApproveRefused(r) \/ Abort(r)
         \/ DeclineClaim(r) /\ ~assertPendingApprovalBy(req[r].by)
         \/ \E m \in Members :
              SubmitLock(r, m) \/ ApproveCheck(r, m) \/ DeclineCheck(r, m)
  PROVE  Private(r)
<1>1. ASSUME NEW i \in RowIds,
             \/ CreateRow(r, i) \/ UpdateRow(r, i) \/ SignReview(r, i)
             \/ RemoveRow(r, i) \/ AdoptDerived(r, i)
      PROVE  Private(r)
  <2>1. CASE CreateRow(r, i)
    BY <2>1 DEF CreateRow, lockDocument, Private, TakesLock, TypeOK, Idle
  <2>2. CASE UpdateRow(r, i)
    <3>1. PICK done \in BOOLEAN :
            lockDocument(r, [Idle EXCEPT !.op = "update", !.id = i, !.flag = done,
                                         !.text = edits + 2, !.ok = ~rows[i].signed])
      BY <2>2 DEF UpdateRow
    <3>2. /\ req'[r].pc = "locked" /\ lock = None /\ lock' = r
          /\ req'[r].seen = doc.status /\ req'[r].op = "update"
      BY <3>1 DEF lockDocument, TypeOK, Idle
    <3>3. \A q \in Requests \ {r} : req'[q] = req[q]
      BY <3>1 DEF lockDocument, TypeOK
    <3> QED
      BY <2>2, <3>2, <3>3 DEF UpdateRow, Private, TakesLock
  <2>3. CASE SignReview(r, i)
    BY <2>3 DEF SignReview, lockDocument, Private, TakesLock, TypeOK, Idle
  <2>4. CASE RemoveRow(r, i)
    BY <2>4 DEF RemoveRow, lockDocument, Private, TakesLock, TypeOK, Idle
  <2>5. CASE AdoptDerived(r, i)
    BY <2>5 DEF AdoptDerived, lockDocument, Private, TakesLock, TypeOK, Idle
  <2> QED BY <1>1, <2>1, <2>2, <2>3, <2>4, <2>5
<1>2. CASE RemoveDerived(r)
  BY <1>2 DEF RemoveDerived, lockDocument, Private, TakesLock, TypeOK, Idle
<1>3. CASE SaveNarrative(r)
  BY <1>3 DEF SaveNarrative, lockDocument, Private, TakesLock, TypeOK, Idle
<1>4. CASE GenerateLock(r)
  <2>1. req[r] \in Request
    BY DEF TypeOK
  <2>2. req'[r] = [[req[r] EXCEPT !.op = "generate"]
                     EXCEPT !.pc = "locked", !.seen = doc.status]
    BY <1>4 DEF GenerateLock, lockDocument, TypeOK
  <2>3. req'[r].pc = "locked" /\ req'[r].seen = doc.status /\ req'[r].op = "generate"
    BY <2>1, <2>2 DEF Request
  <2> QED
    BY <1>4, <2>3 DEF GenerateLock, lockDocument, Private, TakesLock, TypeOK
<1>5. CASE EditRefused(r) \/ SubmitRefused(r) \/ Abort(r) \/ GenerateCollect(r)
  <2>1. CASE EditRefused(r) \/ SubmitRefused(r)
    <3>1. req'[r] = Idle /\ \A q \in Requests \ {r} : req'[q] = req[q]
      BY <2>1 DEF EditRefused, SubmitRefused, TypeOK
    <3> QED BY <2>1, <3>1 DEF EditRefused, SubmitRefused, Private, Rests, Idle
  <2>2. CASE Abort(r)
    <3>1. req'[r] = Idle /\ \A q \in Requests \ {r} : req'[q] = req[q]
      BY <2>2 DEF Abort, TypeOK
    <3>2. lock' = lock \/ (lock' = None /\ lock = r)
      BY <2>2 DEF Abort
    <3>3. req'[r].pc = "idle"
      BY <3>1 DEF Idle
    <3> QED BY <2>2, <3>1, <3>2, <3>3 DEF Abort, Private, Rests
  <2>3. CASE GenerateCollect(r)
    BY <2>3 DEF GenerateCollect, Private, Rests, TypeOK, Idle
  <2> QED BY <1>5, <2>1, <2>2, <2>3
<1>6. CASE ApproveSnapshot(r)
  <2>1. req[r] \in Request
    BY DEF TypeOK
  <2>2. req'[r] = [req[r] EXCEPT !.pc = "waiting", !.snap = Now,
                                 !.conflict = FALSE, !.overlap = FALSE]
    BY <1>6 DEF ApproveSnapshot, TypeOK
  <2>3. /\ req'[r].pc = "waiting" /\ req'[r].snap = Now
        /\ req'[r].by = req[r].by /\ ~req'[r].overlap
    BY <2>1, <2>2 DEF Request
  <2> QED
    BY <1>6, <2>3 DEF ApproveSnapshot, Private, TakesSnapshot, TypeOK
<1>7. CASE ApproveRefused(r)
  <2>1. req[r].by \in Members
    BY <1>7 DEF ApproveRefused, ActorsAreMembers
  <2> QED
    BY <1>7, <2>1 DEF ApproveRefused, Private, Rests, TypeOK, Idle
<1>8. CASE DeclineClaim(r) /\ ~assertPendingApprovalBy(req[r].by)
  BY <1>8 DEF DeclineClaim, Private, Rests, TypeOK, Idle
<1>9. ASSUME NEW m \in Members,
             SubmitLock(r, m) \/ ApproveCheck(r, m) \/ DeclineCheck(r, m)
      PROVE  Private(r)
  <2>1. CASE SubmitLock(r, m)
    <3>1. /\ req'[r].pc = "locked" /\ lock = None /\ lock' = r
          /\ req'[r].seen = doc.status /\ req'[r].by \in Members
          /\ req'[r].ok = Complete(rows, doc.narrative)
      BY <2>1 DEF SubmitLock, lockDocument, TypeOK, Idle
    <3>2. \A q \in Requests \ {r} : req'[q] = req[q]
      BY <2>1 DEF SubmitLock, lockDocument, TypeOK
    <3> QED
      BY <2>1, <3>1, <3>2 DEF SubmitLock, Private, TakesLock
  <2>2. CASE ApproveCheck(r, m)
    <3>1. /\ req'[r].pc = "checked" /\ req'[r].by = m
          /\ \A q \in Requests \ {r} : req'[q] = req[q]
      BY <2>2 DEF ApproveCheck, TypeOK, Idle
    <3> QED
      BY <2>2, <3>1 DEF ApproveCheck, Private, Rests
  <2>3. CASE DeclineCheck(r, m)
    <3>1. /\ req'[r].pc = "declining" /\ req'[r].by = m
          /\ \A q \in Requests \ {r} : req'[q] = req[q]
      BY <2>3 DEF DeclineCheck, TypeOK, Idle
    <3> QED
      BY <2>3, <3>1 DEF DeclineCheck, Private, Rests
  <2> QED BY <1>9, <2>1, <2>2, <2>3
<1> QED
  BY <1>1, <1>2, <1>3, <1>4, <1>5, <1>6, <1>7, <1>8, <1>9

(* A private step keeps the whole invariant.                               *)
LEMMA PrivateKeeps ==
  ASSUME Inv, NEW r \in Requests, Private(r)
  PROVE  /\ ActorsAreMembers' /\ HoldersHold' /\ SeenIsRight'
         /\ SnapshotsAreRecent' /\ ReviewIsOpen' /\ ApprovedHasVersion'
         /\ ApprovedIsPublished'
<1> USE DEF Inv
<1>1. UNCHANGED <<type, doc, rows, derived, versions, rounds>>
  BY DEF Private
<1>2. \A q \in Requests \ {r} : req'[q] = req[q]
  BY DEF Private
<1>3. Rests(r) \/ TakesLock(r) \/ TakesSnapshot(r)
  BY DEF Private
<1>4. ActorsAreMembers'
  <2> SUFFICES ASSUME NEW q \in Requests,
                      \/ req'[q].pc \in {"checked", "waiting", "declining"}
                      \/ req'[q].pc = "locked" /\ req'[q].op = "submit"
               PROVE  req'[q].by \in Members
    BY DEF ActorsAreMembers
  <2>1. CASE q # r
    BY <1>2, <2>1 DEF ActorsAreMembers
  <2>2. CASE q = r
    BY <1>3, <2>2 DEF ActorsAreMembers, Rests, TakesLock, TakesSnapshot
  <2> QED BY <2>1, <2>2
<1>5. HoldersHold'
  <2> SUFFICES ASSUME NEW q \in Requests, req'[q].pc = "locked"
               PROVE  lock' = q
    BY DEF HoldersHold
  <2>1. CASE q # r
    BY <1>2, <1>3, <2>1, NoneAssumption
       DEF HoldersHold, Rests, TakesLock, TakesSnapshot
  <2>2. CASE q = r
    BY <1>3, <2>2 DEF Rests, TakesLock, TakesSnapshot
  <2> QED BY <2>1, <2>2
<1>6. SeenIsRight'
  <2> SUFFICES ASSUME NEW q \in Requests, req'[q].pc = "locked",
                      doc'.status = "approved"
               PROVE  req'[q].seen = "approved"
    BY DEF SeenIsRight
  <2>1. CASE q # r
    BY <1>1, <1>2, <2>1 DEF SeenIsRight
  <2>2. CASE q = r
    BY <1>1, <1>3, <2>2 DEF Rests, TakesLock, TakesSnapshot
  <2> QED BY <2>1, <2>2
<1>7. SnapshotsAreRecent'
  <2> SUFFICES ASSUME NEW q \in Requests, req'[q].pc = "waiting", ~req'[q].conflict
               PROVE  /\ req'[q].snap.status = doc'.status
                      /\ req'[q].snap.approver = doc'.approver
                      /\ req'[q].snap.narrative = doc'.narrative
                      /\ ~req'[q].overlap => req'[q].snap.rows = rows'
    BY DEF SnapshotsAreRecent
  <2>1. CASE q # r
    BY <1>1, <1>2, <2>1 DEF SnapshotsAreRecent
  <2>2. CASE q = r
    BY <1>1, <1>3, <2>2 DEF Rests, TakesLock, TakesSnapshot, Now
  <2> QED BY <2>1, <2>2
<1>8. ReviewIsOpen' /\ ApprovedHasVersion' /\ ApprovedIsPublished'
  BY <1>1 DEF ReviewIsOpen, ApprovedHasVersion, ApprovedIsPublished, Draft
<1> QED
  BY <1>4, <1>5, <1>6, <1>7, <1>8

(* What a commit makes of the requests.                                    *)
LEMMA CommitShape ==
  ASSUME TypeOK, NEW r, NEW hits \in BOOLEAN, NEW unseen \in BOOLEAN,
         Committed(r, Idle, hits, unseen), NEW q \in Requests
  PROVE  /\ q = r => req'[q].pc = "idle"
         /\ q # r => /\ req'[q].pc = req[q].pc /\ req'[q].op = req[q].op
                     /\ req'[q].by = req[q].by /\ req'[q].snap = req[q].snap
                     /\ req'[q].seen = req[q].seen
         /\ req'[q].pc = "waiting" =>
              /\ req'[q].conflict <=> (req[q].conflict \/ hits)
              /\ req'[q].overlap <=> (req[q].overlap \/ unseen)
<1>1. req[q] \in Request
  BY DEF TypeOK
<1>2. CASE q = r
  BY <1>2 DEF Committed, Idle
<1>3. CASE q # r /\ req[q].pc = "waiting"
  <2>1. req'[q] = [req[q] EXCEPT !.conflict = @ \/ hits, !.overlap = @ \/ unseen]
    BY <1>3 DEF Committed
  <2> QED BY <1>1, <1>3, <2>1 DEF Request
<1>4. CASE q # r /\ req[q].pc # "waiting"
  BY <1>4 DEF Committed
<1> QED BY <1>2, <1>3, <1>4

(* A commit keeps the invariants about the requests, provided it announces *)
(* what it changed.                                                        *)
LEMMA CommitKeepsRequests ==
  ASSUME Inv, NEW r, NEW hits \in BOOLEAN, NEW unseen \in BOOLEAN,
         Committed(r, Idle, hits, unseen),
         \/ r \in Requests /\ req[r].pc = "locked" /\ lock' = None
         \/ lock' = lock,
         doc'.status = "approved" => doc.status = "approved" \/ lock = None,
         hits \/ doc' = doc,
         hits \/ unseen \/ rows' = rows
  PROVE  ActorsAreMembers' /\ HoldersHold' /\ SeenIsRight' /\ SnapshotsAreRecent'
<1> USE DEF Inv
<1>1. ActorsAreMembers'
  BY CommitShape DEF ActorsAreMembers
<1>2. HoldersHold'
  <2> SUFFICES ASSUME NEW q \in Requests, req'[q].pc = "locked" PROVE lock' = q
    BY DEF HoldersHold
  <2>1. q # r /\ req[q].pc = "locked"
    BY CommitShape
  <2> QED BY <2>1 DEF HoldersHold
<1>3. SeenIsRight'
  <2> SUFFICES ASSUME NEW q \in Requests, req'[q].pc = "locked",
                      doc'.status = "approved"
               PROVE  req'[q].seen = "approved"
    BY DEF SeenIsRight
  <2>1. q # r /\ req[q].pc = "locked" /\ req'[q].seen = req[q].seen
    BY CommitShape
  <2>2. lock = q
    BY <2>1 DEF HoldersHold
  <2>3. doc.status = "approved"
    BY <2>2, NoneAssumption
  <2> QED BY <2>1, <2>3 DEF SeenIsRight
<1>4. SnapshotsAreRecent'
  <2> SUFFICES ASSUME NEW q \in Requests, req'[q].pc = "waiting", ~req'[q].conflict
               PROVE  /\ req'[q].snap.status = doc'.status
                      /\ req'[q].snap.approver = doc'.approver
                      /\ req'[q].snap.narrative = doc'.narrative
                      /\ ~req'[q].overlap => req'[q].snap.rows = rows'
    BY DEF SnapshotsAreRecent
  <2>1. q # r /\ req[q].pc = "waiting" /\ req'[q].snap = req[q].snap
    BY CommitShape
  <2>2. /\ ~hits /\ ~req[q].conflict
        /\ ~req'[q].overlap => ~req[q].overlap /\ ~unseen
    BY CommitShape
  <2>3. doc' = doc
    BY <2>2
  <2> QED BY <2>1, <2>2, <2>3 DEF SnapshotsAreRecent
<1> QED
  BY <1>1, <1>2, <1>3, <1>4

(* The last submission is still who it was after an edit marks it.         *)
LEMMA MarkedIsSame ==
  ASSUME TypeOK, MarkEdited, rounds # << >>
  PROVE  /\ rounds' # << >> /\ Len(rounds') = Len(rounds)
         /\ DOMAIN rounds' = DOMAIN rounds
         /\ \A n \in DOMAIN rounds :
              /\ rounds'[n].approver = rounds[n].approver
              /\ rounds'[n].declined = rounds[n].declined
<1>1. Len(rounds) \in DOMAIN rounds /\ \A n \in DOMAIN rounds : rounds[n] \in Round
  BY DEF TypeOK
<1>2. rounds' = [rounds EXCEPT ![Len(rounds)].edited = TRUE]
  BY DEF MarkEdited
<1>3. /\ DOMAIN rounds' = DOMAIN rounds
      /\ \A n \in DOMAIN rounds :
           rounds'[n] = IF n = Len(rounds) THEN [rounds[n] EXCEPT !.edited = TRUE]
                        ELSE rounds[n]
  BY <1>1, <1>2
<1>4. \A n \in DOMAIN rounds : /\ rounds'[n].approver = rounds[n].approver
                               /\ rounds'[n].declined = rounds[n].declined
  BY <1>1, <1>3 DEF Round
<1>5. rounds' \in Seq(Round) /\ Len(rounds') = Len(rounds)
  BY MarkTypes
<1> QED
  BY <1>1, <1>3, <1>4, <1>5

(* Every edit ends with the document out of "approved" and, if it is in    *)
(* review, as it was.                                                      *)
LEMMA EditKeeps ==
  ASSUME Inv, NEW r \in Requests,
         EditCommit(r) \/ SaveNarrativeCommit(r) \/ GenerateCommit(r)
  PROVE  /\ ActorsAreMembers' /\ HoldersHold' /\ SeenIsRight'
         /\ SnapshotsAreRecent' /\ ReviewIsOpen' /\ ApprovedHasVersion'
         /\ ApprovedIsPublished'
<1> USE DEF Inv
<1>1. req[r].pc = "locked" /\ lock' = None /\ MarkEdited /\ versions' = versions
  BY DEF EditCommit, SaveNarrativeCommit, GenerateCommit
<1>2. /\ doc'.status = invalidateApprovalIfNeeded(r).status
      /\ doc'.approver = invalidateApprovalIfNeeded(r).approver
  <2>1. invalidateApprovalIfNeeded(r) \in Doc
    BY InvalidateTypes
  <2> QED
    BY <2>1 DEF EditCommit, SaveNarrativeCommit, GenerateCommit, Doc
<1>3. /\ doc'.status # "approved"
      /\ doc'.status = "needs_review" =>
           doc.status = "needs_review" /\ doc'.approver = doc.approver
  <2>1. doc \in Doc
    BY DEF TypeOK
  <2>2. CASE req[r].seen = "approved"
    BY <1>2, <2>1, <2>2 DEF invalidateApprovalIfNeeded, Doc
  <2>3. CASE req[r].seen # "approved"
    BY <1>1, <1>2, <2>3 DEF invalidateApprovalIfNeeded, SeenIsRight
  <2> QED BY <2>2, <2>3
<1>4. ActorsAreMembers' /\ HoldersHold' /\ SeenIsRight' /\ SnapshotsAreRecent'
  <2>1. CASE EditCommit(r)
    <3> DEFINE hits == req[r].op \in {"adopt", "drop"} \/ req[r].seen = "approved"
    <3>1. Committed(r, Idle, hits, TRUE) /\ hits \in BOOLEAN
      BY <2>1 DEF EditCommit
    <3>2. hits \/ doc' = doc
      BY <2>1 DEF EditCommit, invalidateApprovalIfNeeded
    <3> HIDE DEF hits
    <3> QED BY <1>1, <1>3, <3>1, <3>2, CommitKeepsRequests
  <2>2. CASE SaveNarrativeCommit(r) \/ GenerateCommit(r)
    <3>1. Committed(r, Idle, TRUE, FALSE)
      BY <2>2 DEF SaveNarrativeCommit, GenerateCommit
    <3> QED BY <1>1, <1>3, <3>1, CommitKeepsRequests
  <2> QED BY <2>1, <2>2
<1>5. ReviewIsOpen'
  <2> SUFFICES ASSUME doc'.status = "needs_review"
               PROVE  /\ rounds' # << >>
                      /\ rounds'[Len(rounds')].approver = doc'.approver
                      /\ ~rounds'[Len(rounds')].declined
                      /\ \A v \in DOMAIN versions' :
                           versions'[v].round # Len(rounds')
    BY DEF ReviewIsOpen
  <2>1. doc.status = "needs_review" /\ doc'.approver = doc.approver
    BY <1>3
  <2>2. rounds # << >> /\ Len(rounds) \in DOMAIN rounds
    BY <2>1 DEF ReviewIsOpen, TypeOK
  <2> QED
    BY <1>1, <2>1, <2>2, MarkedIsSame DEF ReviewIsOpen
<1>6. ApprovedHasVersion' /\ ApprovedIsPublished'
  BY <1>3 DEF ApprovedHasVersion, ApprovedIsPublished
<1> QED
  BY <1>4, <1>5, <1>6

(* A submission opens a new review.                                        *)
LEMMA SubmitKeeps ==
  ASSUME Inv, NEW r \in Requests, SubmitCommit(r)
  PROVE  /\ ActorsAreMembers' /\ HoldersHold' /\ SeenIsRight'
         /\ SnapshotsAreRecent' /\ ReviewIsOpen' /\ ApprovedHasVersion'
         /\ ApprovedIsPublished'
<1> USE DEF Inv
<1>1. doc'.status = "needs_review" /\ doc'.approver = req[r].by
  BY DEF SubmitCommit, TypeOK, Doc
<1>2. ActorsAreMembers' /\ HoldersHold' /\ SeenIsRight' /\ SnapshotsAreRecent'
  BY <1>1, CommitKeepsRequests DEF SubmitCommit
<1>3. /\ Len(rounds) \in Nat /\ Len(rounds') = Len(rounds) + 1
      /\ rounds'[Len(rounds')] = [approver |-> req[r].by, declined |-> FALSE,
                                  edited |-> FALSE]
      /\ versions' = versions
  BY DEF SubmitCommit, TypeOK
<1>4. \A v \in DOMAIN versions : versions[v].round \in Nat
                                 /\ versions[v].round <= Len(rounds)
  BY DEF RoundsBound
<1>5. ReviewIsOpen'
  <2>1. rounds' # << >>
    BY <1>3
  <2>2. \A v \in DOMAIN versions : versions[v].round # Len(rounds')
                                   /\ versions[v].round <= Len(rounds')
    BY <1>3, <1>4
  <2> QED
    BY <1>1, <1>3, <2>1, <2>2 DEF ReviewIsOpen
<1>6. ApprovedHasVersion' /\ ApprovedIsPublished'
  BY <1>1 DEF ApprovedHasVersion, ApprovedIsPublished
<1> QED
  BY <1>2, <1>5, <1>6

(* The version an approval appends.                                        *)
LEMMA NewVersion ==
  ASSUME TypeOK, NEW r \in Requests, ApprovePublish(r)
  PROVE  /\ DOMAIN versions' = DOMAIN versions \cup {Len(versions) + 1}
         /\ Len(versions) + 1 \notin DOMAIN versions
         /\ versions'[Len(versions) + 1].rows = req[r].snap.rows
         /\ versions'[Len(versions) + 1].derived = DerivedRows(req[r].snap.data)
         /\ versions'[Len(versions) + 1].narrative =
              DerivedNarrative(req[r].snap.narrative)
         /\ versions'[Len(versions) + 1].overlapped = req[r].overlap
         /\ versions'[Len(versions) + 1].round = Len(rounds)
         /\ versions'[Len(versions) + 1].by = req[r].by
         /\ versions'[Len(versions) + 1].edited = rounds[Len(rounds)].edited
         /\ \A v \in DOMAIN versions :
              /\ versions'[v].by = versions[v].by
              /\ versions'[v].round = versions[v].round
              /\ versions'[v].rows = versions[v].rows
              /\ versions'[v].narrative = versions[v].narrative
              /\ versions'[v].edited = versions[v].edited
<1> DEFINE old == [v \in DOMAIN versions |-> [versions[v] EXCEPT !.latest = FALSE]]
           new == [rows |-> req[r].snap.rows,
                   derived |-> DerivedRows(req[r].snap.data),
                   narrative |-> DerivedNarrative(req[r].snap.narrative),
                   source |-> req[r].snap.data, by |-> req[r].by, latest |-> TRUE,
                   round |-> Len(rounds), overlapped |-> req[r].overlap,
                   edited |-> rounds[Len(rounds)].edited]
<1>1. versions' = Append(old, new)
  BY DEF ApprovePublish, createPublishedVersion
<1>2. DOMAIN versions = 1 .. Len(versions) /\ Len(versions) \in Nat
  BY DEF TypeOK
<1>3. \A v \in DOMAIN versions : versions[v] \in Version
  BY DEF TypeOK
<1>4. \A v \in DOMAIN versions : /\ old[v].by = versions[v].by
                                 /\ old[v].round = versions[v].round
                                 /\ old[v].rows = versions[v].rows
                                 /\ old[v].narrative = versions[v].narrative
                                 /\ old[v].edited = versions[v].edited
                                 /\ old[v] \in Version
  BY <1>3 DEF Version
<1>5. old \in Seq(Version) /\ Len(old) = Len(versions)
  <2>1. old = [v \in 1 .. Len(versions) |-> [versions[v] EXCEPT !.latest = FALSE]]
    BY <1>2
  <2> HIDE DEF old
  <2>2. \A v \in 1 .. Len(versions) : old[v] \in Version
    BY <1>2, <1>4
  <2>3. DOMAIN old = 1 .. Len(versions)
    BY <2>1
  <2>4. old \in [1 .. Len(versions) -> Version]
    BY <2>1, <2>2, <2>3
  <2> QED BY <1>2, <2>4
<1> HIDE DEF old, new
<1>6. /\ DOMAIN versions' = 1 .. Len(versions) + 1
      /\ versions'[Len(versions) + 1] = new
      /\ \A v \in 1 .. Len(versions) : versions'[v] = old[v]
  BY <1>1, <1>2, <1>5
<1>7. /\ new.rows = req[r].snap.rows
      /\ new.derived = DerivedRows(req[r].snap.data)
      /\ new.narrative = DerivedNarrative(req[r].snap.narrative)
      /\ new.overlapped = req[r].overlap
      /\ new.round = Len(rounds) /\ new.by = req[r].by
      /\ new.edited = rounds[Len(rounds)].edited
  BY DEF new
<1> QED
  BY <1>2, <1>4, <1>6, <1>7

(* An approval closes the review, and freezes the draft it sees.           *)
LEMMA PublishKeeps ==
  ASSUME Inv, NEW r \in Requests, ApprovePublish(r)
  PROVE  /\ ActorsAreMembers' /\ HoldersHold' /\ SeenIsRight'
         /\ SnapshotsAreRecent' /\ ReviewIsOpen' /\ ApprovedHasVersion'
         /\ ApprovedIsPublished'
<1> USE DEF Inv
<1> DEFINE n == Len(versions) + 1
           text == DerivedNarrative(req[r].snap.narrative)
<1>1. /\ doc'.status = "approved" /\ doc'.narrative = text /\ doc'.current = n
      /\ rows' = rows /\ derived' = DerivedRows(req[r].snap.data)
      /\ type' = type
  BY DEF ApprovePublish, TypeOK, Doc
<1>2. ActorsAreMembers' /\ HoldersHold' /\ SeenIsRight' /\ SnapshotsAreRecent'
  BY CommitKeepsRequests DEF ApprovePublish
<1>3. ReviewIsOpen'
  BY <1>1 DEF ReviewIsOpen
<1>4. /\ n \in DOMAIN versions'
      /\ versions'[n].rows = req[r].snap.rows
      /\ versions'[n].derived = DerivedRows(req[r].snap.data)
      /\ versions'[n].narrative = text
      /\ versions'[n].overlapped = req[r].overlap
  BY NewVersion
<1>5. type = "review" => text # 0
  BY DEF DerivedNarrative
<1>6. ApprovedHasVersion'
  BY <1>1, <1>4, <1>5 DEF ApprovedHasVersion
<1>7. ~req[r].overlap => req[r].snap.rows = rows
  BY DEF ApprovePublish, SnapshotsAreRecent
<1>8. ApprovedIsPublished'
  <2> HIDE DEF n, text
  <2> SUFFICES ASSUME ~versions'[n].overlapped
               PROVE  Draft' = Content(versions'[n])
    BY <1>1 DEF ApprovedIsPublished
  <2> QED
    BY <1>1, <1>4, <1>7 DEF Draft, Content
<1> QED
  BY <1>2, <1>3, <1>6, <1>8

(* A decline, and the seeding of an empty narrative.                       *)
LEMMA DeclineKeeps ==
  ASSUME Inv, NEW r \in Requests, DeclineClaim(r),
         assertPendingApprovalBy(req[r].by)
  PROVE  /\ ActorsAreMembers' /\ HoldersHold' /\ SeenIsRight'
         /\ SnapshotsAreRecent' /\ ReviewIsOpen' /\ ApprovedHasVersion'
         /\ ApprovedIsPublished'
<1> USE DEF Inv
<1>1. doc'.status = "declined"
  BY DEF DeclineClaim, TypeOK, Doc
<1>2. ActorsAreMembers' /\ HoldersHold' /\ SeenIsRight' /\ SnapshotsAreRecent'
  BY <1>1, CommitKeepsRequests DEF DeclineClaim
<1> QED
  BY <1>1, <1>2 DEF ReviewIsOpen, ApprovedHasVersion, ApprovedIsPublished

LEMMA SeedKeeps ==
  ASSUME Inv, SeedNarrative
  PROVE  /\ ActorsAreMembers' /\ HoldersHold' /\ SeenIsRight'
         /\ SnapshotsAreRecent' /\ ReviewIsOpen' /\ ApprovedHasVersion'
         /\ ApprovedIsPublished'
<1> USE DEF Inv
<1>1. /\ doc'.status = doc.status /\ doc'.approver = doc.approver
      /\ type = "review" /\ doc.narrative = 0
      /\ versions' = versions /\ rounds' = rounds /\ lock' = lock
  BY DEF SeedNarrative, TypeOK, Doc
<1>2. doc.status # "approved"
  BY <1>1 DEF ApprovedHasVersion
<1>3. Committed(None, Idle, TRUE, FALSE)
  BY DEF SeedNarrative
<1>4. ActorsAreMembers' /\ HoldersHold' /\ SeenIsRight' /\ SnapshotsAreRecent'
  BY <1>1, <1>3, CommitKeepsRequests
<1> QED
  BY <1>1, <1>2, <1>4
     DEF ReviewIsOpen, ApprovedHasVersion, ApprovedIsPublished

(* No step takes a submission back.                                        *)
LEMMA RoundsStayBounded ==
  ASSUME Inv, [Next]_vars
  PROVE  RoundsBound'
<1> USE DEF Inv
<1>1. Len(rounds) \in Nat /\ rounds \in Seq(Round)
  BY DEF TypeOK
<1>2. ASSUME NEW r \in Requests, ApprovePublish(r) PROVE RoundsBound'
  <2>1. rounds' = rounds
    BY <1>2 DEF ApprovePublish
  <2>2. versions'[Len(versions) + 1].round = Len(rounds)
    BY <1>2, NewVersion
  <2>3. \A v \in DOMAIN versions' :
          v = Len(versions) + 1 \/ (v \in DOMAIN versions
                                    /\ versions'[v].round = versions[v].round)
    BY <1>2, NewVersion
  <2> QED BY <1>1, <2>1, <2>2, <2>3 DEF RoundsBound
<1>3. ASSUME versions' = versions, Len(rounds') = Len(rounds) PROVE RoundsBound'
  BY <1>3 DEF RoundsBound
<1>4. ASSUME NEW r \in Requests, SubmitCommit(r) PROVE RoundsBound'
  <2>1. versions' = versions /\ Len(rounds') = Len(rounds) + 1
    BY <1>1, <1>4 DEF SubmitCommit
  <2>2. \A v \in DOMAIN versions : versions[v].round \in Nat
                                   /\ versions[v].round <= Len(rounds)
    BY DEF RoundsBound
  <2> QED BY <1>1, <2>1, <2>2 DEF RoundsBound
<1>5. ASSUME NEW r \in Requests,
             EditCommit(r) \/ SaveNarrativeCommit(r) \/ GenerateCommit(r)
      PROVE  RoundsBound'
  <2>1. MarkEdited /\ versions' = versions
    BY <1>5 DEF EditCommit, SaveNarrativeCommit, GenerateCommit
  <2> QED BY <1>3, <2>1, MarkTypes
<1>6. ASSUME NEW r \in Requests, DeclineClaim(r) PROVE RoundsBound'
  <2>1. versions' = versions /\ Len(rounds') = Len(rounds)
    <3>1. CASE assertPendingApprovalBy(req[r].by)
      <4>1. TypeOK'
        BY <1>6, OtherStepTypes
      <4>2. DOMAIN rounds' = DOMAIN rounds /\ rounds' \in Seq(Round)
        BY <1>6, <3>1, <4>1 DEF DeclineClaim, TypeOK
      <4> QED BY <1>1, <1>6, <4>2 DEF DeclineClaim
    <3>2. CASE ~assertPendingApprovalBy(req[r].by)
      BY <1>6, <3>2 DEF DeclineClaim
    <3> QED BY <3>1, <3>2
  <2> QED BY <1>3, <2>1
<1>7. ASSUME UNCHANGED <<versions, rounds>> PROVE RoundsBound'
  BY <1>3, <1>7
<1> QED
  BY <1>2, <1>4, <1>5, <1>6, <1>7
     DEF Next, vars, PlatformEdit, SeedNarrative, CreateRow, UpdateRow, SignReview,
         RemoveRow, AdoptDerived, RemoveDerived, EditRefused, SaveNarrative,
         GenerateCollect, GenerateLock, SubmitRefused, ApproveSnapshot,
         ApproveRefused, Abort, SubmitLock, ApproveCheck, DeclineCheck

(* The invariant is inductive.                                             *)
LEMMA InvInit == Init => Inv
<1> SUFFICES ASSUME Init PROVE Inv OBVIOUS
<1>1. TypeOK
  BY InitTypes
<1>2. \A r \in Requests : req[r].pc = "idle"
  BY DEF Init, Idle
<1>3. doc.status = "draft" /\ versions = << >> /\ Len(versions) = 0
  BY DEF Init
<1> QED
  BY <1>1, <1>2, <1>3
     DEF Inv, ActorsAreMembers, HoldersHold, SeenIsRight, SnapshotsAreRecent,
         ReviewIsOpen, ApprovedHasVersion, ApprovedIsPublished, RoundsBound

LEMMA InvStep == Inv /\ [Next]_vars => Inv'
<1> SUFFICES ASSUME Inv, [Next]_vars PROVE Inv' OBVIOUS
<1> DEFINE Rest == /\ ActorsAreMembers /\ HoldersHold /\ SeenIsRight
                   /\ SnapshotsAreRecent /\ ReviewIsOpen /\ ApprovedHasVersion
                   /\ ApprovedIsPublished
<1>1. TypeOK'
  <2>1. TypeOK /\ ActorsAreMembers /\ SnapshotsAreRecent /\ ReviewIsOpen
    BY DEF Inv
  <2>2. ASSUME NEW r \in Requests, SubmitCommit(r) PROVE TypeOK'
    <3>1. req[r].by \in Members
      BY <2>1, <2>2 DEF SubmitCommit, ActorsAreMembers
    <3> QED BY <2>1, <2>2, <3>1, CommitStepTypes
  <2> QED
    BY <2>1, <2>2, LockStepTypes, CommitStepTypes, OtherStepTypes DEF Next
<1>2. RoundsBound'
  BY RoundsStayBounded
<1>3. Rest'
  <2>1. ASSUME NEW r \in Requests, Private(r) PROVE Rest'
    BY <2>1, PrivateKeeps
  <2>2. CASE UNCHANGED vars
    BY <2>2 DEF vars, Inv, ActorsAreMembers, HoldersHold, SeenIsRight,
                SnapshotsAreRecent, ReviewIsOpen, ApprovedHasVersion,
                ApprovedIsPublished, Draft
  <2>3. CASE PlatformEdit
    BY <2>3 DEF PlatformEdit, Inv, ActorsAreMembers, HoldersHold, SeenIsRight,
                SnapshotsAreRecent, ReviewIsOpen, ApprovedHasVersion,
                ApprovedIsPublished, Draft
  <2>4. CASE SeedNarrative
    BY <2>4, SeedKeeps
  <2>5. ASSUME NEW r \in Requests,
               EditCommit(r) \/ SaveNarrativeCommit(r) \/ GenerateCommit(r)
        PROVE  Rest'
    BY <2>5, EditKeeps
  <2>6. ASSUME NEW r \in Requests, SubmitCommit(r) PROVE Rest'
    BY <2>6, SubmitKeeps
  <2>7. ASSUME NEW r \in Requests, ApprovePublish(r) PROVE Rest'
    BY <2>7, PublishKeeps
  <2>8. ASSUME NEW r \in Requests, DeclineClaim(r),
               assertPendingApprovalBy(req[r].by)
        PROVE  Rest'
    BY <2>8, DeclineKeeps
  <2>9. TypeOK /\ ActorsAreMembers
    BY DEF Inv
  <2> HIDE DEF Rest
  <2> QED
    BY <2>1, <2>2, <2>3, <2>4, <2>5, <2>6, <2>7, <2>8, <2>9, PrivateSteps DEF Next
<1> QED
  BY <1>1, <1>2, <1>3 DEF Inv

LEMMA InvAlways == Spec => []Inv
BY InvInit, InvStep, PTL DEF Spec

(* An approved draft is the published version, whatever the interleaving   *)
(* of edits, saves, regenerations, submissions and decisions, except for a *)
(* row edit that an approval under way overlapped.                         *)
THEOREM ApprovalStandsForTheDraft == Spec => []ApprovedIsPublished
<1>1. Inv => ApprovedIsPublished
  BY DEF Inv
<1> QED
  BY <1>1, InvAlways, PTL

(* One submission, one decision, by the member it named.                   *)
THEOREM SubmissionsAreDecidedOnce == Spec => []DecidedOnceByItsApprover
<1>1. Init => DecidedOnceByItsApprover
  BY DEF Init, DecidedOnceByItsApprover
<1>2. ASSUME Inv, DecidedOnceByItsApprover, [Next]_vars
      PROVE  DecidedOnceByItsApprover'
  <2>1. TypeOK /\ rounds \in Seq(Round)
    BY <1>2 DEF Inv, TypeOK
  <2>2. ASSUME UNCHANGED <<versions, rounds>> PROVE DecidedOnceByItsApprover'
    BY <1>2, <2>2 DEF DecidedOnceByItsApprover
  <2>3. ASSUME versions' = versions,
               \A n \in DOMAIN rounds :
                 /\ n \in DOMAIN rounds'
                 /\ rounds'[n].approver = rounds[n].approver
                 /\ (\E v \in DOMAIN versions : versions[v].round = n)
                      => rounds'[n].declined = rounds[n].declined
        PROVE  DecidedOnceByItsApprover'
    BY <1>2, <2>3 DEF DecidedOnceByItsApprover
  <2>4. ASSUME NEW r \in Requests,
               EditCommit(r) \/ SaveNarrativeCommit(r) \/ GenerateCommit(r)
        PROVE  DecidedOnceByItsApprover'
    <3>1. MarkEdited /\ versions' = versions
      BY <2>4 DEF EditCommit, SaveNarrativeCommit, GenerateCommit
    <3>2. CASE rounds = << >>
      BY <2>2, <3>1, <3>2 DEF MarkEdited
    <3>3. CASE rounds # << >>
      BY <2>1, <2>3, <3>1, <3>3, MarkedIsSame
    <3> QED BY <3>2, <3>3
  <2>5. ASSUME NEW r \in Requests, SubmitCommit(r)
        PROVE  DecidedOnceByItsApprover'
    <3>1. /\ versions' = versions
          /\ \A n \in DOMAIN rounds : n \in DOMAIN rounds' /\ rounds'[n] = rounds[n]
      BY <2>1, <2>5 DEF SubmitCommit
    <3> QED BY <2>3, <3>1
  <2>6. ASSUME NEW r \in Requests, DeclineClaim(r)
        PROVE  DecidedOnceByItsApprover'
    <3>1. CASE ~assertPendingApprovalBy(req[r].by)
      BY <2>2, <2>6, <3>1 DEF DeclineClaim
    <3>2. CASE assertPendingApprovalBy(req[r].by)
      <4>1. /\ versions' = versions
            /\ rounds' = [rounds EXCEPT ![Len(rounds)].declined = TRUE]
        BY <2>6, <3>2 DEF DeclineClaim
      <4>2. \A v \in DOMAIN versions : versions[v].round # Len(rounds)
        BY <1>2, <3>2 DEF Inv, ReviewIsOpen, assertPendingApprovalBy
      <4>3. \A n \in DOMAIN rounds : rounds[n] \in Round
        BY <2>1
      <4>4. \A n \in DOMAIN rounds :
              /\ n \in DOMAIN rounds'
              /\ rounds'[n].approver = rounds[n].approver
              /\ n # Len(rounds) => rounds'[n].declined = rounds[n].declined
        BY <4>1, <4>3 DEF Round
      <4> QED BY <2>3, <4>1, <4>2, <4>4
    <3> QED BY <3>1, <3>2
  <2>7. ASSUME NEW r \in Requests, ApprovePublish(r)
        PROVE  DecidedOnceByItsApprover'
    <3> DEFINE n == Len(versions) + 1
    <3>1. /\ doc.status = "needs_review" /\ doc.approver = req[r].by
          /\ rounds' = rounds
      BY <1>2, <2>7 DEF Inv, SnapshotsAreRecent, ApprovePublish, Claims
    <3>2. /\ Len(rounds) \in DOMAIN rounds
          /\ rounds[Len(rounds)].approver = req[r].by
          /\ ~rounds[Len(rounds)].declined
          /\ \A v \in DOMAIN versions : versions[v].round # Len(rounds)
      BY <1>2, <2>1, <3>1 DEF Inv, ReviewIsOpen
    <3>3. /\ DOMAIN versions' = DOMAIN versions \cup {n}
          /\ versions'[n].round = Len(rounds) /\ versions'[n].by = req[r].by
          /\ \A v \in DOMAIN versions : /\ versions'[v].by = versions[v].by
                                        /\ versions'[v].round = versions[v].round
      BY <2>1, <2>7, NewVersion
    <3> HIDE DEF n
    <3> QED
      BY <1>2, <3>1, <3>2, <3>3 DEF DecidedOnceByItsApprover
  <2> QED
    BY <1>2, <2>2, <2>4, <2>5, <2>6, <2>7
       DEF Next, vars, PlatformEdit, SeedNarrative, CreateRow, UpdateRow,
           SignReview, RemoveRow, AdoptDerived, RemoveDerived, EditRefused,
           SaveNarrative, GenerateCollect, GenerateLock, SubmitRefused,
           ApproveSnapshot, ApproveRefused, Abort, SubmitLock, ApproveCheck,
           DeclineCheck
<1> QED
  BY <1>1, <1>2, InvAlways, PTL DEF Spec

(* The drift baseline is what the derived rows were made from.             *)
THEOREM DriftIsNeverHidden == Spec => []BaselineIsWhatWasDerived
<1>1. Init => BaselineIsWhatWasDerived
  BY DEF Init, BaselineIsWhatWasDerived
<1>2. ASSUME Inv, BaselineIsWhatWasDerived, [Next]_vars
      PROVE  BaselineIsWhatWasDerived'
  <2>1. doc \in Doc
    BY <1>2 DEF Inv, TypeOK
  <2>2. ASSUME UNCHANGED <<doc, derived>> PROVE BaselineIsWhatWasDerived'
    BY <1>2, <2>2 DEF BaselineIsWhatWasDerived
  <2>3. ASSUME NEW r \in Requests, invalidateApprovalIfNeeded(r) \in Doc
        PROVE  invalidateApprovalIfNeeded(r).baseline = doc.baseline
    BY <2>1 DEF invalidateApprovalIfNeeded, Doc
  <2>4. \A r \in Requests : invalidateApprovalIfNeeded(r) \in Doc
    BY <1>2, InvalidateTypes DEF Inv
  <2>5. ASSUME NEW r \in Requests, EditCommit(r)
        PROVE  BaselineIsWhatWasDerived'
    <3>1. doc'.baseline = doc.baseline /\ (derived' = derived \/ derived' = 0)
      BY <2>3, <2>4, <2>5 DEF EditCommit
    <3> QED BY <1>2, <3>1 DEF BaselineIsWhatWasDerived
  <2>6. ASSUME NEW r \in Requests, SaveNarrativeCommit(r)
        PROVE  BaselineIsWhatWasDerived'
    <3>1. doc'.baseline = doc.baseline /\ derived' = derived
      BY <2>3, <2>4, <2>6 DEF SaveNarrativeCommit, Doc
    <3> QED BY <1>2, <3>1 DEF BaselineIsWhatWasDerived
  <2>7. ASSUME NEW r \in Requests, GenerateCommit(r)
        PROVE  BaselineIsWhatWasDerived'
    <3>1. doc'.baseline = req[r].data /\ derived' = DerivedRows(req[r].data)
      BY <2>4, <2>7 DEF GenerateCommit, Doc
    <3> QED BY <3>1 DEF BaselineIsWhatWasDerived, DerivedRows
  <2>8. ASSUME NEW r \in Requests, ApprovePublish(r)
        PROVE  BaselineIsWhatWasDerived'
    <3>1. doc'.baseline = req[r].snap.data
          /\ derived' = DerivedRows(req[r].snap.data)
      BY <2>1, <2>8 DEF ApprovePublish, Doc
    <3> QED BY <3>1 DEF BaselineIsWhatWasDerived, DerivedRows
  <2>9. ASSUME \/ SeedNarrative
               \/ \E r \in Requests : SubmitCommit(r) \/ DeclineClaim(r)
        PROVE  BaselineIsWhatWasDerived'
    <3>1. doc'.baseline = doc.baseline /\ derived' = derived
      BY <2>1, <2>9 DEF SeedNarrative, SubmitCommit, DeclineClaim, Doc
    <3> QED BY <1>2, <3>1 DEF BaselineIsWhatWasDerived
  <2> QED
    BY <1>2, <2>2, <2>5, <2>6, <2>7, <2>8, <2>9
       DEF Next, vars, PlatformEdit, CreateRow, UpdateRow, SignReview, RemoveRow,
           AdoptDerived, RemoveDerived, EditRefused, SaveNarrative,
           GenerateCollect, GenerateLock, SubmitRefused, ApproveSnapshot,
           ApproveRefused, Abort, SubmitLock, ApproveCheck, DeclineCheck
<1> QED
  BY <1>1, <1>2, InvAlways, PTL DEF Spec

(* An edit of a row under way, other than a signature, was let through     *)
(* because the row is not signed; the lock keeps that true.                *)
RowEdits == RowOps \ {"drop"}
EditsFindUnsigned ==
  \A r \in Requests :
    req[r].pc = "locked" /\ req[r].op \in RowEdits /\ req[r].ok =>
      /\ req[r].id \in RowIds
      /\ req[r].op # "sign" => ~rows[req[r].id].signed

(* A step puts no edit of a row under the lock, and leaves those there.    *)
NoRowEditStarts ==
  \A q \in Requests :
    req'[q].pc = "locked" /\ req'[q].op \in RowEdits => req'[q] = req[q]

LEMMA CommitStartsNoEdit ==
  ASSUME TypeOK, NEW r, NEW hits \in BOOLEAN, NEW unseen \in BOOLEAN,
         Committed(r, Idle, hits, unseen)
  PROVE  NoRowEditStarts
<1> SUFFICES ASSUME NEW q \in Requests, req'[q].pc = "locked"
             PROVE  req'[q] = req[q]
  BY DEF NoRowEditStarts
<1>1. q # r /\ req[q].pc = "locked"
  BY CommitShape
<1> QED
  BY <1>1 DEF Committed

(* The edits that take the lock look at the row under it.                  *)
LEMMA RowLockFindsUnsigned ==
  ASSUME TypeOK, EditsFindUnsigned, NEW r \in Requests, NEW i \in RowIds,
         \/ CreateRow(r, i) \/ UpdateRow(r, i) \/ SignReview(r, i)
         \/ RemoveRow(r, i) \/ AdoptDerived(r, i)
  PROVE  EditsFindUnsigned' /\ rows' = rows
<1>1. /\ rows' = rows /\ req'[r].id = i
      /\ \A q \in Requests \ {r} : req'[q] = req[q]
      /\ req'[r].op # "sign" /\ req'[r].ok => ~rows[i].signed
  <2>1. CASE CreateRow(r, i)
    BY <2>1 DEF CreateRow, lockDocument, TypeOK, Idle, Free, NoRow
  <2>2. CASE UpdateRow(r, i)
    <3>1. PICK done \in BOOLEAN :
            lockDocument(r, [Idle EXCEPT !.op = "update", !.id = i, !.flag = done,
                                         !.text = edits + 2, !.ok = ~rows[i].signed])
      BY <2>2 DEF UpdateRow
    <3> QED
      BY <2>2, <3>1 DEF UpdateRow, lockDocument, TypeOK, Idle
  <2>3. CASE SignReview(r, i)
    BY <2>3 DEF SignReview, lockDocument, TypeOK, Idle
  <2>4. CASE RemoveRow(r, i)
    BY <2>4 DEF RemoveRow, lockDocument, TypeOK, Idle
  <2>5. CASE AdoptDerived(r, i)
    BY <2>5 DEF AdoptDerived, lockDocument, TypeOK, Idle, Free, NoRow
  <2> QED
    BY <2>1, <2>2, <2>3, <2>4, <2>5
<1> QED
  BY <1>1 DEF EditsFindUnsigned

(* No other step but the commit of an edit changes a row or starts an edit *)
(* of one.                                                                 *)
LEMMA OthersLeaveRows ==
  ASSUME TypeOK, NEW r \in Requests,
         \/ UNCHANGED vars \/ PlatformEdit \/ SeedNarrative
         \/ RemoveDerived(r) \/ EditRefused(r)
         \/ SaveNarrative(r) \/ SaveNarrativeCommit(r)
         \/ GenerateCollect(r) \/ GenerateLock(r) \/ GenerateCommit(r)
         \/ SubmitRefused(r) \/ SubmitCommit(r)
         \/ ApproveSnapshot(r) \/ ApproveRefused(r) \/ ApprovePublish(r)
         \/ DeclineClaim(r) \/ Abort(r)
         \/ \E m \in Members :
              SubmitLock(r, m) \/ ApproveCheck(r, m) \/ DeclineCheck(r, m)
  PROVE  rows' = rows /\ NoRowEditStarts
<1> USE DEF NoRowEditStarts, RowEdits, RowOps
<1>1. CASE UNCHANGED vars \/ PlatformEdit
  BY <1>1 DEF vars, PlatformEdit
<1>2. CASE \/ SeedNarrative \/ SaveNarrativeCommit(r) \/ GenerateCommit(r)
           \/ SubmitCommit(r) \/ ApprovePublish(r)
  <2>1. /\ rows' = rows
        /\ \/ Committed(None, Idle, TRUE, FALSE)
           \/ Committed(r, Idle, TRUE, FALSE)
    BY <1>2 DEF SeedNarrative, SaveNarrativeCommit, GenerateCommit, SubmitCommit,
                ApprovePublish
  <2> QED BY <2>1, CommitStartsNoEdit
<1>3. CASE DeclineClaim(r)
  <2>1. rows' = rows /\ (Committed(r, Idle, TRUE, FALSE)
                         \/ req' = [req EXCEPT ![r] = Idle])
    BY <1>3 DEF DeclineClaim
  <2>2. CASE req' = [req EXCEPT ![r] = Idle]
    BY <2>1, <2>2 DEF TypeOK, Idle
  <2> QED BY <2>1, <2>2, CommitStartsNoEdit
<1>4. CASE EditRefused(r) \/ SubmitRefused(r) \/ Abort(r)
  BY <1>4 DEF EditRefused, SubmitRefused, Abort, TypeOK, Idle
<1>5. CASE RemoveDerived(r) \/ SaveNarrative(r)
  <2>1. ASSUME NEW g, g.op \notin RowEdits, DOMAIN g = DOMAIN Idle, lockDocument(r, g)
        PROVE  NoRowEditStarts
    <3> DEFINE h == [g EXCEPT !.pc = "locked", !.seen = doc.status]
    <3>1. h.op = g.op
      BY <2>1 DEF Idle
    <3>2. req'[r] = h /\ \A q \in Requests \ {r} : req'[q] = req[q]
      BY <2>1 DEF lockDocument, TypeOK
    <3> HIDE DEF h
    <3> QED BY <2>1, <3>1, <3>2
  <2>2. CASE RemoveDerived(r)
    <3> DEFINE g == [Idle EXCEPT !.op = "drop", !.ok = TRUE]
    <3>1. g.op = "drop" /\ DOMAIN g = DOMAIN Idle
      BY DEF Idle
    <3>2. lockDocument(r, g) /\ rows' = rows
      BY <2>2 DEF RemoveDerived
    <3> HIDE DEF g
    <3> QED BY <2>1, <3>1, <3>2
  <2>3. CASE SaveNarrative(r)
    <3> DEFINE g == [Idle EXCEPT !.op = "narrative", !.text = edits + 2]
    <3>1. g.op = "narrative" /\ DOMAIN g = DOMAIN Idle
      BY DEF Idle
    <3>2. lockDocument(r, g) /\ rows' = rows
      BY <2>3 DEF SaveNarrative
    <3> HIDE DEF g
    <3> QED BY <2>1, <3>1, <3>2
  <2> QED BY <1>5, <2>2, <2>3
<1>6. CASE GenerateLock(r)
  <2>1. req[r] \in Request
    BY DEF TypeOK
  <2> DEFINE g == [req[r] EXCEPT !.op = "generate"]
             h == [g EXCEPT !.pc = "locked", !.seen = doc.status]
  <2>2. h.op = "generate"
    BY <2>1 DEF Request
  <2>3. req'[r] = h /\ \A q \in Requests \ {r} : req'[q] = req[q]
    BY <1>6 DEF GenerateLock, lockDocument, TypeOK
  <2> HIDE DEF h
  <2> QED BY <1>6, <2>2, <2>3 DEF GenerateLock
<1>7. CASE GenerateCollect(r)
  BY <1>7 DEF GenerateCollect, TypeOK, Idle
<1>8. CASE ApproveSnapshot(r)
  <2>1. req[r] \in Request
    BY DEF TypeOK
  <2>2. req'[r].pc = "waiting"
    BY <1>8, <2>1 DEF ApproveSnapshot, TypeOK, Request
  <2> QED BY <1>8, <2>2 DEF ApproveSnapshot, TypeOK
<1>9. CASE ApproveRefused(r)
  <2>1. req'[r].pc \in {"idle", "checked"}
    BY <1>9 DEF ApproveRefused, TypeOK, Idle
  <2> QED BY <1>9, <2>1 DEF ApproveRefused, TypeOK
<1>10. ASSUME NEW m \in Members,
              SubmitLock(r, m) \/ ApproveCheck(r, m) \/ DeclineCheck(r, m)
       PROVE  rows' = rows /\ NoRowEditStarts
  <2>1. CASE SubmitLock(r, m)
    BY <2>1 DEF SubmitLock, lockDocument, TypeOK, Idle
  <2>2. CASE ApproveCheck(r, m)
    BY <2>2 DEF ApproveCheck, TypeOK, Idle
  <2>3. CASE DeclineCheck(r, m)
    BY <2>3 DEF DeclineCheck, TypeOK, Idle
  <2> QED BY <1>10, <2>1, <2>2, <2>3
<1> QED
  BY <1>1, <1>2, <1>3, <1>4, <1>5, <1>6, <1>7, <1>8, <1>9, <1>10

(* A commit changes its row alone, as the lock found it.                   *)
LEMMA EditCommitRespectsSignature ==
  ASSUME TypeOK, HoldersHold, EditsFindUnsigned, NEW r \in Requests, EditCommit(r)
  PROVE  /\ EditsFindUnsigned'
         /\ \A i \in RowIds : rows[i].signed =>
              rows'[i].text = rows[i].text /\ rows'[i].done = rows[i].done
<1>1. /\ req[r].pc = "locked" /\ req[r].op \in RowOps /\ req[r].ok
      /\ rows' = IF req[r].op = "drop" THEN rows
                 ELSE [rows EXCEPT ![req[r].id] = EditedRow(req[r])]
      /\ Committed(r, Idle, req[r].op \in {"adopt", "drop"}
                            \/ req[r].seen = "approved", TRUE)
  BY DEF EditCommit
<1>2. \A q \in Requests : req'[q].pc # "locked"
  <2> SUFFICES ASSUME NEW q \in Requests, req'[q].pc = "locked" PROVE FALSE
    OBVIOUS
  <2>1. q # r /\ req[q].pc = "locked"
    BY <1>1, CommitShape
  <2> QED BY <1>1, <2>1 DEF HoldersHold
<1>3. ASSUME NEW i \in RowIds, rows[i].signed
      PROVE  rows'[i].text = rows[i].text /\ rows'[i].done = rows[i].done
  <2>1. CASE req[r].op = "drop" \/ req[r].id # i
    BY <1>1, <2>1 DEF TypeOK, Table
  <2>2. CASE req[r].op # "drop" /\ req[r].id = i
    <3>1. req[r].op = "sign"
      BY <1>1, <1>3, <2>2 DEF EditsFindUnsigned, RowEdits
    <3>2. rows[i] \in Row /\ rows'[i] = EditedRow(req[r])
      BY <1>1, <2>2 DEF TypeOK, Table
    <3>3. EditedRow(req[r]) = [rows[i] EXCEPT !.signed = req[r].flag]
      BY <2>2, <3>1 DEF EditedRow
    <3> QED BY <3>2, <3>3 DEF Row
  <2> QED BY <2>1, <2>2
<1> QED
  BY <1>2, <1>3 DEF EditsFindUnsigned

(* The minutes of a signed review stand: an edit under way found its row   *)
(* unsigned under the lock, and no other request signs it meanwhile.       *)
THEOREM SignedMinutesStand == Spec => SignedMinutesAreFrozen
<1> DEFINE Frozen == \A i \in RowIds : rows[i].signed =>
                       rows'[i].text = rows[i].text /\ rows'[i].done = rows[i].done
<1>1. Init => EditsFindUnsigned
  BY DEF Init, EditsFindUnsigned, Idle
<1>2. ASSUME Inv, EditsFindUnsigned, [Next]_vars
      PROVE  EditsFindUnsigned' /\ Frozen
  <2>1. TypeOK /\ HoldersHold
    BY <1>2 DEF Inv
  <2>2. ASSUME rows' = rows, NoRowEditStarts
        PROVE  EditsFindUnsigned' /\ Frozen
    BY <1>2, <2>2 DEF EditsFindUnsigned, NoRowEditStarts
  <2>3. ASSUME NEW r \in Requests, EditCommit(r)
        PROVE  EditsFindUnsigned' /\ Frozen
    BY <1>2, <2>1, <2>3, EditCommitRespectsSignature
  <2>4. ASSUME NEW r \in Requests, NEW i \in RowIds,
               \/ CreateRow(r, i) \/ UpdateRow(r, i) \/ SignReview(r, i)
               \/ RemoveRow(r, i) \/ AdoptDerived(r, i)
        PROVE  EditsFindUnsigned' /\ Frozen
    BY <1>2, <2>1, <2>4, RowLockFindsUnsigned
  <2>5. CASE SeedNarrative
    <3>1. rows' = rows /\ Committed(None, Idle, TRUE, FALSE)
      BY <2>5 DEF SeedNarrative
    <3> QED BY <2>1, <2>2, <3>1, CommitStartsNoEdit
  <2>6. CASE UNCHANGED vars \/ PlatformEdit
    BY <2>2, <2>6 DEF vars, PlatformEdit, NoRowEditStarts
  <2> HIDE DEF Frozen
  <2> QED
    BY <1>2, <2>1, <2>2, <2>3, <2>4, <2>5, <2>6, OthersLeaveRows DEF Next
<1> QED
  BY <1>1, <1>2, InvAlways, PTL DEF Spec, SignedMinutesAreFrozen

-----------------------------------------------------------------------------
(* A document in review is complete, unless it was edited in review.       *)
ReviewIsComplete ==
  doc.status = "needs_review" /\ ~rounds[Len(rounds)].edited
    => Complete(rows, doc.narrative)

(* A submission let through under the lock is right about the draft until  *)
(* it commits.                                                             *)
SubmitIsRight ==
  \A r \in Requests :
    req[r].pc = "locked" /\ req[r].op = "submit" /\ req[r].ok
      => Complete(rows, doc.narrative)

(* An edit that an approval under way does not see is an edit in review.   *)
OverlapsAreEdits ==
  doc.status = "needs_review" =>
    \A r \in Requests :
      req[r].pc = "waiting" /\ ~req[r].conflict /\ req[r].overlap
        => rounds[Len(rounds)].edited

CompleteInv ==
  ReviewIsComplete /\ SubmitIsRight /\ OverlapsAreEdits /\ PublishedWasComplete

(* Where nothing of the draft, its versions and its submissions changes,   *)
(* what remains is the requests.                                           *)
LEMMA PrivateKeepsComplete ==
  ASSUME CompleteInv, NEW r \in Requests, Private(r)
  PROVE  CompleteInv'
<1>1. UNCHANGED <<type, doc, rows, versions, rounds>>
  BY DEF Private
<1>2. \A q \in Requests \ {r} : req'[q] = req[q]
  BY DEF Private
<1>3. Rests(r) \/ TakesLock(r) \/ TakesSnapshot(r)
  BY DEF Private
<1>4. ReviewIsComplete' /\ PublishedWasComplete'
  BY <1>1 DEF CompleteInv, ReviewIsComplete, PublishedWasComplete, Complete, Present
<1>5. SubmitIsRight'
  <2> SUFFICES ASSUME NEW q \in Requests, req'[q].pc = "locked",
                      req'[q].op = "submit", req'[q].ok
               PROVE  Complete(rows, doc.narrative)
    BY <1>1 DEF SubmitIsRight, Complete, Present
  <2>1. CASE q # r
    BY <1>2, <2>1 DEF CompleteInv, SubmitIsRight
  <2>2. CASE q = r
    BY <1>3, <2>2 DEF Rests, TakesLock, TakesSnapshot
  <2> QED BY <2>1, <2>2
<1>6. OverlapsAreEdits'
  <2> SUFFICES ASSUME NEW q \in Requests, req'[q].pc = "waiting",
                      ~req'[q].conflict, req'[q].overlap,
                      doc.status = "needs_review"
               PROVE  rounds[Len(rounds)].edited
    BY <1>1 DEF OverlapsAreEdits
  <2>1. CASE q # r
    BY <1>2, <2>1 DEF CompleteInv, OverlapsAreEdits
  <2>2. CASE q = r
    BY <1>3, <2>2 DEF Rests, TakesLock, TakesSnapshot
  <2> QED BY <2>1, <2>2
<1> QED
  BY <1>4, <1>5, <1>6 DEF CompleteInv

(* A request under the lock after a commit was there before it.            *)
LEMMA CommitLeavesLocked ==
  ASSUME TypeOK, NEW r, NEW hits \in BOOLEAN, NEW unseen \in BOOLEAN,
         Committed(r, Idle, hits, unseen), NEW q \in Requests,
         req'[q].pc = "locked"
  PROVE  q # r /\ req'[q] = req[q]
<1>1. q # r /\ req[q].pc = "locked"
  BY CommitShape
<1> QED
  BY <1>1 DEF Committed

(* The holder of the lock commits: nobody is under it any more.            *)
LEMMA CommitEmptiesLock ==
  ASSUME Inv, NEW r \in Requests, NEW hits \in BOOLEAN, NEW unseen \in BOOLEAN,
         Committed(r, Idle, hits, unseen), req[r].pc = "locked" \/ lock = None
  PROVE  SubmitIsRight'
<1> SUFFICES ASSUME NEW q \in Requests, req'[q].pc = "locked" PROVE FALSE
  BY DEF SubmitIsRight
<1>1. q # r /\ req[q].pc = "locked"
  BY CommitLeavesLocked DEF Inv
<1> QED
  BY <1>1, NoneAssumption DEF Inv, HoldersHold

(* An edit in review is on record.                                         *)
LEMMA EditKeepsComplete ==
  ASSUME Inv, CompleteInv, NEW r \in Requests,
         EditCommit(r) \/ SaveNarrativeCommit(r) \/ GenerateCommit(r)
  PROVE  CompleteInv'
<1>1. /\ req[r].pc = "locked" /\ MarkEdited
      /\ versions' = versions /\ type' = type
  BY DEF EditCommit, SaveNarrativeCommit, GenerateCommit
<1>2. doc'.status = "needs_review" => doc.status = "needs_review"
  <2>1. invalidateApprovalIfNeeded(r) \in Doc /\ doc \in Doc
    BY InvalidateTypes DEF Inv, TypeOK
  <2>2. doc'.status = invalidateApprovalIfNeeded(r).status
    BY <2>1 DEF EditCommit, SaveNarrativeCommit, GenerateCommit, Doc
  <2> QED
    BY <2>1, <2>2 DEF invalidateApprovalIfNeeded, Doc
<1>3. doc'.status = "needs_review" => rounds'[Len(rounds')].edited
  <2> SUFFICES ASSUME doc'.status = "needs_review"
               PROVE  rounds'[Len(rounds')].edited
    OBVIOUS
  <2>1. rounds # << >> /\ rounds \in Seq(Round)
    BY <1>2 DEF Inv, ReviewIsOpen, TypeOK
  <2>2. Len(rounds) \in DOMAIN rounds /\ rounds[Len(rounds)] \in Round
    BY <2>1
  <2>3. rounds' = [rounds EXCEPT ![Len(rounds)].edited = TRUE]
    BY <1>1, <2>1 DEF MarkEdited
  <2>4. Len(rounds') = Len(rounds)
    BY <1>1, MarkTypes DEF Inv
  <2> QED
    BY <2>2, <2>3, <2>4 DEF Round
<1>4. SubmitIsRight'
  <2>1. CASE EditCommit(r)
    <3> DEFINE hits == req[r].op \in {"adopt", "drop"} \/ req[r].seen = "approved"
    <3>1. Committed(r, Idle, hits, TRUE) /\ hits \in BOOLEAN
      BY <2>1 DEF EditCommit
    <3> HIDE DEF hits
    <3> QED BY <1>1, <3>1, CommitEmptiesLock
  <2>2. CASE SaveNarrativeCommit(r) \/ GenerateCommit(r)
    <3>1. Committed(r, Idle, TRUE, FALSE)
      BY <2>2 DEF SaveNarrativeCommit, GenerateCommit
    <3> QED BY <1>1, <3>1, CommitEmptiesLock
  <2> QED BY <2>1, <2>2
<1>5. PublishedWasComplete'
  BY <1>1 DEF CompleteInv, PublishedWasComplete, Complete, Present
<1> QED
  BY <1>3, <1>4, <1>5 DEF CompleteInv, ReviewIsComplete, OverlapsAreEdits

(* A commit of the document row dooms the approvals under way.             *)
LEMMA HitsLeaveNoOverlap ==
  ASSUME TypeOK, NEW r, Committed(r, Idle, TRUE, FALSE)
  PROVE  OverlapsAreEdits'
<1> SUFFICES ASSUME NEW q \in Requests, req'[q].pc = "waiting", ~req'[q].conflict
             PROVE  FALSE
  BY DEF OverlapsAreEdits
<1> QED
  BY CommitShape

(* A submission is of a draft found complete under the lock.               *)
LEMMA SubmitKeepsComplete ==
  ASSUME Inv, CompleteInv, NEW r \in Requests, SubmitCommit(r)
  PROVE  CompleteInv'
<1>1. /\ Committed(r, Idle, TRUE, FALSE) /\ req[r].pc = "locked"
      /\ versions' = versions /\ type' = type /\ rows' = rows
      /\ doc'.narrative = doc.narrative
  BY DEF SubmitCommit, Inv, TypeOK, Doc
<1>2. Complete(rows, doc.narrative)
  BY DEF SubmitCommit, CompleteInv, SubmitIsRight
<1>3. ReviewIsComplete'
  BY <1>1, <1>2 DEF ReviewIsComplete, Complete, Present
<1>4. SubmitIsRight' /\ OverlapsAreEdits'
  BY <1>1, CommitEmptiesLock, HitsLeaveNoOverlap DEF Inv
<1>5. PublishedWasComplete'
  BY <1>1 DEF CompleteInv, PublishedWasComplete, Complete, Present
<1> QED
  BY <1>3, <1>4, <1>5 DEF CompleteInv

(* An approval freezes the draft in review, but for an overlapping edit,   *)
(* which is on record.                                                     *)
LEMMA PublishKeepsComplete ==
  ASSUME Inv, CompleteInv, NEW r \in Requests, ApprovePublish(r)
  PROVE  CompleteInv'
<1> DEFINE n == Len(versions) + 1
           new == versions'[n]
<1>1. /\ Committed(r, Idle, TRUE, FALSE) /\ lock = None
      /\ doc'.status = "approved" /\ type' = type /\ rounds' = rounds
      /\ req[r].pc = "waiting" /\ ~req[r].conflict
      /\ req[r].snap.status = "needs_review"
  BY DEF ApprovePublish, Claims, Inv, TypeOK, Doc
<1>2. /\ doc.status = "needs_review" /\ req[r].snap.narrative = doc.narrative
      /\ ~req[r].overlap => req[r].snap.rows = rows
  BY <1>1 DEF Inv, SnapshotsAreRecent
<1>3. SubmitIsRight' /\ OverlapsAreEdits' /\ ReviewIsComplete'
  BY <1>1, CommitEmptiesLock, HitsLeaveNoOverlap DEF Inv, ReviewIsComplete
<1>4. /\ DOMAIN versions' = DOMAIN versions \cup {n}
      /\ new.rows = req[r].snap.rows
      /\ new.narrative = DerivedNarrative(req[r].snap.narrative)
      /\ new.edited = rounds[Len(rounds)].edited
      /\ \A v \in DOMAIN versions : /\ versions'[v].rows = versions[v].rows
                                    /\ versions'[v].narrative = versions[v].narrative
                                    /\ versions'[v].edited = versions[v].edited
  BY NewVersion DEF Inv
<1>5. ASSUME ~new.edited PROVE Complete(new.rows, new.narrative)
  <2>1. ~req[r].overlap
    BY <1>1, <1>2, <1>4, <1>5 DEF CompleteInv, OverlapsAreEdits
  <2>2. Complete(rows, doc.narrative)
    BY <1>2, <1>4, <1>5 DEF CompleteInv, ReviewIsComplete
  <2>3. new.rows = rows /\ new.narrative = DerivedNarrative(doc.narrative)
    BY <1>2, <1>4, <2>1
  <2> HIDE DEF new
  <2> QED
    BY <2>2, <2>3 DEF Complete, DerivedNarrative
<1>6. PublishedWasComplete'
  <2> SUFFICES ASSUME NEW v \in DOMAIN versions', ~versions'[v].edited
               PROVE  Complete(versions'[v].rows, versions'[v].narrative)
    BY <1>1 DEF PublishedWasComplete, Complete, Present
  <2>1. CASE v = n
    BY <1>5, <2>1
  <2>2. CASE v \in DOMAIN versions
    <3>1. /\ ~versions[v].edited
          /\ versions'[v].rows = versions[v].rows
          /\ versions'[v].narrative = versions[v].narrative
      BY <1>4, <2>2
    <3> QED
      BY <2>2, <3>1 DEF CompleteInv, PublishedWasComplete
  <2> HIDE DEF n
  <2> QED BY <1>4, <2>1, <2>2
<1> QED
  BY <1>3, <1>6 DEF CompleteInv

(* A decline, and the seeding of a narrative that is still empty, and so   *)
(* of a review that is not complete.                                       *)
LEMMA DeclineKeepsComplete ==
  ASSUME Inv, CompleteInv, NEW r \in Requests, DeclineClaim(r),
         assertPendingApprovalBy(req[r].by)
  PROVE  CompleteInv'
<1>1. /\ Committed(r, Idle, TRUE, FALSE)
      /\ UNCHANGED <<versions, type, rows>>
      /\ doc'.status = "declined" /\ doc'.narrative = doc.narrative
  BY DEF DeclineClaim, Inv, TypeOK, Doc
<1>2. SubmitIsRight'
  <2> SUFFICES ASSUME NEW q \in Requests, req'[q].pc = "locked",
                      req'[q].op = "submit", req'[q].ok
               PROVE  Complete(rows, doc.narrative)
    BY <1>1 DEF SubmitIsRight, Complete, Present
  <2>1. req'[q] = req[q]
    BY <1>1, CommitLeavesLocked DEF Inv
  <2> QED
    BY <2>1 DEF CompleteInv, SubmitIsRight
<1>3. ReviewIsComplete' /\ OverlapsAreEdits'
  BY <1>1, HitsLeaveNoOverlap DEF Inv, ReviewIsComplete
<1>4. PublishedWasComplete'
  BY <1>1 DEF CompleteInv, PublishedWasComplete, Complete, Present
<1> QED
  BY <1>2, <1>3, <1>4 DEF CompleteInv

LEMMA SeedKeepsComplete ==
  ASSUME Inv, CompleteInv, SeedNarrative
  PROVE  CompleteInv'
<1>1. /\ Committed(None, Idle, TRUE, FALSE)
      /\ UNCHANGED <<versions, type, rows, rounds>>
      /\ doc'.status = doc.status
      /\ ~Complete(rows, doc.narrative)
  BY DEF SeedNarrative, Inv, TypeOK, Doc, Complete
<1>2. SubmitIsRight'
  <2> SUFFICES ASSUME NEW q \in Requests, req'[q].pc = "locked",
                      req'[q].op = "submit", req'[q].ok
               PROVE  FALSE
    BY DEF SubmitIsRight
  <2>1. req'[q] = req[q]
    BY <1>1, CommitLeavesLocked DEF Inv
  <2> QED
    BY <1>1, <2>1 DEF CompleteInv, SubmitIsRight
<1>3. ReviewIsComplete' /\ OverlapsAreEdits'
  BY <1>1, HitsLeaveNoOverlap DEF Inv, CompleteInv, ReviewIsComplete
<1>4. PublishedWasComplete'
  BY <1>1 DEF CompleteInv, PublishedWasComplete, Complete, Present
<1> QED
  BY <1>2, <1>3, <1>4 DEF CompleteInv

(* Every version that was not edited between its submission and its        *)
(* approval met the clause's completeness check: the draft was complete    *)
(* under the lock of the submission, and the snapshot is that draft.       *)
THEOREM PublishedMetTheCheck == Spec => []PublishedWasComplete
<1>1. Init => CompleteInv
  BY DEF Init, CompleteInv, ReviewIsComplete, SubmitIsRight, OverlapsAreEdits,
         PublishedWasComplete, Idle
<1>2. ASSUME Inv, CompleteInv, [Next]_vars
      PROVE  CompleteInv'
  <2>1. TypeOK /\ ActorsAreMembers
    BY <1>2 DEF Inv
  <2>2. CASE UNCHANGED vars \/ PlatformEdit
    BY <1>2, <2>2
       DEF vars, PlatformEdit, CompleteInv, ReviewIsComplete, SubmitIsRight,
           OverlapsAreEdits, PublishedWasComplete, Complete, Present
  <2> QED
    BY <1>2, <2>1, <2>2, PrivateSteps, PrivateKeepsComplete, EditKeepsComplete,
       SubmitKeepsComplete, PublishKeepsComplete, DeclineKeepsComplete,
       SeedKeepsComplete DEF Next
<1>3. CompleteInv => PublishedWasComplete
  BY DEF CompleteInv
<1> QED
  BY <1>1, <1>2, <1>3, InvAlways, PTL DEF Spec

=============================================================================
