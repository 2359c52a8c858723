---------------------------- MODULE PolicyVersions ----------------------------
(***************************************************************************)
(* One policy: the Policy row (live text, working draft, status, pending   *)
(* approval, acknowledgements) and its PolicyVersion rows, as changed by   *)
(* policies.service.ts, the regeneration task, the review scheduler and    *)
(* the employee portal.                                                    *)
(*                                                                         *)
(* A request reads, and decides by what it read, in one step (two for an   *)
(* acceptance) and writes in another.  Only updateVersionContent locks the *)
(* policy's row before it reads; every other write of the row waits for    *)
(* that lock, and then lands whatever happened since its read.             *)
(***************************************************************************)
EXTENDS Naturals, Sequences

CONSTANTS
  Requests,     \* requests and jobs in flight at once
  Members,      \* members of the organization: they approve and acknowledge
  None,         \* no member, no lock holder
  MaxTexts,     \* bound: texts written
  MaxVersions,  \* bound: versions created
  MaxRequests   \* bound: requests served, one after the other or at once

ASSUME NoneAssumption == None \notin Requests \cup Members
ASSUME BoundsAssumption ==
  MaxTexts \in Nat \ {0} /\ MaxVersions \in Nat \ {0} /\ MaxRequests \in Nat

VARIABLES
  policy,      \* the Policy row
  signedBy,    \* Policy.signedBy: the members that acknowledged the policy
  versions,    \* the PolicyVersion rows, by id
  rowLock,     \* holder of SELECT ... FOR UPDATE on the Policy row
  req,         \* the requests
  texts,       \* texts written so far
  begun,       \* requests begun so far
  signedText,  \* history: the text each member last acknowledged
  late,        \* history: acknowledgements written after they were cleared
  edited,      \* history: the live text moved under its acknowledgements
  submitted,   \* history: the texts submitted for approval
  accepted,    \* history: the texts published by an acceptance
  bypassed     \* history: a frozen version was rewritten, or an approval
               \* decided while an acceptance was reading it

history == <<signedText, late, edited, submitted, accepted, bypassed>>
vars == <<policy, signedBy, versions, rowLock, req, texts, begun, history>>

-----------------------------------------------------------------------------
(* A text is a number, 0 the empty one, 1 the text the policy began with.  *)
(* A version is named by its position; 0 is no version.                    *)

Text == 0 .. MaxTexts
Ids == 0 .. MaxVersions
Statuses == {"draft", "needs_review", "published"}
Policy == [status : Statuses, content : Text, draft : Text, current : Ids,
           pending : Ids, approver : Members \cup {None},
           everPublished : BOOLEAN]           \* lastPublishedAt is not null
PolicyVersion == [text : Text, deleted : BOOLEAN]

(* A request between its read and its write: what it carries, and what it  *)
(* read and decided.  Its payload is a text of its own ("new"), an empty   *)
(* one, or the text it read ("copy").                                      *)
Idle == [op |-> "idle", payload |-> "none", text |-> 0, status |-> "none",
         version |-> 0, member |-> None, keeps |-> FALSE, flag |-> FALSE,
         signers |-> {}]

Request == [op : {"idle", "update", "updatePublish", "publishAll", "create",
                  "edit", "delete", "publish", "publishDraft", "activate",
                  "submit", "accepting", "accept", "deny", "clear", "overwrite",
                  "schedule", "push", "list"},
            payload : {"none", "empty", "new", "copy"}, text : Text,
            status : Statuses \cup {"none"}, version : Ids,
            member : Members \cup {None}, keeps : BOOLEAN, flag : BOOLEAN,
            signers : SUBSET Members]

TypeOK ==
  /\ policy \in Policy
  /\ signedBy \in SUBSET Members
  /\ versions \in Seq(PolicyVersion)
  /\ Len(versions) \in 1 .. MaxVersions
  /\ rowLock \in Requests \cup {None}
  /\ req \in [Requests -> Request]
  /\ texts \in Text
  /\ begun \in 0 .. MaxRequests
  /\ signedText \in [Members -> Text]
  /\ late \in SUBSET Members
  /\ edited \in BOOLEAN
  /\ submitted \in SUBSET Text
  /\ accepted \in SUBSET Text
  /\ bypassed \in BOOLEAN

(* create: the policy and its version 1, in the status the client names.   *)
Init ==
  /\ \E status \in {"draft", "published"} :
       policy = [status |-> status, content |-> 1, draft |-> 0, current |-> 1,
                 pending |-> 0, approver |-> None, everPublished |-> FALSE]
  /\ signedBy = {}
  /\ versions = <<[text |-> 1, deleted |-> FALSE]>>
  /\ rowLock = None
  /\ req = [r \in Requests |-> Idle]
  /\ texts = 1
  /\ begun = 0
  /\ signedText = [m \in Members |-> 0]
  /\ late = {}
  /\ edited = FALSE
  /\ submitted = {}
  /\ accepted = {}
  /\ bypassed = FALSE

Live == {v \in DOMAIN versions : ~versions[v].deleted}

-----------------------------------------------------------------------------
(* Steps the requests share.                                               *)

Begin(r, request) ==
  /\ req[r] = Idle
  /\ req' = [req EXCEPT ![r] = request]
  /\ begun < MaxRequests
  /\ begun' = begun + 1

(* A request reads the policy, and may go on to write.                     *)
Read(r, request) ==
  /\ Begin(r, request)
  /\ UNCHANGED <<policy, signedBy, versions, rowLock, texts, history>>

(* The text a request writes.                                              *)
TextOf(q) == IF q.payload = "new" THEN texts + 1 ELSE q.text

Done(r) ==
  /\ UNCHANGED begun
  /\ req' = [req EXCEPT ![r] = Idle]
  /\ IF req[r].payload = "new" THEN texts < MaxTexts /\ texts' = texts + 1
                               ELSE UNCHANGED texts

(* A write of the Policy row waits for the row lock.                       *)
Writes(r, op) == /\ req[r].op = op /\ rowLock = None
                 /\ Done(r) /\ UNCHANGED rowLock

ClearSignatures == signedBy' = {} /\ late' = {} /\ edited' = FALSE
KeepSignatures == UNCHANGED <<signedBy, late, edited>>

(* The live text moves and the acknowledgements stay.                      *)
KeepSignaturesOver(text) ==
  /\ edited' = (edited \/ (text # policy.content /\ signedBy # {}))
  /\ UNCHANGED <<signedBy, late>>

(* What every publication of a text writes.                                *)
Published(text, current) ==
  [policy EXCEPT !.status = "published", !.content = text, !.draft = text,
                 !.current = current, !.pending = 0, !.approver = None,
                 !.everPublished = TRUE]

NewVersion(text) ==
  /\ Len(versions) < MaxVersions
  /\ versions' = Append(versions, [text |-> text, deleted |-> FALSE])

(* The version employees see, and the one an approver is deciding on.      *)
Frozen(v) ==
  /\ v # 0
  /\ v = policy.pending \/ (v = policy.current /\ policy.status # "draft")

(* A draft's edit rewrites version v in place.                             *)
Rewrite(v, text) ==
  /\ versions' = IF v = 0 THEN versions ELSE [versions EXCEPT ![v].text = text]
  /\ bypassed' = (bypassed \/ Frozen(v))

-----------------------------------------------------------------------------
(* updateById: any of content, status and approver.                        *)

Deciding == policy.pending # 0 /\ policy.approver # None

(* Content for a policy that is not a draft goes through a new version,    *)
(* unless an approval is pending or the status changes too: refused.       *)
UpdatePublishRead(r, payload, status) ==
  /\ payload # "none" /\ policy.status # "draft"
  /\ status \in {"none", "published"} /\ ~Deciding
  /\ Read(r, [Idle EXCEPT !.op = "updatePublish", !.payload = payload])

UpdatePublishWrite(r) ==
  LET text == TextOf(req[r]) IN
  /\ Writes(r, "updatePublish")
  /\ NewVersion(text)
  /\ policy' = Published(text, Len(versions) + 1)
  /\ ClearSignatures
  /\ UNCHANGED <<signedText, submitted, accepted, bypassed>>

(* Publishing clears the acknowledgements; re-affirming the policy after   *)
(* its periodic review keeps them.                                         *)
KeepsSignatures(status) ==
  status = "published" =>
    \/ policy.status = "published"
    \/ policy.status = "needs_review" /\ policy.pending = 0

UpdateRead(r, payload, status, m) ==
  /\ payload # "none" => policy.status = "draft"
  /\ payload # "none" \/ status # "none" \/ m # None
  /\ m # None => payload = "none" /\ status = "none"
  /\ Read(r, [Idle EXCEPT
       !.op = "update", !.payload = payload, !.status = status, !.member = m,
       !.keeps = KeepsSignatures(status),
       !.flag = status = "published" /\ policy.status # "published"])

UpdateWrite(r) ==
  LET q == req[r]
      content == IF q.payload = "none" THEN policy.content ELSE TextOf(q)
  IN
  /\ Writes(r, "update")
  /\ policy' =
       [policy EXCEPT
          !.content = content,
          !.draft = IF q.payload = "new" THEN content ELSE @,
          !.status = IF q.status = "none" THEN @ ELSE q.status,
          !.approver = IF q.member = None THEN @ ELSE q.member,
          !.everPublished = @ \/ q.flag]
  /\ IF q.keeps THEN KeepSignaturesOver(content) ELSE ClearSignatures
  /\ IF q.payload = "none" THEN UNCHANGED <<versions, bypassed>>
                           ELSE Rewrite(policy.current, content)
  /\ UNCHANGED <<signedText, submitted, accepted>>

(* publishAll: the drafts it read, with whatever text they have by then.   *)
PublishAllRead(r) ==
  /\ policy.status = "draft"
  /\ Read(r, [Idle EXCEPT !.op = "publishAll"])

PublishAllWrite(r) ==
  /\ Writes(r, "publishAll")
  /\ policy' = [policy EXCEPT !.status = "published", !.everPublished = TRUE]
  /\ ClearSignatures
  /\ UNCHANGED <<versions, signedText, submitted, accepted, bypassed>>

-----------------------------------------------------------------------------
(* Versions.                                                               *)

(* A copy of the current version, of a named one, or of the live text.     *)
CreateVersionRead(r, v) ==
  /\ v \in Live \/ (v = 0 /\ policy.current = 0)
  /\ Read(r, [Idle EXCEPT !.op = "create", !.payload = "copy",
       !.text = IF v = 0 THEN policy.content ELSE versions[v].text])

CreateVersionWrite(r) ==
  /\ Writes(r, "create")
  /\ NewVersion(TextOf(req[r]))
  /\ UNCHANGED <<policy, signedBy, history>>

\* Mutant: a version that is pending approval can be edited.
Editable_pending(v) == ~(v = policy.current /\ policy.status # "draft")

(* Neither the live version nor the one pending approval.                  *)
Editable(v) ==
  /\ ~(v = policy.current /\ policy.status # "draft")
  /\ v # policy.pending

EditVersion(v, payload) ==
  [Idle EXCEPT !.op = "edit", !.payload = payload, !.version = v,
               !.flag = v = policy.current]

\* Mutant: the policy is read before its row is locked.
EditVersionLock_unlocked(r, v, payload) ==
  /\ rowLock = None /\ v \in Live /\ Editable(v)
  /\ Read(r, EditVersion(v, payload))

(* updateVersionContent locks the row, then reads; an edit it refuses      *)
(* leaves no trace.                                                        *)
EditVersionLock(r, v, payload) ==
  /\ rowLock = None /\ v \in Live /\ Editable(v)
  /\ rowLock' = r
  /\ Begin(r, EditVersion(v, payload))
  /\ UNCHANGED <<policy, signedBy, versions, texts, history>>

EditVersionWrite(r) ==
  LET q == req[r]
      text == TextOf(q)
      content == IF q.flag /\ text # 0 THEN text ELSE policy.content
  IN
  /\ q.op = "edit" /\ q.version \in Live
  /\ versions' = [versions EXCEPT ![q.version].text = text]
  /\ policy' = [policy EXCEPT !.draft = IF text = 0 THEN @ ELSE text,
                              !.content = content]
  /\ KeepSignaturesOver(content)
  /\ rowLock' = None
  /\ Done(r)
  /\ UNCHANGED <<signedText, submitted, accepted, bypassed>>

DeleteVersionRead(r, v) ==
  /\ v \in Live \ {policy.current, policy.pending}
  /\ Read(r, [Idle EXCEPT !.op = "delete", !.version = v])

(* The foreign key sets the current version to null when it is deleted; no *)
(* key guards the pending version.                                         *)
DeleteVersionWrite(r) ==
  LET v == req[r].version IN
  /\ req[r].op = "delete" /\ v \in Live
  /\ policy.current = v => rowLock = None
  /\ versions' = [versions EXCEPT ![v].deleted = TRUE]
  /\ policy' = IF policy.current = v THEN [policy EXCEPT !.current = 0] ELSE policy
  /\ Done(r)
  /\ UNCHANGED <<signedBy, rowLock, history>>

-----------------------------------------------------------------------------
(* Publication.                                                            *)

(* publishVersion of an existing version: its text is read here.           *)
PublishVersionRead(r, v) ==
  /\ ~Deciding
  /\ v \in Live /\ versions[v].text # 0
  /\ Read(r, [Idle EXCEPT !.op = "publish", !.version = v,
                          !.text = versions[v].text])

PublishVersionWrite(r) ==
  LET q == req[r] IN
  /\ q.version \in Live
  /\ Writes(r, "publish")
  /\ policy' = Published(q.text, q.version)
  /\ ClearSignatures
  /\ UNCHANGED <<versions, signedText, submitted, accepted, bypassed>>

(* publishVersion of the working draft, read here.                         *)
PublishDraftRead(r, setAsActive) ==
  LET text == IF policy.draft # 0 THEN policy.draft ELSE policy.content IN
  /\ ~Deciding /\ text # 0
  /\ Read(r, [Idle EXCEPT !.op = "publishDraft", !.text = text,
                          !.flag = setAsActive])

PublishDraftWrite(r) ==
  LET q == req[r] IN
  /\ Writes(r, "publishDraft")
  /\ NewVersion(q.text)
  /\ policy' = Published(q.text, IF q.flag THEN Len(versions) + 1
                                 ELSE policy.current)
  /\ ClearSignatures
  /\ UNCHANGED <<signedText, submitted, accepted, bypassed>>

SetActiveRead(r, v) ==
  /\ policy.pending \in {0, v} /\ v \in Live
  /\ Read(r, [Idle EXCEPT !.op = "activate", !.version = v,
                          !.text = versions[v].text])

(* setActiveVersion does not stamp lastPublishedAt.                        *)
SetActiveWrite(r) ==
  LET q == req[r] IN
  /\ q.version \in Live
  /\ Writes(r, "activate")
  /\ policy' = [Published(q.text, q.version)
                  EXCEPT !.everPublished = policy.everPublished]
  /\ ClearSignatures
  /\ UNCHANGED <<versions, signedText, submitted, accepted, bypassed>>

-----------------------------------------------------------------------------
(* Approval.                                                               *)

SubmitRead(r, v, m) ==
  /\ v \in Live
  /\ ~(v = policy.current /\ policy.status = "published")
  /\ Read(r, [Idle EXCEPT !.op = "submit", !.version = v, !.member = m])

(* A version deleted meanwhile is submitted all the same.                  *)
SubmitWrite(r) ==
  LET q == req[r] IN
  /\ Writes(r, "submit")
  /\ policy' = [policy EXCEPT !.pending = q.version, !.approver = q.member,
                              !.status = "needs_review"]
  /\ submitted' = submitted \cup {versions[q.version].text}
  /\ KeepSignatures
  /\ UNCHANGED <<versions, signedText, accepted, bypassed>>

AcceptRead(r, m) ==
  /\ policy.pending # 0 /\ policy.approver = m
  /\ Read(r, [Idle EXCEPT !.op = "accepting", !.version = policy.pending])

(* The pending version is read after the policy, when somebody may have    *)
(* decided on it already.                                                  *)
AcceptReadVersion(r) ==
  LET v == req[r].version IN
  /\ req[r].op = "accepting" /\ v \in Live
  /\ req' = [req EXCEPT ![r].op = "accept", ![r].text = versions[v].text]
  /\ bypassed' = (bypassed \/ v # policy.pending)
  /\ UNCHANGED <<policy, signedBy, versions, rowLock, texts, begun, signedText, late,
                 edited, submitted, accepted>>

\* Mutant: those who acknowledged the previous text are not asked again.
AcceptWrite_keepsSignatures(r) ==
  LET q == req[r] IN
  /\ q.version \in Live
  /\ Writes(r, "accept")
  /\ policy' = Published(q.text, q.version)
  /\ accepted' = accepted \cup {q.text}
  /\ KeepSignatures
  /\ UNCHANGED <<versions, signedText, submitted, bypassed>>

(* acceptChanges goes by the approval it read: a decline since then does   *)
(* not stop it.                                                            *)
AcceptWrite(r) ==
  LET q == req[r] IN
  /\ q.version \in Live
  /\ Writes(r, "accept")
  /\ policy' = Published(q.text, q.version)
  /\ accepted' = accepted \cup {q.text}
  /\ ClearSignatures
  /\ UNCHANGED <<versions, signedText, submitted, bypassed>>

DenyRead(r, m) ==
  /\ policy.pending # 0 /\ policy.approver = m
  /\ Read(r, [Idle EXCEPT !.op = "deny", !.flag = policy.everPublished])

DenyWrite(r) ==
  /\ Writes(r, "deny")
  /\ policy' = [policy EXCEPT
       !.status = IF req[r].flag THEN "published" ELSE "draft",
       !.pending = 0, !.approver = None]
  /\ KeepSignatures
  /\ UNCHANGED <<versions, signedText, submitted, accepted, bypassed>>

(* An approver without a pending version is cleared by either decision.    *)
StaleApprovalRead(r) ==
  /\ policy.pending = 0 /\ policy.approver # None
  /\ Read(r, [Idle EXCEPT !.op = "clear"])

StaleApprovalWrite(r) ==
  /\ Writes(r, "clear")
  /\ policy' = [policy EXCEPT !.approver = None]
  /\ UNCHANGED <<signedBy, versions, history>>

-----------------------------------------------------------------------------
(* Jobs.                                                                   *)

(* The task that writes the policy anew reads the status first: a draft is *)
(* overwritten in place, any other policy gets a version to be reviewed.   *)
RegenerateRead(r) ==
  Read(r, IF policy.status = "draft"
          THEN [Idle EXCEPT !.op = "overwrite", !.payload = "new",
                            !.version = policy.current]
          ELSE [Idle EXCEPT !.op = "create", !.payload = "new"])

RegenerateDraftWrite(r) ==
  LET v == req[r].version
      text == TextOf(req[r])
  IN
  /\ v \in Live \cup {0}
  /\ Writes(r, "overwrite")
  /\ policy' = [policy EXCEPT !.content = text, !.draft = text]
  /\ Rewrite(v, text)
  /\ KeepSignaturesOver(text)
  /\ UNCHANGED <<signedText, submitted, accepted>>

(* The scheduler flags the published policies whose review is due.         *)
ScheduleRead(r) ==
  /\ policy.status = "published"
  /\ Read(r, [Idle EXCEPT !.op = "schedule"])

ScheduleWrite(r) ==
  /\ Writes(r, "schedule")
  /\ policy' = [policy EXCEPT !.status = "needs_review"]
  /\ UNCHANGED <<signedBy, versions, history>>

-----------------------------------------------------------------------------
(* Acknowledgement by an employee.                                         *)

(* accept-policies adds to the list, mark-policy-completed writes the list *)
(* it read with the member added.                                          *)
SignRead(r, op, m) ==
  /\ m \notin signedBy
  /\ Read(r, [Idle EXCEPT !.op = op, !.member = m, !.text = policy.content,
                          !.signers = IF op = "list" THEN signedBy ELSE {}])

SignWrite(r, op) ==
  LET q == req[r]
      others == IF op = "push" THEN signedBy ELSE q.signers
  IN
  /\ Writes(r, op)
  /\ signedBy' = others \cup {q.member}
  /\ signedText' = [signedText EXCEPT ![q.member] = q.text]
  /\ late' = (late \cap others) \cup (others \ signedBy)
               \cup (IF q.text = policy.content THEN {} ELSE {q.member})
  /\ UNCHANGED <<policy, versions, edited, submitted, accepted, bypassed>>

(* A request fails or is cut off between its read and its write.           *)
Abort(r) ==
  /\ req[r] # Idle
  /\ req' = [req EXCEPT ![r] = Idle]
  /\ rowLock' = IF rowLock = r THEN None ELSE rowLock
  /\ UNCHANGED <<policy, signedBy, versions, texts, begun, history>>

Next ==
  \E r \in Requests :
    \/ \E payload \in {"none", "empty", "new"}, status \in Statuses \cup {"none"} :
         \/ UpdatePublishRead(r, payload, status)
         \/ \E m \in Members \cup {None} : UpdateRead(r, payload, status, m)
    \/ UpdatePublishWrite(r) \/ UpdateWrite(r)
    \/ PublishAllRead(r) \/ PublishAllWrite(r)
    \/ \E v \in DOMAIN versions :
         \/ \E payload \in {"empty", "new"} : EditVersionLock(r, v, payload)
         \/ DeleteVersionRead(r, v)
         \/ PublishVersionRead(r, v) \/ SetActiveRead(r, v)
         \/ \E m \in Members : SubmitRead(r, v, m)
    \/ \E v \in {0} \cup DOMAIN versions : CreateVersionRead(r, v)
    \/ CreateVersionWrite(r) \/ EditVersionWrite(r) \/ DeleteVersionWrite(r)
    \/ \E setAsActive \in BOOLEAN : PublishDraftRead(r, setAsActive)
    \/ PublishVersionWrite(r) \/ PublishDraftWrite(r) \/ SetActiveWrite(r)
    \/ SubmitWrite(r) \/ AcceptReadVersion(r) \/ AcceptWrite(r) \/ DenyWrite(r)
    \/ StaleApprovalRead(r) \/ StaleApprovalWrite(r)
    \/ RegenerateRead(r) \/ RegenerateDraftWrite(r)
    \/ ScheduleRead(r) \/ ScheduleWrite(r)
    \/ \E m \in Members : AcceptRead(r, m) \/ DenyRead(r, m)
    \/ \E op \in {"push", "list"} :
         SignWrite(r, op) \/ \E m \in Members : SignRead(r, op, m)
    \/ Abort(r)

Spec == Init /\ [][Next]_vars

-----------------------------------------------------------------------------
(* Properties.                                                             *)

(* The regeneration task's promise (update-policy-helpers.ts 189-195) for  *)
(* every writer: the text of a policy that is not a draft changes only by a*)
(* publication, which asks everyone to acknowledge it again.  The code does*)
(* not keep it: see PublishedTextIsFrozen.                                 *)
LiveTextIsPublished ==
  [][policy.status # "draft" /\ policy'.content # policy.content
       => signedBy' = {}]_vars

(* The version employees see, and the version an approver is deciding on,  *)
(* keep their text: an edit is refused under the row lock.  The one way    *)
(* past is an update or a regeneration that had read the policy as a draft.*)
PublishedTextIsFrozen ==
  [][\A v \in DOMAIN versions :
       versions'[v].text # versions[v].text /\ Frozen(v)
         => \E r \in Requests : /\ req[r].op \in {"update", "overwrite"}
                                /\ req'[r] = Idle]_vars

(* An acknowledgement stands for the live text: publishing other text takes*)
(* it away, the periodic review keeps it.  Excused are acknowledgements    *)
(* written late, over a list that was cleared since it was read, and those *)
(* kept while a draft was edited under them.                               *)
SignaturesAreForLiveText ==
  ~edited => \A m \in signedBy \ late : signedText[m] = policy.content

(* What an acceptance publishes was submitted for approval, word for word, *)
(* whatever happened to the version and the approval after it was read.    *)
AcceptedWasSubmitted == bypassed \/ accepted \subseteq submitted
=============================================================================
