----------------------- MODULE PolicyVersions_proofs -----------------------
(***************************************************************************)
(* Theorems about PolicyVersions, for every set of requests and members    *)
(* and every bound.                                                        *)
(***************************************************************************)
EXTENDS PolicyVersions, TLAPS

(* An edit holds the row lock from its read to its write, ...              *)
EditsHoldLock == \A r \in Requests : req[r].op = "edit" => rowLock = r

(* ... so what it read still holds when it writes.                         *)
EditsAreAllowed ==
  \A r \in Requests :
    req[r].op = "edit" => /\ req[r].version \in DOMAIN versions
                          /\ ~Frozen(req[r].version)

(* A version that is named was created, and a member that acknowledges is  *)
(* one.                                                                    *)
NamesExist ==
  /\ policy.pending \in {0} \cup DOMAIN versions
  /\ \A r \in Requests :
       /\ req[r].op \in {"submit", "accepting"} => req[r].version \in DOMAIN versions
       /\ req[r].op \in {"push", "list"} => req[r].member \in Members

(* The text pending approval was submitted, and so was the text that an    *)
(* acceptance is about to publish.                                         *)
PendingWasSubmitted ==
  ~bypassed =>
    /\ policy.pending # 0 => versions[policy.pending].text \in submitted
    /\ \A r \in Requests : req[r].op = "accept" => req[r].text \in submitted

Inv ==
  /\ TypeOK
  /\ EditsHoldLock
  /\ EditsAreAllowed
  /\ NamesExist
  /\ PendingWasSubmitted
  /\ SignaturesAreForLiveText
  /\ AcceptedWasSubmitted

-----------------------------------------------------------------------------
(* Types.                                                                  *)

(* A request at rest has the type of a request.                            *)
LEMMA IdleIsRequest == Idle \in Request
BY BoundsAssumption DEF Idle, Request, Text, Ids

(* The initial state has the types.                                        *)
LEMMA InitTypes == Init => TypeOK
<1> SUFFICES ASSUME Init PROVE TypeOK OBVIOUS
<1>1. policy \in Policy
  BY BoundsAssumption DEF Init, Policy, Statuses, Text, Ids
<1>2. [text |-> 1, deleted |-> FALSE] \in PolicyVersion
  BY BoundsAssumption DEF PolicyVersion, Text
<1>3. versions \in Seq(PolicyVersion) /\ Len(versions) = 1
  BY <1>2 DEF Init
<1>4. req \in [Requests -> Request]
  BY IdleIsRequest DEF Init
<1>5. /\ texts \in Text /\ begun \in 0 .. MaxRequests
      /\ signedText \in [Members -> Text]
      /\ Len(versions) \in 1 .. MaxVersions
  BY <1>3, BoundsAssumption DEF Init, Text
<1>6. /\ signedBy \in SUBSET Members /\ late \in SUBSET Members
      /\ submitted \in SUBSET Text /\ accepted \in SUBSET Text
      /\ rowLock \in Requests \cup {None}
      /\ edited \in BOOLEAN /\ bypassed \in BOOLEAN
  BY DEF Init
<1> QED
  BY <1>1, <1>3, <1>4, <1>5, <1>6 DEF TypeOK

(* The text a request writes is one of the texts.                          *)
LEMMA TextTypes ==
  ASSUME TypeOK, NEW r \in Requests,
         req[r].payload = "new" => texts < MaxTexts
  PROVE  TextOf(req[r]) \in Text
<1>1. req[r] \in Request
  BY DEF TypeOK
<1> QED
  BY <1>1, BoundsAssumption DEF TextOf, TypeOK, Text, Request

(* The end of a request keeps its own variables well typed.                *)
LEMMA DoneTypes ==
  ASSUME TypeOK, NEW r \in Requests, Done(r)
  PROVE  /\ req' = [req EXCEPT ![r] = Idle]
         /\ req' \in [Requests -> Request]
         /\ texts' \in Text
         /\ begun' \in 0 .. MaxRequests
         /\ TextOf(req[r]) \in Text
<1>1. TextOf(req[r]) \in Text
  BY TextTypes DEF Done
<1>2. texts' \in Text
  BY BoundsAssumption DEF Done, TypeOK, Text
<1> QED
  BY <1>1, <1>2, IdleIsRequest DEF Done, TypeOK

(* The beginning of a request does.                                        *)
LEMMA BeginTypes ==
  ASSUME TypeOK, NEW r \in Requests, NEW q \in Request, Begin(r, q)
  PROVE  /\ req' = [req EXCEPT ![r] = q]
         /\ req' \in [Requests -> Request]
         /\ begun' \in 0 .. MaxRequests
BY BoundsAssumption DEF Begin, TypeOK

(* A publication is a well-typed policy.                                   *)
LEMMA PublishedTypes ==
  ASSUME TypeOK, NEW text \in Text, NEW v \in Ids
  PROVE  Published(text, v) \in Policy
<1>1. policy \in Policy
  BY DEF TypeOK
<1>2. 0 \in Ids
  BY BoundsAssumption DEF Ids
<1> QED
  BY <1>1, <1>2 DEF Published, Policy, Statuses

(* A new version comes after the others, which it leaves alone.            *)
LEMMA NewVersionTypes ==
  ASSUME TypeOK, NEW text \in Text, NewVersion(text)
  PROVE  /\ versions' \in Seq(PolicyVersion)
         /\ Len(versions') \in 1 .. MaxVersions
         /\ Len(versions) + 1 \in Ids
         /\ DOMAIN versions \subseteq DOMAIN versions'
         /\ \A v \in DOMAIN versions : versions'[v] = versions[v]
<1>1. [text |-> text, deleted |-> FALSE] \in PolicyVersion
  BY DEF PolicyVersion
<1>2. versions' = Append(versions, [text |-> text, deleted |-> FALSE])
  BY DEF NewVersion
<1>3. versions' \in Seq(PolicyVersion) /\ Len(versions') = Len(versions) + 1
  BY <1>1, <1>2 DEF TypeOK
<1>4. Len(versions) < MaxVersions /\ Len(versions) \in Nat
  BY DEF NewVersion, TypeOK
<1> QED
  BY <1>2, <1>3, <1>4, BoundsAssumption DEF TypeOK, Ids

(* Rewriting a version leaves the others alone.                            *)
LEMMA RewriteTypes ==
  ASSUME TypeOK, NEW text \in Text, NEW v \in Ids,
         versions' = IF v = 0 THEN versions
                     ELSE [versions EXCEPT ![v].text = text]
  PROVE  /\ versions' \in Seq(PolicyVersion)
         /\ Len(versions') \in 1 .. MaxVersions
         /\ DOMAIN versions' = DOMAIN versions
         /\ \A w \in DOMAIN versions \ {v} : versions'[w] = versions[w]
<1>1. CASE v = 0
  BY <1>1 DEF TypeOK
<1>3. CASE v # 0 /\ v \notin DOMAIN versions
  <2>1. versions' = versions
    BY <1>3 DEF TypeOK
  <2> QED BY <2>1 DEF TypeOK
<1>2. CASE v \in DOMAIN versions
  <2>1. v # 0 /\ versions[v] \in PolicyVersion
    BY <1>2 DEF TypeOK
  <2>2. [versions[v] EXCEPT !.text = text] \in PolicyVersion
    BY <2>1 DEF PolicyVersion
  <2>3. versions' = [versions EXCEPT ![v] = [versions[v] EXCEPT !.text = text]]
    BY <2>1
  <2> HIDE DEF PolicyVersion
  <2> QED BY <1>2, <2>2, <2>3 DEF TypeOK
<1> QED BY <1>1, <1>2, <1>3

-----------------------------------------------------------------------------
(* Reads.                                                                  *)

(* A request that begins keeps the invariant, ...                          *)
LEMMA ReadKeeps ==
  ASSUME Inv, NEW r \in Requests, NEW q \in Request, Read(r, q),
         q.op \notin {"edit", "accept"},
         q.op \in {"submit", "accepting"} => q.version \in DOMAIN versions,
         q.op \in {"push", "list"} => q.member \in Members
  PROVE  Inv'
<1>1. /\ req' = [req EXCEPT ![r] = q]
      /\ req' \in [Requests -> Request]
      /\ begun' \in 0 .. MaxRequests
  BY BeginTypes DEF Read, Inv
<1>2. UNCHANGED <<policy, signedBy, versions, rowLock, texts, history>>
  BY DEF Read
<1>3. TypeOK'
  BY <1>1, <1>2 DEF Inv, TypeOK, history
<1>4. \A s \in Requests : req'[s] = IF s = r THEN q ELSE req[s]
  BY <1>1 DEF Inv, TypeOK
<1>5. EditsHoldLock'
  BY <1>2, <1>4 DEF Inv, EditsHoldLock
<1>6. EditsAreAllowed'
  BY <1>2, <1>4 DEF Inv, EditsAreAllowed, Frozen
<1>7. NamesExist'
  BY <1>2, <1>4 DEF Inv, NamesExist
<1>8. PendingWasSubmitted'
  BY <1>2, <1>4 DEF Inv, PendingWasSubmitted, history
<1>9. SignaturesAreForLiveText' /\ AcceptedWasSubmitted'
  BY <1>2 DEF Inv, SignaturesAreForLiveText, AcceptedWasSubmitted, history
<1> QED
  BY <1>3, <1>5, <1>6, <1>7, <1>8, <1>9 DEF Inv

(* ... whichever it is.                                                    *)
LEMMA ReadStepsKeep ==
  ASSUME Inv, NEW r \in Requests,
         \/ \E payload \in {"none", "empty", "new"},
               status \in Statuses \cup {"none"} :
              \/ UpdatePublishRead(r, payload, status)
              \/ \E m \in Members \cup {None} : UpdateRead(r, payload, status, m)
         \/ PublishAllRead(r)
         \/ \E v \in DOMAIN versions :
              \/ DeleteVersionRead(r, v)
              \/ PublishVersionRead(r, v) \/ SetActiveRead(r, v)
              \/ \E m \in Members : SubmitRead(r, v, m)
         \/ \E v \in {0} \cup DOMAIN versions : CreateVersionRead(r, v)
         \/ \E setAsActive \in BOOLEAN : PublishDraftRead(r, setAsActive)
         \/ StaleApprovalRead(r) \/ RegenerateRead(r) \/ ScheduleRead(r)
         \/ \E m \in Members : AcceptRead(r, m) \/ DenyRead(r, m)
         \/ \E op \in {"push", "list"}, m \in Members : SignRead(r, op, m)
  PROVE  Inv'
<1> USE IdleIsRequest
<1>1. /\ policy \in Policy /\ signedBy \in SUBSET Members
      /\ \A v \in DOMAIN versions : v \in Ids /\ versions[v] \in PolicyVersion
      /\ 0 \in Ids
  BY BoundsAssumption DEF Inv, TypeOK, Ids
<1>2. ASSUME NEW payload \in {"none", "empty", "new"},
             NEW status \in Statuses \cup {"none"},
             UpdatePublishRead(r, payload, status)
      PROVE  Inv'
  <2> DEFINE q == [Idle EXCEPT !.op = "updatePublish", !.payload = payload]
  <2>1. q \in Request /\ q.op = "updatePublish"
    BY DEF Request
  <2>2. Read(r, q)
    BY <1>2 DEF UpdatePublishRead
  <2> HIDE DEF q
  <2> QED BY <2>1, <2>2, ReadKeeps
<1>3. ASSUME NEW payload \in {"none", "empty", "new"},
             NEW status \in Statuses \cup {"none"},
             NEW m \in Members \cup {None}, UpdateRead(r, payload, status, m)
      PROVE  Inv'
  <2> DEFINE keeps == KeepsSignatures(status)
             stamps == status = "published" /\ policy.status # "published"
             q == [Idle EXCEPT
       !.op = "update", !.payload = payload, !.status = status, !.member = m,
       !.keeps = keeps, !.flag = stamps]
  <2>1. keeps \in BOOLEAN /\ stamps \in BOOLEAN
    BY DEF KeepsSignatures
  <2>3. Read(r, q)
    BY <1>3 DEF UpdateRead
  <2> HIDE DEF keeps, stamps
  <2>2. q \in Request /\ q.op = "update"
    <3>1. ASSUME NEW c \in Request, NEW k \in BOOLEAN, NEW f \in BOOLEAN
          PROVE  [c EXCEPT !.op = "update", !.payload = payload, !.status = status,
                           !.member = m, !.keeps = k, !.flag = f] \in Request
      BY DEF Request
    <3>2. q.op = "update"
      BY DEF Idle
    <3> QED
      BY <2>1, <3>1, <3>2
  <2> HIDE DEF q
  <2> QED BY <2>2, <2>3, ReadKeeps
<1>4. CASE PublishAllRead(r)
  <2> DEFINE q == [Idle EXCEPT !.op = "publishAll"]
  <2>1. q \in Request /\ q.op = "publishAll"
    BY DEF Request
  <2>2. Read(r, q)
    BY <1>4 DEF PublishAllRead
  <2> HIDE DEF q
  <2> QED BY <2>1, <2>2, ReadKeeps
<1>5. ASSUME NEW v \in DOMAIN versions, DeleteVersionRead(r, v) PROVE Inv'
  <2> DEFINE q == [Idle EXCEPT !.op = "delete", !.version = v]
  <2>1. q \in Request /\ q.op = "delete"
    BY <1>1 DEF Request
  <2>2. Read(r, q)
    BY <1>5 DEF DeleteVersionRead
  <2> HIDE DEF q
  <2> QED BY <2>1, <2>2, ReadKeeps
<1>6. ASSUME NEW v \in DOMAIN versions, PublishVersionRead(r, v) PROVE Inv'
  <2> DEFINE q == [Idle EXCEPT !.op = "publish", !.version = v,
                               !.text = versions[v].text]
  <2>1. q \in Request /\ q.op = "publish"
    BY <1>1 DEF Request, PolicyVersion
  <2>2. Read(r, q)
    BY <1>6 DEF PublishVersionRead
  <2> HIDE DEF q
  <2> QED BY <2>1, <2>2, ReadKeeps
<1>7. ASSUME NEW v \in DOMAIN versions, SetActiveRead(r, v) PROVE Inv'
  <2> DEFINE q == [Idle EXCEPT !.op = "activate", !.version = v,
                               !.text = versions[v].text]
  <2>1. q \in Request /\ q.op = "activate"
    BY <1>1 DEF Request, PolicyVersion
  <2>2. Read(r, q)
    BY <1>7 DEF SetActiveRead
  <2> HIDE DEF q
  <2> QED BY <2>1, <2>2, ReadKeeps
<1>8. ASSUME NEW v \in DOMAIN versions, NEW m \in Members, SubmitRead(r, v, m)
      PROVE  Inv'
  <2> DEFINE q == [Idle EXCEPT !.op = "submit", !.version = v, !.member = m]
  <2>1. q \in Request /\ q.op = "submit" /\ q.version = v
    BY <1>1 DEF Request, Idle
  <2>2. Read(r, q)
    BY <1>8 DEF SubmitRead
  <2> HIDE DEF q
  <2> QED BY <2>1, <2>2, ReadKeeps
<1>9. ASSUME NEW v \in {0} \cup DOMAIN versions, CreateVersionRead(r, v)
      PROVE  Inv'
  <2> DEFINE text == IF v = 0 THEN policy.content ELSE versions[v].text
             q == [Idle EXCEPT !.op = "create", !.payload = "copy", !.text = text]
  <2>1. text \in Text
    BY <1>1 DEF Policy, PolicyVersion
  <2>2. Read(r, q)
    BY <1>9 DEF CreateVersionRead
  <2> HIDE DEF text
  <2>3. q \in Request /\ q.op = "create"
    BY <2>1 DEF Request
  <2> HIDE DEF q
  <2> QED BY <2>2, <2>3, ReadKeeps
<1>10. ASSUME NEW setAsActive \in BOOLEAN, PublishDraftRead(r, setAsActive)
       PROVE  Inv'
  <2> DEFINE text == IF policy.draft # 0 THEN policy.draft ELSE policy.content
             q == [Idle EXCEPT !.op = "publishDraft", !.text = text,
                               !.flag = setAsActive]
  <2>1. text \in Text
    BY <1>1 DEF Policy
  <2>2. Read(r, q)
    BY <1>10 DEF PublishDraftRead
  <2> HIDE DEF text
  <2>3. q \in Request /\ q.op = "publishDraft"
    BY <2>1 DEF Request
  <2> HIDE DEF q
  <2> QED BY <2>2, <2>3, ReadKeeps
<1>11. CASE StaleApprovalRead(r)
  <2> DEFINE q == [Idle EXCEPT !.op = "clear"]
  <2>1. q \in Request /\ q.op = "clear"
    BY DEF Request
  <2>2. Read(r, q)
    BY <1>11 DEF StaleApprovalRead
  <2> HIDE DEF q
  <2> QED BY <2>1, <2>2, ReadKeeps
<1>12. CASE RegenerateRead(r)
  <2> DEFINE q == IF policy.status = "draft"
          THEN [Idle EXCEPT !.op = "overwrite", !.payload = "new",
                            !.version = policy.current]
          ELSE [Idle EXCEPT !.op = "create", !.payload = "new"]
  <2>1. q \in Request /\ q.op \in {"overwrite", "create"}
    BY <1>1 DEF Request, Policy
  <2>2. Read(r, q)
    BY <1>12 DEF RegenerateRead
  <2> HIDE DEF q
  <2> QED BY <2>1, <2>2, ReadKeeps
<1>13. CASE ScheduleRead(r)
  <2> DEFINE q == [Idle EXCEPT !.op = "schedule"]
  <2>1. q \in Request /\ q.op = "schedule"
    BY DEF Request
  <2>2. Read(r, q)
    BY <1>13 DEF ScheduleRead
  <2> HIDE DEF q
  <2> QED BY <2>1, <2>2, ReadKeeps
<1>14. ASSUME NEW m \in Members, AcceptRead(r, m) PROVE Inv'
  <2> DEFINE q == [Idle EXCEPT !.op = "accepting", !.version = policy.pending]
  <2>1. q \in Request /\ q.op = "accepting" /\ q.version = policy.pending
    BY <1>1 DEF Request, Policy, Idle
  <2>2. Read(r, q) /\ policy.pending # 0
    BY <1>14 DEF AcceptRead
  <2>3. policy.pending \in DOMAIN versions
    BY <2>2 DEF Inv, NamesExist
  <2> HIDE DEF q
  <2> QED BY <2>1, <2>2, <2>3, ReadKeeps
<1>15. ASSUME NEW m \in Members, DenyRead(r, m) PROVE Inv'
  <2> DEFINE q == [Idle EXCEPT !.op = "deny", !.flag = policy.everPublished]
  <2>1. q \in Request /\ q.op = "deny"
    BY <1>1 DEF Request, Policy
  <2>2. Read(r, q)
    BY <1>15 DEF DenyRead
  <2> HIDE DEF q
  <2> QED BY <2>1, <2>2, ReadKeeps
<1>16. ASSUME NEW op \in {"push", "list"}, NEW m \in Members, SignRead(r, op, m)
       PROVE  Inv'
  <2> DEFINE q == [Idle EXCEPT !.op = op, !.member = m, !.text = policy.content,
                               !.signers = IF op = "list" THEN signedBy ELSE {}]
  <2>1. q \in Request /\ q.op \in {"push", "list"} /\ q.member = m
    BY <1>1 DEF Request, Policy, Idle
  <2>2. Read(r, q)
    BY <1>16 DEF SignRead
  <2> HIDE DEF q
  <2> QED BY <2>1, <2>2, ReadKeeps
<1> QED
  BY <1>2, <1>3, <1>4, <1>5, <1>6, <1>7, <1>8, <1>9, <1>10, <1>11, <1>12,
     <1>13, <1>14, <1>15, <1>16

(* An edit takes the lock when nobody has it, and reads under it.          *)
LEMMA EditLockKeeps ==
  ASSUME Inv, NEW r \in Requests, NEW v \in DOMAIN versions,
         NEW payload \in {"empty", "new"}, EditVersionLock(r, v, payload)
  PROVE  Inv'
<1> DEFINE q == EditVersion(v, payload)
<1>1. q \in Request /\ q.op = "edit" /\ q.version = v
  <2> DEFINE live == v = policy.current
  <2>1. live \in BOOLEAN
    OBVIOUS
  <2>2. v \in Ids
    BY BoundsAssumption DEF Inv, TypeOK, Ids
  <2>3. q = [Idle EXCEPT !.op = "edit", !.payload = payload, !.version = v,
                         !.flag = live]
    BY DEF EditVersion
  <2> HIDE DEF q, live
  <2>4. q \in Request
    BY <2>1, <2>2, <2>3, IdleIsRequest DEF Request
  <2> QED
    BY <2>3, <2>4 DEF Idle
<1> HIDE DEF q
<1>2. /\ req' = [req EXCEPT ![r] = q]
      /\ req' \in [Requests -> Request]
      /\ begun' \in 0 .. MaxRequests
  BY <1>1, BeginTypes DEF EditVersionLock, Inv, q
<1>3. /\ UNCHANGED <<policy, signedBy, versions, texts, history>>
      /\ rowLock = None /\ rowLock' = r /\ Editable(v)
  BY DEF EditVersionLock
<1>4. TypeOK'
  BY <1>2, <1>3 DEF Inv, TypeOK, history
<1>5. \A s \in Requests : req'[s] = IF s = r THEN q ELSE req[s]
  BY <1>2 DEF Inv, TypeOK
<1>6. \A s \in Requests : req[s].op # "edit"
  BY <1>3, NoneAssumption DEF Inv, EditsHoldLock
<1>7. ~Frozen(v)
  BY <1>3 DEF Editable, Frozen
<1>8. EditsHoldLock' /\ EditsAreAllowed'
  BY <1>1, <1>3, <1>5, <1>6, <1>7 DEF EditsHoldLock, EditsAreAllowed, Frozen
<1>9. NamesExist'
  BY <1>1, <1>3, <1>5 DEF Inv, NamesExist
<1>10. PendingWasSubmitted'
  BY <1>1, <1>3, <1>5 DEF Inv, PendingWasSubmitted, history
<1>11. SignaturesAreForLiveText' /\ AcceptedWasSubmitted'
  BY <1>3 DEF Inv, SignaturesAreForLiveText, AcceptedWasSubmitted, history
<1> QED
  BY <1>4, <1>8, <1>9, <1>10, <1>11 DEF Inv

(* What an acceptance reads of a version that is still pending was         *)
(* submitted.                                                              *)
LEMMA AcceptReadVersionKeeps ==
  ASSUME Inv, NEW r \in Requests, AcceptReadVersion(r)
  PROVE  Inv'
<1> DEFINE v == req[r].version
           q == [req[r] EXCEPT !.op = "accept", !.text = versions[v].text]
<1>1. req[r] \in Request /\ v \in DOMAIN versions /\ versions[v] \in PolicyVersion
  BY DEF AcceptReadVersion, Inv, TypeOK, Live
<1>2. q \in Request /\ q.op = "accept" /\ q.text = versions[v].text
  BY <1>1 DEF Request, PolicyVersion
<1>3. req' = [req EXCEPT ![r] = q]
  BY <1>1 DEF AcceptReadVersion, Inv, TypeOK
<1>4. /\ UNCHANGED <<policy, signedBy, versions, rowLock, texts, begun,
                     signedText, late, edited, submitted, accepted>>
      /\ bypassed' = (bypassed \/ v # policy.pending)
  BY DEF AcceptReadVersion
<1> HIDE DEF q, v
<1>5. \A s \in Requests : req'[s] = IF s = r THEN q ELSE req[s]
  BY <1>3 DEF Inv, TypeOK
<1>6. TypeOK'
  <2>1. req' \in [Requests -> Request]
    BY <1>2, <1>3 DEF Inv, TypeOK
  <2>2. bypassed' \in BOOLEAN
    BY <1>4 DEF Inv, TypeOK
  <2> QED
    BY <1>4, <2>1, <2>2 DEF Inv, TypeOK
<1>7. EditsHoldLock' /\ EditsAreAllowed'
  BY <1>2, <1>4, <1>5 DEF Inv, EditsHoldLock, EditsAreAllowed, Frozen
<1>8. NamesExist'
  BY <1>2, <1>4, <1>5 DEF Inv, NamesExist
<1>9. PendingWasSubmitted'
  <2> SUFFICES ASSUME ~bypassed'
               PROVE  /\ policy.pending # 0
                           => versions[policy.pending].text \in submitted
                      /\ \A s \in Requests :
                           req'[s].op = "accept" => req'[s].text \in submitted
    BY <1>4 DEF PendingWasSubmitted
  <2>1. ~bypassed /\ v = policy.pending
    BY <1>4
  <2>2. v # 0
    BY <1>1 DEF Inv, TypeOK
  <2>3. versions[v].text \in submitted
    BY <2>1, <2>2 DEF Inv, PendingWasSubmitted
  <2> QED
    BY <1>2, <1>5, <2>1, <2>3 DEF Inv, PendingWasSubmitted
<1>10. SignaturesAreForLiveText' /\ AcceptedWasSubmitted'
  BY <1>4 DEF Inv, SignaturesAreForLiveText, AcceptedWasSubmitted
<1> QED
  BY <1>6, <1>7, <1>8, <1>9, <1>10 DEF Inv

(* A request that is cut off leaves no trace but the lock it frees.        *)
LEMMA AbortKeeps ==
  ASSUME Inv, NEW r \in Requests, Abort(r)
  PROVE  Inv'
<1>1. /\ req' = [req EXCEPT ![r] = Idle]
      /\ rowLock' = IF rowLock = r THEN None ELSE rowLock
      /\ UNCHANGED <<policy, signedBy, versions, texts, begun, history>>
  BY DEF Abort
<1>2. Idle.op = "idle"
  BY DEF Idle
<1>3. \A s \in Requests : req'[s] = IF s = r THEN Idle ELSE req[s]
  BY <1>1 DEF Inv, TypeOK
<1>4. TypeOK'
  BY <1>1, IdleIsRequest DEF Inv, TypeOK, history
<1>5. EditsHoldLock'
  BY <1>1, <1>2, <1>3 DEF Inv, EditsHoldLock
<1>6. EditsAreAllowed'
  BY <1>1, <1>2, <1>3 DEF Inv, EditsAreAllowed, Frozen
<1>7. NamesExist'
  BY <1>1, <1>2, <1>3 DEF Inv, NamesExist
<1>8. PendingWasSubmitted'
  BY <1>1, <1>2, <1>3 DEF Inv, PendingWasSubmitted, history
<1>9. SignaturesAreForLiveText' /\ AcceptedWasSubmitted'
  BY <1>1 DEF Inv, SignaturesAreForLiveText, AcceptedWasSubmitted, history
<1> QED
  BY <1>4, <1>5, <1>6, <1>7, <1>8, <1>9 DEF Inv

-----------------------------------------------------------------------------
(* Writes.                                                                 *)

(* A write under a free row lock leaves no edit in flight behind it.       *)
LEMMA WriteFrame ==
  ASSUME Inv, NEW r \in Requests, NEW op, Writes(r, op),
         DOMAIN versions \subseteq DOMAIN versions',
         policy'.pending \in {0} \cup DOMAIN versions'
  PROVE  EditsHoldLock' /\ EditsAreAllowed' /\ NamesExist'
<1>1. /\ req' = [req EXCEPT ![r] = Idle]
      /\ rowLock = None /\ rowLock' = None
  BY DEF Writes, Done
<1>2. \A s \in Requests : req'[s] = IF s = r THEN Idle ELSE req[s]
  BY <1>1 DEF Inv, TypeOK
<1>3. \A s \in Requests : req[s].op # "edit"
  BY <1>1, NoneAssumption DEF Inv, EditsHoldLock
<1>4. Idle.op = "idle"
  BY DEF Idle
<1>5. \A s \in Requests : req'[s].op # "edit"
  BY <1>2, <1>3, <1>4
<1>6. NamesExist'
  BY <1>2, <1>4 DEF Inv, NamesExist
<1> QED
  BY <1>5, <1>6 DEF EditsHoldLock, EditsAreAllowed

(* What is left to show of a write about the approvals.                    *)
LEMMA PendingFrame ==
  ASSUME Inv, NEW r \in Requests, req' = [req EXCEPT ![r] = Idle],
         submitted \subseteq submitted', bypassed' \in {bypassed, TRUE},
         ~bypassed' /\ policy'.pending # 0
           => versions'[policy'.pending].text \in submitted'
  PROVE  PendingWasSubmitted'
<1>1. \A s \in Requests : req'[s] = IF s = r THEN Idle ELSE req[s]
  BY DEF Inv, TypeOK
<1>2. Idle.op = "idle"
  BY DEF Idle
<1> QED
  BY <1>1, <1>2 DEF Inv, PendingWasSubmitted

(* A publication with its acknowledgements cleared keeps the invariant,    *)
(* once it is well typed.                                                  *)
LEMMA PublicationKeeps ==
  ASSUME Inv, NEW r \in Requests, NEW op, Writes(r, op), ClearSignatures,
         policy' \in Policy, versions' \in Seq(PolicyVersion),
         Len(versions') \in 1 .. MaxVersions,
         DOMAIN versions \subseteq DOMAIN versions',
         policy'.pending = 0 \/ policy'.pending = policy.pending,
         \A v \in DOMAIN versions : versions'[v] = versions[v],
         UNCHANGED <<signedText, submitted, bypassed>>,
         accepted' \in SUBSET Text, AcceptedWasSubmitted'
  PROVE  Inv'
<1>1. /\ req' = [req EXCEPT ![r] = Idle]
      /\ req' \in [Requests -> Request]
      /\ texts' \in Text /\ begun' \in 0 .. MaxRequests
      /\ UNCHANGED rowLock
  BY DoneTypes DEF Inv, Writes
<1>2. TypeOK'
  BY <1>1 DEF Inv, TypeOK, ClearSignatures
<1>3. policy'.pending \in {0} \cup DOMAIN versions'
  BY DEF Inv, NamesExist
<1>4. EditsHoldLock' /\ EditsAreAllowed' /\ NamesExist'
  BY <1>3, WriteFrame
<1>5. PendingWasSubmitted'
  <2>1. policy'.pending # 0 =>
          versions'[policy'.pending] = versions[policy.pending]
    BY DEF Inv, NamesExist
  <2>2. ~bypassed' /\ policy'.pending # 0
          => versions'[policy'.pending].text \in submitted'
    BY <2>1 DEF Inv, PendingWasSubmitted
  <2> QED
    BY <1>1, <2>2, PendingFrame
<1>6. SignaturesAreForLiveText'
  BY DEF SignaturesAreForLiveText, ClearSignatures
<1> QED
  BY <1>2, <1>4, <1>5, <1>6 DEF Inv

(* The publications.                                                       *)
LEMMA PublicationStepsKeep ==
  ASSUME Inv, NEW r \in Requests,
         \/ UpdatePublishWrite(r) \/ PublishAllWrite(r) \/ PublishVersionWrite(r)
         \/ PublishDraftWrite(r) \/ SetActiveWrite(r) \/ AcceptWrite(r)
  PROVE  Inv'
<1> DEFINE q == req[r]
<1>1. TypeOK /\ q \in Request /\ policy \in Policy
  BY DEF Inv, TypeOK
<1>2. /\ versions \in Seq(PolicyVersion)
      /\ Len(versions) \in 1 .. MaxVersions
      /\ accepted \in SUBSET Text
      /\ \A v \in Live : v \in Ids
  BY BoundsAssumption DEF Inv, TypeOK, Live, Ids
<1>3. accepted' = accepted /\ bypassed' = bypassed /\ submitted' = submitted
        => AcceptedWasSubmitted'
  BY DEF Inv, AcceptedWasSubmitted
<1>4. \A text, v : Published(text, v).pending = 0
  BY <1>1 DEF Published, Policy
<1>5. CASE UpdatePublishWrite(r)
  <2> DEFINE text == TextOf(q)
  <2>1. text \in Text
    BY <1>1, <1>5, DoneTypes DEF UpdatePublishWrite, Writes
  <2>2. NewVersion(text) /\ policy' = Published(text, Len(versions) + 1)
    BY <1>5 DEF UpdatePublishWrite
  <2> HIDE DEF text
  <2>3. policy' \in Policy
    BY <1>1, <2>1, <2>2, NewVersionTypes, PublishedTypes
  <2> QED
    BY <1>1, <1>2, <1>3, <1>4, <1>5, <2>1, <2>2, <2>3, NewVersionTypes,
       PublicationKeeps DEF UpdatePublishWrite
<1>6. CASE PublishAllWrite(r)
  <2>1. policy' \in Policy /\ policy'.pending = policy.pending
    BY <1>1, <1>6 DEF PublishAllWrite, Policy, Statuses
  <2> QED
    BY <1>2, <1>3, <1>6, <2>1, PublicationKeeps DEF PublishAllWrite
<1>7. CASE PublishVersionWrite(r)
  <2>1. q.text \in Text /\ q.version \in Ids
    BY <1>1 DEF Request
  <2>2. policy' \in Policy /\ policy'.pending = 0
    BY <1>1, <1>4, <1>7, <2>1, PublishedTypes DEF PublishVersionWrite
  <2> QED
    BY <1>2, <1>3, <1>7, <2>2, PublicationKeeps DEF PublishVersionWrite
<1>8. CASE PublishDraftWrite(r)
  <2> DEFINE v == IF q.flag THEN Len(versions) + 1 ELSE policy.current
  <2>1. q.text \in Text
    BY <1>1 DEF Request
  <2>2. NewVersion(q.text) /\ policy' = Published(q.text, v)
    BY <1>8 DEF PublishDraftWrite
  <2>3. v \in Ids
    BY <1>1, <2>1, <2>2, NewVersionTypes DEF Policy
  <2> HIDE DEF v
  <2>4. policy' \in Policy
    BY <1>1, <2>1, <2>2, <2>3, PublishedTypes
  <2> QED
    BY <1>1, <1>2, <1>3, <1>4, <1>8, <2>1, <2>2, <2>4, NewVersionTypes,
       PublicationKeeps DEF PublishDraftWrite
<1>9. CASE SetActiveWrite(r)
  <2>1. q.text \in Text /\ q.version \in Ids
    BY <1>1 DEF Request
  <2>2. Published(q.text, q.version) \in Policy
    BY <1>1, <2>1, PublishedTypes
  <2>3. policy' \in Policy /\ policy'.pending = 0
    <3>1. policy' = [Published(q.text, q.version)
                       EXCEPT !.everPublished = policy.everPublished]
      BY <1>9 DEF SetActiveWrite
    <3> QED
      BY <1>1, <1>4, <2>2, <3>1 DEF Policy
  <2> QED
    BY <1>2, <1>3, <1>9, <2>3, PublicationKeeps DEF SetActiveWrite
<1>10. CASE AcceptWrite(r)
  <2>1. q.text \in Text /\ q.version \in Ids
    BY <1>1 DEF Request
  <2>2. policy' \in Policy /\ policy'.pending = 0
    BY <1>1, <1>4, <1>10, <2>1, PublishedTypes DEF AcceptWrite
  <2>3. accepted' = accepted \cup {q.text} /\ q.op = "accept"
    BY <1>10 DEF AcceptWrite, Writes
  <2>4. ~bypassed => q.text \in submitted
    BY <2>3 DEF Inv, PendingWasSubmitted
  <2>5. AcceptedWasSubmitted' /\ accepted' \in SUBSET Text
    BY <1>2, <1>10, <2>1, <2>3, <2>4 DEF Inv, AcceptedWasSubmitted, AcceptWrite
  <2> QED
    BY <1>2, <1>10, <2>2, <2>5, PublicationKeeps DEF AcceptWrite
<1> QED
  BY <1>5, <1>6, <1>7, <1>8, <1>9, <1>10

(* The other writes of the row.                                            *)
LEMMA RowWritesKeep ==
  ASSUME Inv, NEW r \in Requests, NEW op, Writes(r, op),
         policy' \in Policy, versions' \in Seq(PolicyVersion),
         Len(versions') \in 1 .. MaxVersions,
         DOMAIN versions \subseteq DOMAIN versions',
         policy'.pending \in {0} \cup DOMAIN versions',
         signedBy' \in SUBSET Members, late' \in SUBSET Members,
         signedText' \in [Members -> Text],
         edited' \in BOOLEAN, bypassed' \in BOOLEAN,
         submitted' \in SUBSET Text, UNCHANGED accepted,
         submitted \subseteq submitted', bypassed' \in {bypassed, TRUE},
         ~bypassed' /\ policy'.pending # 0
           => versions'[policy'.pending].text \in submitted',
         SignaturesAreForLiveText'
  PROVE  Inv'
<1>1. /\ req' = [req EXCEPT ![r] = Idle]
      /\ req' \in [Requests -> Request]
      /\ texts' \in Text /\ begun' \in 0 .. MaxRequests
      /\ UNCHANGED rowLock
  BY DoneTypes DEF Inv, Writes
<1>2. TypeOK'
  BY <1>1 DEF Inv, TypeOK
<1>3. EditsHoldLock' /\ EditsAreAllowed' /\ NamesExist'
  BY WriteFrame
<1>4. PendingWasSubmitted'
  BY <1>1, PendingFrame
<1>5. AcceptedWasSubmitted'
  BY DEF Inv, AcceptedWasSubmitted
<1> QED
  BY <1>2, <1>3, <1>4, <1>5 DEF Inv

(* The text changes in place, and it is noted when acknowledgements stay.  *)
LEMMA KeepSignaturesOverKeeps ==
  ASSUME Inv, NEW text, policy'.content = text, KeepSignaturesOver(text),
         UNCHANGED signedText
  PROVE  /\ SignaturesAreForLiveText'
         /\ signedBy' \in SUBSET Members /\ late' \in SUBSET Members
         /\ signedText' \in [Members -> Text] /\ edited' \in BOOLEAN
<1>1. /\ signedBy' = signedBy /\ late' = late
      /\ edited' = (edited \/ (text # policy.content /\ signedBy # {}))
  BY DEF KeepSignaturesOver
<1>2. signedBy' \in SUBSET Members /\ late' \in SUBSET Members
  BY <1>1 DEF Inv, TypeOK
<1>3. signedText' \in [Members -> Text] /\ edited' \in BOOLEAN
  BY <1>1 DEF Inv, TypeOK
<1>4. SignaturesAreForLiveText'
  <2> SUFFICES ASSUME ~edited', NEW m \in signedBy' \ late'
               PROVE  signedText'[m] = policy'.content
    BY DEF SignaturesAreForLiveText
  <2>1. ~edited /\ text = policy.content
    BY <1>1
  <2> QED
    BY <1>1, <2>1 DEF Inv, SignaturesAreForLiveText
<1> QED
  BY <1>2, <1>3, <1>4

(* A version rewritten while it is pending is noted as well.               *)
LEMMA RewriteKeepsPending ==
  ASSUME Inv, NEW text \in Text, NEW v \in Ids, Rewrite(v, text)
  PROVE  /\ bypassed' \in BOOLEAN /\ bypassed' \in {bypassed, TRUE}
         /\ ~bypassed' /\ policy.pending # 0
              => versions'[policy.pending].text \in submitted
<1>1. /\ versions' = IF v = 0 THEN versions ELSE [versions EXCEPT ![v].text = text]
      /\ bypassed' = (bypassed \/ Frozen(v))
  BY DEF Rewrite
<1>2. \A w \in DOMAIN versions \ {v} : versions'[w] = versions[w]
  BY <1>1, RewriteTypes DEF Inv
<1>3. bypassed' \in BOOLEAN
  BY <1>1 DEF Inv, TypeOK, Frozen
<1>5. bypassed' \in {bypassed, TRUE}
  <2>1. CASE bypassed = FALSE /\ ~Frozen(v)
    BY <1>1, <2>1
  <2>2. CASE bypassed = TRUE \/ Frozen(v)
    BY <1>1, <2>2
  <2> QED BY <2>1, <2>2 DEF Inv, TypeOK
<1>4. ASSUME ~bypassed', policy.pending # 0
      PROVE  versions'[policy.pending].text \in submitted
  <2>1. ~bypassed /\ policy.pending # v
    BY <1>1, <1>4 DEF Frozen
  <2>2. policy.pending \in DOMAIN versions
    BY <1>4 DEF Inv, NamesExist
  <2> QED
    BY <1>2, <1>4, <2>1, <2>2 DEF Inv, PendingWasSubmitted
<1> QED
  BY <1>3, <1>4, <1>5

(* updateById: it may rewrite the current version, and what it read decides*)
(* on the acknowledgements.                                                *)
LEMMA UpdateWriteKeeps ==
  ASSUME Inv, NEW r \in Requests, UpdateWrite(r)
  PROVE  Inv'
<1> DEFINE q == req[r]
           content == IF q.payload = "none" THEN policy.content ELSE TextOf(q)
           draft == IF q.payload = "new" THEN content ELSE policy.draft
           status == IF q.status = "none" THEN policy.status ELSE q.status
           approver == IF q.member = None THEN policy.approver ELSE q.member
           stamped == policy.everPublished \/ q.flag
<1>1. Writes(r, "update")
  BY DEF UpdateWrite
<1>2. /\ TypeOK /\ q \in Request /\ policy \in Policy
      /\ TextOf(q) \in Text /\ policy.current \in Ids
  BY <1>1, DoneTypes DEF Inv, TypeOK, Writes, Policy
<1>3. /\ content \in Text /\ draft \in Text /\ status \in Statuses
      /\ approver \in Members \cup {None} /\ stamped \in BOOLEAN
  BY <1>2 DEF Policy, Request
<1>4. policy' = [policy EXCEPT !.content = content, !.draft = draft,
                    !.status = status, !.approver = approver,
                    !.everPublished = stamped]
  BY DEF UpdateWrite
<1>5. /\ IF q.keeps THEN KeepSignaturesOver(content) ELSE ClearSignatures
      /\ IF q.payload = "none" THEN UNCHANGED <<versions, bypassed>>
                               ELSE Rewrite(policy.current, content)
      /\ UNCHANGED <<signedText, submitted, accepted>>
  BY DEF UpdateWrite
<1> HIDE DEF q, content, draft, status, approver, stamped
<1>6. /\ policy' \in Policy /\ policy'.content = content
      /\ policy'.pending = policy.pending
  BY <1>2, <1>3, <1>4 DEF Policy
<1>7. /\ SignaturesAreForLiveText'
      /\ signedBy' \in SUBSET Members /\ late' \in SUBSET Members
      /\ signedText' \in [Members -> Text] /\ edited' \in BOOLEAN
  <2>1. CASE q.keeps
    BY <1>5, <1>6, <2>1, KeepSignaturesOverKeeps
  <2>2. CASE ~q.keeps
    BY <1>2, <1>5, <2>2 DEF ClearSignatures, SignaturesAreForLiveText, TypeOK
  <2> QED BY <2>1, <2>2
<1>8. /\ versions' \in Seq(PolicyVersion)
      /\ Len(versions') \in 1 .. MaxVersions
      /\ DOMAIN versions \subseteq DOMAIN versions'
      /\ bypassed' \in BOOLEAN /\ bypassed' \in {bypassed, TRUE}
      /\ ~bypassed' /\ policy.pending # 0
           => versions'[policy.pending].text \in submitted
  <2>1. CASE q.payload = "none"
    BY <1>2, <1>5, <2>1 DEF Inv, TypeOK, PendingWasSubmitted
  <2>2. CASE q.payload # "none"
    <3>1. Rewrite(policy.current, content)
      BY <1>5, <2>2
    <3>2. versions' = IF policy.current = 0 THEN versions
                      ELSE [versions EXCEPT ![policy.current].text = content]
      BY <3>1 DEF Rewrite
    <3> QED
      BY <1>2, <1>3, <3>1, <3>2, RewriteTypes, RewriteKeepsPending
  <2> QED BY <2>1, <2>2
<1>9. policy'.pending \in {0} \cup DOMAIN versions'
  BY <1>6, <1>8 DEF Inv, NamesExist
<1>10. submitted' \in SUBSET Text /\ submitted' = submitted /\ accepted' = accepted
  BY <1>2, <1>5 DEF TypeOK
<1> QED
  BY <1>1, <1>6, <1>7, <1>8, <1>9, <1>10, RowWritesKeep

(* The regeneration of what was a draft when it was read.                  *)
LEMMA RegenerateDraftWriteKeeps ==
  ASSUME Inv, NEW r \in Requests, RegenerateDraftWrite(r)
  PROVE  Inv'
<1> DEFINE v == req[r].version
           text == TextOf(req[r])
<1>1. Writes(r, "overwrite") /\ v \in Ids
  BY DEF RegenerateDraftWrite, Inv, TypeOK, Request
<1>2. TypeOK /\ text \in Text /\ policy \in Policy
  BY <1>1, DoneTypes DEF Inv, TypeOK, Writes
<1>3. /\ policy' = [policy EXCEPT !.content = text, !.draft = text]
      /\ Rewrite(v, text)
      /\ KeepSignaturesOver(text)
      /\ UNCHANGED <<signedText, submitted, accepted>>
  BY DEF RegenerateDraftWrite
<1> HIDE DEF v, text
<1>4. /\ policy' \in Policy /\ policy'.content = text
      /\ policy'.pending = policy.pending
  BY <1>2, <1>3 DEF Policy
<1>5. /\ SignaturesAreForLiveText'
      /\ signedBy' \in SUBSET Members /\ late' \in SUBSET Members
      /\ signedText' \in [Members -> Text] /\ edited' \in BOOLEAN
  BY <1>3, <1>4, KeepSignaturesOverKeeps
<1>6. versions' = IF v = 0 THEN versions ELSE [versions EXCEPT ![v].text = text]
  BY <1>3 DEF Rewrite
<1>7. /\ versions' \in Seq(PolicyVersion)
      /\ Len(versions') \in 1 .. MaxVersions
      /\ DOMAIN versions \subseteq DOMAIN versions'
  BY <1>1, <1>2, <1>6, RewriteTypes
<1>8. /\ bypassed' \in BOOLEAN /\ bypassed' \in {bypassed, TRUE}
      /\ ~bypassed' /\ policy.pending # 0
           => versions'[policy.pending].text \in submitted
  BY <1>1, <1>2, <1>3, RewriteKeepsPending
<1>9. policy'.pending \in {0} \cup DOMAIN versions'
  BY <1>4, <1>7 DEF Inv, NamesExist
<1>10. submitted' \in SUBSET Text /\ submitted' = submitted /\ accepted' = accepted
  BY <1>2, <1>3 DEF TypeOK
<1> QED
  BY <1>1, <1>4, <1>5, <1>7, <1>8, <1>9, <1>10, RowWritesKeep

(* A copy is added and nothing else changes.                               *)
LEMMA CreateVersionWriteKeeps ==
  ASSUME Inv, NEW r \in Requests, CreateVersionWrite(r)
  PROVE  Inv'
<1> DEFINE text == TextOf(req[r])
<1>1. /\ Writes(r, "create") /\ NewVersion(text)
      /\ UNCHANGED <<policy, signedBy, history>>
  BY DEF CreateVersionWrite
<1>2. TypeOK /\ text \in Text
  BY <1>1, DoneTypes DEF Inv, Writes
<1> HIDE DEF text
<1>3. /\ versions' \in Seq(PolicyVersion)
      /\ Len(versions') \in 1 .. MaxVersions
      /\ DOMAIN versions \subseteq DOMAIN versions'
      /\ \A v \in DOMAIN versions : versions'[v] = versions[v]
  BY <1>1, <1>2, NewVersionTypes
<1>4. policy'.pending \in {0} \cup DOMAIN versions'
  BY <1>1, <1>3 DEF Inv, NamesExist
<1>5. ~bypassed' /\ policy'.pending # 0
        => versions'[policy'.pending].text \in submitted'
  BY <1>1, <1>3 DEF Inv, NamesExist, PendingWasSubmitted, history
<1>6. SignaturesAreForLiveText'
  BY <1>1 DEF Inv, SignaturesAreForLiveText, history
<1>7. /\ policy' \in Policy
      /\ signedBy' \in SUBSET Members /\ late' \in SUBSET Members
      /\ signedText' \in [Members -> Text]
      /\ edited' \in BOOLEAN /\ bypassed' \in BOOLEAN /\ bypassed' \in {bypassed, TRUE}
      /\ submitted' \in SUBSET Text /\ submitted \subseteq submitted'
      /\ accepted' = accepted
  BY <1>1, <1>2 DEF TypeOK, history
<1> QED
  BY <1>1, <1>3, <1>4, <1>5, <1>6, <1>7, RowWritesKeep

(* Approvals are asked for, declined and cleared, and reviews fall due,    *)
(* without a change of any text.                                           *)
LEMMA StatusWritesKeep ==
  ASSUME Inv, NEW r \in Requests,
         \/ SubmitWrite(r) \/ DenyWrite(r)
         \/ StaleApprovalWrite(r) \/ ScheduleWrite(r)
  PROVE  Inv'
<1> DEFINE q == req[r]
<1>1. TypeOK /\ q \in Request /\ policy \in Policy
  BY DEF Inv, TypeOK
<1>2. UNCHANGED <<signedBy, versions, signedText, late, edited, accepted, bypassed>>
  BY DEF SubmitWrite, DenyWrite, StaleApprovalWrite, ScheduleWrite,
         KeepSignatures, history
<1>3. \E op : Writes(r, op)
  BY DEF SubmitWrite, DenyWrite, StaleApprovalWrite, ScheduleWrite
<1>4. /\ policy' \in Policy /\ policy'.content = policy.content
      /\ submitted' \in SUBSET Text /\ submitted \subseteq submitted'
      /\ policy'.pending \in {0} \cup DOMAIN versions
      /\ ~bypassed /\ policy'.pending # 0
           => versions[policy'.pending].text \in submitted'
  <2>1. CASE SubmitWrite(r)
    <3>1. /\ policy' = [policy EXCEPT !.pending = q.version, !.approver = q.member,
                                      !.status = "needs_review"]
          /\ submitted' = submitted \cup {versions[q.version].text}
          /\ q.op = "submit"
      BY <2>1 DEF SubmitWrite, Writes
    <3>2. q.version \in DOMAIN versions
      BY <3>1 DEF Inv, NamesExist
    <3>3. versions[q.version].text \in Text
      <4>1. versions[q.version] \in PolicyVersion
        BY <1>1, <3>2 DEF TypeOK
      <4> QED BY <4>1 DEF PolicyVersion
    <3>4. /\ policy' \in Policy /\ policy'.content = policy.content
          /\ policy'.pending = q.version
      BY <1>1, <3>1 DEF Policy, Request, Statuses
    <3> HIDE DEF q
    <3> QED
      BY <1>1, <3>1, <3>2, <3>3, <3>4 DEF TypeOK
  <2>2. CASE DenyWrite(r)
    <3> DEFINE status == IF q.flag THEN "published" ELSE "draft"
    <3>1. /\ policy' = [policy EXCEPT !.status = status, !.pending = 0,
                                      !.approver = None]
          /\ submitted' = submitted
      BY <2>2 DEF DenyWrite
    <3>2. status \in Statuses
      BY DEF Statuses
    <3>3. 0 \in Ids
      BY BoundsAssumption DEF Ids
    <3> HIDE DEF status
    <3>4. /\ policy' \in Policy /\ policy'.content = policy.content
          /\ policy'.pending = 0
      BY <1>1, <3>1, <3>2, <3>3 DEF Policy
    <3> QED
      BY <1>1, <3>1, <3>4 DEF TypeOK
  <2>3. CASE StaleApprovalWrite(r) \/ ScheduleWrite(r)
    <3>1. /\ policy' \in Policy /\ policy'.content = policy.content
          /\ policy'.pending = policy.pending /\ submitted' = submitted
      BY <1>1, <2>3 DEF StaleApprovalWrite, ScheduleWrite, Policy, Statuses, history
    <3> QED
      BY <1>1, <3>1 DEF Inv, TypeOK, NamesExist, PendingWasSubmitted
  <2> QED BY <2>1, <2>2, <2>3
<1>5. SignaturesAreForLiveText'
  BY <1>2, <1>4 DEF Inv, SignaturesAreForLiveText
<1>6. /\ versions' \in Seq(PolicyVersion) /\ Len(versions') \in 1 .. MaxVersions
      /\ signedBy' \in SUBSET Members /\ late' \in SUBSET Members
      /\ signedText' \in [Members -> Text]
      /\ edited' \in BOOLEAN /\ bypassed' \in BOOLEAN
  BY <1>1, <1>2 DEF TypeOK
<1> QED
  BY <1>2, <1>3, <1>4, <1>5, <1>6, RowWritesKeep

(* An acknowledgement is of the text that was read, and is written late    *)
(* when that is not the live text any more.                                *)
LEMMA SignWriteKeeps ==
  ASSUME Inv, NEW r \in Requests, NEW op \in {"push", "list"}, SignWrite(r, op)
  PROVE  Inv'
<1> DEFINE q == req[r]
           others == IF op = "push" THEN signedBy ELSE q.signers
           mine == IF q.text = policy.content THEN {} ELSE {q.member}
<1>1. /\ Writes(r, op)
      /\ signedBy' = others \cup {q.member}
      /\ signedText' = [signedText EXCEPT ![q.member] = q.text]
      /\ late' = (late \cap others) \cup (others \ signedBy) \cup mine
      /\ UNCHANGED <<policy, versions, edited, submitted, accepted, bypassed>>
  BY DEF SignWrite
<1>2. q.op = op /\ q \in Request
  BY <1>1 DEF Writes, Inv, TypeOK
<1>3. q.member \in Members
  BY <1>2 DEF Inv, NamesExist
<1>4. q.text \in Text /\ others \in SUBSET Members
  BY <1>2 DEF Inv, TypeOK, Request
<1> HIDE DEF q, others
<1>5. /\ signedBy' \in SUBSET Members /\ late' \in SUBSET Members
      /\ signedText' \in [Members -> Text]
  BY <1>1, <1>3, <1>4 DEF Inv, TypeOK
<1>6. SignaturesAreForLiveText'
  <2> SUFFICES ASSUME ~edited', NEW m \in signedBy' \ late'
               PROVE  signedText'[m] = policy'.content
    BY DEF SignaturesAreForLiveText
  <2>1. ~edited /\ policy' = policy /\ signedText \in [Members -> Text]
    BY <1>1 DEF Inv, TypeOK
  <2>2. CASE m = q.member
    BY <1>1, <1>3, <2>1, <2>2
  <2>3. CASE m # q.member
    <3>1. m \in signedBy \ late /\ m \in Members
      BY <1>1, <1>4, <2>3
    <3> QED
      BY <1>1, <2>1, <2>3, <3>1 DEF Inv, SignaturesAreForLiveText
  <2> QED BY <2>2, <2>3
<1>7. /\ policy' \in Policy /\ versions' \in Seq(PolicyVersion)
      /\ Len(versions') \in 1 .. MaxVersions
      /\ DOMAIN versions \subseteq DOMAIN versions'
      /\ edited' \in BOOLEAN /\ bypassed' \in BOOLEAN
      /\ bypassed' \in {bypassed, TRUE}
      /\ submitted' \in SUBSET Text /\ submitted \subseteq submitted'
      /\ accepted' = accepted
  BY <1>1 DEF Inv, TypeOK
<1>8. policy'.pending \in {0} \cup DOMAIN versions'
  BY <1>1 DEF Inv, NamesExist
<1>9. ~bypassed' /\ policy'.pending # 0
        => versions'[policy'.pending].text \in submitted'
  BY <1>1 DEF Inv, PendingWasSubmitted
<1> QED
  BY <1>1, <1>5, <1>6, <1>7, <1>8, <1>9, RowWritesKeep

(* An edit writes what it was allowed to when it took the lock.            *)
LEMMA EditVersionWriteKeeps ==
  ASSUME Inv, NEW r \in Requests, EditVersionWrite(r)
  PROVE  Inv'
<1> DEFINE q == req[r]
           v == q.version
           text == TextOf(q)
           draft == IF text = 0 THEN policy.draft ELSE text
           content == IF q.flag /\ text # 0 THEN text ELSE policy.content
<1>1. /\ q.op = "edit" /\ Done(r) /\ rowLock' = None
      /\ versions' = [versions EXCEPT ![v].text = text]
      /\ policy' = [policy EXCEPT !.draft = draft, !.content = content]
      /\ KeepSignaturesOver(content)
      /\ UNCHANGED <<signedText, submitted, accepted, bypassed>>
  BY DEF EditVersionWrite
<1>2. /\ TypeOK /\ policy \in Policy /\ text \in Text
      /\ req' = [req EXCEPT ![r] = Idle] /\ req' \in [Requests -> Request]
      /\ texts' \in Text /\ begun' \in 0 .. MaxRequests
  BY <1>1, DoneTypes DEF Inv, TypeOK
<1>3. /\ v \in DOMAIN versions /\ ~Frozen(v) /\ v # 0 /\ v \in Ids
      /\ rowLock = r
  BY <1>1, BoundsAssumption DEF Inv, EditsAreAllowed, EditsHoldLock, TypeOK, Ids
<1>4. draft \in Text /\ content \in Text
  BY <1>2 DEF Policy
<1> HIDE DEF v, text, draft, content
<1>5. /\ policy' \in Policy /\ policy'.content = content
      /\ policy'.pending = policy.pending
  BY <1>1, <1>2, <1>4 DEF Policy
<1>6. /\ SignaturesAreForLiveText'
      /\ signedBy' \in SUBSET Members /\ late' \in SUBSET Members
      /\ signedText' \in [Members -> Text] /\ edited' \in BOOLEAN
  BY <1>1, <1>5, KeepSignaturesOverKeeps
<1>7. versions' = IF v = 0 THEN versions ELSE [versions EXCEPT ![v].text = text]
  BY <1>1, <1>3
<1>8. /\ versions' \in Seq(PolicyVersion)
      /\ Len(versions') \in 1 .. MaxVersions
      /\ DOMAIN versions' = DOMAIN versions
      /\ \A w \in DOMAIN versions \ {v} : versions'[w] = versions[w]
  BY <1>2, <1>3, <1>7, RewriteTypes
<1>9. TypeOK'
  BY <1>1, <1>2, <1>5, <1>6, <1>8 DEF TypeOK
<1>10. \A s \in Requests : req'[s].op # "edit"
  <2>1. \A s \in Requests : req'[s] = IF s = r THEN Idle ELSE req[s]
    BY <1>2 DEF TypeOK
  <2>2. \A s \in Requests : req[s].op = "edit" => s = r
    BY <1>3 DEF Inv, EditsHoldLock
  <2>3. Idle.op = "idle"
    BY DEF Idle
  <2> QED BY <2>1, <2>2, <2>3
<1>11. EditsHoldLock' /\ EditsAreAllowed'
  BY <1>10 DEF EditsHoldLock, EditsAreAllowed
<1>12. NamesExist'
  <2>1. \A s \in Requests : req'[s] = IF s = r THEN Idle ELSE req[s]
    BY <1>2 DEF TypeOK
  <2>2. Idle.op = "idle"
    BY DEF Idle
  <2> QED
    BY <1>5, <1>8, <2>1, <2>2 DEF Inv, NamesExist
<1>13. PendingWasSubmitted'
  <2>1. policy.pending # v
    BY <1>3 DEF Frozen
  <2>2. policy.pending # 0 => versions'[policy.pending] = versions[policy.pending]
    BY <1>8, <2>1 DEF Inv, NamesExist
  <2>3. ASSUME ~bypassed', policy'.pending # 0
        PROVE  versions'[policy'.pending].text \in submitted'
    <3>1. ~bypassed /\ policy.pending # 0 /\ submitted' = submitted
      BY <1>1, <1>5, <2>3
    <3>2. versions[policy.pending].text \in submitted
      BY <3>1 DEF Inv, PendingWasSubmitted
    <3> QED
      BY <1>5, <2>2, <3>1, <3>2
  <2>4. submitted \subseteq submitted' /\ bypassed' \in {bypassed, TRUE}
    BY <1>1
  <2> QED
    BY <1>2, <2>3, <2>4, PendingFrame
<1>14. AcceptedWasSubmitted'
  BY <1>1 DEF Inv, AcceptedWasSubmitted
<1> QED
  BY <1>6, <1>9, <1>11, <1>12, <1>13, <1>14 DEF Inv

(* A version that is deleted keeps its place and its text, and is current  *)
(* no more.                                                                *)
LEMMA DeleteVersionWriteKeeps ==
  ASSUME Inv, NEW r \in Requests, DeleteVersionWrite(r)
  PROVE  Inv'
<1> DEFINE v == req[r].version
<1>1. /\ v \in DOMAIN versions /\ Done(r)
      /\ versions' = [versions EXCEPT ![v].deleted = TRUE]
      /\ policy' = IF policy.current = v THEN [policy EXCEPT !.current = 0]
                                         ELSE policy
      /\ UNCHANGED <<signedBy, rowLock, history>>
  BY DEF DeleteVersionWrite, Live
<1>2. /\ TypeOK /\ policy \in Policy
      /\ req' = [req EXCEPT ![r] = Idle] /\ req' \in [Requests -> Request]
      /\ texts' \in Text /\ begun' \in 0 .. MaxRequests
  BY <1>1, DoneTypes DEF Inv, TypeOK
<1> HIDE DEF v
<1>3. /\ policy' \in Policy /\ policy'.content = policy.content
      /\ policy'.pending = policy.pending /\ policy'.status = policy.status
      /\ policy'.current \in {0, policy.current}
  BY <1>1, <1>2, BoundsAssumption DEF Policy, Ids
<1>4. /\ versions' \in Seq(PolicyVersion) /\ Len(versions') = Len(versions)
      /\ DOMAIN versions' = DOMAIN versions
      /\ \A w \in DOMAIN versions : versions'[w].text = versions[w].text
  <2> DEFINE row == [versions[v] EXCEPT !.deleted = TRUE]
  <2>1. v \in DOMAIN versions /\ versions[v] \in PolicyVersion
    BY <1>1, <1>2 DEF TypeOK
  <2>2. row \in PolicyVersion /\ row.text = versions[v].text
    BY <2>1 DEF PolicyVersion
  <2>3. versions' = [versions EXCEPT ![v] = row]
    BY <1>1
  <2> HIDE DEF row, PolicyVersion
  <2>4. /\ versions' \in Seq(PolicyVersion) /\ Len(versions') = Len(versions)
        /\ DOMAIN versions' = DOMAIN versions
    <3>1. versions \in Seq(PolicyVersion)
      BY <1>2 DEF TypeOK
    <3> QED
      BY <2>1, <2>2, <2>3, <3>1
  <2>5. \A w \in DOMAIN versions : versions'[w] = IF w = v THEN row ELSE versions[w]
    BY <2>3, <1>2 DEF TypeOK
  <2>6. ASSUME NEW w \in DOMAIN versions
        PROVE  versions'[w].text = versions[w].text
    <3>1. CASE w = v
      BY <2>2, <2>5, <3>1
    <3>2. CASE w # v
      BY <2>5, <3>2
    <3> QED BY <3>1, <3>2
  <2> QED
    BY <2>4, <2>6
<1>5. \A s \in Requests : req'[s] = IF s = r THEN Idle ELSE req[s]
  BY <1>2 DEF TypeOK
<1>6. Idle.op = "idle"
  BY DEF Idle
<1>7. TypeOK'
  BY <1>1, <1>2, <1>3, <1>4 DEF TypeOK, history
<1>8. EditsHoldLock'
  BY <1>1, <1>5, <1>6 DEF Inv, EditsHoldLock
<1>9. EditsAreAllowed'
  <2>1. \A w : Frozen(w)' => Frozen(w)
    BY <1>3 DEF Frozen
  <2> QED
    BY <1>4, <1>5, <1>6, <2>1 DEF Inv, EditsAreAllowed
<1>10. NamesExist'
  BY <1>3, <1>4, <1>5, <1>6 DEF Inv, NamesExist
<1>11. PendingWasSubmitted'
  BY <1>1, <1>3, <1>4, <1>5, <1>6 DEF Inv, PendingWasSubmitted, NamesExist, history
<1>12. SignaturesAreForLiveText' /\ AcceptedWasSubmitted'
  BY <1>1, <1>3 DEF Inv, SignaturesAreForLiveText, AcceptedWasSubmitted, history
<1> QED
  BY <1>7, <1>8, <1>9, <1>10, <1>11, <1>12 DEF Inv

-----------------------------------------------------------------------------
(* The theorems.                                                           *)

(* The initial state satisfies the invariant.                              *)
LEMMA InvInit == Init => Inv
<1> SUFFICES ASSUME Init PROVE Inv OBVIOUS
<1>1. TypeOK
  BY InitTypes
<1>2. \A r \in Requests : req[r].op = "idle"
  BY DEF Init, Idle
<1>3. policy.pending = 0
  BY DEF Init
<1>4. EditsHoldLock /\ EditsAreAllowed /\ NamesExist /\ PendingWasSubmitted
  BY <1>2, <1>3 DEF EditsHoldLock, EditsAreAllowed, NamesExist, PendingWasSubmitted
<1>5. SignaturesAreForLiveText /\ AcceptedWasSubmitted
  BY DEF Init, SignaturesAreForLiveText, AcceptedWasSubmitted
<1> QED
  BY <1>1, <1>4, <1>5 DEF Inv

(* A step in which nothing changes keeps it.                               *)
LEMMA StutterKeeps == Inv /\ UNCHANGED vars => Inv'
<1> SUFFICES ASSUME Inv, UNCHANGED vars PROVE Inv' OBVIOUS
<1>1. UNCHANGED <<policy, signedBy, versions, rowLock, req, texts, begun,
                  signedText, late, edited, submitted, accepted, bypassed>>
  BY DEF vars, history
<1>2. TypeOK'
  BY <1>1 DEF Inv, TypeOK
<1>3. EditsHoldLock' /\ EditsAreAllowed' /\ NamesExist' /\ PendingWasSubmitted'
  BY <1>1 DEF Inv, EditsHoldLock, EditsAreAllowed, Frozen, NamesExist,
              PendingWasSubmitted
<1>4. SignaturesAreForLiveText' /\ AcceptedWasSubmitted'
  BY <1>1 DEF Inv, SignaturesAreForLiveText, AcceptedWasSubmitted
<1> QED
  BY <1>2, <1>3, <1>4 DEF Inv

(* Every step keeps the invariant.                                         *)
LEMMA InvStep == Inv /\ [Next]_vars => Inv'
<1> SUFFICES ASSUME Inv, [Next]_vars PROVE Inv' OBVIOUS
<1>1. CASE UNCHANGED vars
  BY <1>1, StutterKeeps
<1>2. CASE Next
  <2>1. PICK r \in Requests : Next!(r)
    BY <1>2 DEF Next
  <2> QED
    BY <2>1, ReadStepsKeep, EditLockKeeps, AcceptReadVersionKeeps, AbortKeeps,
       PublicationStepsKeep, UpdateWriteKeeps, RegenerateDraftWriteKeeps,
       CreateVersionWriteKeeps, StatusWritesKeep, SignWriteKeeps,
       EditVersionWriteKeeps, DeleteVersionWriteKeeps
<1> QED
  BY <1>1, <1>2

(* The invariant holds in every reachable state.                           *)
LEMMA InvAlways == Spec => []Inv
BY InvInit, InvStep, PTL DEF Spec

(* No step rewrites the version employees see or the one pending approval, *)
(* but an update or a regeneration that read a draft.                      *)
LEMMA FrozenStep ==
  ASSUME Inv, [Next]_vars, NEW v \in DOMAIN versions,
         versions'[v].text # versions[v].text, Frozen(v)
  PROVE  \E r \in Requests : req[r].op \in {"update", "overwrite"} /\ req'[r] = Idle
<1>1. versions' # versions /\ Next
  BY DEF vars
<1>2. PICK r \in Requests : Next!(r)
  BY <1>1 DEF Next
<1>3. versions \in Seq(PolicyVersion) /\ req \in [Requests -> Request]
  BY DEF Inv, TypeOK
<1>4. CASE UpdateWrite(r) \/ RegenerateDraftWrite(r)
  <2>1. /\ req[r].op \in {"update", "overwrite"}
        /\ req' = [req EXCEPT ![r] = Idle]
    BY <1>4 DEF UpdateWrite, RegenerateDraftWrite, Writes, Done
  <2> QED
    BY <1>3, <2>1
<1>5. CASE UpdatePublishWrite(r) \/ CreateVersionWrite(r) \/ PublishDraftWrite(r)
  <2>1. PICK text : versions' = Append(versions, [text |-> text, deleted |-> FALSE])
    BY <1>5 DEF UpdatePublishWrite, CreateVersionWrite, PublishDraftWrite, NewVersion
  <2>2. versions'[v] = versions[v]
    BY <1>3, <2>1
  <2> QED
    BY <2>2
<1>6. CASE EditVersionWrite(r)
  <2>1. /\ req[r].op = "edit"
        /\ versions' = [versions EXCEPT ![req[r].version].text = TextOf(req[r])]
    BY <1>6 DEF EditVersionWrite
  <2>2. req[r].version # v
    BY <2>1 DEF Inv, EditsAreAllowed
  <2>3. versions'[v] = versions[v]
    BY <1>3, <2>1, <2>2
  <2> QED
    BY <2>3
<1>7. CASE DeleteVersionWrite(r)
  <2> DEFINE w == req[r].version
             row == [versions[w] EXCEPT !.deleted = TRUE]
  <2>1. versions' = [versions EXCEPT ![w] = row] /\ w \in DOMAIN versions
    BY <1>7 DEF DeleteVersionWrite, Live
  <2>2. versions[w] \in PolicyVersion
    BY <1>3, <2>1
  <2>3. row.text = versions[w].text
    BY <2>2 DEF PolicyVersion
  <2> HIDE DEF w, row
  <2>4. versions'[v] = IF v = w THEN row ELSE versions[v]
    BY <1>3, <2>1
  <2> QED
    BY <2>3, <2>4
<1> QED
  BY <1>1, <1>2, <1>4, <1>5, <1>6, <1>7
     DEF UpdatePublishRead, UpdateRead, PublishAllRead, PublishAllWrite,
         EditVersionLock, DeleteVersionRead, PublishVersionRead, SetActiveRead,
         SubmitRead, CreateVersionRead, PublishDraftRead, PublishVersionWrite,
         SetActiveWrite, SubmitWrite, AcceptReadVersion, AcceptWrite, DenyWrite,
         StaleApprovalRead, StaleApprovalWrite, RegenerateRead, ScheduleRead,
         ScheduleWrite, AcceptRead, DenyRead, SignWrite, SignRead, Abort, Read

(* An acknowledgement that was not written late, over a text that was not  *)
(* edited in place, is of the live text.                                   *)
THEOREM AcknowledgementsMeanTheLiveText == Spec => []SignaturesAreForLiveText
BY InvAlways, PTL DEF Inv

(* What an acceptance publishes was submitted for approval, unless the     *)
(* approval was decided, or its version rewritten, under the acceptance.   *)
THEOREM AcceptancesPublishSubmissions == Spec => []AcceptedWasSubmitted
BY InvAlways, PTL DEF Inv

(* The version employees see and the one pending approval are rewritten by *)
(* no edit, no publication and no deletion.                                *)
THEOREM FrozenVersionsKeepTheirText == Spec => PublishedTextIsFrozen
<1>1. Inv /\ [Next]_vars =>
        [\A v \in DOMAIN versions :
           versions'[v].text # versions[v].text /\ Frozen(v)
             => \E r \in Requests : /\ req[r].op \in {"update", "overwrite"}
                                    /\ req'[r] = Idle]_vars
  BY FrozenStep
<1> QED
  BY <1>1, InvAlways, PTL DEF Spec, PublishedTextIsFrozen
=============================================================================
