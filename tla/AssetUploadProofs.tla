------------------------- MODULE AssetUploadProofs -------------------------
(***************************************************************************)
(* The safety of AssetUpload for every number of requests, documents and   *)
(* contents and every number of lifecycle changes.                         *)
(*                                                                         *)
(* The properties are not inductive: that a file may be deleted, or a row  *)
(* committed, depends on where the request stands.  Inv ties each step of  *)
(* a request to the state of its journal rows, its files and the lock.     *)
(***************************************************************************)
EXTENDS AssetUpload, TLAPS

\* What a request's step says of its journal row and of its files.
StepInv ==
    \A u \in Uploads :
        /\ pc[u] \in {"start", "create", "parse", "reserve"} => attempt[u] = "none"
        /\ pc[u] \in {"publish", "link", "unlink", "abandon", "journal"} => attempt[u] = "open"
        /\ pc[u] \in {"prepare", "check", "commit", "rollback"} => attempt[u] = "published"
        /\ pc[u] = "discard" => attempt[u] = "discarding"
        /\ pc[u] = "publish" => u \notin canonical \cup temporary
        /\ pc[u] = "link" => u \notin canonical
        /\ pc[u] \in {"unlink", "journal"} => u \in canonical
        /\ pc[u] = "start" => intake[u].state = "none" /\ u \notin payload
        /\ pc[u] = "create" => intake[u].state = "open"
        /\ pc[u] = "cleaned" => u \notin payload

\* What a journal row says of the files and of the other rows.
RowInv ==
    \A u \in Uploads :
        /\ attempt[u] \in {"none", "abandoned"} => u \notin canonical \cup temporary
        /\ attempt[u] \in {"published", "attached"} => u \in canonical
        /\ number[u] # 0 <=> attempt[u] = "attached"
        /\ intake[u].attached <=> attempt[u] = "attached"
        /\ intake[u].state \in {"none", "cleaned"} => u \notin payload

\* What the holder of the workspace lock has established and nobody can change.
LockInv ==
    \A u \in Uploads :
        /\ pc[u] \in {"check", "commit"} => tx = u /\ Source(u) /\ pending[u] \in Nat \ {0}
        /\ pc[u] = "commit" => ~ContentKnown(u)

\* Committed versions, and the number the holder of the lock is about to insert.
NumberInv ==
    /\ ContentUnique
    /\ VersionNumbersDistinct
    /\ \A d \in Documents : document[d].latest >= 1
    /\ \A u \in Uploads : request[u].document # NewDocument =>
        /\ number[u] <= document[request[u].document].latest
        /\ pc[u] \in {"check", "commit"} =>
              pending[u] = document[request[u].document].latest + 1

Inv == TypeOK /\ StepInv /\ RowInv /\ LockInv /\ NumberInv

LEMMA InitInv == Init => Inv
<1> SUFFICES ASSUME Init PROVE Inv
  OBVIOUS
<1>1. TypeOK
  BY UploadAssumption DEF Init, TypeOK, NoIntake, IntakeRow, IntakeState, AttemptState,
     Step, DocumentRow
<1>2. StepInv /\ RowInv /\ LockInv
  BY DEF Init, StepInv, RowInv, LockInv, NoIntake
<1>3. NumberInv
  BY <1>1 DEF Init, TypeOK, NumberInv, ContentUnique, VersionNumbersDistinct
<1> QED BY <1>1, <1>2, <1>3 DEF Inv

\* Updating one column of one journal row leaves every other column of every row alone.
LEMMA StateUpdate ==
    ASSUME NEW rows \in [Uploads -> IntakeRow], NEW u \in Uploads, NEW s \in IntakeState
    PROVE  /\ WithState(rows, u, s) \in [Uploads -> IntakeRow]
           /\ WithState(rows, u, s)[u].state = s
           /\ \A v \in Uploads :
                /\ v # u => WithState(rows, u, s)[v].state = rows[v].state
                /\ WithState(rows, u, s)[v].attached = rows[v].attached
BY DEF WithState, IntakeRow

LEMMA LinkedUpdate ==
    ASSUME NEW rows \in [Uploads -> IntakeRow], NEW u \in Uploads
    PROVE  /\ WithLinked(rows, u) \in [Uploads -> IntakeRow]
           /\ \A v \in Uploads : /\ WithLinked(rows, u)[v].state = rows[v].state
                                 /\ WithLinked(rows, u)[v].attached = rows[v].attached
BY DEF WithLinked, IntakeRow

LEMMA AttachedUpdate ==
    ASSUME NEW rows \in [Uploads -> IntakeRow], NEW u \in Uploads
    PROVE  /\ WithAttached(rows, u) \in [Uploads -> IntakeRow]
           /\ WithAttached(rows, u)[u].attached
           /\ \A v \in Uploads :
                /\ WithAttached(rows, u)[v].state = rows[v].state
                /\ v # u => WithAttached(rows, u)[v].attached = rows[v].attached
BY DEF WithAttached, IntakeRow

\* Inserting a version changes only the highest number of its own document.
LEMMA LatestUpdate ==
    ASSUME document \in [Documents -> DocumentRow], NEW d, NEW n \in Nat
    PROVE  /\ WithLatest(d, n) \in [Documents -> DocumentRow]
           /\ \A e \in Documents :
                /\ WithLatest(d, n)[e].lifecycle = document[e].lifecycle
                /\ WithLatest(d, n)[e].generation = document[e].generation
                /\ e = d => WithLatest(d, n)[e].latest = n
                /\ e # d => WithLatest(d, n)[e] = document[e]
BY DEF WithLatest, DocumentRow

\* The number that prepare_attachment computes is a proper version number.
LEMMA NextNumberPositive ==
    ASSUME TypeOK, NEW u \in Uploads
    PROVE  NextNumber(request[u].document) \in Nat \ {0}
BY UploadAssumption DEF TypeOK, NextNumber, DocumentRow

\* The generation that the intake row captures is one the document can have.
LEMMA CapturedGenerationType ==
    ASSUME TypeOK, NEW u \in Uploads
    PROVE  CapturedGeneration(request[u].document) \in 0 .. MaxGeneration + 1
BY UploadAssumption DEF TypeOK, CapturedGeneration, DocumentRow

\* Every step of the system preserves the inductive invariant.
LEMMA StepPreservesInv == Inv /\ [Next]_vars => Inv'
<1> SUFFICES ASSUME Inv, [Next]_vars PROVE Inv'
  OBVIOUS
<1> USE UploadAssumption DEF Inv, Goto, Fault, MarkUncertain, Outcome, Durable, Attempted,
        intakeVars, fileVars, versionVars
<1>0. /\ intake \in [Uploads -> IntakeRow] /\ lease \in [Uploads -> IntakeRow]
      /\ "open" \in IntakeState /\ "closed" \in IntakeState
      /\ "cleaning" \in IntakeState /\ "cleaned" \in IntakeState
  BY DEF TypeOK, IntakeState
<1>1. ASSUME NEW u \in Uploads, ReserveIntake(u) PROVE Inv'
  <2>0. \/ UNCHANGED intake /\ pc' = [pc EXCEPT ![u] = "done"]
        \/ intake' = WithState(intake, u, "open")
    BY <1>1 DEF ReserveIntake
  <2>1. /\ lease' \in [Uploads -> IntakeRow]
        /\ intake' \in [Uploads -> IntakeRow]
    <3>1. \/ UNCHANGED lease
          \/ lease' = WithState(lease, u, "open")
      BY <1>1 DEF ReserveIntake
    <3> QED BY <2>0, <3>1, <1>0, StateUpdate
  <2>6. /\ \A v \in Uploads : /\ v # u => intake'[v].state = intake[v].state
                              /\ intake'[v].attached = intake[v].attached
        /\ \/ intake'[u].state = intake[u].state /\ pc' = [pc EXCEPT ![u] = "done"]
           \/ intake'[u].state = "open"
    BY <2>0, <1>0, StateUpdate
  <2>7. generation' \in [Uploads -> 0 .. MaxGeneration + 1]
    BY <1>1, CapturedGenerationType DEF ReserveIntake, TypeOK
  <2>8. \A v \in Uploads : v # u => generation'[v] = generation[v]
    BY <1>1 DEF ReserveIntake, TypeOK
  <2>2. TypeOK'
    BY <1>1, <2>1, <2>6, <2>7, <2>8 DEF ReserveIntake, TypeOK, AttemptState, Step
  <2>3. StepInv'
    BY <1>1, <2>1, <2>6, <2>7, <2>8 DEF ReserveIntake, TypeOK, StepInv, RowInv
  <2>4. RowInv'
    BY <1>1, <2>1, <2>6, <2>7, <2>8 DEF ReserveIntake, TypeOK, StepInv, RowInv
  <2>5. LockInv'
    BY <1>1, <2>1, <2>6, <2>7, <2>8 DEF ReserveIntake, TypeOK, StepInv, LockInv,
      Source, ContentKnown, WorkspaceUnlocked
  <2>9. NumberInv'
    BY <1>1, <2>1, <2>6, <2>7, <2>8 DEF ReserveIntake, TypeOK, NumberInv,
      ContentUnique, VersionNumbersDistinct, StepInv
  <2> QED BY <2>2, <2>3, <2>4, <2>5, <2>9
<1>2. ASSUME NEW u \in Uploads, CreateWorkspace(u) PROVE Inv'
  <2>2. TypeOK'
    BY <1>2 DEF CreateWorkspace, TypeOK, AttemptState, Step
  <2>3. StepInv'
    BY <1>2 DEF CreateWorkspace, TypeOK, StepInv, RowInv
  <2>4. RowInv'
    BY <1>2 DEF CreateWorkspace, TypeOK, StepInv, RowInv
  <2>5. LockInv'
    BY <1>2 DEF CreateWorkspace, TypeOK, StepInv, LockInv, Source, ContentKnown
  <2>9. NumberInv'
    BY <1>2 DEF CreateWorkspace, TypeOK, NumberInv, ContentUnique,
      VersionNumbersDistinct, StepInv
  <2> QED BY <2>2, <2>3, <2>4, <2>5, <2>9
<1>3. ASSUME NEW u \in Uploads, ParseUpload(u) PROVE Inv'
  <2>2. TypeOK'
    BY <1>3 DEF ParseUpload, TypeOK, AttemptState, Step
  <2>3. StepInv'
    BY <1>3 DEF ParseUpload, TypeOK, StepInv, RowInv
  <2>4. RowInv'
    BY <1>3 DEF ParseUpload, TypeOK, StepInv, RowInv
  <2>5. LockInv'
    BY <1>3 DEF ParseUpload, TypeOK, StepInv, LockInv, Source, ContentKnown
  <2>9. NumberInv'
    BY <1>3 DEF ParseUpload, TypeOK, NumberInv, ContentUnique, VersionNumbersDistinct,
      StepInv
  <2> QED BY <2>2, <2>3, <2>4, <2>5, <2>9
<1>4. ASSUME NEW u \in Uploads, ReserveOriginal(u) PROVE Inv'
  <2>1. /\ lease' \in [Uploads -> IntakeRow]
        /\ intake' \in [Uploads -> IntakeRow]
        /\ \A v \in Uploads : /\ intake'[v].state = intake[v].state
                              /\ intake'[v].attached = intake[v].attached
    <3>1. /\ lease' \in {lease, WithLinked(lease, u)}
          /\ intake' \in {intake, WithLinked(intake, u)}
      BY <1>4 DEF ReserveOriginal
    <3> QED BY <3>1, <1>0, LinkedUpdate
  <2>2. TypeOK'
    BY <1>4, <2>1 DEF ReserveOriginal, TypeOK, AttemptState, Step
  <2>3. StepInv'
    BY <1>4, <2>1 DEF ReserveOriginal, TypeOK, StepInv, RowInv
  <2>4. RowInv'
    BY <1>4, <2>1 DEF ReserveOriginal, TypeOK, StepInv, RowInv
  <2>5. LockInv'
    BY <1>4, <2>1 DEF ReserveOriginal, TypeOK, StepInv, LockInv, Source, ContentKnown,
      WorkspaceUnlocked
  <2>9. NumberInv'
    BY <1>4, <2>1 DEF ReserveOriginal, TypeOK, NumberInv, ContentUnique,
      VersionNumbersDistinct, StepInv
  <2> QED BY <2>2, <2>3, <2>4, <2>5, <2>9
<1>5. ASSUME NEW u \in Uploads, CreateTemporary(u) PROVE Inv'
  <2>2. TypeOK'
    BY <1>5 DEF CreateTemporary, TypeOK, AttemptState, Step
  <2>3. StepInv'
    BY <1>5 DEF CreateTemporary, TypeOK, StepInv, RowInv, Absent
  <2>4. RowInv'
    BY <1>5 DEF CreateTemporary, TypeOK, StepInv, RowInv, Absent
  <2>5. LockInv'
    BY <1>5 DEF CreateTemporary, TypeOK, StepInv, LockInv, Source, ContentKnown
  <2>9. NumberInv'
    BY <1>5 DEF CreateTemporary, TypeOK, NumberInv, ContentUnique,
      VersionNumbersDistinct, StepInv
  <2> QED BY <2>2, <2>3, <2>4, <2>5, <2>9
<1>6. ASSUME NEW u \in Uploads, LinkCanonical(u) PROVE Inv'
  <2>2. TypeOK'
    BY <1>6 DEF LinkCanonical, TypeOK, AttemptState, Step
  <2>3. StepInv'
    BY <1>6 DEF LinkCanonical, TypeOK, StepInv, RowInv
  <2>4. RowInv'
    BY <1>6 DEF LinkCanonical, TypeOK, StepInv, RowInv
  <2>5. LockInv'
    BY <1>6 DEF LinkCanonical, TypeOK, StepInv, LockInv, Source, ContentKnown
  <2>9. NumberInv'
    BY <1>6 DEF LinkCanonical, TypeOK, NumberInv, ContentUnique,
      VersionNumbersDistinct, StepInv
  <2> QED BY <2>2, <2>3, <2>4, <2>5, <2>9
<1>7. ASSUME NEW u \in Uploads, RemoveTemporary(u) PROVE Inv'
  <2>2. TypeOK'
    BY <1>7 DEF RemoveTemporary, TypeOK, AttemptState, Step, KeepCanonical
  <2>3. StepInv'
    BY <1>7 DEF RemoveTemporary, TypeOK, StepInv, RowInv, KeepCanonical
  <2>4. RowInv'
    BY <1>7 DEF RemoveTemporary, TypeOK, StepInv, RowInv, KeepCanonical
  <2>5. LockInv'
    BY <1>7 DEF RemoveTemporary, TypeOK, StepInv, LockInv, Source, ContentKnown
  <2>9. NumberInv'
    BY <1>7 DEF RemoveTemporary, TypeOK, NumberInv, ContentUnique,
      VersionNumbersDistinct, StepInv
  <2> QED BY <2>2, <2>3, <2>4, <2>5, <2>9
<1>8. ASSUME NEW u \in Uploads, AbandonIfAbsent(u) PROVE Inv'
  <2>2. TypeOK'
    BY <1>8 DEF AbandonIfAbsent, TypeOK, AttemptState, Step
  <2>3. StepInv'
    BY <1>8 DEF AbandonIfAbsent, TypeOK, StepInv, RowInv, Absent
  <2>4. RowInv'
    BY <1>8 DEF AbandonIfAbsent, TypeOK, StepInv, RowInv, Absent
  <2>5. LockInv'
    BY <1>8 DEF AbandonIfAbsent, TypeOK, StepInv, LockInv, Source, ContentKnown
  <2>9. NumberInv'
    BY <1>8 DEF AbandonIfAbsent, TypeOK, NumberInv, ContentUnique,
      VersionNumbersDistinct, StepInv
  <2> QED BY <2>2, <2>3, <2>4, <2>5, <2>9
<1>9. ASSUME NEW u \in Uploads, JournalPublished(u) PROVE Inv'
  <2>2. TypeOK'
    BY <1>9 DEF JournalPublished, TypeOK, AttemptState, Step
  <2>3. StepInv'
    BY <1>9 DEF JournalPublished, TypeOK, StepInv, RowInv
  <2>4. RowInv'
    BY <1>9 DEF JournalPublished, TypeOK, StepInv, RowInv
  <2>5. LockInv'
    BY <1>9 DEF JournalPublished, TypeOK, StepInv, LockInv, Source, ContentKnown
  <2>9. NumberInv'
    BY <1>9 DEF JournalPublished, TypeOK, NumberInv, ContentUnique,
      VersionNumbersDistinct, StepInv
  <2> QED BY <2>2, <2>3, <2>4, <2>5, <2>9
<1>10. ASSUME NEW u \in Uploads, PrepareAttachment(u) PROVE Inv'
  <2>1. pending' \in [Uploads -> Nat]
    BY <1>10, NextNumberPositive DEF PrepareAttachment, TypeOK
  <2>2. TypeOK'
    BY <1>10, <2>1 DEF PrepareAttachment, TypeOK, AttemptState, Step, TurnDown
  <2>3. StepInv'
    BY <1>10, <2>1 DEF PrepareAttachment, TypeOK, StepInv, RowInv, TurnDown
  <2>4. RowInv'
    BY <1>10, <2>1 DEF PrepareAttachment, TypeOK, StepInv, RowInv, TurnDown
  <2>5. LockInv'
    BY <1>10, <2>1, NextNumberPositive DEF PrepareAttachment, TypeOK, StepInv,
      LockInv, Source, ContentKnown, WorkspaceUnlocked, TurnDown
  <2>9. NumberInv'
    BY <1>10, <2>1 DEF PrepareAttachment, TypeOK, NumberInv, ContentUnique,
      VersionNumbersDistinct, StepInv, TurnDown, NextNumber
  <2> QED BY <2>2, <2>3, <2>4, <2>5, <2>9
<1>11. ASSUME NEW u \in Uploads, CheckContent(u) PROVE Inv'
  <2>2. TypeOK'
    BY <1>11 DEF CheckContent, TypeOK, AttemptState, Step, TurnDown
  <2>3. StepInv'
    BY <1>11 DEF CheckContent, TypeOK, StepInv, RowInv, TurnDown
  <2>4. RowInv'
    BY <1>11 DEF CheckContent, TypeOK, StepInv, RowInv, TurnDown
  <2>5. LockInv'
    BY <1>11 DEF CheckContent, TypeOK, StepInv, LockInv, Source, ContentKnown,
      TurnDown
  <2>9. NumberInv'
    BY <1>11 DEF CheckContent, TypeOK, NumberInv, ContentUnique,
      VersionNumbersDistinct, StepInv, TurnDown
  <2> QED BY <2>2, <2>3, <2>4, <2>5, <2>9
<1>12. ASSUME NEW u \in Uploads, CommitAttachment(u) PROVE Inv'
  <2>0. \/ AttachRows(u)
        \/ UNCHANGED <<number, attempt, intake, document>>
    BY <1>12 DEF CommitAttachment
  <2>1. /\ lease' \in [Uploads -> IntakeRow]
        /\ intake' \in [Uploads -> IntakeRow]
        /\ \A v \in Uploads : /\ intake'[v].state = intake[v].state
                              /\ v # u => intake'[v].attached = intake[v].attached
        /\ AttachRows(u) => intake'[u].attached
    <3>1. /\ lease' \in {lease, WithAttached(lease, u)}
          /\ \/ UNCHANGED intake /\ ~AttachRows(u)
             \/ intake' = WithAttached(intake, u)
      BY <1>12 DEF CommitAttachment, AttachRows
    <3> QED BY <3>1, <1>0, AttachedUpdate
  <2>6. /\ tx = u /\ pending[u] \in Nat \ {0} /\ Source(u) /\ ~ContentKnown(u)
        /\ attempt[u] = "published" /\ u \in canonical
    BY <1>12 DEF CommitAttachment, LockInv, StepInv, RowInv
  <2>7. /\ document' \in [Documents -> DocumentRow]
        /\ \A d \in Documents : /\ document'[d].lifecycle = document[d].lifecycle
                                /\ document'[d].generation = document[d].generation
                                /\ d # request[u].document => document'[d] = document[d]
        /\ AttachRows(u) /\ request[u].document # NewDocument
              => document'[request[u].document].latest = pending[u]
    <3>1. \/ UNCHANGED document /\ ~AttachRows(u)
          \/ document' = WithLatest(request[u].document, pending[u])
      BY <2>0 DEF AttachRows
    <3> QED BY <3>1, <2>6, LatestUpdate DEF TypeOK
  <2>2. TypeOK'
    BY <1>12, <2>0, <2>1, <2>6, <2>7 DEF CommitAttachment, TypeOK, AttemptState, Step,
      ReleaseWorkspace, AttachRows
  <2>3. StepInv'
    BY <1>12, <2>0, <2>1, <2>6, <2>7 DEF CommitAttachment, TypeOK, StepInv, RowInv,
      AttachRows
  <2>4. RowInv'
    <3>1. CASE AttachRows(u)
      BY <1>12, <3>1, <2>1, <2>6 DEF CommitAttachment, TypeOK, RowInv, AttachRows
    <3>2. CASE UNCHANGED <<number, attempt, intake, document>>
      BY <1>12, <3>2 DEF CommitAttachment, TypeOK, RowInv
    <3> QED BY <2>0, <3>1, <3>2
  <2>5. LockInv'
    BY <1>12, <2>0, <2>1, <2>6, <2>7 DEF CommitAttachment, TypeOK, StepInv, LockInv,
      Source, ContentKnown, ReleaseWorkspace, AttachRows
  <2>9. NumberInv'
    <3>1. CASE AttachRows(u)
      <4>1. ContentUnique'
        BY <1>12, <3>1, <2>6 DEF CommitAttachment, AttachRows, TypeOK, NumberInv, ContentUnique,
           ContentKnown
      <4>2. \A v \in Uploads : number'[v] = IF v = u THEN pending[u] ELSE number[v]
        BY <3>1 DEF AttachRows, TypeOK
      <4>3. request[u].document # NewDocument =>
              pending[u] = document[request[u].document].latest + 1
        BY <1>12 DEF CommitAttachment, NumberInv
      <4>4. request' = request /\ pc' = [pc EXCEPT ![u] = "close"]
        BY <1>12 DEF CommitAttachment
      <4>5. \A v \in Uploads : pc'[v] \in {"check", "commit"} => v # u /\ tx = v
        BY <4>4 DEF TypeOK, LockInv
      <4>6. VersionNumbersDistinct'
        BY <4>2, <4>3, <4>4 DEF TypeOK, NumberInv, VersionNumbersDistinct, DocumentRow
      <4>7. \A d \in Documents : /\ document'[d].latest >= document[d].latest
                                /\ document[d].latest >= 1 /\ document[d].latest \in Nat
                                /\ document'[d].latest \in Nat
        BY <3>1, <2>6, <2>7, <4>3 DEF TypeOK, NumberInv, DocumentRow
      <4>8. ASSUME NEW v \in Uploads, request[v].document # NewDocument
            PROVE  number'[v] <= document'[request[v].document].latest
        BY <3>1, <2>6, <2>7, <4>2, <4>3, <4>7, <4>8 DEF TypeOK, NumberInv
      <4> QED BY <2>6, <4>1, <4>4, <4>5, <4>6, <4>7, <4>8 DEF NumberInv
    <3>2. CASE UNCHANGED <<number, attempt, intake, document>>
      BY <1>12, <3>2 DEF CommitAttachment, TypeOK, NumberInv, ContentUnique, VersionNumbersDistinct
    <3> QED BY <2>0, <3>1, <3>2
  <2> QED BY <2>2, <2>3, <2>4, <2>5, <2>9
<1>13. ASSUME NEW u \in Uploads, FenceDiscard(u) PROVE Inv'
  <2>2. TypeOK'
    BY <1>13 DEF FenceDiscard, TypeOK, AttemptState, Step, ReleaseWorkspace
  <2>3. StepInv'
    BY <1>13 DEF FenceDiscard, TypeOK, StepInv, RowInv
  <2>4. RowInv'
    BY <1>13 DEF FenceDiscard, TypeOK, StepInv, RowInv
  <2>5. LockInv'
    BY <1>13 DEF FenceDiscard, TypeOK, StepInv, LockInv, Source, ContentKnown,
      ReleaseWorkspace
  <2>9. NumberInv'
    BY <1>13 DEF FenceDiscard, TypeOK, NumberInv, ContentUnique,
      VersionNumbersDistinct, StepInv
  <2> QED BY <2>2, <2>3, <2>4, <2>5, <2>9
<1>14. ASSUME NEW u \in Uploads, DiscardOriginal(u) PROVE Inv'
  <2>2. TypeOK'
    BY <1>14 DEF DiscardOriginal, TypeOK, AttemptState, Step
  <2>3. StepInv'
    BY <1>14 DEF DiscardOriginal, TypeOK, StepInv, RowInv
  <2>4. RowInv'
    BY <1>14 DEF DiscardOriginal, TypeOK, StepInv, RowInv
  <2>5. LockInv'
    BY <1>14 DEF DiscardOriginal, TypeOK, StepInv, LockInv, Source, ContentKnown
  <2>9. NumberInv'
    BY <1>14 DEF DiscardOriginal, TypeOK, NumberInv, ContentUnique,
      VersionNumbersDistinct, StepInv
  <2> QED BY <2>2, <2>3, <2>4, <2>5, <2>9
<1>15. ASSUME NEW u \in Uploads, CloseIntake(u) PROVE Inv'
  <2>0. \/ UNCHANGED intake
        \/ intake' = WithState(intake, u, "closed")
    BY <1>15 DEF CloseIntake, Transition
  <2>1. /\ lease' \in [Uploads -> IntakeRow]
        /\ intake' \in [Uploads -> IntakeRow]
    <3>1. \/ UNCHANGED lease
          \/ lease' = WithState(lease, u, "closed")
      BY <1>15 DEF CloseIntake, Transition
    <3> QED BY <2>0, <3>1, <1>0, StateUpdate
  <2>6. /\ \A v \in Uploads : /\ v # u => intake'[v].state = intake[v].state
                              /\ intake'[v].attached = intake[v].attached
        /\ intake'[u].state \in {intake[u].state, "closed"}
    BY <2>0, <1>0, StateUpdate
  <2>7. UNCHANGED <<attempt, canonical, temporary, number, payload>>
    BY <1>15 DEF CloseIntake
  <2>8. \E step \in {"clean", "done"} :
          pc' = [pc EXCEPT ![u] = step] /\ faulted' \subseteq faulted \cup {u}
    BY <1>15 DEF CloseIntake, Transition
  <2>2. TypeOK'
    BY <1>15, <2>1, <2>8 DEF CloseIntake, TypeOK, Step
  <2>3. StepInv'
    BY <2>6, <2>7, <2>8, <1>15 DEF CloseIntake, TypeOK, StepInv, RowInv
  <2>4. RowInv'
    BY <2>6, <2>7, <1>15 DEF CloseIntake, TypeOK, StepInv, RowInv
  <2>5. LockInv'
    BY <1>15, <2>1, <2>6 DEF CloseIntake, Transition, TypeOK, StepInv, LockInv,
      Source, ContentKnown
  <2>9. NumberInv'
    BY <1>15, <2>1, <2>6 DEF CloseIntake, Transition, TypeOK, NumberInv,
      ContentUnique, VersionNumbersDistinct, StepInv
  <2> QED BY <2>2, <2>3, <2>4, <2>5, <2>9
<1>16. ASSUME NEW u \in Uploads, StartCleaning(u) PROVE Inv'
  <2>0. \/ UNCHANGED intake
        \/ intake' = WithState(intake, u, "cleaning")
    BY <1>16 DEF StartCleaning, Transition
  <2>1. /\ lease' \in [Uploads -> IntakeRow]
        /\ intake' \in [Uploads -> IntakeRow]
    <3>1. \/ UNCHANGED lease
          \/ lease' = WithState(lease, u, "cleaning")
      BY <1>16 DEF StartCleaning, Transition
    <3> QED BY <2>0, <3>1, <1>0, StateUpdate
  <2>6. /\ \A v \in Uploads : /\ v # u => intake'[v].state = intake[v].state
                              /\ intake'[v].attached = intake[v].attached
        /\ intake'[u].state \in {intake[u].state, "cleaning"}
    BY <2>0, <1>0, StateUpdate
  <2>7. UNCHANGED <<attempt, canonical, temporary, number, payload>>
    BY <1>16 DEF StartCleaning
  <2>8. \E step \in {"drop", "done"} :
          pc' = [pc EXCEPT ![u] = step] /\ faulted' \subseteq faulted \cup {u}
    BY <1>16 DEF StartCleaning, Transition
  <2>2. TypeOK'
    BY <1>16, <2>1, <2>8 DEF StartCleaning, TypeOK, Step
  <2>3. StepInv'
    BY <2>6, <2>7, <2>8, <1>16 DEF StartCleaning, TypeOK, StepInv, RowInv
  <2>4. RowInv'
    BY <2>6, <2>7, <1>16 DEF StartCleaning, TypeOK, StepInv, RowInv
  <2>5. LockInv'
    BY <1>16, <2>1, <2>6 DEF StartCleaning, Transition, TypeOK, StepInv, LockInv,
      Source, ContentKnown
  <2>9. NumberInv'
    BY <1>16, <2>1, <2>6 DEF StartCleaning, Transition, TypeOK, NumberInv,
      ContentUnique, VersionNumbersDistinct, StepInv
  <2> QED BY <2>2, <2>3, <2>4, <2>5, <2>9
<1>17. ASSUME NEW u \in Uploads, DropWorkspace(u) PROVE Inv'
  <2>2. TypeOK'
    BY <1>17 DEF DropWorkspace, TypeOK, AttemptState, Step
  <2>3. StepInv'
    BY <1>17 DEF DropWorkspace, TypeOK, StepInv, RowInv
  <2>4. RowInv'
    BY <1>17 DEF DropWorkspace, TypeOK, StepInv, RowInv
  <2>5. LockInv'
    BY <1>17 DEF DropWorkspace, TypeOK, StepInv, LockInv, Source, ContentKnown
  <2>9. NumberInv'
    BY <1>17 DEF DropWorkspace, TypeOK, NumberInv, ContentUnique,
      VersionNumbersDistinct, StepInv
  <2> QED BY <2>2, <2>3, <2>4, <2>5, <2>9
<1>18. ASSUME NEW u \in Uploads, FinishCleaning(u) PROVE Inv'
  <2>0. \/ UNCHANGED intake
        \/ intake' = WithState(intake, u, "cleaned")
    BY <1>18 DEF FinishCleaning, Transition
  <2>1. /\ lease' \in [Uploads -> IntakeRow]
        /\ intake' \in [Uploads -> IntakeRow]
    <3>1. \/ UNCHANGED lease
          \/ lease' = WithState(lease, u, "cleaned")
      BY <1>18 DEF FinishCleaning, Transition
    <3> QED BY <2>0, <3>1, <1>0, StateUpdate
  <2>6. /\ \A v \in Uploads : /\ v # u => intake'[v].state = intake[v].state
                              /\ intake'[v].attached = intake[v].attached
        /\ intake'[u].state \in {intake[u].state, "cleaned"}
    BY <2>0, <1>0, StateUpdate
  <2>7. UNCHANGED <<attempt, canonical, temporary, number, payload>>
    BY <1>18 DEF FinishCleaning
  <2>8. \E step \in {"done"} : pc' = [pc EXCEPT ![u] = step] /\ faulted' \subseteq faulted \cup {u}
    BY <1>18 DEF FinishCleaning, Transition
  <2>2. TypeOK'
    BY <1>18, <2>1, <2>8 DEF FinishCleaning, TypeOK, Step
  <2>3. StepInv'
    BY <2>6, <2>7, <2>8, <1>18 DEF FinishCleaning, TypeOK, StepInv, RowInv
  <2>4. RowInv'
    BY <2>6, <2>7, <1>18 DEF FinishCleaning, TypeOK, StepInv, RowInv
  <2>5. LockInv'
    BY <1>18, <2>1, <2>6 DEF FinishCleaning, Transition, TypeOK, StepInv, LockInv,
      Source, ContentKnown
  <2>9. NumberInv'
    BY <1>18, <2>1, <2>6 DEF FinishCleaning, Transition, TypeOK, NumberInv,
      ContentUnique, VersionNumbersDistinct, StepInv
  <2> QED BY <2>2, <2>3, <2>4, <2>5, <2>9
<1>19. ASSUME NEW u \in Uploads, Crash(u) PROVE Inv'
  <2>2. TypeOK'
    BY <1>19 DEF Crash, TypeOK, AttemptState, Step
  <2>3. StepInv'
    BY <1>19 DEF Crash, TypeOK, StepInv, RowInv
  <2>4. RowInv'
    BY <1>19 DEF Crash, TypeOK, StepInv, RowInv
  <2>5. LockInv'
    BY <1>19 DEF Crash, TypeOK, StepInv, LockInv, Source, ContentKnown
  <2>9. NumberInv'
    BY <1>19 DEF Crash, TypeOK, NumberInv, ContentUnique, VersionNumbersDistinct,
      StepInv
  <2> QED BY <2>2, <2>3, <2>4, <2>5, <2>9
<1>20. ASSUME NEW d \in Documents, ChangeLifecycle(d) PROVE Inv'
  <2>1. TypeOK' BY <1>20 DEF ChangeLifecycle, TypeOK, DocumentRow
  <2>2. StepInv' /\ RowInv' BY <1>20 DEF ChangeLifecycle, StepInv, RowInv
  <2>3. LockInv'
    BY <1>20 DEF ChangeLifecycle, TypeOK, LockInv, Source, ContentKnown, DocumentRow
  <2>4. \A e \in Documents : document'[e].latest = document[e].latest
    BY <1>20 DEF ChangeLifecycle, TypeOK, DocumentRow
  <2>5. NumberInv'
    BY <1>20, <2>4 DEF ChangeLifecycle, TypeOK, NumberInv, ContentUnique, VersionNumbersDistinct
  <2> QED BY <2>1, <2>2, <2>3, <2>5
<1>21. CASE UNCHANGED vars
  BY <1>21 DEF vars, TypeOK, StepInv, RowInv, LockInv, NumberInv, Source, ContentKnown,
     ContentUnique, VersionNumbersDistinct
<1> QED
  BY <1>1, <1>2, <1>3, <1>4, <1>5, <1>6, <1>7, <1>8, <1>9, <1>10, <1>11, <1>12, <1>13,
    <1>14, <1>15, <1>16, <1>17, <1>18, <1>19, <1>20, <1>21 DEF Next, Advance

----------------------------------------------------------------------------
(* ----- requests that meet no fault -------------------------------------- *)

\* Where a request that met no fault stands says what is left of its files: its
\* lease is certain, the temporary original is gone once publish has returned,
\* and whoever reaches finish() has attached or given up its bytes.
UnfaultedInv ==
    \A u \in Uploads \ faulted :
        /\ u \notin uncertain
        /\ pc[u] \in {"journal", "prepare", "check", "commit", "rollback", "discard",
                      "close", "clean", "drop", "cleaned", "done"} => u \notin temporary
        /\ pc[u] \in {"close", "clean", "drop", "cleaned", "done"} =>
              attempt[u] \in {"none", "attached", "abandoned"}
        /\ pc[u] = "done" => intake[u].state \in {"none", "cleaned"}

\* A step of one request keeps the others where they are; it is judged by its own.
LEMMA OthersKeep ==
    ASSUME UnfaultedInv, TypeOK, NEW u \in Uploads,
           faulted \subseteq faulted', uncertain' \subseteq uncertain \cup {u},
           temporary' \subseteq temporary \cup {u},
           \A v \in Uploads : v # u => /\ pc'[v] = pc[v] /\ attempt'[v] = attempt[v]
                                      /\ intake'[v].state = intake[v].state,
           u \notin faulted' =>
             /\ u \notin uncertain'
             /\ pc'[u] \in {"journal", "prepare", "check", "commit", "rollback", "discard",
                            "close", "clean", "drop", "cleaned", "done"} => u \notin temporary'
             /\ pc'[u] \in {"close", "clean", "drop", "cleaned", "done"} =>
                   attempt'[u] \in {"none", "attached", "abandoned"}
             /\ pc'[u] = "done" => intake'[u].state \in {"none", "cleaned"}
    PROVE  UnfaultedInv'
BY DEF UnfaultedInv

\* Every step of the system preserves it, next to the inductive invariant.
LEMMA StepPreservesUnfaulted == Inv /\ UnfaultedInv /\ [Next]_vars => UnfaultedInv'
<1> SUFFICES ASSUME Inv, UnfaultedInv, [Next]_vars PROVE UnfaultedInv'
  OBVIOUS
<1> USE DEF Goto, Fault, MarkUncertain, Outcome, Durable, Attempted,
        intakeVars, fileVars, versionVars
<1>0. /\ TypeOK /\ StepInv /\ RowInv
      /\ intake \in [Uploads -> IntakeRow] /\ pc \in [Uploads -> Step]
      /\ attempt \in [Uploads -> AttemptState]
      /\ "open" \in IntakeState /\ "closed" \in IntakeState
      /\ "cleaning" \in IntakeState /\ "cleaned" \in IntakeState
  BY DEF Inv, TypeOK, IntakeState
<1>1. ASSUME NEW u \in Uploads, ReserveIntake(u) PROVE UnfaultedInv'
  <2>1. \/ intake' = intake
        \/ intake' = WithState(intake, u, "open")
    BY <1>1 DEF ReserveIntake
  <2>2. \A v \in Uploads : v # u => intake'[v].state = intake[v].state
    BY <1>0, <2>1, StateUpdate
  <2>3. pc'[u] = "done" /\ u \notin faulted' => intake'[u].state = "none"
    BY <1>0, <1>1 DEF ReserveIntake, StepInv
  <2>4. \A v \in Uploads : v # u => pc'[v] = pc[v] /\ attempt'[v] = attempt[v]
    BY <1>0, <1>1 DEF ReserveIntake
  <2>5. /\ faulted \subseteq faulted' /\ uncertain' \subseteq uncertain \cup {u}
        /\ temporary' \subseteq temporary \cup {u}
    BY <1>1 DEF ReserveIntake
  <2>6. u \notin faulted' => u \notin uncertain'
    BY <1>1, <2>5 DEF ReserveIntake, UnfaultedInv
  <2>7. u \notin faulted' /\ pc'[u] \in {"journal", "prepare", "check", "commit", "rollback",
            "discard", "close", "clean", "drop", "cleaned", "done"} => u \notin temporary'
    BY <1>0, <1>1, <2>5 DEF ReserveIntake, UnfaultedInv, StepInv, RowInv
  <2>8. u \notin faulted' /\ pc'[u] \in {"close", "clean", "drop", "cleaned", "done"} =>
          attempt'[u] \in {"none", "attached", "abandoned"}
    BY <1>0, <1>1, <2>5 DEF ReserveIntake, UnfaultedInv, StepInv, RowInv
  <2>9. u \notin faulted' /\ pc'[u] = "done" => intake'[u].state \in {"none", "cleaned"}
    BY <1>0, <1>1, <2>5, <2>3 DEF ReserveIntake, UnfaultedInv
  <2> QED BY <1>0, <2>2, <2>4, <2>5, <2>6, <2>7, <2>8, <2>9, OthersKeep
<1>2. ASSUME NEW u \in Uploads, CreateWorkspace(u) PROVE UnfaultedInv'
  <2>2. intake' = intake
    BY <1>2 DEF CreateWorkspace
  <2>4. \A v \in Uploads : v # u => pc'[v] = pc[v] /\ attempt'[v] = attempt[v]
    BY <1>0, <1>2 DEF CreateWorkspace
  <2>5. /\ faulted \subseteq faulted' /\ uncertain' \subseteq uncertain \cup {u}
        /\ temporary' \subseteq temporary \cup {u}
    BY <1>2 DEF CreateWorkspace
  <2>6. u \notin faulted' => u \notin uncertain'
    BY <1>2, <2>5 DEF CreateWorkspace, UnfaultedInv
  <2>7. u \notin faulted' /\ pc'[u] \in {"journal", "prepare", "check", "commit", "rollback",
            "discard", "close", "clean", "drop", "cleaned", "done"} => u \notin temporary'
    BY <1>0, <1>2, <2>5 DEF CreateWorkspace, UnfaultedInv, StepInv, RowInv
  <2>8. u \notin faulted' /\ pc'[u] \in {"close", "clean", "drop", "cleaned", "done"} =>
          attempt'[u] \in {"none", "attached", "abandoned"}
    BY <1>0, <1>2, <2>5 DEF CreateWorkspace, UnfaultedInv, StepInv, RowInv
  <2>9. u \notin faulted' /\ pc'[u] = "done" => intake'[u].state \in {"none", "cleaned"}
    BY <1>0, <1>2, <2>5 DEF CreateWorkspace, UnfaultedInv
  <2> QED BY <1>0, <2>2, <2>4, <2>5, <2>6, <2>7, <2>8, <2>9, OthersKeep
<1>3. ASSUME NEW u \in Uploads, ParseUpload(u) PROVE UnfaultedInv'
  <2>2. intake' = intake
    BY <1>3 DEF ParseUpload
  <2>4. \A v \in Uploads : v # u => pc'[v] = pc[v] /\ attempt'[v] = attempt[v]
    BY <1>0, <1>3 DEF ParseUpload
  <2>5. /\ faulted \subseteq faulted' /\ uncertain' \subseteq uncertain \cup {u}
        /\ temporary' \subseteq temporary \cup {u}
    BY <1>3 DEF ParseUpload
  <2>6. u \notin faulted' => u \notin uncertain'
    BY <1>3, <2>5 DEF ParseUpload, UnfaultedInv
  <2>7. u \notin faulted' /\ pc'[u] \in {"journal", "prepare", "check", "commit", "rollback",
            "discard", "close", "clean", "drop", "cleaned", "done"} => u \notin temporary'
    BY <1>0, <1>3, <2>5 DEF ParseUpload, UnfaultedInv, StepInv, RowInv
  <2>8. u \notin faulted' /\ pc'[u] \in {"close", "clean", "drop", "cleaned", "done"} =>
          attempt'[u] \in {"none", "attached", "abandoned"}
    BY <1>0, <1>3, <2>5 DEF ParseUpload, UnfaultedInv, StepInv, RowInv
  <2>9. u \notin faulted' /\ pc'[u] = "done" => intake'[u].state \in {"none", "cleaned"}
    BY <1>0, <1>3, <2>5 DEF ParseUpload, UnfaultedInv
  <2> QED BY <1>0, <2>2, <2>4, <2>5, <2>6, <2>7, <2>8, <2>9, OthersKeep
<1>4. ASSUME NEW u \in Uploads, ReserveOriginal(u) PROVE UnfaultedInv'
  <2>1. \/ intake' = intake
        \/ intake' = WithLinked(intake, u)
    BY <1>4 DEF ReserveOriginal
  <2>2. \A v \in Uploads : v # u => intake'[v].state = intake[v].state
    BY <1>0, <2>1, LinkedUpdate
  <2>4. \A v \in Uploads : v # u => pc'[v] = pc[v] /\ attempt'[v] = attempt[v]
    BY <1>0, <1>4 DEF ReserveOriginal
  <2>5. /\ faulted \subseteq faulted' /\ uncertain' \subseteq uncertain \cup {u}
        /\ temporary' \subseteq temporary \cup {u}
    BY <1>4 DEF ReserveOriginal
  <2>6. u \notin faulted' => u \notin uncertain'
    BY <1>4, <2>5 DEF ReserveOriginal, UnfaultedInv
  <2>7. u \notin faulted' /\ pc'[u] \in {"journal", "prepare", "check", "commit", "rollback",
            "discard", "close", "clean", "drop", "cleaned", "done"} => u \notin temporary'
    BY <1>0, <1>4, <2>5 DEF ReserveOriginal, UnfaultedInv, StepInv, RowInv
  <2>8. u \notin faulted' /\ pc'[u] \in {"close", "clean", "drop", "cleaned", "done"} =>
          attempt'[u] \in {"none", "attached", "abandoned"}
    BY <1>0, <1>4, <2>5 DEF ReserveOriginal, UnfaultedInv, StepInv, RowInv
  <2>9. u \notin faulted' /\ pc'[u] = "done" => intake'[u].state \in {"none", "cleaned"}
    BY <1>0, <1>4, <2>5 DEF ReserveOriginal, UnfaultedInv
  <2> QED BY <1>0, <2>2, <2>4, <2>5, <2>6, <2>7, <2>8, <2>9, OthersKeep
<1>5. ASSUME NEW u \in Uploads, CreateTemporary(u) PROVE UnfaultedInv'
  <2>2. intake' = intake
    BY <1>5 DEF CreateTemporary
  <2>4. \A v \in Uploads : v # u => pc'[v] = pc[v] /\ attempt'[v] = attempt[v]
    BY <1>0, <1>5 DEF CreateTemporary
  <2>5. /\ faulted \subseteq faulted' /\ uncertain' \subseteq uncertain \cup {u}
        /\ temporary' \subseteq temporary \cup {u}
    BY <1>5 DEF CreateTemporary
  <2>6. u \notin faulted' => u \notin uncertain'
    BY <1>5, <2>5 DEF CreateTemporary, UnfaultedInv
  <2>7. u \notin faulted' /\ pc'[u] \in {"journal", "prepare", "check", "commit", "rollback",
            "discard", "close", "clean", "drop", "cleaned", "done"} => u \notin temporary'
    BY <1>0, <1>5, <2>5 DEF CreateTemporary, UnfaultedInv, StepInv, RowInv
  <2>8. u \notin faulted' /\ pc'[u] \in {"close", "clean", "drop", "cleaned", "done"} =>
          attempt'[u] \in {"none", "attached", "abandoned"}
    BY <1>0, <1>5, <2>5 DEF CreateTemporary, UnfaultedInv, StepInv, RowInv
  <2>9. u \notin faulted' /\ pc'[u] = "done" => intake'[u].state \in {"none", "cleaned"}
    BY <1>0, <1>5, <2>5 DEF CreateTemporary, UnfaultedInv
  <2> QED BY <1>0, <2>2, <2>4, <2>5, <2>6, <2>7, <2>8, <2>9, OthersKeep
<1>6. ASSUME NEW u \in Uploads, LinkCanonical(u) PROVE UnfaultedInv'
  <2>2. intake' = intake
    BY <1>6 DEF LinkCanonical
  <2>4. \A v \in Uploads : v # u => pc'[v] = pc[v] /\ attempt'[v] = attempt[v]
    BY <1>0, <1>6 DEF LinkCanonical
  <2>5. /\ faulted \subseteq faulted' /\ uncertain' \subseteq uncertain \cup {u}
        /\ temporary' \subseteq temporary \cup {u}
    BY <1>6 DEF LinkCanonical
  <2>6. u \notin faulted' => u \notin uncertain'
    BY <1>6, <2>5 DEF LinkCanonical, UnfaultedInv
  <2>7. u \notin faulted' /\ pc'[u] \in {"journal", "prepare", "check", "commit", "rollback",
            "discard", "close", "clean", "drop", "cleaned", "done"} => u \notin temporary'
    BY <1>0, <1>6, <2>5 DEF LinkCanonical, UnfaultedInv, StepInv, RowInv
  <2>8. u \notin faulted' /\ pc'[u] \in {"close", "clean", "drop", "cleaned", "done"} =>
          attempt'[u] \in {"none", "attached", "abandoned"}
    BY <1>0, <1>6, <2>5 DEF LinkCanonical, UnfaultedInv, StepInv, RowInv
  <2>9. u \notin faulted' /\ pc'[u] = "done" => intake'[u].state \in {"none", "cleaned"}
    BY <1>0, <1>6, <2>5 DEF LinkCanonical, UnfaultedInv
  <2> QED BY <1>0, <2>2, <2>4, <2>5, <2>6, <2>7, <2>8, <2>9, OthersKeep
<1>7. ASSUME NEW u \in Uploads, RemoveTemporary(u) PROVE UnfaultedInv'
  <2>2. intake' = intake
    BY <1>7 DEF RemoveTemporary
  <2>4. \A v \in Uploads : v # u => pc'[v] = pc[v] /\ attempt'[v] = attempt[v]
    BY <1>0, <1>7 DEF RemoveTemporary, KeepCanonical
  <2>5. /\ faulted \subseteq faulted' /\ uncertain' \subseteq uncertain \cup {u}
        /\ temporary' \subseteq temporary \cup {u}
    BY <1>7 DEF RemoveTemporary, KeepCanonical
  <2>6. u \notin faulted' => u \notin uncertain'
    BY <1>7, <2>5 DEF RemoveTemporary, UnfaultedInv, KeepCanonical
  <2>7. u \notin faulted' /\ pc'[u] \in {"journal", "prepare", "check", "commit", "rollback",
            "discard", "close", "clean", "drop", "cleaned", "done"} => u \notin temporary'
    BY <1>0, <1>7, <2>5 DEF RemoveTemporary, UnfaultedInv, StepInv, RowInv, KeepCanonical
  <2>8. u \notin faulted' /\ pc'[u] \in {"close", "clean", "drop", "cleaned", "done"} =>
          attempt'[u] \in {"none", "attached", "abandoned"}
    BY <1>0, <1>7, <2>5 DEF RemoveTemporary, UnfaultedInv, StepInv, RowInv, KeepCanonical
  <2>9. u \notin faulted' /\ pc'[u] = "done" => intake'[u].state \in {"none", "cleaned"}
    BY <1>0, <1>7, <2>5 DEF RemoveTemporary, UnfaultedInv, KeepCanonical
  <2> QED BY <1>0, <2>2, <2>4, <2>5, <2>6, <2>7, <2>8, <2>9, OthersKeep
<1>8. ASSUME NEW u \in Uploads, AbandonIfAbsent(u) PROVE UnfaultedInv'
  <2>2. intake' = intake
    BY <1>8 DEF AbandonIfAbsent
  <2>4. \A v \in Uploads : v # u => pc'[v] = pc[v] /\ attempt'[v] = attempt[v]
    BY <1>0, <1>8 DEF AbandonIfAbsent, Absent
  <2>5. /\ faulted \subseteq faulted' /\ uncertain' \subseteq uncertain \cup {u}
        /\ temporary' \subseteq temporary \cup {u}
    BY <1>8 DEF AbandonIfAbsent, Absent
  <2>6. u \notin faulted' => u \notin uncertain'
    BY <1>8, <2>5 DEF AbandonIfAbsent, UnfaultedInv, Absent
  <2>7. u \notin faulted' /\ pc'[u] \in {"journal", "prepare", "check", "commit", "rollback",
            "discard", "close", "clean", "drop", "cleaned", "done"} => u \notin temporary'
    BY <1>0, <1>8, <2>5 DEF AbandonIfAbsent, UnfaultedInv, StepInv, RowInv, Absent
  <2>8. u \notin faulted' /\ pc'[u] \in {"close", "clean", "drop", "cleaned", "done"} =>
          attempt'[u] \in {"none", "attached", "abandoned"}
    BY <1>0, <1>8, <2>5 DEF AbandonIfAbsent, UnfaultedInv, StepInv, RowInv, Absent
  <2>9. u \notin faulted' /\ pc'[u] = "done" => intake'[u].state \in {"none", "cleaned"}
    BY <1>0, <1>8, <2>5 DEF AbandonIfAbsent, UnfaultedInv, Absent
  <2> QED BY <1>0, <2>2, <2>4, <2>5, <2>6, <2>7, <2>8, <2>9, OthersKeep
<1>9. ASSUME NEW u \in Uploads, JournalPublished(u) PROVE UnfaultedInv'
  <2>2. intake' = intake
    BY <1>9 DEF JournalPublished
  <2>4. \A v \in Uploads : v # u => pc'[v] = pc[v] /\ attempt'[v] = attempt[v]
    BY <1>0, <1>9 DEF JournalPublished
  <2>5. /\ faulted \subseteq faulted' /\ uncertain' \subseteq uncertain \cup {u}
        /\ temporary' \subseteq temporary \cup {u}
    BY <1>9 DEF JournalPublished
  <2>6. u \notin faulted' => u \notin uncertain'
    BY <1>9, <2>5 DEF JournalPublished, UnfaultedInv
  <2>7. u \notin faulted' /\ pc'[u] \in {"journal", "prepare", "check", "commit", "rollback",
            "discard", "close", "clean", "drop", "cleaned", "done"} => u \notin temporary'
    BY <1>0, <1>9, <2>5 DEF JournalPublished, UnfaultedInv, StepInv, RowInv
  <2>8. u \notin faulted' /\ pc'[u] \in {"close", "clean", "drop", "cleaned", "done"} =>
          attempt'[u] \in {"none", "attached", "abandoned"}
    BY <1>0, <1>9, <2>5 DEF JournalPublished, UnfaultedInv, StepInv, RowInv
  <2>9. u \notin faulted' /\ pc'[u] = "done" => intake'[u].state \in {"none", "cleaned"}
    BY <1>0, <1>9, <2>5 DEF JournalPublished, UnfaultedInv
  <2> QED BY <1>0, <2>2, <2>4, <2>5, <2>6, <2>7, <2>8, <2>9, OthersKeep
<1>10. ASSUME NEW u \in Uploads, PrepareAttachment(u) PROVE UnfaultedInv'
  <2>2. intake' = intake
    BY <1>10 DEF PrepareAttachment
  <2>4. \A v \in Uploads : v # u => pc'[v] = pc[v] /\ attempt'[v] = attempt[v]
    BY <1>0, <1>10 DEF PrepareAttachment, TurnDown
  <2>5. /\ faulted \subseteq faulted' /\ uncertain' \subseteq uncertain \cup {u}
        /\ temporary' \subseteq temporary \cup {u}
    BY <1>10 DEF PrepareAttachment, TurnDown
  <2>6. u \notin faulted' => u \notin uncertain'
    BY <1>10, <2>5 DEF PrepareAttachment, UnfaultedInv, TurnDown
  <2>7. u \notin faulted' /\ pc'[u] \in {"journal", "prepare", "check", "commit", "rollback",
            "discard", "close", "clean", "drop", "cleaned", "done"} => u \notin temporary'
    BY <1>0, <1>10, <2>5 DEF PrepareAttachment, UnfaultedInv, StepInv, RowInv, TurnDown
  <2>8. u \notin faulted' /\ pc'[u] \in {"close", "clean", "drop", "cleaned", "done"} =>
          attempt'[u] \in {"none", "attached", "abandoned"}
    BY <1>0, <1>10, <2>5 DEF PrepareAttachment, UnfaultedInv, StepInv, RowInv, TurnDown
  <2>9. u \notin faulted' /\ pc'[u] = "done" => intake'[u].state \in {"none", "cleaned"}
    BY <1>0, <1>10, <2>5 DEF PrepareAttachment, UnfaultedInv, TurnDown
  <2> QED BY <1>0, <2>2, <2>4, <2>5, <2>6, <2>7, <2>8, <2>9, OthersKeep
<1>11. ASSUME NEW u \in Uploads, CheckContent(u) PROVE UnfaultedInv'
  <2>2. intake' = intake
    BY <1>11 DEF CheckContent
  <2>4. \A v \in Uploads : v # u => pc'[v] = pc[v] /\ attempt'[v] = attempt[v]
    BY <1>0, <1>11 DEF CheckContent, TurnDown
  <2>5. /\ faulted \subseteq faulted' /\ uncertain' \subseteq uncertain \cup {u}
        /\ temporary' \subseteq temporary \cup {u}
    BY <1>11 DEF CheckContent, TurnDown
  <2>6. u \notin faulted' => u \notin uncertain'
    BY <1>11, <2>5 DEF CheckContent, UnfaultedInv, TurnDown
  <2>7. u \notin faulted' /\ pc'[u] \in {"journal", "prepare", "check", "commit", "rollback",
            "discard", "close", "clean", "drop", "cleaned", "done"} => u \notin temporary'
    BY <1>0, <1>11, <2>5 DEF CheckContent, UnfaultedInv, StepInv, RowInv, TurnDown
  <2>8. u \notin faulted' /\ pc'[u] \in {"close", "clean", "drop", "cleaned", "done"} =>
          attempt'[u] \in {"none", "attached", "abandoned"}
    BY <1>0, <1>11, <2>5 DEF CheckContent, UnfaultedInv, StepInv, RowInv, TurnDown
  <2>9. u \notin faulted' /\ pc'[u] = "done" => intake'[u].state \in {"none", "cleaned"}
    BY <1>0, <1>11, <2>5 DEF CheckContent, UnfaultedInv, TurnDown
  <2> QED BY <1>0, <2>2, <2>4, <2>5, <2>6, <2>7, <2>8, <2>9, OthersKeep
<1>12. ASSUME NEW u \in Uploads, CommitAttachment(u) PROVE UnfaultedInv'
  <2>1. \/ intake' = intake
        \/ intake' = WithAttached(intake, u)
    BY <1>12 DEF CommitAttachment, AttachRows
  <2>2. \A v \in Uploads : v # u => intake'[v].state = intake[v].state
    BY <1>0, <2>1, AttachedUpdate
  <2>4. \A v \in Uploads : v # u => pc'[v] = pc[v] /\ attempt'[v] = attempt[v]
    BY <1>0, <1>12 DEF CommitAttachment, AttachRows
  <2>5. /\ faulted \subseteq faulted' /\ uncertain' \subseteq uncertain \cup {u}
        /\ temporary' \subseteq temporary \cup {u}
    BY <1>12 DEF CommitAttachment, AttachRows
  <2>6. u \notin faulted' => u \notin uncertain'
    BY <1>12, <2>5 DEF CommitAttachment, UnfaultedInv, AttachRows
  <2>7. u \notin faulted' /\ pc'[u] \in {"journal", "prepare", "check", "commit", "rollback",
            "discard", "close", "clean", "drop", "cleaned", "done"} => u \notin temporary'
    BY <1>0, <1>12, <2>5 DEF CommitAttachment, UnfaultedInv, StepInv, RowInv, AttachRows
  <2>8. u \notin faulted' /\ pc'[u] \in {"close", "clean", "drop", "cleaned", "done"} =>
          attempt'[u] \in {"none", "attached", "abandoned"}
    BY <1>0, <1>12, <2>5 DEF CommitAttachment, UnfaultedInv, StepInv, RowInv, AttachRows
  <2>9. u \notin faulted' /\ pc'[u] = "done" => intake'[u].state \in {"none", "cleaned"}
    BY <1>0, <1>12, <2>5 DEF CommitAttachment, UnfaultedInv, AttachRows
  <2> QED BY <1>0, <2>2, <2>4, <2>5, <2>6, <2>7, <2>8, <2>9, OthersKeep
<1>13. ASSUME NEW u \in Uploads, FenceDiscard(u) PROVE UnfaultedInv'
  <2>2. intake' = intake
    BY <1>13 DEF FenceDiscard
  <2>4. \A v \in Uploads : v # u => pc'[v] = pc[v] /\ attempt'[v] = attempt[v]
    BY <1>0, <1>13 DEF FenceDiscard
  <2>5. /\ faulted \subseteq faulted' /\ uncertain' \subseteq uncertain \cup {u}
        /\ temporary' \subseteq temporary \cup {u}
    BY <1>13 DEF FenceDiscard
  <2>6. u \notin faulted' => u \notin uncertain'
    BY <1>13, <2>5 DEF FenceDiscard, UnfaultedInv
  <2>7. u \notin faulted' /\ pc'[u] \in {"journal", "prepare", "check", "commit", "rollback",
            "discard", "close", "clean", "drop", "cleaned", "done"} => u \notin temporary'
    BY <1>0, <1>13, <2>5 DEF FenceDiscard, UnfaultedInv, StepInv, RowInv
  <2>8. u \notin faulted' /\ pc'[u] \in {"close", "clean", "drop", "cleaned", "done"} =>
          attempt'[u] \in {"none", "attached", "abandoned"}
    BY <1>0, <1>13, <2>5 DEF FenceDiscard, UnfaultedInv, StepInv, RowInv
  <2>9. u \notin faulted' /\ pc'[u] = "done" => intake'[u].state \in {"none", "cleaned"}
    BY <1>0, <1>13, <2>5 DEF FenceDiscard, UnfaultedInv
  <2> QED BY <1>0, <2>2, <2>4, <2>5, <2>6, <2>7, <2>8, <2>9, OthersKeep
<1>14. ASSUME NEW u \in Uploads, DiscardOriginal(u) PROVE UnfaultedInv'
  <2>2. intake' = intake
    BY <1>14 DEF DiscardOriginal
  <2>4. \A v \in Uploads : v # u => pc'[v] = pc[v] /\ attempt'[v] = attempt[v]
    BY <1>0, <1>14 DEF DiscardOriginal
  <2>5. /\ faulted \subseteq faulted' /\ uncertain' \subseteq uncertain \cup {u}
        /\ temporary' \subseteq temporary \cup {u}
    BY <1>14 DEF DiscardOriginal
  <2>6. u \notin faulted' => u \notin uncertain'
    BY <1>14, <2>5 DEF DiscardOriginal, UnfaultedInv
  <2>7. u \notin faulted' /\ pc'[u] \in {"journal", "prepare", "check", "commit", "rollback",
            "discard", "close", "clean", "drop", "cleaned", "done"} => u \notin temporary'
    BY <1>0, <1>14, <2>5 DEF DiscardOriginal, UnfaultedInv, StepInv, RowInv
  <2>8. u \notin faulted' /\ pc'[u] \in {"close", "clean", "drop", "cleaned", "done"} =>
          attempt'[u] \in {"none", "attached", "abandoned"}
    BY <1>0, <1>14, <2>5 DEF DiscardOriginal, UnfaultedInv, StepInv, RowInv
  <2>9. u \notin faulted' /\ pc'[u] = "done" => intake'[u].state \in {"none", "cleaned"}
    BY <1>0, <1>14, <2>5 DEF DiscardOriginal, UnfaultedInv
  <2> QED BY <1>0, <2>2, <2>4, <2>5, <2>6, <2>7, <2>8, <2>9, OthersKeep
<1>15. ASSUME NEW u \in Uploads, CloseIntake(u) PROVE UnfaultedInv'
  <2>1. \/ intake' = intake
        \/ intake' = WithState(intake, u, "closed")
    BY <1>15 DEF CloseIntake, Transition
  <2>2. \A v \in Uploads : v # u => intake'[v].state = intake[v].state
    BY <1>0, <2>1, StateUpdate
  <2>4. \A v \in Uploads : v # u => pc'[v] = pc[v] /\ attempt'[v] = attempt[v]
    BY <1>0, <1>15 DEF CloseIntake, Transition
  <2>5. /\ faulted \subseteq faulted' /\ uncertain' \subseteq uncertain \cup {u}
        /\ temporary' \subseteq temporary \cup {u}
    BY <1>15 DEF CloseIntake, Transition
  <2>6. u \notin faulted' => u \notin uncertain'
    BY <1>15, <2>5 DEF CloseIntake, UnfaultedInv, Transition
  <2>7. u \notin faulted' /\ pc'[u] \in {"journal", "prepare", "check", "commit", "rollback",
            "discard", "close", "clean", "drop", "cleaned", "done"} => u \notin temporary'
    BY <1>0, <1>15, <2>5 DEF CloseIntake, UnfaultedInv, StepInv, RowInv, Transition
  <2>8. u \notin faulted' /\ pc'[u] \in {"close", "clean", "drop", "cleaned", "done"} =>
          attempt'[u] \in {"none", "attached", "abandoned"}
    BY <1>0, <1>15, <2>5 DEF CloseIntake, UnfaultedInv, StepInv, RowInv, Transition
  <2>9. u \notin faulted' /\ pc'[u] = "done" => intake'[u].state \in {"none", "cleaned"}
    BY <1>0, <1>15, <2>5 DEF CloseIntake, UnfaultedInv, Transition
  <2> QED BY <1>0, <2>2, <2>4, <2>5, <2>6, <2>7, <2>8, <2>9, OthersKeep
<1>16. ASSUME NEW u \in Uploads, StartCleaning(u) PROVE UnfaultedInv'
  <2>1. \/ intake' = intake
        \/ intake' = WithState(intake, u, "cleaning")
    BY <1>16 DEF StartCleaning, Transition
  <2>2. \A v \in Uploads : v # u => intake'[v].state = intake[v].state
    BY <1>0, <2>1, StateUpdate
  <2>4. \A v \in Uploads : v # u => pc'[v] = pc[v] /\ attempt'[v] = attempt[v]
    BY <1>0, <1>16 DEF StartCleaning, Transition
  <2>5. /\ faulted \subseteq faulted' /\ uncertain' \subseteq uncertain \cup {u}
        /\ temporary' \subseteq temporary \cup {u}
    BY <1>16 DEF StartCleaning, Transition
  <2>6. u \notin faulted' => u \notin uncertain'
    BY <1>16, <2>5 DEF StartCleaning, UnfaultedInv, Transition
  <2>7. u \notin faulted' /\ pc'[u] \in {"journal", "prepare", "check", "commit", "rollback",
            "discard", "close", "clean", "drop", "cleaned", "done"} => u \notin temporary'
    BY <1>0, <1>16, <2>5 DEF StartCleaning, UnfaultedInv, StepInv, RowInv, Transition
  <2>8. u \notin faulted' /\ pc'[u] \in {"close", "clean", "drop", "cleaned", "done"} =>
          attempt'[u] \in {"none", "attached", "abandoned"}
    BY <1>0, <1>16, <2>5 DEF StartCleaning, UnfaultedInv, StepInv, RowInv, Transition
  <2>9. u \notin faulted' /\ pc'[u] = "done" => intake'[u].state \in {"none", "cleaned"}
    BY <1>0, <1>16, <2>5 DEF StartCleaning, UnfaultedInv, Transition
  <2> QED BY <1>0, <2>2, <2>4, <2>5, <2>6, <2>7, <2>8, <2>9, OthersKeep
<1>17. ASSUME NEW u \in Uploads, DropWorkspace(u) PROVE UnfaultedInv'
  <2>2. intake' = intake
    BY <1>17 DEF DropWorkspace
  <2>4. \A v \in Uploads : v # u => pc'[v] = pc[v] /\ attempt'[v] = attempt[v]
    BY <1>0, <1>17 DEF DropWorkspace
  <2>5. /\ faulted \subseteq faulted' /\ uncertain' \subseteq uncertain \cup {u}
        /\ temporary' \subseteq temporary \cup {u}
    BY <1>17 DEF DropWorkspace
  <2>6. u \notin faulted' => u \notin uncertain'
    BY <1>17, <2>5 DEF DropWorkspace, UnfaultedInv
  <2>7. u \notin faulted' /\ pc'[u] \in {"journal", "prepare", "check", "commit", "rollback",
            "discard", "close", "clean", "drop", "cleaned", "done"} => u \notin temporary'
    BY <1>0, <1>17, <2>5 DEF DropWorkspace, UnfaultedInv, StepInv, RowInv
  <2>8. u \notin faulted' /\ pc'[u] \in {"close", "clean", "drop", "cleaned", "done"} =>
          attempt'[u] \in {"none", "attached", "abandoned"}
    BY <1>0, <1>17, <2>5 DEF DropWorkspace, UnfaultedInv, StepInv, RowInv
  <2>9. u \notin faulted' /\ pc'[u] = "done" => intake'[u].state \in {"none", "cleaned"}
    BY <1>0, <1>17, <2>5 DEF DropWorkspace, UnfaultedInv
  <2> QED BY <1>0, <2>2, <2>4, <2>5, <2>6, <2>7, <2>8, <2>9, OthersKeep
<1>18. ASSUME NEW u \in Uploads, FinishCleaning(u) PROVE UnfaultedInv'
  <2>1. \/ intake' = intake
        \/ intake' = WithState(intake, u, "cleaned")
    BY <1>18 DEF FinishCleaning, Transition
  <2>2. \A v \in Uploads : v # u => intake'[v].state = intake[v].state
    BY <1>0, <2>1, StateUpdate
  <2>3. u \notin faulted' => intake'[u].state = "cleaned"
    <3>1. u \notin faulted' => intake' = WithState(intake, u, "cleaned")
      BY <1>18 DEF FinishCleaning, Transition
    <3> QED BY <1>0, <3>1, StateUpdate
  <2>4. \A v \in Uploads : v # u => pc'[v] = pc[v] /\ attempt'[v] = attempt[v]
    BY <1>0, <1>18 DEF FinishCleaning, Transition
  <2>5. /\ faulted \subseteq faulted' /\ uncertain' \subseteq uncertain \cup {u}
        /\ temporary' \subseteq temporary \cup {u}
    BY <1>18 DEF FinishCleaning, Transition
  <2>6. u \notin faulted' => u \notin uncertain'
    BY <1>18, <2>5 DEF FinishCleaning, UnfaultedInv, Transition
  <2>7. u \notin faulted' /\ pc'[u] \in {"journal", "prepare", "check", "commit", "rollback",
            "discard", "close", "clean", "drop", "cleaned", "done"} => u \notin temporary'
    BY <1>0, <1>18, <2>5 DEF FinishCleaning, UnfaultedInv, StepInv, RowInv, Transition
  <2>8. u \notin faulted' /\ pc'[u] \in {"close", "clean", "drop", "cleaned", "done"} =>
          attempt'[u] \in {"none", "attached", "abandoned"}
    BY <1>0, <1>18, <2>5 DEF FinishCleaning, UnfaultedInv, StepInv, RowInv, Transition
  <2>9. u \notin faulted' /\ pc'[u] = "done" => intake'[u].state \in {"none", "cleaned"}
    BY <1>0, <1>18, <2>5, <2>3 DEF FinishCleaning, UnfaultedInv, Transition
  <2> QED BY <1>0, <2>2, <2>4, <2>5, <2>6, <2>7, <2>8, <2>9, OthersKeep
<1>19. ASSUME NEW u \in Uploads, Crash(u) PROVE UnfaultedInv'
  <2>2. intake' = intake
    BY <1>19 DEF Crash
  <2>4. \A v \in Uploads : v # u => pc'[v] = pc[v] /\ attempt'[v] = attempt[v]
    BY <1>0, <1>19 DEF Crash
  <2>5. /\ faulted \subseteq faulted' /\ uncertain' \subseteq uncertain \cup {u}
        /\ temporary' \subseteq temporary \cup {u}
    BY <1>19 DEF Crash
  <2>6. u \notin faulted' => u \notin uncertain'
    BY <1>19, <2>5 DEF Crash, UnfaultedInv
  <2>7. u \notin faulted' /\ pc'[u] \in {"journal", "prepare", "check", "commit", "rollback",
            "discard", "close", "clean", "drop", "cleaned", "done"} => u \notin temporary'
    BY <1>0, <1>19, <2>5 DEF Crash, UnfaultedInv, StepInv, RowInv
  <2>8. u \notin faulted' /\ pc'[u] \in {"close", "clean", "drop", "cleaned", "done"} =>
          attempt'[u] \in {"none", "attached", "abandoned"}
    BY <1>0, <1>19, <2>5 DEF Crash, UnfaultedInv, StepInv, RowInv
  <2>9. u \notin faulted' /\ pc'[u] = "done" => intake'[u].state \in {"none", "cleaned"}
    BY <1>0, <1>19, <2>5 DEF Crash, UnfaultedInv
  <2> QED BY <1>0, <2>2, <2>4, <2>5, <2>6, <2>7, <2>8, <2>9, OthersKeep
<1>20. ASSUME NEW d \in Documents, ChangeLifecycle(d) PROVE UnfaultedInv'
  BY <1>20 DEF ChangeLifecycle, UnfaultedInv
<1>21. CASE UNCHANGED vars
  BY <1>21 DEF vars, UnfaultedInv
<1> QED
  BY <1>1, <1>2, <1>3, <1>4, <1>5, <1>6, <1>7, <1>8, <1>9, <1>10,
    <1>11, <1>12, <1>13, <1>14, <1>15, <1>16, <1>17, <1>18, <1>19, <1>20, <1>21 DEF Next, Advance

----------------------------------------------------------------------------
(* ----- theorems --------------------------------------------------------- *)

\* The inductive invariant holds in every reachable state.
THEOREM Invariance == Spec => []Inv
  BY InitInv, StepPreservesInv, PTL DEF Spec

\* Every variable keeps its type.
THEOREM TypeCorrect == Spec => []TypeOK
<1>1. Inv => TypeOK BY DEF Inv
<1> QED BY <1>1, Invariance, PTL

\* An original that a committed version refers to exists, whatever crashed and
\* whichever commit answer was lost.
THEOREM BytesBehindVersions == Spec => []AttachedHasBytes
<1>1. Inv => AttachedHasBytes BY DEF Inv, RowInv, AttachedHasBytes
<1> QED BY <1>1, Invariance, PTL

\* Every file on disk is named by a journal row that has not been closed out.
THEOREM FilesAreLocated == Spec => []EveryFileHasLocator
<1>1. Inv => EveryFileHasLocator BY DEF Inv, TypeOK, RowInv, EveryFileHasLocator
<1> QED BY <1>1, Invariance, PTL

\* The intake journal and the original-upload journal agree on attachment.
THEOREM JournalAgreement == Spec => []JournalsAgree
<1>1. Inv => JournalsAgree BY DEF Inv, RowInv, JournalsAgree
<1> QED BY <1>1, Invariance, PTL

\* No two committed versions of the workspace carry the same content.
THEOREM NoDuplicateContent == Spec => []ContentUnique
<1>1. Inv => ContentUnique BY DEF Inv, NumberInv
<1> QED BY <1>1, Invariance, PTL

\* No two versions of one document share a number.
THEOREM NoDuplicateNumber == Spec => []VersionNumbersDistinct
<1>1. Inv => VersionNumbersDistinct BY DEF Inv, NumberInv
<1> QED BY <1>1, Invariance, PTL

\* Only TrackedOriginalStore.discard removes a canonical file, and it runs only
\* after the discarding state was committed.
THEOREM FencedDeletion == Spec => DeleteOnlyBehindFence
<1>1. Inv /\ [Next]_vars => [DeletesBehindFence]_vars
  <2> SUFFICES ASSUME Inv, Next, NEW u \in canonical, u \notin canonical'
               PROVE  attempt[u] = "discarding"
    BY DEF DeletesBehindFence
  <2>1. ASSUME NEW w \in Uploads, ~DiscardOriginal(w) PROVE ~(Advance(w) \/ Crash(w))
    BY <2>1 DEF Advance, Crash, ReserveIntake, CreateWorkspace, ParseUpload, ReserveOriginal,
       CreateTemporary, LinkCanonical, RemoveTemporary, KeepCanonical, AbandonIfAbsent,
       JournalPublished, PrepareAttachment, CheckContent, CommitAttachment, FenceDiscard,
       CloseIntake, StartCleaning, DropWorkspace, FinishCleaning, fileVars
  <2>2. PICK w \in Uploads : DiscardOriginal(w)
    BY <2>1 DEF Next, ChangeLifecycle, fileVars
  <2> QED BY <2>2 DEF DiscardOriginal
<1> QED BY <1>1, Invariance, PTL DEF Spec, DeleteOnlyBehindFence

\* A version row is committed only for a document that is active and at the
\* lifecycle generation captured when the request was reserved.
THEOREM AttachmentGeneration == Spec => AttachOnlyCapturedGeneration
<1>1. Inv /\ [Next]_vars => [AttachesToCapturedGeneration]_vars
  <2> SUFFICES ASSUME Inv, Next, NEW u \in Uploads, number[u] = 0, number'[u] # 0,
                      request[u].document # NewDocument
               PROVE  /\ document[request[u].document].lifecycle = "active"
                      /\ document[request[u].document].generation = generation[u]
    BY DEF AttachesToCapturedGeneration
  <2>1. ASSUME NEW w \in Uploads, ~CommitAttachment(w) PROVE ~(Advance(w) \/ Crash(w))
    BY <2>1 DEF Advance, Crash, ReserveIntake, CreateWorkspace, ParseUpload, ReserveOriginal,
       CreateTemporary, LinkCanonical, RemoveTemporary, AbandonIfAbsent, JournalPublished,
       PrepareAttachment, CheckContent, FenceDiscard, DiscardOriginal, CloseIntake,
       StartCleaning, DropWorkspace, FinishCleaning, versionVars
  <2>2. PICK w \in Uploads : CommitAttachment(w)
    BY <2>1 DEF Next, ChangeLifecycle, versionVars
  <2>3. w = u
    BY <2>2 DEF CommitAttachment, AttachRows, Inv, TypeOK
  <2> QED BY <2>2, <2>3 DEF CommitAttachment, Inv, LockInv, Source
<1> QED BY <1>1, Invariance, PTL DEF Spec, AttachOnlyCapturedGeneration

\* A request that met no fault ends with its bytes attached or gone, its temporary
\* workspace removed and its intake row closed out: HttpUploadIntakeService.upload
\* leaves work for an operator only behind an error.
THEOREM NoResidue == Spec => []NoResidueWithoutFault
<1>1. Init => UnfaultedInv
  BY DEF Init, UnfaultedInv
<1>2. Spec => []UnfaultedInv
  BY <1>1, Invariance, StepPreservesUnfaulted, PTL DEF Spec
<1>3. Inv /\ UnfaultedInv => NoResidueWithoutFault
  BY DEF Inv, TypeOK, RowInv, UnfaultedInv, NoResidueWithoutFault
<1> QED BY <1>2, <1>3, Invariance, PTL
============================================================================
