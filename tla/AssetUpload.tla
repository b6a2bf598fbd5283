---------------------------- MODULE AssetUpload ----------------------------
(***************************************************************************)
(* Upload of an original document over HTTP: the intake journal, the       *)
(* original-upload journal, the two file stores and the attachment of the  *)
(* published bytes to a document version.  One member of Uploads is one    *)
(* request handled by HttpUploadIntakeService.upload.                      *)
(*                                                                         *)
(* Every database transaction is one action, except the attachment, which  *)
(* is the request's own transaction and is cut into the steps at which it  *)
(* reads (prepare, content check) and commits.  A commit has three         *)
(* outcomes: acknowledged, applied but raised at the client, not applied.  *)
(*                                                                         *)
(* Abstractions: one workspace; permission and folder checks are a free    *)
(* choice to reject; bytes are a member of Contents (their digest);        *)
(* revisions of the journal rows are determined by the rows' states.       *)
(***************************************************************************)
EXTENDS Integers

CONSTANTS
    Uploads,        \* requests; each owns one version id and one attempt id
    Documents,      \* documents that exist before the requests arrive
    NewDocument,    \* the target of a request that creates its document
    Contents,       \* digests of the bytes a request may carry
    NoUpload,       \* no request holds the workspace row lock
    MaxGeneration   \* bound on lifecycle changes of a document

ASSUME UploadAssumption ==
    /\ NoUpload \notin Uploads
    /\ NewDocument \notin Documents
    /\ MaxGeneration \in Nat

VARIABLES
    request,     \* request[u]: the document and the content it uploads
    document,    \* document[d]: lifecycle, lifecycle_generation, highest version number
    tx,          \* the request whose transaction holds the workspace row lock
    pc,          \* where each request is
    intake,      \* intake[u]: the row of the intake journal
    lease,       \* lease[u]: UploadIntakeLease.claim, the request's copy of the row
    uncertain,   \* requests whose lease is marked uncertain
    generation,  \* generation[u]: the lifecycle generation captured by the claim
    payload,     \* requests whose temporary workspace exists on disk
    attempt,     \* attempt[u]: the state of the original-upload journal row
    temporary,   \* requests whose temporary original exists
    canonical,   \* requests whose canonical original exists
    owned,       \* requests recorded in TrackedOriginalStore._published
    number,      \* number[u]: committed version number, 0 when there is no row
    pending,     \* pending[u]: version number computed inside the transaction
    faulted      \* history: requests that met an I/O or commit fault, or crashed

intakeVars == <<intake, lease, generation, payload>>
fileVars == <<temporary, canonical, owned>>
versionVars == <<number, pending>>
vars == <<request, document, tx, pc, intake, lease, uncertain, generation,
          payload, attempt, temporary, canonical, owned, number, pending, faulted>>

----------------------------------------------------------------------------
IntakeState == {"none", "open", "closed", "cleaning", "cleaned"}
IntakeRow == [state : IntakeState, linked : BOOLEAN, attached : BOOLEAN]
AttemptState == {"none", "open", "published", "discarding", "attached", "abandoned"}
Step == {"start", "create", "parse", "reserve", "publish", "link", "unlink",
         "abandon", "journal", "prepare", "check", "commit", "rollback",
         "discard", "close", "clean", "drop", "cleaned", "done", "crashed"}
DocumentRow == [lifecycle : {"active", "trashed"}, generation : 1 .. MaxGeneration + 1,
                latest : Nat]

\* How a commit ends: acknowledged; durable although the client saw an error; not durable.
Outcome == {"acknowledged", "lost", "refused"}
Durable(outcome) == outcome # "refused"

\* A transaction whose guard does not hold raises before it commits.
Attempted(guard) == IF guard THEN Outcome ELSE {"refused"}

TypeOK ==
    /\ request \in [Uploads -> [document : Documents \cup {NewDocument}, content : Contents]]
    /\ document \in [Documents -> DocumentRow]
    /\ tx \in Uploads \cup {NoUpload}
    /\ pc \in [Uploads -> Step]
    /\ intake \in [Uploads -> IntakeRow]
    /\ lease \in [Uploads -> IntakeRow]
    /\ generation \in [Uploads -> 0 .. MaxGeneration + 1]
    /\ attempt \in [Uploads -> AttemptState]
    /\ number \in [Uploads -> Nat]
    /\ pending \in [Uploads -> Nat]
    /\ uncertain \subseteq Uploads
    /\ payload \subseteq Uploads
    /\ temporary \subseteq Uploads
    /\ canonical \subseteq Uploads
    /\ owned \subseteq Uploads
    /\ faulted \subseteq Uploads

NoIntake == [state |-> "none", linked |-> FALSE, attached |-> FALSE]

Init ==
    /\ request \in [Uploads -> [document : Documents \cup {NewDocument}, content : Contents]]
    /\ document = [d \in Documents |-> [lifecycle |-> "active", generation |-> 1, latest |-> 1]]
    /\ tx = NoUpload
    /\ pc = [u \in Uploads |-> "start"]
    /\ intake = [u \in Uploads |-> NoIntake]
    /\ lease = [u \in Uploads |-> NoIntake]
    /\ generation = [u \in Uploads |-> 0]
    /\ attempt = [u \in Uploads |-> "none"]
    /\ number = [u \in Uploads |-> 0]
    /\ pending = [u \in Uploads |-> 0]
    /\ uncertain = {}
    /\ payload = {}
    /\ temporary = {}
    /\ canonical = {}
    /\ owned = {}
    /\ faulted = {}

----------------------------------------------------------------------------
Goto(u, step) == pc' = [pc EXCEPT ![u] = step]

Fault(u) == faulted' = faulted \cup {u}

\* The journal row of one request, with one column changed.
WithState(rows, u, s) == [rows EXCEPT ![u].state = s]
WithLinked(rows, u) == [rows EXCEPT ![u].linked = TRUE]
WithAttached(rows, u) == [rows EXCEPT ![u].attached = TRUE]

\* The documents after version n of document d was inserted.
WithLatest(d, n) ==
    [e \in Documents |-> IF e = d THEN [document[e] EXCEPT !.latest = n] ELSE document[e]]

MarkUncertain(u) == uncertain' = uncertain \cup {u}

\* require_workspace_write(lock = True): the workspace row lock is free.
WorkspaceUnlocked == tx = NoUpload

ReleaseWorkspaceMutant(u) == UNCHANGED tx
ReleaseWorkspace(u) == tx' = IF tx = u THEN NoUpload ELSE tx

\* The lifecycle generation that the claim of a request remembers.
CapturedGeneration(d) == IF d = NewDocument THEN 0 ELSE document[d].generation

\* UploadJournal._source: the document is active and still at the claim's generation.
Source(u) ==
    LET d == request[u].document
    IN  d # NewDocument =>
            /\ document[d].lifecycle = "active"
            /\ document[d].generation = generation[u]

\* The intake row must be exactly the one the lease remembers.
RowMatchesLease(u) == intake[u] = lease[u]

\* Document.new_version: one more than the highest number the document has.
NextNumber(d) == IF d = NewDocument THEN 1 ELSE document[d].latest + 1

\* workspace_contains_sha256: some committed version has the same digest.
ContentKnown(u) ==
    \E v \in Uploads : number[v] # 0 /\ request[v].content = request[u].content

\* observe: neither file of the attempt exists.
Absent(u) == u \notin canonical \cup temporary

\* A writer's error path never removes the canonical file.
KeepCanonical(u) == canonical' = canonical

\* An attachment that is turned down rolls back and discards its bytes.
TurnDownMutant(u) == Goto(u, "close")
TurnDown(u) == Goto(u, "rollback")

----------------------------------------------------------------------------
(* The intake journal and its temporary workspace.                          *)

\* UploadIntakeJournal.reserve, rejected, refused by the database, or committed.
ReserveIntake(u) ==
    /\ pc[u] = "start"
    /\ WorkspaceUnlocked
    /\ \/ /\ Goto(u, "done")
          /\ UNCHANGED <<intake, lease, generation, faulted>>
       \/ LET d == request[u].document
          IN  \E outcome \in Outcome :
                /\ d # NewDocument => document[d].lifecycle = "active"
                /\ IF Durable(outcome)
                   THEN /\ intake' = WithState(intake, u, "open")
                        /\ generation' = [generation EXCEPT ![u] = CapturedGeneration(d)]
                   ELSE UNCHANGED <<intake, generation>>
                /\ IF outcome = "acknowledged"
                   THEN /\ lease' = WithState(lease, u, "open")
                        /\ Goto(u, "create")
                        /\ UNCHANGED faulted
                   ELSE /\ Goto(u, "done")
                        /\ Fault(u)
                        /\ UNCHANGED lease
    /\ UNCHANGED <<request, document, tx, uncertain, payload, attempt, fileVars, versionVars>>

\* TrackedIntakeStore.create: without a lease a failure skips finish().
CreateWorkspace(u) ==
    /\ pc[u] = "create"
    /\ \/ /\ payload' = payload \cup {u}
          /\ Goto(u, "parse")
          /\ UNCHANGED faulted
       \/ /\ payload' \in {payload, payload \cup {u}}
          /\ Goto(u, "done")
          /\ Fault(u)
    /\ UNCHANGED <<request, document, tx, intake, lease, generation, uncertain,
                   attempt, fileVars, versionVars>>

\* parse_upload into payload.bin; a handle that cannot be closed marks the lease uncertain.
ParseUpload(u) ==
    /\ pc[u] = "parse"
    /\ \/ Goto(u, "reserve") /\ UNCHANGED <<uncertain, faulted>>
       \/ Goto(u, "close") /\ UNCHANGED <<uncertain, faulted>>
       \/ Goto(u, "close") /\ MarkUncertain(u) /\ Fault(u)
    /\ UNCHANGED <<request, document, tx, intakeVars, attempt, fileVars, versionVars>>

\* UploadIntakeJournal.reserve_original: the attempt row and its link, in one transaction.
ReserveOriginal(u) ==
    /\ pc[u] = "reserve"
    /\ WorkspaceUnlocked
    /\ \/ /\ Goto(u, "close")
          /\ UNCHANGED <<intake, lease, attempt, uncertain, faulted>>
       \/ \E outcome \in Outcome :
            /\ Source(u)
            /\ RowMatchesLease(u)
            /\ lease[u].state = "open" /\ ~lease[u].linked
            /\ IF Durable(outcome)
               THEN /\ attempt' = [attempt EXCEPT ![u] = "open"]
                    /\ intake' = WithLinked(intake, u)
               ELSE UNCHANGED <<attempt, intake>>
            /\ IF outcome = "acknowledged"
               THEN /\ lease' = WithLinked(lease, u)
                    /\ Goto(u, "publish")
                    /\ UNCHANGED <<uncertain, faulted>>
               ELSE /\ Goto(u, "close")
                    /\ MarkUncertain(u)
                    /\ Fault(u)
                    /\ UNCHANGED lease
    /\ UNCHANGED <<request, document, tx, generation, payload, fileVars, versionVars>>

----------------------------------------------------------------------------
(* TrackedOriginalStore.publish: write the temporary, link it to the        *)
(* canonical name, remove the temporary.                                    *)

\* Exclusive creation of the temporary file, or an error before it exists.
CreateTemporary(u) ==
    /\ pc[u] = "publish"
    /\ \/ /\ Absent(u)
          /\ temporary' = temporary \cup {u}
          /\ Goto(u, "link")
          /\ UNCHANGED faulted
       \/ /\ Goto(u, "abandon")
          /\ Fault(u)
          /\ UNCHANGED temporary
    /\ UNCHANGED <<request, document, tx, intakeVars, uncertain, attempt,
                   canonical, owned, versionVars>>

\* The bytes are written and linked; or the source or the disk raised and the
\* finally block removed the temporary file, or could not.
LinkCanonical(u) ==
    /\ pc[u] = "link"
    /\ \/ /\ canonical' = canonical \cup {u}
          /\ Goto(u, "unlink")
          /\ UNCHANGED <<temporary, faulted>>
       \/ /\ temporary' = temporary \ {u}
          /\ Goto(u, "abandon")
          /\ UNCHANGED <<canonical, faulted>>
       \/ /\ Goto(u, "abandon")
          /\ Fault(u)
          /\ UNCHANGED <<temporary, canonical>>
    /\ UNCHANGED <<request, document, tx, intakeVars, uncertain, attempt,
                   owned, versionVars>>

\* _remove_temporary and the final observation; only then is the file owned.
RemoveTemporary(u) ==
    /\ pc[u] = "unlink"
    /\ \/ /\ temporary' = temporary \ {u}
          /\ owned' = owned \cup {u}
          /\ Goto(u, "journal")
          /\ UNCHANGED <<canonical, faulted>>
       \/ /\ temporary' \in {temporary, temporary \ {u}}
          /\ Goto(u, "abandon")
          /\ Fault(u)
          /\ KeepCanonical(u)
          /\ UNCHANGED owned
    /\ UNCHANGED <<request, document, tx, intakeVars, uncertain, attempt, versionVars>>

\* UploadJournal.cleanup(expected_state = "open"): abandon only an absent file.
AbandonIfAbsent(u) ==
    /\ pc[u] = "abandon"
    /\ \E outcome \in Attempted(attempt[u] = "open" /\ Absent(u)) :
        /\ attempt' = IF Durable(outcome) THEN [attempt EXCEPT ![u] = "abandoned"]
                      ELSE attempt
        /\ IF outcome = "acknowledged"
           THEN UNCHANGED <<uncertain, faulted>>
           ELSE MarkUncertain(u) /\ Fault(u)
    /\ Goto(u, "close")
    /\ UNCHANGED <<request, document, tx, intakeVars, fileVars, versionVars>>

\* UploadJournal.published: a failed commit keeps the file and the reservation.
JournalPublished(u) ==
    /\ pc[u] = "journal"
    /\ \E outcome \in Attempted(attempt[u] = "open") :
        /\ attempt' = IF Durable(outcome) THEN [attempt EXCEPT ![u] = "published"]
                      ELSE attempt
        /\ IF outcome = "acknowledged"
           THEN Goto(u, "prepare") /\ UNCHANGED <<uncertain, faulted>>
           ELSE Goto(u, "close") /\ MarkUncertain(u) /\ Fault(u)
    /\ UNCHANGED <<request, document, tx, intakeVars, fileVars, versionVars>>

----------------------------------------------------------------------------
(* The request transaction that attaches the published bytes.               *)

\* prepare_attachment of both journals: lock the workspace, then the document,
\* the intake row and the attempt; load the document and its versions.
PrepareAttachment(u) ==
    /\ pc[u] = "prepare"
    /\ WorkspaceUnlocked
    /\ \/ /\ Source(u)
          /\ RowMatchesLease(u)
          /\ lease[u].state = "open" /\ lease[u].linked /\ ~lease[u].attached
          /\ attempt[u] = "published"
          /\ tx' = u
          /\ pending' = [pending EXCEPT ![u] = NextNumber(request[u].document)]
          /\ Goto(u, "check")
       \/ /\ TurnDown(u)
          /\ UNCHANGED <<tx, pending>>
    /\ UNCHANGED <<request, document, intakeVars, uncertain, attempt, fileVars,
                   number, faulted>>

\* workspace_contains_sha256, the inserts and the flushes of both attach calls.
CheckContent(u) ==
    /\ pc[u] = "check"
    /\ \/ ContentKnown(u) /\ TurnDown(u) /\ UNCHANGED faulted
       \/ ~ContentKnown(u) /\ Goto(u, "commit") /\ UNCHANGED faulted
       \/ TurnDown(u) /\ Fault(u)
    /\ UNCHANGED <<request, document, tx, intakeVars, uncertain, attempt, fileVars,
                   versionVars>>

\* What the transaction writes: the version with its job, the attempt, the intake row.
AttachRowsMutant(u) ==
    /\ number' = [number EXCEPT ![u] = pending[u]]
    /\ intake' = WithAttached(intake, u)
    /\ document' = WithLatest(request[u].document, pending[u])
    /\ UNCHANGED attempt
AttachRows(u) ==
    /\ number' = [number EXCEPT ![u] = pending[u]]
    /\ attempt' = [attempt EXCEPT ![u] = "attached"]
    /\ intake' = WithAttached(intake, u)
    /\ document' = WithLatest(request[u].document, pending[u])

\* session.commit: an exception may follow a durable commit, so nothing is undone.
CommitAttachment(u) ==
    /\ pc[u] = "commit"
    /\ \E outcome \in Outcome :
        /\ IF Durable(outcome)
           THEN AttachRows(u)
           ELSE UNCHANGED <<number, attempt, intake, document>>
        /\ IF outcome = "acknowledged"
           THEN /\ lease' = WithAttached(lease, u)
                /\ UNCHANGED <<uncertain, faulted>>
           ELSE MarkUncertain(u) /\ Fault(u) /\ UNCHANGED lease
    /\ ReleaseWorkspace(u)
    /\ pending' = [pending EXCEPT ![u] = 0]
    /\ Goto(u, "close")
    /\ UNCHANGED <<request, generation, payload, fileVars>>

\* _rollback_and_discard, first half: roll back, then commit the attachment fence.
FenceDiscard(u) ==
    /\ pc[u] = "rollback"
    /\ ReleaseWorkspace(u)
    /\ pending' = [pending EXCEPT ![u] = 0]
    /\ \E outcome \in Attempted(attempt[u] = "published" /\ number[u] = 0) :
        /\ attempt' = IF Durable(outcome) THEN [attempt EXCEPT ![u] = "discarding"]
                      ELSE attempt
        /\ IF outcome = "acknowledged"
           THEN Goto(u, "discard") /\ UNCHANGED <<uncertain, faulted>>
           ELSE Goto(u, "close") /\ MarkUncertain(u) /\ Fault(u)
    /\ UNCHANGED <<request, document, intakeVars, fileVars, number>>

\* Second half: delete the exact owned file inside the transaction that abandons.
DiscardOriginal(u) ==
    /\ pc[u] = "discard"
    /\ \/ \E outcome \in Outcome :
            /\ attempt[u] = "discarding" /\ number[u] = 0
            /\ u \in owned /\ u \in canonical /\ u \notin temporary
            /\ canonical' = canonical \ {u}
            /\ owned' = owned \ {u}
            /\ attempt' = IF Durable(outcome) THEN [attempt EXCEPT ![u] = "abandoned"]
                          ELSE attempt
            /\ IF outcome = "acknowledged"
               THEN UNCHANGED <<uncertain, faulted>>
               ELSE MarkUncertain(u) /\ Fault(u)
       \/ /\ MarkUncertain(u) /\ Fault(u)
          /\ UNCHANGED <<canonical, owned, attempt>>
    /\ Goto(u, "close")
    /\ UNCHANGED <<request, document, tx, intakeVars, temporary, versionVars>>

----------------------------------------------------------------------------
(* UploadIntakeLease.finish: close, clean and drop the temporary workspace,  *)
(* unless the lease is uncertain.  Its errors are logged and swallowed.      *)

\* UploadIntakeJournal.transition from one intake state to the next.
Transition(u, from, to, next) ==
    \E outcome \in Attempted(RowMatchesLease(u) /\ lease[u].state = from) :
        /\ intake' = IF Durable(outcome) THEN WithState(intake, u, to) ELSE intake
        /\ IF outcome = "acknowledged"
           THEN /\ lease' = WithState(lease, u, to)
                /\ Goto(u, next)
                /\ UNCHANGED faulted
           ELSE Goto(u, "done") /\ Fault(u) /\ UNCHANGED lease

CloseIntake(u) ==
    /\ pc[u] = "close"
    /\ IF u \in uncertain
       THEN Goto(u, "done") /\ UNCHANGED <<intake, lease, faulted>>
       ELSE Transition(u, "open", "closed", "clean")
    /\ UNCHANGED <<request, document, tx, generation, payload, uncertain, attempt,
                   fileVars, versionVars>>

StartCleaning(u) ==
    /\ pc[u] = "clean"
    /\ Transition(u, "closed", "cleaning", "drop")
    /\ UNCHANGED <<request, document, tx, generation, payload, uncertain, attempt,
                   fileVars, versionVars>>

\* TemporaryWorkspace.discard and the observation that it is gone.
DropWorkspace(u) ==
    /\ pc[u] = "drop"
    /\ \/ /\ payload' = payload \ {u}
          /\ Goto(u, "cleaned")
          /\ UNCHANGED faulted
       \/ /\ payload' \in {payload, payload \ {u}}
          /\ Goto(u, "done")
          /\ Fault(u)
    /\ UNCHANGED <<request, document, tx, intake, lease, generation, uncertain,
                   attempt, fileVars, versionVars>>

FinishCleaning(u) ==
    /\ pc[u] = "cleaned"
    /\ Transition(u, "cleaning", "cleaned", "done")
    /\ UNCHANGED <<request, document, tx, generation, payload, uncertain, attempt,
                   fileVars, versionVars>>

----------------------------------------------------------------------------
(* The environment.                                                         *)

\* The API process dies: the database rolls back, everything in memory is lost.
Crash(u) ==
    /\ pc[u] \notin {"start", "done", "crashed"}
    /\ Goto(u, "crashed")
    /\ Fault(u)
    /\ tx' = IF tx = u THEN NoUpload ELSE tx
    /\ pending' = [pending EXCEPT ![u] = 0]
    /\ owned' = owned \ {u}
    /\ UNCHANGED <<request, document, intakeVars, uncertain, attempt, temporary,
                   canonical, number>>

\* A document leaves or re-enters its active lifecycle, which advances its
\* generation.  The row lock of an attachment to the document excludes it.
ChangeLifecycle(d) ==
    /\ document[d].generation <= MaxGeneration
    /\ tx # NoUpload => request[tx].document # d
    /\ \E l \in {"active", "trashed"} \ {document[d].lifecycle} :
        document' = [document EXCEPT ![d].lifecycle = l, ![d].generation = @ + 1]
    /\ UNCHANGED <<request, tx, pc, intakeVars, uncertain, attempt, fileVars,
                   versionVars, faulted>>

\* What a request does of its own accord.
Advance(u) ==
    \/ ReserveIntake(u) \/ CreateWorkspace(u) \/ ParseUpload(u) \/ ReserveOriginal(u)
    \/ CreateTemporary(u) \/ LinkCanonical(u) \/ RemoveTemporary(u)
    \/ AbandonIfAbsent(u) \/ JournalPublished(u)
    \/ PrepareAttachment(u) \/ CheckContent(u) \/ CommitAttachment(u)
    \/ FenceDiscard(u) \/ DiscardOriginal(u)
    \/ CloseIntake(u) \/ StartCleaning(u) \/ DropWorkspace(u) \/ FinishCleaning(u)

Next ==
    \/ \E u \in Uploads : Advance(u) \/ Crash(u)
    \/ \E d \in Documents : ChangeLifecycle(d)

\* A request keeps running until it returns; it may wait for the row lock, which
\* other requests take again and again, so waiting steps need strong fairness.
Fairness == \A u \in Uploads : SF_vars(Advance(u))

Spec == Init /\ [][Next]_vars /\ Fairness

----------------------------------------------------------------------------
(* Properties.                                                              *)

\* No version row without its bytes: whatever crashes, and whichever commit
\* answer is lost, an original that a version refers to is never deleted.
AttachedHasBytes ==
    \A u \in Uploads : number[u] # 0 => attempt[u] = "attached" /\ u \in canonical

\* Two versions of one workspace never carry the same bytes, although each
\* request checks before it inserts and the inserts of others commit meanwhile.
ContentUnique ==
    \A u, v \in Uploads :
        (u # v /\ number[u] # 0 /\ number[v] # 0) => request[u].content # request[v].content

\* Versions of one document have distinct numbers, computed from a list of
\* versions that was read before the insert: the unique constraint on
\* (document_id, number) never fires.
VersionNumbersDistinct ==
    \A u, v \in Uploads :
        (u # v /\ number[u] # 0 /\ request[u].document = request[v].document
           /\ request[u].document # NewDocument)
        => number[u] # number[v] /\ number[u] > 1

\* Every file on disk has a durable locator: a journal row that still names it.
EveryFileHasLocator ==
    \A u \in Uploads :
        /\ u \in canonical \cup temporary => attempt[u] \notin {"none", "abandoned"}
        /\ u \in payload => intake[u].state \notin {"none", "cleaned"}

\* A request that met no fault leaves nothing behind: its bytes are attached or
\* gone, its temporary workspace is removed and its intake row is closed out.
NoResidueWithoutFault ==
    \A u \in Uploads :
        (pc[u] = "done" /\ u \notin faulted) =>
            /\ attempt[u] \in {"none", "attached", "abandoned"}
            /\ u \in canonical <=> attempt[u] = "attached"
            /\ u \notin temporary \cup payload
            /\ intake[u].state \in {"none", "cleaned"}

\* The two journals agree: an intake is attached exactly when its attempt is.
JournalsAgree ==
    \A u \in Uploads : intake[u].attached <=> attempt[u] = "attached"

\* Bytes are attached only to a document that is active and has not left the
\* lifecycle generation the request captured when it started.
AttachesToCapturedGeneration ==
    \A u \in Uploads :
        (number[u] = 0 /\ number'[u] # 0 /\ request[u].document # NewDocument) =>
            /\ document[request[u].document].lifecycle = "active"
            /\ document[request[u].document].generation = generation[u]
AttachOnlyCapturedGeneration == [][AttachesToCapturedGeneration]_vars

\* A canonical file is deleted only behind the committed discarding fence.
DeletesBehindFence == \A u \in canonical : u \notin canonical' => attempt[u] = "discarding"
DeleteOnlyBehindFence == [][DeletesBehindFence]_vars

\* Every request returns or dies, and never keeps the workspace lock.
RequestsEnd ==
    \A u \in Uploads : <>[](pc[u] \in {"done", "crashed"} /\ tx # u)
============================================================================
