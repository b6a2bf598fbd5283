--------------------------- MODULE AttachmentDrafts ---------------------------
(***************************************************************************)
(* Attachments of a first question (labs/rag/conversations/draft_service,  *)
(* attachment_service, attachment_lifecycle and repository.start).  Files  *)
(* are uploaded into a draft before there is a conversation; the first     *)
(* question binds the draft, with the manifest its owner has seen, to a    *)
(* new conversation.  A draft may also be abandoned or expire, and later   *)
(* attachments go to the conversation itself.  Nothing is deleted: rows of *)
(* an ended parent are assessed for a clean-up that others perform.        *)
(*                                                                         *)
(* One owner, one domain, one draft.  A start attempt names the            *)
(* conversation it would create.  An empty conversation from before drafts *)
(* existed (fenced by the migration) can be restored as the draft.         *)
(***************************************************************************)
EXTENDS ConversationTurns

CONSTANTS
  Attachments,    \* attachment rows
  MaxLosses       \* upload coroutines that may die or lose a commit answer

ASSUME DraftsAssumption == MaxLosses \in Nat /\ Convs \cap {"draft", "legacy", "none"} = {}

VARIABLES
  draft,    \* the row of rag_attachment_drafts
  att,      \* rows of rag_conversation_attachments
  upload,   \* coroutines of perform_upload
  start,    \* attempts of ConversationService.start, named by their conversation
  ledger,   \* rows of rag_conversation_starts, by request
  losses    \* uploads disturbed so far

draftVars == <<draft, att, upload, start, ledger, losses>>
vars == <<turnVars, draftVars>>

None == "none"
Parents == Convs \cup {"draft", "legacy"}
Draft == [state : {"none", "open", "bound", "abandoned", "expired"}, revision : Nat,
          late : BOOLEAN, bound : Convs \cup {None}]
Attachment == [parent : Parents \cup {None}, state : {"none", "uploading", "attached", "failed"},
               excluded : BOOLEAN, source : BOOLEAN, terminated : BOOLEAN,
               cleanup : {"retained", "cleanup_waiting", "cleanup_candidate"}]
Upload == [pc : {"none", "reserved", "streaming", "failing", "confirm", "confirming", "done", "dead"},
           to : Parents \cup {None}, read : Parents \cup {None}, clean : BOOLEAN]
Start == [pc : {"idle", "checked", "done"}, req : Requests \cup {None}, revision : Nat,
          seen : SUBSET Attachments]

NoAttachment == [parent |-> None, state |-> "none", excluded |-> FALSE, source |-> FALSE,
                 terminated |-> FALSE, cleanup |-> "retained"]
NoUpload == [pc |-> "none", to |-> None, read |-> None, clean |-> TRUE]
NoStart == [pc |-> "idle", req |-> None, revision |-> 0, seen |-> {}]

TypeOK ==
  /\ TurnTypeOK
  /\ draft \in Draft
  /\ att \in [Attachments -> Attachment]
  /\ upload \in [Attachments -> Upload]
  /\ start \in [Convs -> Start]
  /\ ledger \in [Requests -> Convs \cup {None}]
  /\ losses \in 0..MaxLosses

\* The rows an empty conversation may have had when the migration fenced it.
LegacyRow(ended) == [NoAttachment EXCEPT !.parent = "legacy", !.state = "attached",
                                         !.source = TRUE, !.terminated = ended]
LegacyRows ==
  {[a \in Attachments |-> IF a \in old THEN LegacyRow(ended) ELSE NoAttachment] :
     old \in SUBSET Attachments, ended \in BOOLEAN}

Init ==
  /\ TurnInit
  /\ draft = [state |-> "none", revision |-> 0, late |-> FALSE, bound |-> None]
  /\ att \in LegacyRows
  /\ upload = [a \in Attachments |-> NoUpload]
  /\ start = [c \in Convs |-> NoStart]
  /\ ledger = [q \in Requests |-> None]
  /\ losses = 0

----------------------------------------------------------------------------
\* Mutants: a bound draft still accepted; a change of the manifest that keeps
\* its revision; exclusion taken as proof that the upload stopped.
SilentlyTouched(d) == [d EXCEPT !.late = FALSE]
BusyUnlessExcluded(row) == ~row.terminated /\ ~row.excluded
\* require_open.
Open == draft.state = "open" /\ ~draft.late
\* touch_manifest: a new revision and a new time to live.
TouchedDraft(d) == [d EXCEPT !.revision = @ + 1, !.late = FALSE]
\* The rows the owner is shown as part of the draft.
Manifest == {a \in Attachments : att[a].parent = "draft" /\ ~att[a].excluded}
Members(rows, p) == {a \in Attachments : rows[a].parent = p}

\* upload_busy.
UploadBusy(row) == ~row.terminated

\* assess_attachment_cleanup for one row of an ended parent.  A row with an
\* exact source is never complete, whatever is listed for it.  (The mutant does
\* not wait for the executions of the conversation.)
AssessedWithoutTurns(row, turnsOver) ==
  [row EXCEPT !.cleanup = IF row.terminated /\ ~row.source
                          THEN "cleanup_candidate" ELSE "cleanup_waiting"]
Assessed(row, turnsOver) ==
  [row EXCEPT !.cleanup = IF row.terminated /\ turnsOver /\ ~row.source
                          THEN "cleanup_candidate" ELSE "cleanup_waiting"]
\* reconcile_deleted_attachments and reconcile_draft_attachments.
Reconciled(rows, p, turnsOver) ==
  [a \in Attachments |-> IF rows[a].parent = p THEN Assessed(rows[a], turnsOver) ELSE rows[a]]
TurnsOver(turns) == \A q \in Requests : turns[q].status # "none" => turns[q].terminated

\* AttachmentDraftService.create_draft; a repeated request finds the row.
CreateDraft ==
  /\ draft.state = "none" /\ Members(att, "legacy") = {}
  /\ draft' = [draft EXCEPT !.state = "open", !.revision = 1]
  /\ UNCHANGED <<turnVars, att, upload, start, ledger, losses>>

\* AttachmentDraftService.restore_legacy: the second transaction moves the rows
\* of the fenced conversation when all their writers have ended.
RestoreLegacy ==
  /\ draft.state = "none"
  /\ \A a \in Members(att, "legacy") : ~UploadBusy(att[a])
  /\ draft' = [draft EXCEPT !.state = "open", !.revision = 1]
  /\ att' = [a \in Attachments |->
               IF att[a].parent = "legacy" THEN [att[a] EXCEPT !.parent = "draft"] ELSE att[a]]
  /\ UNCHANGED <<turnVars, upload, start, ledger, losses>>

\* expires_at passes.
TimePasses ==
  /\ draft.state = "open" /\ ~draft.late
  /\ draft' = [draft EXCEPT !.late = TRUE]
  /\ UNCHANGED <<turnVars, att, upload, start, ledger, losses>>

\* detail_draft, reconcile and list_draft_cleanup: the open draft whose time is
\* over expires, and an ended draft has its rows assessed.
ExpireDraft ==
  /\ (draft.state = "open" /\ draft.late) \/ draft.state \in {"abandoned", "expired"}
  /\ draft' = [draft EXCEPT !.state = IF @ = "open" THEN "expired" ELSE @]
  /\ att' = Reconciled(att, "draft", TRUE)
  /\ UNCHANGED <<turnVars, upload, start, ledger, losses>>

\* AttachmentDraftService.abandon with the current revision.
Abandon ==
  /\ Open
  /\ draft' = TouchedDraft([draft EXCEPT !.state = "abandoned"])
  /\ att' = Reconciled(att, "draft", TRUE)
  /\ UNCHANGED <<turnVars, upload, start, ledger, losses>>

\* AttachmentDraftService.exclude with the current revision.
Exclude(a) ==
  /\ Open /\ a \in Manifest
  /\ draft' = TouchedDraft(draft)
  /\ att' = [att EXCEPT ![a].excluded = TRUE]
  /\ UNCHANGED <<turnVars, upload, start, ledger, losses>>

----------------------------------------------------------------------------
\* ConversationAttachmentService.authorize with lock, for either parent.
Authorized(p) == IF p = "draft" THEN Open ELSE conv[p] = "active"

\* reserve_draft (a new manifest revision) and reserve (none).
Reserve(a, p) ==
  /\ att[a].parent = None /\ Authorized(p)
  /\ att' = [att EXCEPT ![a].parent = p, ![a].state = "uploading"]
  /\ upload' = [upload EXCEPT ![a].pc = "reserved", ![a].to = p]
  /\ draft' = IF p = "draft" THEN TouchedDraft(draft) ELSE draft
  /\ UNCHANGED <<turnVars, start, ledger, losses>>

\* The condition under which an upload may still change its row
\* (require_upload_binding after authorize).
Bindable(a) ==
  /\ Authorized(upload[a].to)
  /\ att[a].state = "uploading" /\ ~att[a].excluded /\ att[a].parent = upload[a].to

\* ConversationUploadJournal.reserved, in the transaction that inserts the intake.
ReserveIntake(a) ==
  /\ upload[a].pc = "reserved" /\ Bindable(a)
  /\ att' = [att EXCEPT ![a].source = TRUE]
  /\ upload' = [upload EXCEPT ![a].pc = "streaming"]
  /\ UNCHANGED <<turnVars, draft, start, ledger, losses>>

\* prepare_attachment and attach, in the attachment transaction of the upload;
\* clean says whether the intake was cleaned up afterwards.  The answer of the
\* commit may be lost.
Attach(a, clean) ==
  /\ upload[a].pc = "streaming" /\ Bindable(a)
  /\ att' = [att EXCEPT ![a].state = "attached"]
  /\ \/ /\ upload' = [upload EXCEPT ![a].pc = "confirm", ![a].clean = clean]
        /\ UNCHANGED losses
     \/ /\ losses < MaxLosses /\ losses' = losses + 1
        /\ upload' = [upload EXCEPT ![a].pc = "failing", ![a].clean = clean]
  /\ UNCHANGED <<turnVars, draft, start, ledger>>

\* The storage permission was withdrawn, the transfer fails or is cancelled, or
\* the row may no longer be changed.  Without an intake nothing is left behind.
UploadFails(a, clean) ==
  /\ upload[a].pc = "streaming" \/ (upload[a].pc = "reserved" /\ clean)
  /\ upload' = [upload EXCEPT ![a].pc = "failing", ![a].clean = clean]
  /\ UNCHANGED <<turnVars, draft, att, start, ledger, losses>>

\* ConversationAttachmentService.fail.
Fail(a) ==
  /\ upload[a].pc = "failing"
  /\ att' = [att EXCEPT ![a].state = IF @ = "uploading" THEN "failed" ELSE @]
  /\ upload' = [upload EXCEPT ![a].pc = "confirm"]
  /\ UNCHANGED <<turnVars, draft, start, ledger, losses>>

\* confirm_upload_termination reads the parents of the row without a lock ...
ConfirmReads(a) ==
  /\ upload[a].pc = "confirm"
  /\ upload' = [upload EXCEPT ![a].pc = "confirming", ![a].read = att[a].parent]
  /\ UNCHANGED <<turnVars, draft, att, start, ledger, losses>>

\* ... then locks them, records the termination and assesses an ended parent.
ConfirmTermination(a) ==
  LET p == upload[a].read
      rows == [att EXCEPT ![a].terminated = @ \/ upload[a].clean]
  IN /\ upload[a].pc = "confirming"
     /\ upload' = [upload EXCEPT ![a].pc = "done"]
     /\ att' = IF p = "draft"
               THEN IF draft.state \in {"abandoned", "expired"}
                    THEN Reconciled(rows, p, TRUE) ELSE rows
               ELSE IF conv[p] = "deleted" THEN Reconciled(rows, p, TurnsOver(turn[p])) ELSE rows
     /\ UNCHANGED <<turnVars, draft, start, ledger, losses>>

\* The process dies in the middle of an upload.
UploadDies(a) ==
  /\ losses < MaxLosses /\ losses' = losses + 1
  /\ upload[a].pc \in {"reserved", "streaming", "failing", "confirm", "confirming"}
  /\ upload' = [upload EXCEPT ![a].pc = "dead"]
  /\ UNCHANGED <<turnVars, draft, att, start, ledger>>

----------------------------------------------------------------------------
\* ConversationService.start, up to the transaction: the ledger is read, the
\* scope resolved.  The request carries the manifest revision its owner saw.
StartCheck(c, q) ==
  /\ start[c].pc = "idle" /\ draft.state # "none" /\ ledger[q] = None
  /\ start' = [start EXCEPT ![c] = [pc |-> "checked", req |-> q,
                                    revision |-> draft.revision, seen |-> Manifest]]
  /\ UNCHANGED <<turnVars, draft, att, upload, ledger, losses>>

\* A request the ledger already has returns its conversation, recovered.
StartReplay(q) ==
  /\ ledger[q] # None /\ Detail(ledger[q])
  /\ UNCHANGED draftVars

\* SqlAlchemyConversationRepository.start accepts: conversation, first turn,
\* ledger row and binding of the draft, in one transaction.
StartAccept(c) ==
  LET q == start[c].req
  IN /\ start[c].pc = "checked"
     /\ ledger[q] = None
     /\ Open /\ draft.revision = start[c].revision
     /\ \A a \in Members(att, "draft") : ~UploadBusy(att[a])
     /\ StartConversation(c, q)
     /\ ledger' = [ledger EXCEPT ![q] = c]
     /\ draft' = [draft EXCEPT !.state = "bound", !.bound = c]
     /\ att' = [a \in Attachments |->
                  IF att[a].parent = "draft" THEN [att[a] EXCEPT !.parent = c] ELSE att[a]]
     /\ start' = [start EXCEPT ![c].pc = "done"]
     /\ UNCHANGED <<upload, losses>>

\* ... or refuses: stale or bound draft, busy upload, withdrawn permission,
\* changed connection, or a request that meanwhile has its conversation.
StartRefuse(c) ==
  /\ start[c].pc = "checked"
  /\ start' = [start EXCEPT ![c] = [NoStart EXCEPT !.pc = "done"]]
  /\ UNCHANGED <<turnVars, draft, att, upload, ledger, losses>>

\* Turn operations of a conversation that assess its attachments when it is
\* deleted: delete itself, the late termination of an execution, and the lists.
DeleteConversation(c) ==
  /\ Delete(c)
  /\ att' = Reconciled(att, c, TurnsOver(turn'[c]))
  /\ UNCHANGED <<draft, upload, start, ledger, losses>>
FinalizeTurn(c, q, allowed) ==
  /\ Finalize(c, q, allowed)
  /\ att' = IF conv[c] = "deleted" /\ ~work[c][q].lost
            THEN Reconciled(att, c, TurnsOver(turn'[c])) ELSE att
  /\ UNCHANGED <<draft, upload, start, ledger, losses>>
ListCleanup(c) ==
  /\ conv[c] = "deleted"
  /\ att' = Reconciled(att, c, TurnsOver(turn[c]))
  /\ UNCHANGED <<turnVars, draft, upload, start, ledger, losses>>

----------------------------------------------------------------------------
UploadStep(a) ==
  \/ ReserveIntake(a)
  \/ \E clean \in BOOLEAN : Attach(a, clean) \/ UploadFails(a, clean)
  \/ Fail(a) \/ ConfirmReads(a) \/ ConfirmTermination(a)
DraftStep ==
  \/ CreateDraft \/ RestoreLegacy \/ TimePasses \/ ExpireDraft \/ Abandon
  \/ \E q \in Requests : StartReplay(q)
  \/ \E a \in Attachments :
       \/ Exclude(a) \/ UploadStep(a) \/ UploadDies(a)
       \/ \E p \in Convs \cup {"draft"} : Reserve(a, p)
  \/ \E c \in Convs : \/ StartAccept(c) \/ StartRefuse(c) \/ DeleteConversation(c) \/ ListCleanup(c)
                      \/ \E q \in Requests : StartCheck(c, q)
                      \/ \E q \in Requests, allowed \in BOOLEAN : FinalizeTurn(c, q, allowed)
TurnStep ==
  \E c \in Convs :
    \/ Detail(c) \/ Rename(c)
    \/ \E q \in Requests :
         \/ Execution(c, q)
         \/ Attempt(c, q) \/ RemoteEnds(c, q)
         \/ Cancel(c, q) \/ Shutdown(c, q) \/ Die(c, q)
         \/ \E h \in Handlers : SubmitReserve(h) \/ \E late \in BOOLEAN : SubmitCheck(h, c, q, late)
Next == DraftStep \/ (TurnStep /\ UNCHANGED draftVars)

\* The background loop runs its executions to the end.
Fairness ==
  \A c \in Convs, q \in Requests :
    WF_vars(\/ Execution(c, q) /\ UNCHANGED draftVars
            \/ \E allowed \in BOOLEAN : FinalizeTurn(c, q, allowed))

Spec == Init /\ [][Next]_vars /\ Fairness

----------------------------------------------------------------------------
\* A draft is bound to one conversation, with the files its owner saw: concurrent
\* or repeated first questions never make a second one, the ledger, the draft and
\* the conversation name each other, and a reservation or an exclusion in between
\* makes the question stale (repository.start, draft_revision).
DraftBoundOnce ==
  \A c \in Convs : conv[c] # "none" =>
    /\ draft.bound = c /\ ledger[start[c].req] = c
    /\ start[c].seen = {a \in Attachments : att[a].parent = c /\ upload[a].to # c /\ ~att[a].excluded}

\* The upload state of a row that came from a draft no longer changes in its
\* conversation: no upload that was reserved, excluded or lost before the
\* binding writes after it (upload_busy, require_upload_binding, the unlocked
\* read in confirm_upload_termination).
BoundRowsAreFrozen ==
  [][\A a \in Attachments :
       att[a].parent \in Convs /\ upload[a].to # att[a].parent
         => /\ att'[a].parent = att[a].parent /\ att'[a].state = att[a].state
            /\ att'[a].source = att[a].source /\ att'[a].terminated = att[a].terminated]_vars

\* A row is offered for clean-up only when nobody can use it any more: its
\* parent has ended, its upload has ended without a source, and no model server
\* works on a question of its conversation.  It stays so.
CandidateIsUnused ==
  \A a \in Attachments : att[a].cleanup = "cleanup_candidate" =>
    /\ att[a].state = "failed" /\ ~att[a].source /\ upload[a].pc \in {"done", "dead"}
    /\ IF att[a].parent = "draft" THEN draft.state \in {"abandoned", "expired"}
       ELSE /\ conv[att[a].parent] = "deleted"
            /\ \A q \in Requests : remote[att[a].parent][q] = {}

=============================================================================
