----------------------------- MODULE Publishing -----------------------------
(***************************************************************************)
(* Publication of studies: PublishingService over the private database and *)
(* the public SQLite store.  A request records a numbered command in the   *)
(* private database, delivers it to the public store in a thread, and      *)
(* acknowledges the receipt in the private database.  Each part may fail   *)
(* and the client repeats the request under the same request_id.           *)
(*                                                                         *)
(* A snapshot's digest stands for its revision number and content, as its  *)
(* slug is compared apart.  An error code is present or absent.  A request *)
(* that is refused before it has written anything (404, 409, 422) changes  *)
(* nothing and is no step.  A private commit that fails is the Crash of    *)
(* its request: the transaction is rolled back and the caller gets a 503.  *)
(***************************************************************************)
EXTENDS Naturals, Sequences, FiniteSets

CONSTANTS
    Calls,        \* executions of publish, publish_initial and withdraw
    Slugs,        \* studies
    RequestIds,   \* request_id values that clients use
    Contents,     \* study contents
    None,         \* no content
    MaxRevision,  \* bound on the revisions of a study
    MaxRevised    \* bound on the studies with more than one revision

ASSUME PublishingAssumption ==
    MaxRevision \in Nat \ {0} /\ MaxRevised \in Nat /\ None \notin Contents

VARIABLES
    study,      \* study[s]: the row of publishing_studies, revision 0 when there is none
    revisions,  \* revisions[s]: contents of the rows of publishing_revisions, in order
    commands,   \* what the rows of publishing_commands say once and for all
    applied,    \* request ids of the commands with an applied_at
    failed,     \* request ids of the commands with a delivery_error_code
    public,     \* rows of public_study_projections
    history,    \* rows of public_request_history
    holder,     \* holder[s]: the call that holds the study row (locked or not yet committed)
    pc,         \* pc[p]: where a call is
    call,       \* call[p]: the request that a call is preparing
    sending     \* sending[p]: the command that a call delivers, then its receipt

private == <<study, revisions, commands, applied, failed>>
store == <<public, history>>
vars == <<study, revisions, commands, applied, failed, public, history, holder, pc, call, sending>>

Actions == {"publish", "withdraw"}
Revision == 1 .. MaxRevision
Digest == [revision : Revision, content : Contents]
NoDigest == [revision |-> 0, content |-> None]

\* A request of publish or withdraw, with any revision and digest that a client may name
CommandRequest ==
    [slug : Slugs, action : Actions, revision : Revision, digest : Digest,
     request : RequestIds, initial : {FALSE}]

\* A request of publish_initial: its package is revision 1 and its digest that of its content.
InitialRequest ==
    [slug : Slugs, action : {"publish"}, revision : {1}, digest : [revision : {1}, content : Contents],
     request : RequestIds, initial : {TRUE}]

Request == CommandRequest \cup InitialRequest

CommandRow ==
    [request : RequestIds, slug : Slugs, sequence : Nat \ {0}, action : Actions,
     revision : Revision, digest : Digest]

\* A PublicationCommand; its receipt carries the same slug, sequence, request and action.
Publication ==
    [request : RequestIds, slug : Slugs, sequence : Nat \ {0}, action : Actions,
     digest : Digest \cup {NoDigest}]

\* applied_sequence, applied_action and applied_revision
Acknowledgement ==
    [sequence : Nat, action : Actions \cup {"none"}, revision : 0 .. MaxRevision]

StudyRow ==
    [revision : 0 .. MaxRevision, sequence : Nat, approved : Digest \cup {NoDigest},
     last : Acknowledgement]

Place ==
    {"idle", "create", "insert", "reinsert", "race", "waiting", "orphan", "receipt", "refused"}

TypeOK ==
    /\ study \in [Slugs -> StudyRow]
    /\ revisions \in [Slugs -> Seq(Contents)]
    /\ commands \subseteq CommandRow
    /\ applied \subseteq RequestIds
    /\ failed \subseteq RequestIds
    /\ public \subseteq Publication
    /\ history \subseteq Publication
    /\ holder \in [Slugs -> SUBSET Calls]
    /\ pc \in [Calls -> Place]
    /\ call \in [Calls -> SUBSET Request]
    /\ sending \in [Calls -> SUBSET Publication]

Row(revision, sequence, approved, last) ==
    [revision |-> revision, sequence |-> sequence, approved |-> approved, last |-> last]

NoAcknowledgement == [sequence |-> 0, action |-> "none", revision |-> 0]

\* No row, and the one of _new_study_rows
NoStudy == Row(0, 0, NoDigest, NoAcknowledgement)
NewStudy == Row(1, 0, NoDigest, NoAcknowledgement)

Init ==
    /\ study = [s \in Slugs |-> NoStudy]
    /\ revisions = [s \in Slugs |-> <<>>]
    /\ commands = {}
    /\ applied = {}
    /\ failed = {}
    /\ public = {}
    /\ history = {}
    /\ holder = [s \in Slugs |-> {}]
    /\ pc = [p \in Calls |-> "idle"]
    /\ call = [p \in Calls |-> {}]
    /\ sending = [p \in Calls |-> {}]

Exists(s) == study[s].revision > 0

\* No transaction has the study row locked, or inserted and not committed.
Unlocked(s) == holder[s] = {}

CurrentDigest(s) ==
    [revision |-> study[s].revision, content |-> revisions[s][study[s].revision]]

\* The command row that has the sequence number of its study.
IsCurrent(c) == c.sequence = study[c.slug].sequence

\* A call ends, and its transaction with it.
Finish(p) ==
    /\ pc' = [pc EXCEPT ![p] = "idle"]
    /\ call' = [call EXCEPT ![p] = {}]
    /\ sending' = [sending EXCEPT ![p] = {}]

Release(p) == holder' = [s \in Slugs |-> holder[s] \ {p}]

----------------------------------------------------------------------------
(* Drafts.                                                                   *)

\* PublishingRepository.create
Create(s, content) ==
    /\ Unlocked(s)
    /\ ~Exists(s)
    /\ study' = [study EXCEPT ![s] = NewStudy]
    /\ revisions' = [revisions EXCEPT ![s] = <<content>>]
    /\ UNCHANGED <<commands, applied, failed, store, holder, pc, call, sending>>

\* PublicationDraft.revise: the approval was for the old revision.
Revised(row) == Row(row.revision + 1, row.sequence, NoDigest, row.last)

\* PublishingRepository.update, by a client that has seen revision "expected"
Update(s, expected, content) ==
    /\ Unlocked(s)
    /\ Exists(s)
    /\ expected = study[s].revision
    /\ expected < MaxRevision
    /\ Cardinality({t \in Slugs \ {s} : study[t].revision > 1}) < MaxRevised
    /\ study' = [study EXCEPT ![s] = Revised(@)]
    /\ revisions' = [revisions EXCEPT ![s] = Append(@, content)]
    /\ UNCHANGED <<commands, applied, failed, store, holder, pc, call, sending>>

----------------------------------------------------------------------------
(* PublishingService._execute and publish_initial: the command is recorded.  *)

\* _fingerprint of a request and of the row it made, which share the request_id.
SameFingerprint(c, q) ==
    /\ c.slug = q.slug
    /\ c.action = q.action
    /\ c.revision = q.revision
    /\ c.digest = q.digest

\* _command_from_row
CommandFromRow(c) ==
    [request |-> c.request, slug |-> c.slug, sequence |-> c.sequence, action |-> c.action,
     digest |-> IF c.action = "publish" THEN c.digest ELSE NoDigest]

Known(request) == \E c \in commands : c.request = request

\* _prepared_existing with should_deliver
Deliverable(c, q) ==
    /\ c.request = q.request
    /\ SameFingerprint(c, q)
    /\ IsCurrent(c)
    /\ c.request \notin applied

Replay(p, q) ==
    \E c \in commands :
        /\ Deliverable(c, q)
        /\ sending' = [sending EXCEPT ![p] = {CommandFromRow(c)}]
        /\ call' = [call EXCEPT ![p] = {}]
        /\ pc' = [pc EXCEPT ![p] = "waiting"]
        /\ UNCHANGED holder

\* Mutant: the digest that the client has seen is not compared.
\* The checks of _prepare_command_locked, of approve and of withdraw on a new request.
Acceptable(q) ==
    /\ ~Known(q.request)
    /\ q.digest = CurrentDigest(q.slug)
    /\ q.revision = study[q.slug].revision

Accept(p, q, place) ==
    /\ Acceptable(q)
    /\ holder' = [holder EXCEPT ![q.slug] = {p}]
    /\ call' = [call EXCEPT ![p] = {q}]
    /\ pc' = [pc EXCEPT ![p] = place]
    /\ UNCHANGED sending

PrepareCommand(p, q) ==
    /\ pc[p] = "idle"
    /\ Unlocked(q.slug)
    /\ Exists(q.slug)
    /\ Replay(p, q) \/ Accept(p, q, "insert")
    /\ UNCHANGED <<private, store>>

\* is_fresh or is_exact_replay of _prepare_initial_locked
InitialAllowed(q) ==
    /\ Exists(q.slug)
    /\ CurrentDigest(q.slug) = q.digest
    /\ study[q.slug].revision = 1
    /\ \/ study[q.slug].sequence = 0
       \/ /\ study[q.slug].sequence = 1
          /\ \E c \in commands : c.slug = q.slug /\ IsCurrent(c) /\ c.request = q.request

\* SELECT ... FOR UPDATE locks nothing when there is no row.
PrepareInitial(p, q) ==
    /\ pc[p] = "idle"
    /\ \/ /\ Unlocked(q.slug)
          /\ InitialAllowed(q)
          /\ Replay(p, q) \/ Accept(p, q, "insert")
       \/ /\ ~Exists(q.slug)
          /\ call' = [call EXCEPT ![p] = {q}]
          /\ pc' = [pc EXCEPT ![p] = "create"]
          /\ UNCHANGED <<holder, sending>>
    /\ UNCHANGED <<private, store>>

\* The flush of a new study row waits for another one of the same slug and fails if that
\* was committed.  A request_id of another study is a conflict.
CreateStudy(p) ==
    /\ pc[p] = "create"
    /\ \E q \in call[p] :
        /\ Unlocked(q.slug)
        /\ \/ /\ Exists(q.slug)
              /\ pc' = [pc EXCEPT ![p] = "race"]
              /\ UNCHANGED <<holder, call, sending>>
           \/ /\ ~Exists(q.slug) /\ ~Known(q.request)
              /\ holder' = [holder EXCEPT ![q.slug] = {p}]
              /\ pc' = [pc EXCEPT ![p] = "insert"]
              /\ UNCHANGED <<call, sending>>
           \/ /\ ~Exists(q.slug) /\ Known(q.request)
              /\ Finish(p)
              /\ UNCHANGED holder
    /\ UNCHANGED <<private, store>>

\* The study row after PublicationDraft.publish or withdraw
Sequenced(row, q) ==
    Row(row.revision, row.sequence + 1, IF q.action = "publish" THEN q.digest ELSE NoDigest,
        row.last)

\* The study row in the transaction that a call has open
OpenRow(s) == IF Exists(s) THEN study[s] ELSE NewStudy

NewCommand(q) ==
    [request |-> q.request, slug |-> q.slug, sequence |-> OpenRow(q.slug).sequence + 1,
     action |-> q.action, revision |-> q.revision, digest |-> q.digest]

\* The new command is inserted and the transaction committed; the connection may be
\* lost before the answer, and then the call ends.
InsertCommand(p) ==
    /\ pc[p] \in {"insert", "reinsert"}
    /\ \E q \in call[p] :
        /\ ~Known(q.request)
        /\ study' = [study EXCEPT ![q.slug] = Sequenced(OpenRow(q.slug), q)]
        /\ revisions' = IF Exists(q.slug) THEN revisions
                        ELSE [revisions EXCEPT ![q.slug] = <<q.digest.content>>]
        /\ commands' = commands \cup {NewCommand(q)}
        /\ \/ /\ sending' = [sending EXCEPT ![p] = {CommandFromRow(NewCommand(q))}]
              /\ call' = [call EXCEPT ![p] = {}]
              /\ pc' = [pc EXCEPT ![p] = "waiting"]
           \/ Finish(p)
    /\ Release(p)
    /\ UNCHANGED <<applied, failed, store>>

\* IntegrityError: a call for another study has committed the same request_id.
InsertConflicts(p) ==
    /\ pc[p] \in {"insert", "reinsert"}
    /\ \E q \in call[p] : Known(q.request)
    /\ Release(p)
    /\ \/ /\ pc[p] = "insert"
          /\ pc' = [pc EXCEPT ![p] = "race"]
          /\ UNCHANGED <<call, sending>>
       \/ pc[p] = "reinsert" /\ Finish(p)
    /\ UNCHANGED <<private, store>>

\* _resolve_request_race, which takes no lock
ResolveRequestRace(p) ==
    /\ pc[p] = "race"
    /\ \E q \in call[p] :
        /\ ~q.initial
        /\ IF \E c \in commands : Deliverable(c, q)
           THEN Replay(p, q)
           ELSE Finish(p) /\ UNCHANGED holder
    /\ UNCHANGED <<private, store>>

\* _resolve_initial_race: a study that is not there is a 503, any other conflict a 409.
ResolveInitialRace(p) ==
    /\ pc[p] = "race"
    /\ \E q \in call[p] :
        /\ q.initial
        /\ Unlocked(q.slug)
        /\ IF InitialAllowed(q) /\ (Acceptable(q) \/ \E c \in commands : Deliverable(c, q))
           THEN Replay(p, q) \/ Accept(p, q, "reinsert")
           ELSE Finish(p) /\ UNCHANGED holder
    /\ UNCHANGED <<private, store>>

----------------------------------------------------------------------------
(* _deliver_prepared                                                         *)

\* Mutant: an older command replaces a newer one.
AppliesMutant(x) ==
    \A y \in public : y.slug = x.slug => x = y \/ y.request # x.request

\* PublicStudyProjection.apply on the projection of the command's study
Applies(x) ==
    \A y \in public :
        y.slug = x.slug => x = y \/ (y.sequence < x.sequence /\ y.request # x.request)

\* Mutant: a request that was applied before is a conflict.
\* SqlitePublicStudyWriter.apply: a request that was applied before gets its receipt again.
Admitted(x) ==
    IF \E h \in history : h.request = x.request THEN x \in history ELSE Applies(x)

Projected(x) ==
    IF x \in history THEN public ELSE {y \in public : y.slug # x.slug} \cup {x}

\* The thread of asyncio.to_thread runs on when its call has been cancelled.
Apply(p) ==
    /\ pc[p] \in {"waiting", "orphan"}
    /\ \E x \in sending[p] :
        /\ Admitted(x)
        /\ public' = Projected(x)
        /\ history' = history \cup {x}
    /\ \/ /\ pc[p] = "waiting"
          /\ pc' = [pc EXCEPT ![p] = "receipt"]
          /\ UNCHANGED <<call, sending>>
       \/ pc[p] = "orphan" /\ Finish(p)
    /\ UNCHANGED <<private, holder>>

\* The store refuses the command, is unavailable, or the delivery is manual.  (When the call
\* has been cancelled nobody hears of it: see Crash.)
DeliveryFails(p) ==
    /\ pc[p] = "waiting"
    /\ pc' = [pc EXCEPT ![p] = "refused"]
    /\ UNCHANGED <<private, store, holder, call, sending>>

Cancel(p) ==
    /\ pc[p] = "waiting"
    /\ pc' = [pc EXCEPT ![p] = "orphan"]
    /\ UNCHANGED <<private, store, holder, call, sending>>

\* The row of a receipt: acknowledge raises a conflict when there is none.
ReceiptOf(x, c) ==
    /\ c.request = x.request
    /\ c.slug = x.slug
    /\ c.sequence = x.sequence
    /\ c.action = x.action

AcknowledgementOf(c) ==
    [sequence |-> c.sequence, action |-> c.action,
     revision |-> IF c.action = "publish" THEN c.revision ELSE 0]

\* The study row after the acknowledgement of command c
Acknowledged(row, c) ==
    IF c.sequence > row.last.sequence
    THEN Row(row.revision, row.sequence, row.approved, AcknowledgementOf(c))
    ELSE row

\* PublishingRepository.acknowledge; the call ends, whether or not the answer arrives.
Acknowledge(p) ==
    /\ pc[p] = "receipt"
    /\ \E x \in sending[p], c \in commands :
        /\ ReceiptOf(x, c)
        /\ Unlocked(c.slug)
        /\ applied' = applied \cup {c.request}
        /\ failed' = failed \ {c.request}
        /\ study' = [study EXCEPT ![c.slug] = Acknowledged(@, c)]
    /\ Finish(p)
    /\ UNCHANGED <<revisions, commands, store, holder>>

\* A failure that comes after the acknowledgement is not recorded.
Erred(x) == IF x.request \in applied THEN failed ELSE failed \cup {x.request}

\* PublishingRepository.record_delivery_failure
RecordDeliveryFailure(p) ==
    /\ pc[p] = "refused"
    /\ \E x \in sending[p] :
        /\ Unlocked(x.slug)
        /\ failed' = Erred(x)
    /\ Finish(p)
    /\ UNCHANGED <<study, revisions, commands, applied, store, holder>>

\* The process stops, the call is cancelled or its transaction is not committed.
Crash(p) ==
    /\ pc[p] # "idle"
    /\ Finish(p)
    /\ Release(p)
    /\ UNCHANGED <<private, store>>

Next ==
    \/ \E s \in Slugs, content \in Contents :
        \/ Create(s, content)
        \/ \E expected \in Revision : Update(s, expected, content)
    \/ \E p \in Calls :
        \/ \E q \in CommandRequest : PrepareCommand(p, q)
        \/ \E q \in InitialRequest : PrepareInitial(p, q)
        \/ CreateStudy(p) \/ InsertCommand(p) \/ InsertConflicts(p)
        \/ ResolveRequestRace(p) \/ ResolveInitialRace(p)
        \/ Apply(p) \/ DeliveryFails(p) \/ Cancel(p)
        \/ Acknowledge(p) \/ RecordDeliveryFailure(p) \/ Crash(p)

Spec == Init /\ [][Next]_vars

----------------------------------------------------------------------------
(* Properties.                                                               *)

\* A study can be read at any time: _state_from_rows finds the command of the study's
\* sequence number, finds a pending one unapplied, and an approval is of the current package.
StateReadable ==
    \A s \in Slugs : Exists(s) =>
        /\ study[s].approved \in {NoDigest, CurrentDigest(s)}
        /\ study[s].sequence > 0 => \E c \in commands : c.slug = s /\ IsCurrent(c)
        /\ study[s].sequence > study[s].last.sequence =>
            \A c \in commands : c.slug = s /\ IsCurrent(c) => c.request \notin applied

\* Whatever failed before, a pending command is one that the public store admits, so that
\* its repetition under the same request_id can succeed.
PendingDeliverable ==
    \A c \in commands :
        IsCurrent(c) /\ c.request \notin applied => Admitted(CommandFromRow(c))

\* The public store shows what the private database recorded a command for: a published
\* package is a stored revision with its own content, that the request named.
PublicWasDecided ==
    \A x \in public :
        /\ \E c \in commands : x = CommandFromRow(c)
        /\ x.action = "publish" =>
            /\ x.digest.revision <= Len(revisions[x.slug])
            /\ x.digest.content = revisions[x.slug][x.digest.revision]

\* A command that was acknowledged carries no delivery error, however late the failure of
\* another delivery of it is recorded.
AppliedHasNoError == applied \cap failed = {}

\* The decisions, the public view and the confirmations of PublishedStudy
DecisionOf(c) ==
    [sequence |-> c.sequence, action |-> c.action,
     revision |-> IF c.action = "publish" THEN c.digest.revision ELSE 0]

Decided == [s \in Slugs |-> {DecisionOf(c) : c \in {d \in commands : d.slug = s}}]

Shown == [s \in Slugs |-> {DecisionOf(x) : x \in {y \in public : y.slug = s}}]

Confirmed ==
    [s \in Slugs |-> IF study[s].last.sequence = 0 THEN {} ELSE {study[s].last}]

Abstract ==
    INSTANCE PublishedStudy WITH decided <- Decided, shown <- Shown, confirmed <- Confirmed

\* Through crashes, repetitions, cancelled calls and deliveries that overtake each other,
\* publishing does only what PublishedStudy allows: decisions in order, a public view that
\* never goes back, and no confirmation ahead of it.
ImplementsPublishedStudy == Abstract!Spec
============================================================================
