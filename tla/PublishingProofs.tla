-------------------------- MODULE PublishingProofs --------------------------
(***************************************************************************)
(* Proofs about Publishing for any number of calls, studies, request ids   *)
(* and contents.  The properties relate the two stores; what makes them    *)
(* inductive is that commands are written under the lock of their study    *)
(* with the package that it has, that whatever is on its way, in the       *)
(* history or in the public store is the command of some row, and that the *)
(* public store is never behind its own history.                           *)
(***************************************************************************)
EXTENDS Publishing, TLAPS

\* A study has as many revision rows as its current revision says, and nothing before it exists.
RowsAgree ==
    \A s \in Slugs :
        /\ Len(revisions[s]) = study[s].revision
        /\ ~Exists(s) => study[s] = NoStudy

\* A command names a stored package and is numbered no higher than its study, whose own
\* number is that of a command.
CommandsCounted ==
    /\ \A c \in commands :
        /\ c.sequence <= study[c.slug].sequence
        /\ c.revision = c.digest.revision
        /\ c.digest.revision <= Len(revisions[c.slug])
        /\ c.digest.content = revisions[c.slug][c.digest.revision]
    /\ \A s \in Slugs : study[s].sequence > 0 =>
        \E c \in commands : c.slug = s /\ c.sequence = study[s].sequence

\* The numbers of a study's commands are distinct, and so are their request ids: neither
\* unique constraint is left with a row that the code does not look for.
CommandsUnique ==
    \A c, d \in commands :
        c.request = d.request \/ (c.slug = d.slug /\ c.sequence = d.sequence) => c = d

\* An approval is of the current package.
ApprovalIsCurrent ==
    \A s \in Slugs : Exists(s) => study[s].approved \in {NoDigest, CurrentDigest(s)}

\* A call that is about to insert holds its study, and has checked it or is creating it.
HolderChecked(p) ==
    /\ pc[p] \in {"insert", "reinsert"} =>
        \A q \in call[p] :
            /\ holder[q.slug] = {p}
            /\ IF Exists(q.slug)
               THEN q.digest = CurrentDigest(q.slug) /\ q.revision = study[q.slug].revision
               ELSE q \in InitialRequest
    /\ pc[p] = "create" => \A q \in call[p] : call[p] = {q} /\ q \in InitialRequest

\* A call sends one command at most, that of a row, and a receipt is of an applied one.
SendsCommand(p) ==
    \A x \in sending[p] :
        /\ sending[p] = {x}
        /\ \E c \in commands : x = CommandFromRow(c)
        /\ pc[p] = "receipt" => x \in history

CallsChecked == \A p \in Calls : HolderChecked(p) /\ SendsCommand(p)

\* What the public store has seen is the command of a row; it holds one projection per
\* study, the last of its history.
PublicIsLatest ==
    /\ \A h \in history : \E c \in commands : h = CommandFromRow(c)
    /\ public \subseteq history
    /\ \A x, y \in public : x.slug = y.slug => x = y
    /\ \A h \in history : \E x \in public : x.slug = h.slug /\ h.sequence <= x.sequence

\* An acknowledged command is in the history and counted in its study, and what a study
\* says of its last acknowledgement is said of one of its commands.
AppliedAreCounted ==
    /\ \A c \in commands : c.request \in applied =>
        /\ CommandFromRow(c) \in history
        /\ c.sequence <= study[c.slug].last.sequence
    /\ \A r \in applied : Known(r)
    /\ \A s \in Slugs : study[s].last.sequence > 0 =>
        \E c \in commands :
            /\ c.slug = s
            /\ c.request \in applied
            /\ study[s].last = AcknowledgementOf(c)

PublishingInv ==
    /\ RowsAgree
    /\ CommandsCounted
    /\ CommandsUnique
    /\ ApprovalIsCurrent
    /\ CallsChecked
    /\ PublicIsLatest
    /\ AppliedAreCounted
    /\ AppliedHasNoError

Inv == TypeOK /\ PublishingInv

----------------------------------------------------------------------------
(* Types.                                                                    *)

LEMMA RequestType ==
    ASSUME NEW q \in Request
    PROVE  /\ q.slug \in Slugs /\ q.action \in Actions /\ q.revision \in Revision
           /\ q.digest \in Digest /\ q.request \in RequestIds
  <1>1. CASE q \in CommandRequest
    BY <1>1 DEF CommandRequest
  <1>2. CASE q \in InitialRequest
    BY <1>2, PublishingAssumption DEF InitialRequest, Actions, Revision, Digest
  <1>. QED  BY <1>1, <1>2 DEF Request

LEMMA PublicationType ==
    ASSUME NEW c \in CommandRow
    PROVE  CommandFromRow(c) \in Publication
  BY DEF CommandFromRow, CommandRow, Publication

LEMMA RowTypes ==
    ASSUME NEW row \in StudyRow
    PROVE  /\ row.revision < MaxRevision => Revised(row) \in StudyRow
           /\ \A q \in Request : Sequenced(row, q) \in StudyRow
           /\ \A c \in CommandRow : Acknowledged(row, c) \in StudyRow
  <1>1. row.revision < MaxRevision => Revised(row) \in StudyRow
    BY PublishingAssumption DEF Revised, Row, StudyRow
  <1>2. ASSUME NEW q \in Request PROVE Sequenced(row, q) \in StudyRow
    BY RequestType DEF Sequenced, Row, StudyRow
  <1>3. ASSUME NEW c \in CommandRow PROVE Acknowledged(row, c) \in StudyRow
    <2>1. AcknowledgementOf(c) \in Acknowledgement
      BY PublishingAssumption DEF AcknowledgementOf, Acknowledgement, CommandRow, Revision
    <2>. QED  BY <2>1 DEF Acknowledged, Row, StudyRow
  <1>. QED  BY <1>1, <1>2, <1>3

LEMMA NewRowTypes == NoStudy \in StudyRow /\ NewStudy \in StudyRow
  BY PublishingAssumption DEF NoStudy, NewStudy, Row, NoAcknowledgement, StudyRow, Acknowledgement

LEMMA NewCommandType ==
    ASSUME TypeOK, NEW q \in Request
    PROVE  /\ OpenRow(q.slug) \in StudyRow
           /\ NewCommand(q) \in CommandRow
  <1>1. OpenRow(q.slug) \in StudyRow
    BY RequestType, NewRowTypes DEF TypeOK, OpenRow
  <1>2. OpenRow(q.slug).sequence + 1 \in Nat \ {0}
    BY <1>1 DEF StudyRow
  <1>. QED  BY <1>1, <1>2, RequestType DEF NewCommand, CommandRow

LEMMA InitType == Init => TypeOK
  BY NewRowTypes DEF Init, TypeOK, Place

\* The end of a call and the release of its locks keep the types of the calls.
LEMMA FinishType ==
    ASSUME TypeOK, NEW p \in Calls, Finish(p)
    PROVE  /\ pc' \in [Calls -> Place]
           /\ call' \in [Calls -> SUBSET Request]
           /\ sending' \in [Calls -> SUBSET Publication]
  BY DEF TypeOK, Finish, Place

LEMMA ReleaseType ==
    ASSUME TypeOK, NEW p \in Calls, Release(p)
    PROVE  holder' \in [Slugs -> SUBSET Calls]
  BY DEF TypeOK, Release

LEMMA ReplayType ==
    ASSUME TypeOK, NEW p \in Calls, NEW q \in Request, Replay(p, q)
    PROVE  /\ pc' \in [Calls -> Place]
           /\ call' \in [Calls -> SUBSET Request]
           /\ sending' \in [Calls -> SUBSET Publication]
           /\ holder' \in [Slugs -> SUBSET Calls]
  BY PublicationType DEF TypeOK, Replay, Place

LEMMA AcceptType ==
    ASSUME TypeOK, NEW p \in Calls, NEW q \in Request, NEW place \in Place,
           Accept(p, q, place)
    PROVE  /\ pc' \in [Calls -> Place]
           /\ call' \in [Calls -> SUBSET Request]
           /\ sending' \in [Calls -> SUBSET Publication]
           /\ holder' \in [Slugs -> SUBSET Calls]
  BY RequestType DEF TypeOK, Accept

LEMMA TypeStep ==
    ASSUME TypeOK, [Next]_vars
    PROVE  TypeOK'
  <1>a. /\ study \in [Slugs -> StudyRow]
        /\ revisions \in [Slugs -> Seq(Contents)]
        /\ holder \in [Slugs -> SUBSET Calls]
        /\ pc \in [Calls -> Place]
        /\ call \in [Calls -> SUBSET Request]
        /\ sending \in [Calls -> SUBSET Publication]
    BY DEF TypeOK
  <1>b. CommandRequest \subseteq Request /\ InitialRequest \subseteq Request
    BY DEF Request
  <1>c. {"insert", "reinsert", "create", "race", "waiting", "orphan", "receipt", "refused"} \subseteq Place
    BY DEF Place
  <1>1. CASE UNCHANGED vars
    BY <1>1 DEF TypeOK, vars
  <1>2. ASSUME NEW s \in Slugs, NEW content \in Contents, Create(s, content)
        PROVE  TypeOK'
    BY <1>2, <1>a, NewRowTypes DEF TypeOK, Create, store
  <1>3. ASSUME NEW s \in Slugs, NEW content \in Contents, NEW expected \in Revision,
               Update(s, expected, content)
        PROVE  TypeOK'
    <2>1. Revised(study[s]) \in StudyRow
      BY <1>3, <1>a, RowTypes DEF Update
    <2>2. Append(revisions[s], content) \in Seq(Contents)
      BY <1>a
    <2>. QED  BY <1>3, <1>a, <2>1, <2>2 DEF TypeOK, Update, store
  <1>4. ASSUME NEW p \in Calls, NEW q \in CommandRequest, PrepareCommand(p, q)
        PROVE  TypeOK'
    <2>1. CASE Replay(p, q)
      BY <1>4, <1>b, <2>1, ReplayType DEF TypeOK, PrepareCommand, private, store
    <2>2. CASE Accept(p, q, "insert")
      BY <1>4, <1>b, <1>c, <2>2, AcceptType DEF TypeOK, PrepareCommand, private, store
    <2>. QED  BY <1>4, <2>1, <2>2 DEF PrepareCommand
  <1>5. ASSUME NEW p \in Calls, NEW q \in InitialRequest, PrepareInitial(p, q)
        PROVE  TypeOK'
    <2>1. CASE Replay(p, q)
      BY <1>5, <1>b, <2>1, ReplayType DEF TypeOK, PrepareInitial, private, store
    <2>2. CASE Accept(p, q, "insert")
      BY <1>5, <1>b, <1>c, <2>2, AcceptType DEF TypeOK, PrepareInitial, private, store
    <2>3. CASE /\ call' = [call EXCEPT ![p] = {q}]
               /\ pc' = [pc EXCEPT ![p] = "create"]
               /\ UNCHANGED <<holder, sending>>
      BY <1>5, <1>a, <1>b, <1>c, <2>3 DEF TypeOK, PrepareInitial, private, store
    <2>. QED  BY <1>5, <2>1, <2>2, <2>3 DEF PrepareInitial
  <1>6. ASSUME NEW p \in Calls, CreateStudy(p)
        PROVE  TypeOK'
    <2>1. PICK q \in call[p] :
            \/ pc' = [pc EXCEPT ![p] = "race"] /\ UNCHANGED <<holder, call, sending>>
            \/ /\ holder' = [holder EXCEPT ![q.slug] = {p}]
               /\ pc' = [pc EXCEPT ![p] = "insert"]
               /\ UNCHANGED <<call, sending>>
            \/ Finish(p) /\ UNCHANGED holder
      BY <1>6 DEF CreateStudy
    <2>2. CASE Finish(p) /\ UNCHANGED holder
      BY <1>6, <2>2, FinishType DEF TypeOK, CreateStudy, private, store
    <2>3. CASE pc' = [pc EXCEPT ![p] = "race"] /\ UNCHANGED <<holder, call, sending>>
      BY <1>6, <1>a, <1>c, <2>3 DEF TypeOK, CreateStudy, private, store
    <2>4. CASE /\ holder' = [holder EXCEPT ![q.slug] = {p}]
               /\ pc' = [pc EXCEPT ![p] = "insert"]
               /\ UNCHANGED <<call, sending>>
      BY <1>6, <1>a, <1>c, <2>4 DEF TypeOK, CreateStudy, private, store
    <2>. QED  BY <2>1, <2>2, <2>3, <2>4
  <1>7. ASSUME NEW p \in Calls, InsertCommand(p)
        PROVE  TypeOK'
    <2>1. PICK q \in call[p] :
            /\ study' = [study EXCEPT ![q.slug] = Sequenced(OpenRow(q.slug), q)]
            /\ revisions' = IF Exists(q.slug) THEN revisions
                            ELSE [revisions EXCEPT ![q.slug] = <<q.digest.content>>]
            /\ commands' = commands \cup {NewCommand(q)}
            /\ \/ /\ sending' = [sending EXCEPT ![p] = {CommandFromRow(NewCommand(q))}]
                  /\ call' = [call EXCEPT ![p] = {}]
                  /\ pc' = [pc EXCEPT ![p] = "waiting"]
               \/ Finish(p)
      BY <1>7 DEF InsertCommand
    <2>2. q \in Request
      BY <1>a
    <2>3. /\ study' \in [Slugs -> StudyRow]
          /\ commands' \subseteq CommandRow
      BY <1>a, <2>1, <2>2, NewCommandType, RowTypes, RequestType DEF TypeOK
    <2>4. revisions' \in [Slugs -> Seq(Contents)]
      <3>1. q.digest.content \in Contents
        BY <2>2, RequestType DEF Digest
      <3>2. <<q.digest.content>> \in Seq(Contents)
        BY <3>1
      <3>. QED  BY <1>a, <2>1, <3>2
    <2>5. /\ pc' \in [Calls -> Place]
          /\ call' \in [Calls -> SUBSET Request]
          /\ sending' \in [Calls -> SUBSET Publication]
      <3>1. CommandFromRow(NewCommand(q)) \in Publication
        BY <2>2, NewCommandType, PublicationType
      <3>2. CASE Finish(p)
        BY <3>2, FinishType
      <3>3. CASE /\ sending' = [sending EXCEPT ![p] = {CommandFromRow(NewCommand(q))}]
                 /\ call' = [call EXCEPT ![p] = {}]
                 /\ pc' = [pc EXCEPT ![p] = "waiting"]
        BY <1>a, <1>c, <3>1, <3>3
      <3>. QED  BY <2>1, <3>2, <3>3
    <2>. QED  BY <1>7, <2>3, <2>4, <2>5, ReleaseType DEF TypeOK, InsertCommand, store
  <1>8. ASSUME NEW p \in Calls, InsertConflicts(p)
        PROVE  TypeOK'
    BY <1>8, <1>a, <1>c, FinishType, ReleaseType DEF TypeOK, InsertConflicts, private, store
  <1>9. ASSUME NEW p \in Calls, ResolveRequestRace(p)
        PROVE  TypeOK'
    <2>1. PICK q \in call[p] : Replay(p, q) \/ (Finish(p) /\ UNCHANGED holder)
      BY <1>9 DEF ResolveRequestRace
    <2>2. q \in Request
      BY <1>a
    <2>. QED  BY <1>9, <2>1, <2>2, ReplayType, FinishType
              DEF TypeOK, ResolveRequestRace, private, store
  <1>10. ASSUME NEW p \in Calls, ResolveInitialRace(p)
         PROVE  TypeOK'
    <2>1. PICK q \in call[p] :
            Replay(p, q) \/ Accept(p, q, "reinsert") \/ (Finish(p) /\ UNCHANGED holder)
      BY <1>10 DEF ResolveInitialRace
    <2>2. q \in Request
      BY <1>a
    <2>. QED  BY <1>10, <1>c, <2>1, <2>2, ReplayType, AcceptType, FinishType
              DEF TypeOK, ResolveInitialRace, private, store
  <1>11. ASSUME NEW p \in Calls, Apply(p)
         PROVE  TypeOK'
    <2>1. PICK x \in sending[p] : public' = Projected(x) /\ history' = history \cup {x}
      BY <1>11 DEF Apply
    <2>2. public' \subseteq Publication /\ history' \subseteq Publication
      BY <1>a, <2>1 DEF TypeOK, Projected
    <2>. QED  BY <1>11, <1>a, <1>c, <2>2, FinishType DEF TypeOK, Apply, private
  <1>12. ASSUME NEW p \in Calls, DeliveryFails(p) \/ Cancel(p)
         PROVE  TypeOK'
    BY <1>12, <1>a, <1>c DEF TypeOK, DeliveryFails, Cancel, private, store
  <1>13. ASSUME NEW p \in Calls, Acknowledge(p)
         PROVE  TypeOK'
    <2>1. PICK c \in commands :
            /\ applied' = applied \cup {c.request}
            /\ failed' = failed \ {c.request}
            /\ study' = [study EXCEPT ![c.slug] = Acknowledged(@, c)]
      BY <1>13 DEF Acknowledge
    <2>2. c \in CommandRow
      BY DEF TypeOK
    <2>3. study' \in [Slugs -> StudyRow]
      BY <1>a, <2>1, <2>2, RowTypes DEF CommandRow
    <2>4. applied' \subseteq RequestIds /\ failed' \subseteq RequestIds
      BY <2>1, <2>2 DEF TypeOK, CommandRow
    <2>. QED  BY <1>13, <2>3, <2>4, FinishType DEF TypeOK, Acknowledge, store
  <1>14. ASSUME NEW p \in Calls, RecordDeliveryFailure(p)
         PROVE  TypeOK'
    <2>1. PICK x \in sending[p] : failed' = Erred(x)
      BY <1>14 DEF RecordDeliveryFailure
    <2>2. failed' \subseteq RequestIds
      BY <1>a, <2>1 DEF TypeOK, Erred, Publication
    <2>. QED  BY <1>14, <2>2, FinishType DEF TypeOK, RecordDeliveryFailure, store
  <1>15. ASSUME NEW p \in Calls, Crash(p)
         PROVE  TypeOK'
    BY <1>15, FinishType, ReleaseType DEF TypeOK, Crash, private, store
  <1>. QED  BY <1>1, <1>2, <1>3, <1>4, <1>5, <1>6, <1>7, <1>8, <1>9, <1>10, <1>11, <1>12,
               <1>13, <1>14, <1>15 DEF Next

----------------------------------------------------------------------------
(* The inductive invariant.                                                  *)

LEMMA InitInv == Init => PublishingInv
  BY DEF Init, PublishingInv, RowsAgree, CommandsCounted, CommandsUnique, ApprovalIsCurrent,
         CallsChecked, HolderChecked, SendsCommand, PublicIsLatest, AppliedAreCounted,
         AppliedHasNoError, Exists, NoStudy, Row, NoAcknowledgement

\* A publication keeps the identity of its row.
LEMMA PublicationFields ==
    ASSUME NEW c
    PROVE  /\ CommandFromRow(c).request = c.request
           /\ CommandFromRow(c).slug = c.slug
           /\ CommandFromRow(c).sequence = c.sequence
           /\ CommandFromRow(c).action = c.action
           /\ CommandFromRow(c).digest = IF c.action = "publish" THEN c.digest ELSE NoDigest
  BY DEF CommandFromRow

\* The steps that write to neither store
LEMMA StoresStep ==
    ASSUME PublishingInv, UNCHANGED <<private, store>>
    PROVE  /\ RowsAgree' /\ CommandsCounted' /\ CommandsUnique' /\ ApprovalIsCurrent'
           /\ PublicIsLatest' /\ AppliedAreCounted' /\ AppliedHasNoError'
  <1>1. UNCHANGED <<study, revisions, commands, applied, failed, public, history>>
    BY DEF private, store
  <1>. QED  BY <1>1 DEF PublishingInv, RowsAgree, CommandsCounted, CommandsUnique,
                        ApprovalIsCurrent, PublicIsLatest, AppliedAreCounted,
                        AppliedHasNoError, Exists, CurrentDigest, Known

\* A call is not disturbed by steps of others that leave the study alone that it holds
\* and only add to the commands and to the history.
LEMMA OtherCall ==
    ASSUME TypeOK, NEW o \in Calls, HolderChecked(o), SendsCommand(o),
           pc'[o] = pc[o], call'[o] = call[o], sending'[o] = sending[o],
           \A s \in Slugs : holder[s] = {o} =>
                holder'[s] = {o} /\ study'[s] = study[s] /\ revisions'[s] = revisions[s],
           commands \subseteq commands', history \subseteq history'
    PROVE  HolderChecked(o)' /\ SendsCommand(o)'
  <1>1. SendsCommand(o)'
    BY DEF SendsCommand
  <1>2. \A q \in call[o] : q.slug \in Slugs
    BY RequestType DEF TypeOK
  <1>3. HolderChecked(o)'
    BY <1>2 DEF HolderChecked, Exists, CurrentDigest
  <1>. QED  BY <1>1, <1>3

LEMMA FinishedCall ==
    ASSUME TypeOK, NEW p \in Calls, Finish(p)
    PROVE  /\ HolderChecked(p)' /\ SendsCommand(p)'
           /\ \A o \in Calls \ {p} : pc'[o] = pc[o] /\ call'[o] = call[o] /\ sending'[o] = sending[o]
  BY DEF TypeOK, Finish, HolderChecked, SendsCommand

LEMMA ReplayedCall ==
    ASSUME TypeOK, NEW p \in Calls, NEW q, Replay(p, q), commands' = commands
    PROVE  /\ HolderChecked(p)' /\ SendsCommand(p)'
           /\ \A o \in Calls \ {p} : pc'[o] = pc[o] /\ call'[o] = call[o] /\ sending'[o] = sending[o]
           /\ holder' = holder
  BY DEF TypeOK, Replay, HolderChecked, SendsCommand

LEMMA AcceptedCall ==
    ASSUME TypeOK, NEW p \in Calls, NEW q \in Request, NEW place \in {"insert", "reinsert"},
           Accept(p, q, place), Exists(q.slug), Unlocked(q.slug), SendsCommand(p),
           UNCHANGED <<private, store>>
    PROVE  /\ HolderChecked(p)' /\ SendsCommand(p)'
           /\ \A o \in Calls \ {p} : pc'[o] = pc[o] /\ call'[o] = call[o] /\ sending'[o] = sending[o]
           /\ \A s \in Slugs, o \in Calls : holder[s] = {o} => holder'[s] = {o}
  <1>0. q.slug \in Slugs
    BY RequestType
  <1>1. /\ call'[p] = {q} /\ pc'[p] = place /\ sending' = sending /\ holder'[q.slug] = {p}
        /\ \A o \in Calls \ {p} : pc'[o] = pc[o] /\ call'[o] = call[o]
        /\ \A s \in Slugs \ {q.slug} : holder'[s] = holder[s]
    BY <1>0 DEF TypeOK, Accept
  <1>2. UNCHANGED <<study, revisions, commands, history>>
    BY DEF private, store
  <1>3. HolderChecked(p)'
    BY <1>1, <1>2 DEF HolderChecked, Accept, Acceptable, Exists, CurrentDigest
  <1>4. SendsCommand(p)'
    BY <1>1, <1>2 DEF SendsCommand
  <1>. QED  BY <1>1, <1>3, <1>4 DEF Unlocked

\* The release of a call's locks leaves those of the others.
LEMMA ReleasedLocks ==
    ASSUME TypeOK, NEW p \in Calls, Release(p)
    PROVE  \A s \in Slugs, o \in Calls \ {p} : holder[s] = {o} => holder'[s] = {o}
  BY DEF TypeOK, Release

\* The steps of a call that only change the call and its locks
LEMMA CallStep ==
    ASSUME Inv, NEW p \in Calls, UNCHANGED <<private, store>>,
           HolderChecked(p)', SendsCommand(p)',
           \A o \in Calls \ {p} : pc'[o] = pc[o] /\ call'[o] = call[o] /\ sending'[o] = sending[o],
           \A s \in Slugs, o \in Calls \ {p} : holder[s] = {o} => holder'[s] = {o}
    PROVE  PublishingInv'
  <1>1. UNCHANGED <<study, revisions, commands, history>>
    BY DEF private, store
  <1>2. ASSUME NEW o \in Calls \ {p} PROVE HolderChecked(o)' /\ SendsCommand(o)'
    BY <1>1, OtherCall DEF Inv, PublishingInv, CallsChecked
  <1>3. CallsChecked'
    BY <1>2 DEF CallsChecked
  <1>. QED  BY <1>3, StoresStep DEF Inv, PublishingInv

\* A study that does not exist has no commands.
LEMMA NoCommandsYet ==
    ASSUME Inv, NEW s \in Slugs, ~Exists(s)
    PROVE  study[s] = NoStudy /\ \A c \in commands : c.slug # s
  <1>1. study[s] = NoStudy /\ NoStudy.sequence = 0
    BY DEF Inv, PublishingInv, RowsAgree, NoStudy, Row
  <1>2. \A c \in commands : c.sequence \in Nat \ {0}
    BY DEF Inv, TypeOK, CommandRow
  <1>. QED  BY <1>1, <1>2 DEF Inv, PublishingInv, CommandsCounted

LEMMA CreateStep ==
    ASSUME Inv, NEW s \in Slugs, NEW content \in Contents, Create(s, content)
    PROVE  PublishingInv'
  <1>0. study[s] = NoStudy /\ \A c \in commands : c.slug # s
    BY NoCommandsYet DEF Create
  <1>1. /\ study'[s] = NewStudy /\ revisions'[s] = <<content>>
        /\ \A r \in Slugs \ {s} : study'[r] = study[r] /\ revisions'[r] = revisions[r]
        /\ UNCHANGED <<commands, applied, failed, public, history, holder, pc, call, sending>>
    BY DEF Inv, TypeOK, Create, store
  <1>2. /\ NewStudy.revision = 1 /\ NewStudy.sequence = 0 /\ NewStudy.approved = NoDigest
        /\ NewStudy.last.sequence = 0
    BY DEF NewStudy, Row, NoAcknowledgement
  <1>3. RowsAgree'
    <2>1. Len(revisions'[s]) = 1
      BY <1>1
    <2>2. study'[s].revision = 1
      BY <1>1, <1>2
    <2>3. \A r \in Slugs \ {s} :
            Len(revisions'[r]) = study'[r].revision /\ (~Exists(r)' => study'[r] = NoStudy)
      BY <1>1 DEF Inv, PublishingInv, RowsAgree, Exists
    <2>4. Exists(s)'
      BY <2>2 DEF Exists
    <2>. QED  BY <2>1, <2>2, <2>3, <2>4 DEF RowsAgree
  <1>a. \A c \in commands : c.slug \in Slugs \ {s}
    BY <1>0 DEF Inv, TypeOK, CommandRow
  <1>4. CommandsCounted'
    BY <1>1, <1>2, <1>a DEF Inv, PublishingInv, CommandsCounted
  <1>5. CommandsUnique' /\ PublicIsLatest' /\ AppliedHasNoError'
    BY <1>1 DEF Inv, PublishingInv, CommandsUnique, PublicIsLatest, AppliedHasNoError
  <1>6. ApprovalIsCurrent'
    BY <1>1, <1>2 DEF Inv, PublishingInv, ApprovalIsCurrent, Exists, CurrentDigest
  <1>7. AppliedAreCounted'
    BY <1>1, <1>2, <1>a DEF Inv, PublishingInv, AppliedAreCounted, Known
  <1>8. ASSUME NEW o \in Calls PROVE HolderChecked(o)' /\ SendsCommand(o)'
    <2>1. \A r \in Slugs : holder[r] = {o} => r # s
      BY DEF Create, Unlocked
    <2>. QED  BY <1>1, <2>1, OtherCall DEF Inv, PublishingInv, CallsChecked
  <1>. QED  BY <1>3, <1>4, <1>5, <1>6, <1>7, <1>8 DEF PublishingInv, CallsChecked

LEMMA UpdateStep ==
    ASSUME Inv, NEW s \in Slugs, NEW content \in Contents, NEW expected \in Revision,
           Update(s, expected, content)
    PROVE  PublishingInv'
  <1>1. /\ study'[s] = Revised(study[s]) /\ revisions'[s] = Append(revisions[s], content)
        /\ \A r \in Slugs \ {s} : study'[r] = study[r] /\ revisions'[r] = revisions[r]
        /\ UNCHANGED <<commands, applied, failed, public, history, holder, pc, call, sending>>
    BY DEF Inv, TypeOK, Update, store
  <1>2. /\ study'[s].revision = study[s].revision + 1 /\ study'[s].sequence = study[s].sequence
        /\ study'[s].approved = NoDigest /\ study'[s].last = study[s].last
    BY <1>1 DEF Revised, Row
  <1>a. revisions[s] \in Seq(Contents) /\ study[s].revision \in Nat
    BY DEF Inv, TypeOK, StudyRow
  <1>b. /\ Len(revisions'[s]) = Len(revisions[s]) + 1
        /\ \A i \in 1 .. Len(revisions[s]) : revisions'[s][i] = revisions[s][i]
    BY <1>1, <1>a
  <1>3. RowsAgree'
    BY <1>1, <1>2, <1>a, <1>b DEF Inv, PublishingInv, RowsAgree, Exists
  <1>4. CommandsCounted'
    <2>1. ASSUME NEW c \in commands
          PROVE  /\ c.sequence <= study'[c.slug].sequence
                 /\ c.revision = c.digest.revision
                 /\ c.digest.revision <= Len(revisions'[c.slug])
                 /\ c.digest.content = revisions'[c.slug][c.digest.revision]
      <3>1. /\ c.sequence <= study[c.slug].sequence
            /\ c.revision = c.digest.revision
            /\ c.digest.revision <= Len(revisions[c.slug])
            /\ c.digest.content = revisions[c.slug][c.digest.revision]
        BY DEF Inv, PublishingInv, CommandsCounted
      <3>2. c.slug \in Slugs /\ c.digest.revision \in Nat \ {0}
        BY PublishingAssumption DEF Inv, TypeOK, CommandRow, Digest, Revision
      <3>3. CASE c.slug = s
        <4>1. c.digest.revision \in 1 .. Len(revisions[s]) /\ Len(revisions[s]) \in Nat
          BY <1>a, <3>1, <3>2, <3>3
        <4>. QED  BY <1>2, <1>b, <3>1, <3>3, <4>1
      <3>. QED  BY <1>1, <3>1, <3>2, <3>3
    <2>2. \A r \in Slugs : study'[r].sequence = study[r].sequence
      BY <1>1, <1>2
    <2>. QED  BY <1>1, <2>1, <2>2 DEF Inv, PublishingInv, CommandsCounted
  <1>5. CommandsUnique' /\ PublicIsLatest' /\ AppliedHasNoError'
    BY <1>1 DEF Inv, PublishingInv, CommandsUnique, PublicIsLatest, AppliedHasNoError
  <1>6. ApprovalIsCurrent'
    BY <1>1, <1>2 DEF Inv, PublishingInv, ApprovalIsCurrent, Exists, CurrentDigest
  <1>7. AppliedAreCounted'
    <2>1. \A r \in Slugs : study'[r].last = study[r].last
      BY <1>1, <1>2
    <2>2. \A c \in commands : c.slug \in Slugs
      BY DEF Inv, TypeOK, CommandRow
    <2>. QED  BY <1>1, <2>1, <2>2 DEF Inv, PublishingInv, AppliedAreCounted, Known
  <1>8. ASSUME NEW o \in Calls PROVE HolderChecked(o)' /\ SendsCommand(o)'
    <2>1. \A r \in Slugs : holder[r] = {o} => r # s
      BY DEF Update, Unlocked
    <2>. QED  BY <1>1, <2>1, OtherCall DEF Inv, PublishingInv, CallsChecked
  <1>. QED  BY <1>3, <1>4, <1>5, <1>6, <1>7, <1>8 DEF PublishingInv, CallsChecked

\* A new command is recorded with the package that its study has, and a new study with it.
LEMMA InsertStep ==
    ASSUME Inv, NEW p \in Calls, InsertCommand(p)
    PROVE  PublishingInv'
  <1>1. PICK q \in call[p] :
            /\ ~Known(q.request)
            /\ study' = [study EXCEPT ![q.slug] = Sequenced(OpenRow(q.slug), q)]
            /\ revisions' = IF Exists(q.slug) THEN revisions
                            ELSE [revisions EXCEPT ![q.slug] = <<q.digest.content>>]
            /\ commands' = commands \cup {NewCommand(q)}
            /\ \/ /\ sending' = [sending EXCEPT ![p] = {CommandFromRow(NewCommand(q))}]
                  /\ call' = [call EXCEPT ![p] = {}]
                  /\ pc' = [pc EXCEPT ![p] = "waiting"]
               \/ Finish(p)
    BY DEF InsertCommand
  <1>2. q \in Request
    BY DEF Inv, TypeOK
  <1>3. q.slug \in Slugs /\ q.digest \in Digest /\ q.revision \in Revision
    BY <1>2, RequestType
  <1>4. HolderChecked(p) /\ holder[q.slug] = {p}
    BY DEF Inv, PublishingInv, CallsChecked, HolderChecked, InsertCommand
  <1>5. OpenRow(q.slug) \in StudyRow /\ NewCommand(q) \in CommandRow
    BY <1>2, NewCommandType DEF Inv
  <1>6. /\ study'[q.slug] = Sequenced(OpenRow(q.slug), q)
        /\ \A s \in Slugs \ {q.slug} : study'[s] = study[s] /\ revisions'[s] = revisions[s]
        /\ UNCHANGED <<applied, failed, public, history>>
    BY <1>1, <1>3 DEF Inv, TypeOK, InsertCommand, store
  <1>7. /\ study'[q.slug].revision = OpenRow(q.slug).revision
        /\ study'[q.slug].sequence = OpenRow(q.slug).sequence + 1
        /\ study'[q.slug].approved = IF q.action = "publish" THEN q.digest ELSE NoDigest
        /\ study'[q.slug].last = OpenRow(q.slug).last
    BY <1>6 DEF Sequenced, Row
  <1>8. /\ OpenRow(q.slug).sequence = study[q.slug].sequence
        /\ OpenRow(q.slug).last = study[q.slug].last
    <2>1. CASE Exists(q.slug)
      BY <2>1 DEF OpenRow
    <2>2. CASE ~Exists(q.slug)
      BY <1>3, <2>2, NoCommandsYet DEF OpenRow, NoStudy, NewStudy, Row
    <2>. QED  BY <2>1, <2>2
  <1>9. /\ q.revision = q.digest.revision
        /\ q.digest.revision = OpenRow(q.slug).revision
        /\ q.digest.revision > 0
        /\ Len(revisions'[q.slug]) = q.digest.revision
        /\ q.digest.content = revisions'[q.slug][q.digest.revision]
        /\ Exists(q.slug) => revisions' = revisions
    <2>1. CASE Exists(q.slug)
      <3>1. q.digest = CurrentDigest(q.slug) /\ q.revision = study[q.slug].revision
        BY <1>4, <2>1 DEF HolderChecked, InsertCommand
      <3>2. OpenRow(q.slug) = study[q.slug] /\ revisions' = revisions
        BY <1>1, <2>1 DEF OpenRow
      <3>3. Len(revisions[q.slug]) = study[q.slug].revision
        BY <1>3 DEF Inv, PublishingInv, RowsAgree
      <3>. QED  BY <2>1, <3>1, <3>2, <3>3 DEF CurrentDigest, Exists
    <2>2. CASE ~Exists(q.slug)
      <3>1. q \in InitialRequest
        BY <1>4, <2>2 DEF HolderChecked, InsertCommand
      <3>2. q.revision = 1 /\ q.digest.revision = 1
        BY <3>1 DEF InitialRequest
      <3>3. OpenRow(q.slug).revision = 1 /\ revisions'[q.slug] = <<q.digest.content>>
        BY <1>1, <1>3, <2>2 DEF Inv, TypeOK, OpenRow, NewStudy, Row
      <3>. QED  BY <2>2, <3>2, <3>3
    <2>. QED  BY <2>1, <2>2
  <1>10. /\ NewCommand(q).request = q.request /\ NewCommand(q).slug = q.slug
         /\ NewCommand(q).sequence = study[q.slug].sequence + 1
         /\ NewCommand(q).revision = q.revision /\ NewCommand(q).digest = q.digest
    BY <1>8 DEF NewCommand
  <1>11. /\ \A c \in commands : c \in CommandRow /\ c.slug \in Slugs /\ c.sequence \in Nat
         /\ \A c \in commands : c.sequence <= study[c.slug].sequence
         /\ \A s \in Slugs : study[s].sequence \in Nat
    BY DEF Inv, TypeOK, CommandRow, StudyRow, PublishingInv, CommandsCounted
  <1>12. \A c \in commands : c.slug = q.slug => revisions' = revisions
    BY <1>3, <1>9, NoCommandsYet
  <1>a. RowsAgree'
    BY <1>6, <1>7, <1>9 DEF Inv, PublishingInv, RowsAgree, Exists
  <1>b. CommandsCounted'
    <2>1. ASSUME NEW c \in commands
          PROVE  /\ c.sequence <= study'[c.slug].sequence
                 /\ c.revision = c.digest.revision
                 /\ c.digest.revision <= Len(revisions'[c.slug])
                 /\ c.digest.content = revisions'[c.slug][c.digest.revision]
      <3>1. revisions'[c.slug] = revisions[c.slug]
        BY <1>6, <1>11, <1>12
      <3>2. c.sequence <= study'[c.slug].sequence
        BY <1>6, <1>7, <1>8, <1>11
      <3>. QED  BY <3>1, <3>2 DEF Inv, PublishingInv, CommandsCounted
    <2>2. /\ NewCommand(q).sequence = study'[q.slug].sequence
          /\ NewCommand(q).sequence \in Nat
          /\ NewCommand(q).digest.revision <= Len(revisions'[q.slug])
          /\ NewCommand(q).revision = NewCommand(q).digest.revision
          /\ NewCommand(q).digest.content = revisions'[q.slug][NewCommand(q).digest.revision]
      <3>1. q.digest.revision \in Nat
        BY <1>3, PublishingAssumption DEF Digest, Revision
      <3>. QED  BY <1>3, <1>7, <1>8, <1>9, <1>10, <1>11, <3>1
    <2>3. ASSUME NEW s \in Slugs, study'[s].sequence > 0
          PROVE  \E c \in commands' : c.slug = s /\ c.sequence = study'[s].sequence
      <3>1. CASE s = q.slug
        BY <1>1, <1>10, <2>2, <3>1
      <3>2. CASE s # q.slug
        BY <1>1, <1>6, <2>3, <3>2 DEF Inv, PublishingInv, CommandsCounted
      <3>. QED  BY <3>1, <3>2
    <2>4. \A c \in commands' : c \in commands \/ c = NewCommand(q)
      BY <1>1
    <2>. QED  BY <1>10, <2>1, <2>2, <2>3, <2>4 DEF CommandsCounted
  <1>c. CommandsUnique'
    <2>1. \A c \in commands :
            /\ c.request # NewCommand(q).request
            /\ c.slug = NewCommand(q).slug => c.sequence # NewCommand(q).sequence
      BY <1>1, <1>3, <1>10, <1>11 DEF Known
    <2>. QED  BY <1>1, <2>1 DEF Inv, PublishingInv, CommandsUnique
  <1>d. ApprovalIsCurrent'
    <2>1. \/ study'[q.slug].approved = NoDigest
          \/ study'[q.slug].approved = CurrentDigest(q.slug)'
      BY <1>3, <1>7, <1>9 DEF CurrentDigest, Digest
    <2>. QED  BY <1>6, <2>1 DEF Inv, PublishingInv, ApprovalIsCurrent, Exists, CurrentDigest
  <1>e. PublicIsLatest' /\ AppliedHasNoError'
    BY <1>1, <1>6 DEF Inv, PublishingInv, PublicIsLatest, AppliedHasNoError
  <1>f. AppliedAreCounted'
    <2>1. q.request \notin applied
      BY <1>1 DEF Inv, PublishingInv, AppliedAreCounted
    <2>2. \A s \in Slugs : study'[s].last = study[s].last
      BY <1>6, <1>7, <1>8
    <2>. QED  BY <1>1, <1>6, <1>10, <1>11, <2>1, <2>2
              DEF Inv, PublishingInv, AppliedAreCounted, Known
  <1>g. HolderChecked(p)' /\ SendsCommand(p)'
        /\ \A o \in Calls \ {p} : pc'[o] = pc[o] /\ call'[o] = call[o] /\ sending'[o] = sending[o]
    <2>1. CASE Finish(p)
      BY <2>1, FinishedCall DEF Inv
    <2>2. CASE /\ sending' = [sending EXCEPT ![p] = {CommandFromRow(NewCommand(q))}]
               /\ call' = [call EXCEPT ![p] = {}]
               /\ pc' = [pc EXCEPT ![p] = "waiting"]
      BY <1>1, <2>2 DEF Inv, TypeOK, HolderChecked, SendsCommand
    <2>. QED  BY <1>1, <2>1, <2>2
  <1>h. ASSUME NEW o \in Calls \ {p} PROVE HolderChecked(o)' /\ SendsCommand(o)'
    <2>1. \A s \in Slugs : holder[s] = {o} => s # q.slug /\ holder'[s] = {o}
      BY <1>4, ReleasedLocks DEF Inv, InsertCommand
    <2>. QED  BY <1>1, <1>6, <1>g, <2>1, OtherCall DEF Inv, PublishingInv, CallsChecked
  <1>. QED  BY <1>a, <1>b, <1>c, <1>d, <1>e, <1>f, <1>g, <1>h DEF PublishingInv, CallsChecked

\* The public store takes a command that is newer than all it has seen of the study.
LEMMA Overtakes ==
    ASSUME Inv, NEW p \in Calls, NEW x \in sending[p], Admitted(x), x \notin history
    PROVE  /\ \A y \in public : y.slug = x.slug => y.sequence < x.sequence
           /\ \A h \in history : h.slug = x.slug => h.sequence <= x.sequence
           /\ \A h \in history : h.request # x.request
           /\ x.sequence \in Nat
  <1>1. \A h \in history : h.request # x.request
    BY DEF Admitted
  <1>2. \A y \in public : y \in history
    BY DEF Inv, PublishingInv, PublicIsLatest
  <1>3. \A y \in public : y.slug = x.slug => y.sequence < x.sequence
    BY <1>1, <1>2 DEF Admitted, Applies
  <1>4. x.sequence \in Nat /\ \A h \in history : h.sequence \in Nat
    BY DEF Inv, TypeOK, Publication
  <1>5. \A h \in history : \E y \in public : y.slug = h.slug /\ h.sequence <= y.sequence
    BY DEF Inv, PublishingInv, PublicIsLatest
  <1>6. \A h \in history : h.slug = x.slug => h.sequence <= x.sequence
    BY <1>2, <1>3, <1>4, <1>5
  <1>. QED  BY <1>1, <1>3, <1>4, <1>6

LEMMA ApplyStep ==
    ASSUME Inv, NEW p \in Calls, Apply(p)
    PROVE  PublishingInv'
  <1>1. PICK x \in sending[p] :
            Admitted(x) /\ public' = Projected(x) /\ history' = history \cup {x}
    BY DEF Apply
  <1>2. UNCHANGED <<study, revisions, commands, applied, failed, holder>>
    BY DEF Apply, private
  <1>3. PublicIsLatest'
    <2>1. CASE x \in history
      <3>1. public' = public /\ history' = history
        BY <1>1, <2>1 DEF Projected
      <3>. QED  BY <1>2, <3>1 DEF Inv, PublishingInv, PublicIsLatest
    <2>2. CASE x \notin history
      <3>1. public' = {y \in public : y.slug # x.slug} \cup {x}
        BY <1>1, <2>2 DEF Projected
      <3>2. \A h \in history' : \E c \in commands' : h = CommandFromRow(c)
        BY <1>1, <1>2 DEF Inv, PublishingInv, PublicIsLatest, CallsChecked, SendsCommand
      <3>3. public' \subseteq history' /\ \A y, z \in public' : y.slug = z.slug => y = z
        BY <1>1, <3>1 DEF Inv, PublishingInv, PublicIsLatest
      <3>4. ASSUME NEW h \in history'
            PROVE  \E y \in public' : y.slug = h.slug /\ h.sequence <= y.sequence
        <4>1. CASE h.slug = x.slug
          BY <1>1, <2>2, <3>1, <4>1, Overtakes
        <4>2. CASE h.slug # x.slug
          BY <1>1, <3>1, <4>2 DEF Inv, PublishingInv, PublicIsLatest
        <4>. QED  BY <4>1, <4>2
      <3>. QED  BY <3>2, <3>3, <3>4 DEF PublicIsLatest
    <2>. QED  BY <2>1, <2>2
  <1>4. RowsAgree' /\ CommandsCounted' /\ CommandsUnique' /\ ApprovalIsCurrent' /\ AppliedHasNoError'
    BY <1>2 DEF Inv, PublishingInv, RowsAgree, CommandsCounted, CommandsUnique,
                ApprovalIsCurrent, AppliedHasNoError, Exists, CurrentDigest
  <1>5. AppliedAreCounted'
    BY <1>1, <1>2 DEF Inv, PublishingInv, AppliedAreCounted, Known
  <1>6. HolderChecked(p)' /\ SendsCommand(p)'
        /\ \A o \in Calls \ {p} : pc'[o] = pc[o] /\ call'[o] = call[o] /\ sending'[o] = sending[o]
    <2>1. CASE Finish(p)
      BY <2>1, FinishedCall DEF Inv
    <2>2. CASE pc' = [pc EXCEPT ![p] = "receipt"] /\ UNCHANGED <<call, sending>>
      <3>1. pc'[p] = "receipt" /\ \A o \in Calls \ {p} : pc'[o] = pc[o]
        BY <2>2 DEF Inv, TypeOK
      <3>2. HolderChecked(p)'
        BY <3>1 DEF HolderChecked
      <3>3. \A y \in sending[p] : y \in history'
        BY <1>1 DEF Inv, PublishingInv, CallsChecked, SendsCommand
      <3>4. SendsCommand(p)'
        BY <1>2, <2>2, <3>3 DEF Inv, PublishingInv, CallsChecked, SendsCommand
      <3>. QED  BY <2>2, <3>1, <3>2, <3>4
    <2>. QED  BY <2>1, <2>2 DEF Apply
  <1>7. ASSUME NEW o \in Calls \ {p} PROVE HolderChecked(o)' /\ SendsCommand(o)'
    BY <1>1, <1>2, <1>6, OtherCall DEF Inv, PublishingInv, CallsChecked
  <1>. QED  BY <1>3, <1>4, <1>5, <1>6, <1>7 DEF PublishingInv, CallsChecked

\* The receipt of a row is that row's command, which the public store has applied.
LEMMA ReceiptRow ==
    ASSUME Inv, NEW p \in Calls, pc[p] = "receipt",
           NEW x \in sending[p], NEW c \in commands, ReceiptOf(x, c)
    PROVE  x = CommandFromRow(c) /\ x \in history
  <1>1. PICK d \in commands : x = CommandFromRow(d)
    BY DEF Inv, PublishingInv, CallsChecked, SendsCommand
  <1>2. d.request = c.request
    BY <1>1, PublicationFields DEF ReceiptOf
  <1>3. d = c
    BY <1>2 DEF Inv, PublishingInv, CommandsUnique
  <1>. QED  BY <1>1, <1>3 DEF Inv, PublishingInv, CallsChecked, SendsCommand

LEMMA AcknowledgeStep ==
    ASSUME Inv, NEW p \in Calls, Acknowledge(p)
    PROVE  PublishingInv'
  <1>1. PICK x \in sending[p], c \in commands :
            /\ ReceiptOf(x, c)
            /\ Unlocked(c.slug)
            /\ applied' = applied \cup {c.request}
            /\ failed' = failed \ {c.request}
            /\ study' = [study EXCEPT ![c.slug] = Acknowledged(@, c)]
    BY DEF Acknowledge
  <1>2. UNCHANGED <<revisions, commands, public, history, holder>>
    BY DEF Acknowledge, store
  <1>3. CommandFromRow(c) \in history
    BY <1>1, ReceiptRow DEF Acknowledge
  <1>4. /\ \A d \in commands : d.slug \in Slugs /\ d.sequence \in Nat \ {0}
        /\ \A s \in Slugs : study[s].last.sequence \in Nat
    BY DEF Inv, TypeOK, CommandRow, StudyRow, Acknowledgement
  <1>5. /\ study'[c.slug] = Acknowledged(study[c.slug], c)
        /\ \A s \in Slugs \ {c.slug} : study'[s] = study[s]
    BY <1>1, <1>4 DEF Inv, TypeOK
  <1>6. \A s \in Slugs : /\ study'[s].revision = study[s].revision
                          /\ study'[s].sequence = study[s].sequence
                          /\ study'[s].approved = study[s].approved
    BY <1>5 DEF Acknowledged, Row
  <1>7. study'[c.slug].last =
            IF c.sequence > study[c.slug].last.sequence THEN AcknowledgementOf(c)
            ELSE study[c.slug].last
    BY <1>5 DEF Acknowledged, Row
  <1>a. RowsAgree'
    <2>1. ASSUME NEW s \in Slugs, ~Exists(s)' PROVE study'[s] = NoStudy
      <3>1. ~Exists(s)
        BY <1>6, <2>1 DEF Exists
      <3>2. s # c.slug /\ study[s] = NoStudy
        BY <3>1, NoCommandsYet
      <3>. QED  BY <1>5, <3>2
    <2>. QED  BY <1>2, <1>6, <2>1 DEF Inv, PublishingInv, RowsAgree
  <1>b. CommandsCounted' /\ CommandsUnique' /\ PublicIsLatest'
    BY <1>2, <1>4, <1>6 DEF Inv, PublishingInv, CommandsCounted, CommandsUnique, PublicIsLatest
  <1>c. ApprovalIsCurrent'
    BY <1>2, <1>6 DEF Inv, PublishingInv, ApprovalIsCurrent, Exists, CurrentDigest
  <1>d. AppliedHasNoError'
    BY <1>1 DEF Inv, PublishingInv, AppliedHasNoError
  <1>e. AppliedAreCounted'
    <2>1. /\ AcknowledgementOf(c).sequence = c.sequence
          /\ c.sequence <= study'[c.slug].last.sequence
          /\ \A s \in Slugs : study[s].last.sequence <= study'[s].last.sequence
          /\ \A s \in Slugs : study'[s].last.sequence \in Nat
      BY <1>4, <1>5, <1>7 DEF AcknowledgementOf
    <2>2. ASSUME NEW d \in commands', d.request \in applied'
          PROVE  CommandFromRow(d) \in history' /\ d.sequence <= study'[d.slug].last.sequence
      <3>1. CASE d.request = c.request
        <4>1. d = c
          BY <1>2, <3>1 DEF Inv, PublishingInv, CommandsUnique
        <4>. QED  BY <1>2, <1>3, <2>1, <4>1
      <3>2. CASE d.request \in applied
        BY <1>2, <1>4, <2>1, <3>2 DEF Inv, PublishingInv, AppliedAreCounted
      <3>. QED  BY <1>1, <2>2, <3>1, <3>2
    <2>3. \A r \in applied' : Known(r)'
      BY <1>1, <1>2 DEF Inv, PublishingInv, AppliedAreCounted, Known
    <2>4. ASSUME NEW s \in Slugs, study'[s].last.sequence > 0
          PROVE  \E d \in commands' : /\ d.slug = s
                                       /\ d.request \in applied'
                                       /\ study'[s].last = AcknowledgementOf(d)
      <3>1. CASE study'[s].last = study[s].last
        BY <1>1, <1>2, <2>4, <3>1 DEF Inv, PublishingInv, AppliedAreCounted
      <3>2. CASE s = c.slug /\ study'[s].last = AcknowledgementOf(c)
        BY <1>1, <1>2, <3>2
      <3>. QED  BY <1>5, <1>7, <3>1, <3>2
    <2>. QED  BY <2>2, <2>3, <2>4 DEF AppliedAreCounted
  <1>f. HolderChecked(p)' /\ SendsCommand(p)'
        /\ \A o \in Calls \ {p} : pc'[o] = pc[o] /\ call'[o] = call[o] /\ sending'[o] = sending[o]
    BY FinishedCall DEF Inv, Acknowledge
  <1>g. ASSUME NEW o \in Calls \ {p} PROVE HolderChecked(o)' /\ SendsCommand(o)'
    <2>1. \A s \in Slugs : holder[s] = {o} => s # c.slug
      BY <1>1 DEF Unlocked
    <2>. QED  BY <1>2, <1>5, <1>f, <2>1, OtherCall DEF Inv, PublishingInv, CallsChecked
  <1>. QED  BY <1>a, <1>b, <1>c, <1>d, <1>e, <1>f, <1>g DEF PublishingInv, CallsChecked

LEMMA FailureStep ==
    ASSUME Inv, NEW p \in Calls, RecordDeliveryFailure(p)
    PROVE  PublishingInv'
  <1>1. PICK x \in sending[p] : failed' = Erred(x)
    BY DEF RecordDeliveryFailure
  <1>2. UNCHANGED <<study, revisions, commands, applied, public, history, holder>>
    BY DEF RecordDeliveryFailure, store
  <1>3. AppliedHasNoError'
    BY <1>1, <1>2 DEF Inv, PublishingInv, AppliedHasNoError, Erred
  <1>4. /\ RowsAgree' /\ CommandsCounted' /\ CommandsUnique' /\ ApprovalIsCurrent'
        /\ PublicIsLatest' /\ AppliedAreCounted'
    BY <1>2 DEF Inv, PublishingInv, RowsAgree, CommandsCounted, CommandsUnique,
                ApprovalIsCurrent, PublicIsLatest, AppliedAreCounted, Exists, CurrentDigest, Known
  <1>5. HolderChecked(p)' /\ SendsCommand(p)'
        /\ \A o \in Calls \ {p} : pc'[o] = pc[o] /\ call'[o] = call[o] /\ sending'[o] = sending[o]
    BY FinishedCall DEF Inv, RecordDeliveryFailure
  <1>6. ASSUME NEW o \in Calls \ {p} PROVE HolderChecked(o)' /\ SendsCommand(o)'
    BY <1>2, <1>5, OtherCall DEF Inv, PublishingInv, CallsChecked
  <1>. QED  BY <1>3, <1>4, <1>5, <1>6 DEF PublishingInv, CallsChecked

\* The steps that prepare a command and write nothing yet
LEMMA PrepareStep ==
    ASSUME Inv, NEW p \in Calls, NEW q \in Request, NEW place \in {"insert", "reinsert"},
           UNCHANGED <<private, store>>, Exists(q.slug), Unlocked(q.slug),
           Replay(p, q) \/ Accept(p, q, place)
    PROVE  PublishingInv'
  <1>1. commands' = commands
    BY DEF private
  <1>2. CASE Replay(p, q)
    BY <1>1, <1>2, ReplayedCall, CallStep DEF Inv
  <1>3. CASE Accept(p, q, place)
    BY <1>3, AcceptedCall, CallStep DEF Inv, PublishingInv, CallsChecked
  <1>. QED  BY <1>2, <1>3

LEMMA FinishStep ==
    ASSUME Inv, NEW p \in Calls, UNCHANGED <<private, store>>, Finish(p),
           Release(p) \/ UNCHANGED holder
    PROVE  PublishingInv'
  BY FinishedCall, ReleasedLocks, CallStep DEF Inv

LEMMA InvStep ==
    ASSUME Inv, [Next]_vars
    PROVE  PublishingInv'
  <1>a. CommandRequest \subseteq Request /\ InitialRequest \subseteq Request
    BY DEF Request
  <1>b. \A p \in Calls : call[p] \subseteq Request
    BY DEF Inv, TypeOK
  <1>1. CASE UNCHANGED vars
    <2>1. UNCHANGED <<study, revisions, commands, applied, failed, public, history, holder, pc, call,
                      sending>>
      BY <1>1 DEF vars
    <2>2. UNCHANGED <<private, store>>
      BY <2>1 DEF private, store
    <2>3. CallsChecked'
      BY <2>1, OtherCall DEF Inv, PublishingInv, CallsChecked
    <2>. QED  BY <2>2, <2>3, StoresStep DEF Inv, PublishingInv
  <1>2. ASSUME NEW p \in Calls, NEW q \in CommandRequest, PrepareCommand(p, q)
        PROVE  PublishingInv'
    BY <1>2, <1>a, PrepareStep DEF PrepareCommand
  <1>3. ASSUME NEW p \in Calls, NEW q \in InitialRequest, PrepareInitial(p, q)
        PROVE  PublishingInv'
    <2>1. UNCHANGED <<private, store>>
      BY <1>3 DEF PrepareInitial
    <2>2. CASE /\ Unlocked(q.slug) /\ InitialAllowed(q)
               /\ Replay(p, q) \/ Accept(p, q, "insert")
      BY <1>a, <2>1, <2>2, PrepareStep DEF InitialAllowed
    <2>3. CASE /\ call' = [call EXCEPT ![p] = {q}]
               /\ pc' = [pc EXCEPT ![p] = "create"]
               /\ UNCHANGED <<holder, sending>>
      <3>1. /\ call'[p] = {q} /\ pc'[p] = "create" /\ UNCHANGED <<commands, history>>
            /\ \A o \in Calls \ {p} : pc'[o] = pc[o] /\ call'[o] = call[o] /\ sending'[o] = sending[o]
        BY <2>1, <2>3 DEF Inv, TypeOK, private, store
      <3>2. HolderChecked(p)' /\ SendsCommand(p)'
        BY <2>3, <3>1 DEF HolderChecked, SendsCommand, Inv, PublishingInv, CallsChecked
      <3>. QED  BY <2>1, <2>3, <3>1, <3>2, CallStep
    <2>. QED  BY <1>3, <2>2, <2>3 DEF PrepareInitial
  <1>4. ASSUME NEW p \in Calls, CreateStudy(p)
        PROVE  PublishingInv'
    <2>1. PICK q \in call[p] :
            /\ Unlocked(q.slug)
            /\ \/ pc' = [pc EXCEPT ![p] = "race"] /\ UNCHANGED <<holder, call, sending>>
               \/ /\ ~Exists(q.slug)
                  /\ holder' = [holder EXCEPT ![q.slug] = {p}]
                  /\ pc' = [pc EXCEPT ![p] = "insert"]
                  /\ UNCHANGED <<call, sending>>
               \/ Finish(p) /\ UNCHANGED holder
      BY <1>4 DEF CreateStudy
    <2>2. UNCHANGED <<private, store>> /\ UNCHANGED <<study, commands, history>>
      BY <1>4 DEF CreateStudy, private, store
    <2>3. CASE pc' = [pc EXCEPT ![p] = "race"] /\ UNCHANGED <<holder, call, sending>>
      <3>1. pc'[p] = "race" /\ \A o \in Calls \ {p} : pc'[o] = pc[o]
        BY <2>3 DEF Inv, TypeOK
      <3>2. HolderChecked(p)' /\ SendsCommand(p)'
        BY <2>2, <2>3, <3>1 DEF HolderChecked, SendsCommand, Inv, PublishingInv, CallsChecked
      <3>. QED  BY <2>2, <2>3, <3>1, <3>2, CallStep
    <2>4. CASE /\ ~Exists(q.slug)
               /\ holder' = [holder EXCEPT ![q.slug] = {p}]
               /\ pc' = [pc EXCEPT ![p] = "insert"]
               /\ UNCHANGED <<call, sending>>
      <3>0. q.slug \in Slugs
        BY <1>b, RequestType
      <3>1. /\ pc'[p] = "insert" /\ \A o \in Calls \ {p} : pc'[o] = pc[o]
            /\ holder'[q.slug] = {p} /\ \A s \in Slugs \ {q.slug} : holder'[s] = holder[s]
        BY <2>4, <3>0 DEF Inv, TypeOK
      <3>2. SendsCommand(p)'
        BY <2>2, <2>4, <3>1 DEF SendsCommand, Inv, PublishingInv, CallsChecked
      <3>3. call[p] = {q} /\ q \in InitialRequest
        BY <1>4 DEF CreateStudy, HolderChecked, Inv, PublishingInv, CallsChecked
      <3>4. HolderChecked(p)'
        BY <2>2, <2>4, <3>1, <3>3 DEF HolderChecked, Exists
      <3>5. \A s \in Slugs, o \in Calls \ {p} : holder[s] = {o} => holder'[s] = {o}
        BY <2>1, <3>1 DEF Unlocked
      <3>. QED  BY <2>2, <2>4, <3>1, <3>2, <3>4, <3>5, CallStep
    <2>5. CASE Finish(p) /\ UNCHANGED holder
      BY <2>2, <2>5, FinishStep
    <2>. QED  BY <2>1, <2>3, <2>4, <2>5
  <1>5. ASSUME NEW p \in Calls, InsertConflicts(p)
        PROVE  PublishingInv'
    <2>1. UNCHANGED <<private, store>> /\ UNCHANGED <<commands, history>> /\ Release(p)
      BY <1>5 DEF InsertConflicts, private, store
    <2>2. CASE pc' = [pc EXCEPT ![p] = "race"] /\ UNCHANGED <<call, sending>>
      <3>1. pc'[p] = "race" /\ \A o \in Calls \ {p} : pc'[o] = pc[o]
        BY <2>2 DEF Inv, TypeOK
      <3>2. HolderChecked(p)' /\ SendsCommand(p)'
        BY <2>1, <2>2, <3>1 DEF HolderChecked, SendsCommand, Inv, PublishingInv, CallsChecked
      <3>. QED  BY <2>1, <2>2, <3>1, <3>2, ReleasedLocks, CallStep DEF Inv
    <2>. QED  BY <1>5, <2>1, <2>2, FinishStep DEF InsertConflicts
  <1>6. ASSUME NEW p \in Calls, ResolveRequestRace(p)
        PROVE  PublishingInv'
    <2>1. UNCHANGED <<private, store>> /\ commands' = commands
      BY <1>6 DEF ResolveRequestRace, private
    <2>2. PICK q \in call[p] : Replay(p, q) \/ (Finish(p) /\ UNCHANGED holder)
      BY <1>6 DEF ResolveRequestRace
    <2>. QED  BY <2>1, <2>2, ReplayedCall, CallStep, FinishStep DEF Inv
  <1>7. ASSUME NEW p \in Calls, ResolveInitialRace(p)
        PROVE  PublishingInv'
    <2>1. UNCHANGED <<private, store>>
      BY <1>7 DEF ResolveInitialRace
    <2>2. PICK q \in call[p] :
            /\ Unlocked(q.slug)
            /\ \/ InitialAllowed(q) /\ (Replay(p, q) \/ Accept(p, q, "reinsert"))
               \/ Finish(p) /\ UNCHANGED holder
      BY <1>7 DEF ResolveInitialRace
    <2>. QED  BY <1>b, <2>1, <2>2, PrepareStep, FinishStep DEF InitialAllowed
  <1>8. ASSUME NEW p \in Calls, DeliveryFails(p) \/ Cancel(p)
        PROVE  PublishingInv'
    <2>1. /\ UNCHANGED <<private, store>> /\ UNCHANGED <<commands, history, holder, call, sending>>
          /\ pc'[p] \in {"refused", "orphan"} /\ \A o \in Calls \ {p} : pc'[o] = pc[o]
      BY <1>8 DEF DeliveryFails, Cancel, private, store, Inv, TypeOK
    <2>2. HolderChecked(p)' /\ SendsCommand(p)'
      BY <2>1 DEF HolderChecked, SendsCommand, Inv, PublishingInv, CallsChecked
    <2>. QED  BY <2>1, <2>2, CallStep
  <1>9. ASSUME NEW p \in Calls, Crash(p)
        PROVE  PublishingInv'
    BY <1>9, FinishStep DEF Crash
  <1>. QED  BY <1>1, <1>2, <1>3, <1>4, <1>5, <1>6, <1>7, <1>8, <1>9, CreateStep, UpdateStep,
               InsertStep, ApplyStep, AcknowledgeStep, FailureStep DEF Next

\* The inductive invariant: it holds at first and every step of every call keeps it.
THEOREM Invariance == Spec => []Inv
  <1>1. Init => Inv
    BY InitType, InitInv DEF Inv
  <1>2. Inv /\ [Next]_vars => Inv'
    BY TypeStep, InvStep DEF Inv
  <1>. QED  BY <1>1, <1>2, PTL DEF Spec

----------------------------------------------------------------------------
(* The properties.                                                           *)

\* The rows of both stores, the locks and the calls keep their types.
THEOREM TypeCorrect == Spec => []TypeOK
  <1>1. Inv => TypeOK
    BY DEF Inv
  <1>. QED  BY <1>1, Invariance, PTL

\* Neither a sequence number nor a request id is ever given to two commands.
THEOREM CommandsStayUnique == Spec => []CommandsUnique
  <1>1. Inv => CommandsUnique
    BY DEF Inv, PublishingInv
  <1>. QED  BY <1>1, Invariance, PTL

\* No read of a study, in whatever state its deliveries are, finds rows that contradict
\* each other.
THEOREM AlwaysReadable == Spec => []StateReadable
  <1>1. ASSUME Inv PROVE StateReadable
    <2>1. /\ \A s \in Slugs : study[s].sequence \in Nat /\ study[s].last.sequence \in Nat
          /\ \A c \in commands : c.sequence \in Nat
      BY <1>1 DEF Inv, TypeOK, StudyRow, Acknowledgement, CommandRow
    <2>2. ASSUME NEW s \in Slugs, NEW c \in commands, c.slug = s, IsCurrent(c),
                 study[s].sequence > study[s].last.sequence
          PROVE  c.request \notin applied
      BY <1>1, <2>1, <2>2 DEF Inv, PublishingInv, AppliedAreCounted, IsCurrent
    <2>. QED  BY <1>1, <2>2 DEF StateReadable, Inv, PublishingInv, ApprovalIsCurrent,
                                CommandsCounted, IsCurrent
  <1>. QED  BY <1>1, Invariance, PTL

\* What the owner is told of as applied has reached the public store: the store is at that
\* command, or at a later one of the same study.
AcknowledgedIsPublic ==
    \A s \in Slugs : study[s].last.sequence > 0 =>
        \E x \in public :
            /\ x.slug = s
            /\ study[s].last.sequence <= x.sequence
            /\ study[s].last.sequence = x.sequence =>
                /\ study[s].last.action = x.action
                /\ study[s].last.revision = x.digest.revision

\* The private database never claims more than the public store has shown.
THEOREM AcknowledgedWasPublic == Spec => []AcknowledgedIsPublic
  <1>1. ASSUME Inv PROVE AcknowledgedIsPublic
    <2>1. SUFFICES ASSUME NEW s \in Slugs, study[s].last.sequence > 0
                   PROVE  \E x \in public :
                            /\ x.slug = s
                            /\ study[s].last.sequence <= x.sequence
                            /\ study[s].last.sequence = x.sequence =>
                                /\ study[s].last.action = x.action
                                /\ study[s].last.revision = x.digest.revision
      BY DEF AcknowledgedIsPublic
    <2>2. PICK c \in commands : /\ c.slug = s /\ c.request \in applied
                                /\ study[s].last = AcknowledgementOf(c)
      BY <1>1, <2>1 DEF Inv, PublishingInv, AppliedAreCounted
    <2>3. PICK x \in public : x.slug = s /\ c.sequence <= x.sequence
      BY <1>1, <2>2, PublicationFields DEF Inv, PublishingInv, AppliedAreCounted, PublicIsLatest
    <2>4. /\ study[s].last.sequence = c.sequence /\ study[s].last.action = c.action
          /\ study[s].last.revision = IF c.action = "publish" THEN c.revision ELSE 0
      BY <2>2 DEF AcknowledgementOf
    <2>5. ASSUME c.sequence = x.sequence PROVE x = CommandFromRow(c)
      <3>1. PICK d \in commands : x = CommandFromRow(d)
        BY <1>1 DEF Inv, PublishingInv, PublicIsLatest
      <3>2. d.slug = c.slug /\ d.sequence = c.sequence
        BY <2>2, <2>3, <2>5, <3>1, PublicationFields
      <3>. QED  BY <1>1, <3>1, <3>2 DEF Inv, PublishingInv, CommandsUnique
    <2>6. c.revision = c.digest.revision /\ NoDigest.revision = 0
      BY <1>1 DEF Inv, PublishingInv, CommandsCounted, NoDigest
    <2>. QED  BY <2>3, <2>4, <2>5, <2>6, PublicationFields
  <1>. QED  BY <1>1, Invariance, PTL

\* A pending command can always be delivered: no history of failures, overtaking deliveries
\* and abandoned threads leaves the public store in a state that refuses it.
THEOREM PendingStaysDeliverable == Spec => []PendingDeliverable
  <1>1. ASSUME Inv PROVE PendingDeliverable
    <2>1. SUFFICES ASSUME NEW c \in commands, IsCurrent(c)
                   PROVE  Admitted(CommandFromRow(c))
      BY DEF PendingDeliverable
    <2>2. \A h \in history : \E d \in commands : h = CommandFromRow(d)
      BY <1>1 DEF Inv, PublishingInv, PublicIsLatest
    <2>3. ASSUME NEW h \in history, h.request = c.request PROVE CommandFromRow(c) \in history
      <3>1. PICK d \in commands : h = CommandFromRow(d)
        BY <2>2
      <3>. QED  BY <1>1, <2>3, <3>1, PublicationFields DEF Inv, PublishingInv, CommandsUnique
    <2>4. ASSUME NEW y \in public, y.slug = c.slug, \A h \in history : h.request # c.request
          PROVE  y.sequence < c.sequence /\ y.request # c.request
      <3>1. y \in history
        BY <1>1 DEF Inv, PublishingInv, PublicIsLatest
      <3>2. PICK d \in commands : y = CommandFromRow(d)
        BY <2>2, <3>1
      <3>3. y.slug = d.slug /\ y.sequence = d.sequence /\ y.request = d.request
        BY <3>2, PublicationFields
      <3>4. y.request # c.request /\ d # c /\ d.slug = c.slug
        BY <2>4, <3>1, <3>3
      <3>5. d.sequence # c.sequence
        BY <1>1, <3>4 DEF Inv, PublishingInv, CommandsUnique
      <3>6. d.sequence <= study[c.slug].sequence
        BY <1>1, <3>4 DEF Inv, PublishingInv, CommandsCounted
      <3>7. d.sequence \in Nat /\ c.sequence \in Nat /\ c.sequence = study[c.slug].sequence
        BY <1>1, <2>1 DEF Inv, TypeOK, CommandRow, IsCurrent
      <3>. QED  BY <3>3, <3>4, <3>5, <3>6, <3>7
    <2>. QED  BY <2>3, <2>4, PublicationFields DEF Admitted, Applies
  <1>. QED  BY <1>1, Invariance, PTL

\* The public store shows only packages that a recorded command names and a revision row holds.
THEOREM PublicStaysDecided == Spec => []PublicWasDecided
  <1>1. ASSUME Inv PROVE PublicWasDecided
    <2>1. SUFFICES ASSUME NEW x \in public
                   PROVE  /\ \E c \in commands : x = CommandFromRow(c)
                          /\ x.action = "publish" =>
                                /\ x.digest.revision <= Len(revisions[x.slug])
                                /\ x.digest.content = revisions[x.slug][x.digest.revision]
      BY DEF PublicWasDecided
    <2>2. PICK c \in commands : x = CommandFromRow(c)
      BY <1>1 DEF Inv, PublishingInv, PublicIsLatest
    <2>. QED  BY <1>1, <2>2, PublicationFields DEF Inv, PublishingInv, CommandsCounted
  <1>. QED  BY <1>1, Invariance, PTL

\* A late failure never marks a command that was acknowledged.
THEOREM AppliedStaysClean == Spec => []AppliedHasNoError
  <1>1. Inv => AppliedHasNoError
    BY DEF Inv, PublishingInv
  <1>. QED  BY <1>1, Invariance, PTL

----------------------------------------------------------------------------
(* Publishing implements PublishedStudy: what the steps are in its terms.    *)

\* A step that leaves the commands, the projections and the acknowledgements alone is none.
LEMMA Stutters ==
    ASSUME UNCHANGED <<commands, public>>, \A s \in Slugs : study'[s].last = study[s].last
    PROVE  UNCHANGED Abstract!vars
  <1>1. Confirmed' = Confirmed
    BY DEF Confirmed
  <1>2. Decided' = Decided /\ Shown' = Shown
    BY DEF Decided, Shown
  <1>. QED  BY <1>1, <1>2 DEF Abstract!vars

\* A command and the publication that is made of it are the same decision.
LEMMA SameDecision ==
    ASSUME NEW c
    PROVE  DecisionOf(CommandFromRow(c)) = DecisionOf(c)
  BY PublicationFields DEF DecisionOf

LEMMA DecisionType ==
    ASSUME NEW c \in CommandRow
    PROVE  DecisionOf(c) \in Abstract!Decision
  BY PublishingAssumption DEF DecisionOf, CommandRow, Digest, Revision, Actions, Abstract!Decision

\* A new command is a decision after all others of its study.
LEMMA InsertDecides ==
    ASSUME Inv, NEW p \in Calls, InsertCommand(p)
    PROVE  \E s \in Slugs : Abstract!Decide(s)
  <1>1. PICK q \in call[p] :
            /\ study' = [study EXCEPT ![q.slug] = Sequenced(OpenRow(q.slug), q)]
            /\ commands' = commands \cup {NewCommand(q)}
    BY DEF InsertCommand
  <1>2. q \in Request /\ q.slug \in Slugs
    BY RequestType DEF Inv, TypeOK
  <1>3. OpenRow(q.slug) \in StudyRow /\ NewCommand(q) \in CommandRow
    BY <1>2, NewCommandType DEF Inv
  <1>4. /\ OpenRow(q.slug).sequence = study[q.slug].sequence
        /\ OpenRow(q.slug).last = study[q.slug].last
    <2>1. CASE Exists(q.slug)
      BY <2>1 DEF OpenRow
    <2>2. CASE ~Exists(q.slug)
      <3>1. study[q.slug] = NoStudy
        BY <1>2, <2>2, NoCommandsYet
      <3>. QED  BY <2>2, <3>1 DEF OpenRow, NoStudy, NewStudy, Row
    <2>. QED  BY <2>1, <2>2
  <1>5. Confirmed' = Confirmed
    <2>1. \A s \in Slugs \ {q.slug} : study'[s] = study[s]
      BY <1>1 DEF Inv, TypeOK
    <2>2. study'[q.slug].last = study[q.slug].last
      BY <1>1, <1>2, <1>4 DEF Inv, TypeOK, Sequenced, Row
    <2>3. \A s \in Slugs : study'[s].last = study[s].last
      BY <2>1, <2>2
    <2>. QED  BY <2>3 DEF Confirmed
  <1>6. Shown' = Shown
    BY DEF InsertCommand, store, Shown
  <1>. DEFINE d == DecisionOf(NewCommand(q))
  <1>7. NewCommand(q).slug = q.slug /\ d.sequence = study[q.slug].sequence + 1
    BY <1>4 DEF NewCommand, DecisionOf
  <1>8. d \in Abstract!Decision
    BY <1>3, DecisionType
  <1>9. Abstract!After(d, Decided[q.slug])
    <2>1. ASSUME NEW c \in commands, c.slug = q.slug
          PROVE  DecisionOf(c).sequence < study[q.slug].sequence + 1
      <3>1. c.sequence \in Nat /\ study[q.slug].sequence \in Nat
        BY <1>2 DEF Inv, TypeOK, CommandRow, StudyRow
      <3>. QED  BY <2>1, <3>1 DEF Inv, PublishingInv, CommandsCounted, DecisionOf
    <2>. QED  BY <1>2, <1>7, <2>1 DEF Decided, Abstract!After
  <1>10. Decided' = [Decided EXCEPT ![q.slug] = @ \cup {d}] /\ d \in Decided'[q.slug]
    <2>1. Decided'[q.slug] = Decided[q.slug] \cup {d}
      BY <1>1, <1>2, <1>7 DEF Decided
    <2>2. \A s \in Slugs \ {q.slug} : Decided'[s] = Decided[s]
      BY <1>1, <1>7 DEF Decided
    <2>3. \A s \in Slugs : Decided'[s] = [Decided EXCEPT ![q.slug] = @ \cup {d}][s]
      BY <1>2, <2>1, <2>2 DEF Decided
    <2>. QED  BY <2>1, <2>3 DEF Decided
  <1>. QED  BY <1>2, <1>5, <1>6, <1>8, <1>9, <1>10 DEF Abstract!Decide

\* What the store applies for the first time is shown, what it applies again is not.
LEMMA ApplyShows ==
    ASSUME Inv, NEW p \in Calls, Apply(p)
    PROVE  (\E s \in Slugs : Abstract!Show(s)) \/ UNCHANGED Abstract!vars
  <1>1. PICK x \in sending[p] :
            Admitted(x) /\ public' = Projected(x) /\ history' = history \cup {x}
    BY DEF Apply
  <1>2. UNCHANGED <<study, commands>>
    BY DEF Apply, private
  <1>3. CASE x \in history
    <2>1. public' = public
      BY <1>1, <1>3 DEF Projected
    <2>. QED  BY <1>2, <2>1, Stutters
  <1>4. CASE x \notin history
    <2>1. public' = {y \in public : y.slug # x.slug} \cup {x}
      BY <1>1, <1>4 DEF Projected
    <2>2. PICK c \in commands : x = CommandFromRow(c)
      BY DEF Inv, PublishingInv, CallsChecked, SendsCommand
    <2>3. x.slug = c.slug /\ c.slug \in Slugs
      BY <2>2, PublicationFields DEF Inv, TypeOK, CommandRow
    <2>. DEFINE d == DecisionOf(x)
    <2>4. d \in Decided[x.slug] /\ d.sequence = x.sequence
      BY <2>2, <2>3, SameDecision DEF Decided, DecisionOf
    <2>5. Abstract!After(d, Shown[x.slug])
      <3>1. \A y \in public : y.slug = x.slug => DecisionOf(y).sequence < x.sequence
        BY <1>1, <1>4, Overtakes DEF DecisionOf
      <3>. QED  BY <2>3, <2>4, <3>1 DEF Shown, Abstract!After
    <2>6. Shown' = [Shown EXCEPT ![x.slug] = {d}]
      <3>1. Shown'[x.slug] = {d}
        BY <2>1, <2>3 DEF Shown
      <3>2. \A s \in Slugs \ {x.slug} : Shown'[s] = Shown[s]
        BY <2>1 DEF Shown
      <3>3. \A s \in Slugs : Shown'[s] = [Shown EXCEPT ![x.slug] = {d}][s]
        BY <2>3, <3>1, <3>2 DEF Shown
      <3>. QED  BY <3>3 DEF Shown
    <2>7. Decided' = Decided /\ Confirmed' = Confirmed
      BY <1>2 DEF Decided, Confirmed
    <2>. QED  BY <2>3, <2>4, <2>5, <2>6, <2>7 DEF Abstract!Show
  <1>. QED  BY <1>3, <1>4

\* The acknowledgement of a command that none has overtaken is a confirmation.
LEMMA AcknowledgeConfirms ==
    ASSUME Inv, NEW p \in Calls, Acknowledge(p)
    PROVE  (\E s \in Slugs : Abstract!Confirm(s)) \/ UNCHANGED Abstract!vars
  <1>1. PICK x \in sending[p], c \in commands :
            ReceiptOf(x, c) /\ study' = [study EXCEPT ![c.slug] = Acknowledged(@, c)]
    BY DEF Acknowledge
  <1>2. UNCHANGED <<commands, public>>
    BY DEF Acknowledge, store
  <1>3. /\ c.slug \in Slugs /\ c.sequence \in Nat \ {0} /\ study[c.slug].last.sequence \in Nat
        /\ c.revision = c.digest.revision
    BY DEF Inv, TypeOK, CommandRow, StudyRow, Acknowledgement, PublishingInv, CommandsCounted
  <1>4. /\ study'[c.slug] = Acknowledged(study[c.slug], c)
        /\ \A s \in Slugs \ {c.slug} : study'[s] = study[s]
    BY <1>1, <1>3 DEF Inv, TypeOK
  <1>5. CASE ~(c.sequence > study[c.slug].last.sequence)
    <2>1. study'[c.slug] = study[c.slug]
      BY <1>4, <1>5 DEF Acknowledged
    <2>. QED  BY <1>2, <1>4, <2>1, Stutters
  <1>6. CASE c.sequence > study[c.slug].last.sequence
    <2>1. study'[c.slug].last = AcknowledgementOf(c)
      BY <1>4, <1>6 DEF Acknowledged, Row
    <2>. DEFINE d == DecisionOf(c)
    <2>2. d = AcknowledgementOf(c) /\ d.sequence = c.sequence /\ d \in Decided[c.slug]
      BY <1>3 DEF DecisionOf, AcknowledgementOf, Decided
    <2>3. Abstract!After(d, Confirmed[c.slug])
      BY <1>3, <1>6, <2>2 DEF Confirmed, Abstract!After
    <2>4. \E e \in Shown[c.slug] : d.sequence <= e.sequence
      <3>1. CommandFromRow(c) \in history
        BY <1>1, ReceiptRow DEF Acknowledge
      <3>2. PICK y \in public : y.slug = c.slug /\ c.sequence <= y.sequence
        BY <3>1, PublicationFields DEF Inv, PublishingInv, PublicIsLatest
      <3>3. DecisionOf(y) \in Shown[c.slug] /\ DecisionOf(y).sequence = y.sequence
        BY <1>3, <3>2 DEF Shown, DecisionOf
      <3>. QED  BY <2>2, <3>2, <3>3
    <2>5. Confirmed' = [Confirmed EXCEPT ![c.slug] = {d}]
      <3>1. Confirmed'[c.slug] = {d}
        BY <1>3, <2>1, <2>2 DEF Confirmed
      <3>2. \A s \in Slugs \ {c.slug} : Confirmed'[s] = Confirmed[s]
        BY <1>4 DEF Confirmed
      <3>3. \A s \in Slugs : Confirmed'[s] = [Confirmed EXCEPT ![c.slug] = {d}][s]
        BY <1>3, <3>1, <3>2 DEF Confirmed
      <3>. QED  BY <3>3 DEF Confirmed
    <2>6. Decided' = Decided /\ Shown' = Shown
      BY <1>2 DEF Decided, Shown
    <2>. QED  BY <1>3, <2>2, <2>3, <2>4, <2>5, <2>6 DEF Abstract!Confirm
  <1>. QED  BY <1>5, <1>6

\* Drafts keep the acknowledgement of their study.
LEMMA DraftsStutter ==
    ASSUME Inv, NEW s \in Slugs, NEW content \in Contents,
           Create(s, content) \/ \E expected \in Revision : Update(s, expected, content)
    PROVE  UNCHANGED Abstract!vars
  <1>1. UNCHANGED <<commands, public>>
    BY DEF Create, Update, store
  <1>2. \A t \in Slugs \ {s} : study'[t] = study[t]
    BY DEF Create, Update, Inv, TypeOK
  <1>3. study'[s].last = study[s].last
    <2>1. CASE Create(s, content)
      <3>1. study[s] = NoStudy
        BY <2>1, NoCommandsYet DEF Create
      <3>. QED  BY <2>1, <3>1 DEF Create, Inv, TypeOK, NoStudy, NewStudy, Row
    <2>2. CASE \E expected \in Revision : Update(s, expected, content)
      BY <2>2 DEF Update, Inv, TypeOK, Revised, Row
    <2>. QED  BY <2>1, <2>2
  <1>. QED  BY <1>1, <1>2, <1>3, Stutters

\* Publishing, with its two stores, its requests and all their failures, implements
\* PublishedStudy: decisions are numbered in order, the public view never goes back, and the
\* owner is never told of a decision that the public view has not reached.
THEOREM Implementation == Spec => ImplementsPublishedStudy
  <1>1. ASSUME Init PROVE Abstract!Init
    <2>1. \A s \in Slugs : study[s].last.sequence = 0
      BY <1>1 DEF Init, NoStudy, Row, NoAcknowledgement
    <2>. QED  BY <1>1, <2>1 DEF Init, Abstract!Init, Decided, Shown, Confirmed
  <1>2. ASSUME Inv, [Next]_vars PROVE [Abstract!Next]_Abstract!vars
    <2>1. ASSUME UNCHANGED <<study, commands, public>> PROVE UNCHANGED Abstract!vars
      BY <2>1, Stutters
    <2>2. CASE UNCHANGED vars
      BY <2>1, <2>2 DEF vars
    <2>3. ASSUME NEW p \in Calls,
                 \/ \E q \in CommandRequest : PrepareCommand(p, q)
                 \/ \E q \in InitialRequest : PrepareInitial(p, q)
                 \/ CreateStudy(p) \/ InsertConflicts(p)
                 \/ ResolveRequestRace(p) \/ ResolveInitialRace(p)
                 \/ DeliveryFails(p) \/ Cancel(p) \/ RecordDeliveryFailure(p) \/ Crash(p)
          PROVE  UNCHANGED Abstract!vars
      BY <2>1, <2>3 DEF PrepareCommand, PrepareInitial, CreateStudy, InsertConflicts,
                        ResolveRequestRace, ResolveInitialRace, DeliveryFails, Cancel,
                        RecordDeliveryFailure, Crash, private, store
    <2>4. ASSUME NEW p \in Calls, InsertCommand(p) \/ Apply(p) \/ Acknowledge(p)
          PROVE  [Abstract!Next]_Abstract!vars
      BY <1>2, <2>4, InsertDecides, ApplyShows, AcknowledgeConfirms DEF Abstract!Next
    <2>. QED  BY <1>2, <2>2, <2>3, <2>4, DraftsStutter DEF Next
  <1>. QED  BY <1>1, <1>2, Invariance, PTL DEF Spec, ImplementsPublishedStudy, Abstract!Spec
============================================================================
