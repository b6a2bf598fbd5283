-------------------------- MODULE RagIngestionProofs --------------------------
(***************************************************************************)
(* Proofs about RagIngestion for any number of workers, deliveries,        *)
(* retries and faults.                                                     *)
(***************************************************************************)
EXTENDS RagIngestion, SequenceTheorems, FiniteSetTheorems, TLAPS

------------------------------------------------------------------------------
(* The inductive invariant.                                                  *)

Kinds == Roles \cup {"index"}
ArtifactStages == {"parsing", "chunking", "embedding"}
Publishing == {"make", "reserve", "write", "close", "accept"}
Indexing == {"ensure build", "reserve index", "prepare", "finish index", "close index", "verify",
             "complete"}
AtWork == Publishing \cup Indexing \cup {"read", "advance"}

\* Attempt i of a kind is open.
OpenAt(kind, i) == i \in DOMAIN attempt[kind] /\ attempt[kind][i] = "open"

\* A run that owns an open attempt, and the kind of the attempt.
Holding(r) == \/ r.pc \in {"write", "close", "prepare", "finish index", "close index"}
              \/ r.pc = "accept" /\ r.claim # 0
KindOf(r) == IF r.pc \in {"prepare", "finish index", "close index"} THEN "index" ELSE RoleOf[r.at]

\* What a stage works on, and what it makes of that.
Input(stage) == CASE stage = "chunking" -> slot["parsed"]
                  [] stage = "embedding" -> slot["chunks"]
                  [] OTHER -> <<>>
Made(input, content) == \E v \in Workers : content = Append(input, v)

\* The projection has come to a stage: the stages before it are verified.
Reached(stage) ==
  /\ proj # "pending"
  /\ proj # "failed" => Rank[stage] <= Rank[proj]
  /\ stage \in {"chunking", "embedding", "indexing"} => slot["parsed"] # <<>>
  /\ stage \in {"embedding", "indexing"} => slot["chunks"] # <<>>

\* What the place of a worker says about the rows and the files.
RunFits(r) ==
  /\ r.pc \in Publishing => r.at \in ArtifactStages
  /\ r.pc = "read" => r.at \in {"chunking", "embedding", "indexing"}
  /\ r.pc = "advance" => r.at = "embedding" /\ slot["embeddings"] # <<>>
  /\ r.pc \in Indexing => r.at = "indexing"
  /\ r.pc \in AtWork => Reached(r.at)
  /\ r.pc = "begin" => r.content = <<>>
  /\ r.pc = "make" => r.content = Input(r.at)
  /\ r.pc \in {"reserve", "write", "close"} => Made(Input(r.at), r.content)
  /\ r.pc = "accept" =>
       IF r.claim = 0 THEN slot[RoleOf[r.at]] # <<>> /\ r.content = slot[RoleOf[r.at]]
       ELSE Made(Input(r.at), r.content) /\ file[RoleOf[r.at]] = r.content
  /\ Holding(r) => OpenAt(KindOf(r), r.claim)
  /\ r.pc \in Indexing /\ r.pc # "ensure build" => build # "none"
  /\ r.pc = "verify" => build \in {"prepared", "ready"}

\* Verified slots: what they agree with and what they were made of.
SlotsFit ==
  /\ \A stage \in ArtifactStages :
       proj # "failed" /\ Rank[proj] > Rank[stage] => slot[RoleOf[stage]] # <<>>
  /\ \A role \in Roles : slot[role] # <<>> =>
       recorded[role] = slot[role] /\ file[role] = slot[role] /\ ~IsOpen(role)
  /\ slot["parsed"] # <<>> => Made(<<>>, slot["parsed"])
  /\ slot["chunks"] # <<>> => slot["parsed"] # <<>> /\ Made(slot["parsed"], slot["chunks"])
  /\ slot["embeddings"] # <<>> => slot["chunks"] # <<>> /\ Made(slot["chunks"], slot["embeddings"])

OneOpen == \A kind \in Kinds : \A i, j : OpenAt(kind, i) /\ OpenAt(kind, j) => i = j
IndexFits ==
  /\ IsOpen("index") => build = "building"
  /\ proj = "ready" => build = "ready"
OneHolder ==
  \A v, w \in Workers :
    Holding(run[v]) /\ Holding(run[w]) /\ KindOf(run[v]) = KindOf(run[w]) => v = w

Inv ==
  /\ TypeOK /\ StatusesAgree /\ SlotsFit /\ OneOpen /\ IndexFits /\ OneHolder
  /\ \A w \in Workers : RunFits(run[w])

------------------------------------------------------------------------------
(* Tables and sequences.                                                     *)

LEMMA Tables ==
  /\ Rank["pending"] = 0 /\ Rank["parsing"] = 1 /\ Rank["chunking"] = 2
  /\ Rank["embedding"] = 3 /\ Rank["indexing"] = 4 /\ Rank["ready"] = 5
  /\ DOMAIN RoleOf = ArtifactStages
  /\ RoleOf["parsing"] = "parsed" /\ RoleOf["chunking"] = "chunks"
  /\ RoleOf["embedding"] = "embeddings"
  /\ NextStage["parsing"] = "chunking" /\ NextStage["chunking"] = "embedding"
  /\ NextStage["embedding"] = "embedding"
  /\ InputOf["chunking"] = "parsed" /\ InputOf["embedding"] = "chunks"
  /\ InputOf["indexing"] = "chunks"
  BY DEF Rank, RoleOf, NextStage, InputOf, ArtifactStages

LEMMA AppendMakes ==
    ASSUME NEW s \in Seq(Workers), NEW v \in Workers
    PROVE  /\ Append(s, v) \in Seq(Workers) /\ Len(Append(s, v)) = Len(s) + 1
           /\ Append(s, v) # <<>> /\ SubSeq(Append(s, v), 1, Len(s)) = s
  <1>1. /\ Append(s, v) \in Seq(Workers) /\ Len(Append(s, v)) = Len(s) + 1 /\ Len(s) \in Nat
    OBVIOUS
  <1>2. Len(<<>>) = 0
    OBVIOUS
  <1>3. SubSeq(Append(s, v), 1, Len(s)) = s
    OBVIOUS
  <1> QED  BY <1>1, <1>2, <1>3

LEMMA ContentsAre ==
    ASSUME NEW s
    PROVE  s \in Contents <=> s \in Seq(Workers) /\ Len(s) <= 3
  <1>1. ASSUME s \in Seq(Workers), Len(s) <= 3 PROVE s \in Contents
    <2>1. s \in [1 .. Len(s) -> Workers] /\ Len(s) \in Nat
      BY <1>1, LenProperties, Zenon
    <2>2. Len(s) \in 0 .. 3
      BY <1>1, <2>1
    <2>3. \E n \in 0 .. 3 : s \in [1 .. n -> Workers]
      BY <2>1, <2>2
    <2> QED  BY <2>3 DEF Contents
  <1>2. ASSUME s \in Contents PROVE s \in Seq(Workers) /\ Len(s) <= 3
    <2>1. PICK n \in 0 .. 3 : s \in [1 .. n -> Workers]
      BY <1>2 DEF Contents
    <2>2. s \in Seq(Workers)
      BY <2>1
    <2>3. Len(s) = n
      BY <2>1, <2>2
    <2>4. n <= 3
      OBVIOUS
    <2> QED  BY <2>2, <2>3, <2>4
  <1> QED  BY <1>1, <1>2, Zenon

LEMMA EmptyContent == <<>> \in Contents
  <1>1. <<>> \in Seq(Workers) /\ Len(<<>>) = 0
    OBVIOUS
  <1>2. Len(<<>>) <= 3
    BY <1>1
  <1> QED  BY <1>1, <1>2, ContentsAre, Zenon

\* A new attempt is the only open one of its kind.
LEMMA OpenAttempt ==
    ASSUME TypeOK, NEW kind \in Kinds, ~IsOpen(kind), Open(kind)
    PROVE  /\ attempt' \in [Kinds -> Seq(AttemptState)]
           /\ \A k \in Kinds : k # kind => attempt'[k] = attempt[k]
           /\ \A i : OpenAt(kind, i)' <=> i = Len(attempt[kind]) + 1
           /\ Len(attempt[kind]) + 1 \in Nat
  <1>1. attempt[kind] \in Seq(AttemptState) /\ attempt \in [Kinds -> Seq(AttemptState)]
    BY DEF TypeOK, Kinds
  <1>2. attempt' = [attempt EXCEPT ![kind] = Append(attempt[kind], "open")]
    BY DEF Open
  <1>3. Append(attempt[kind], "open") \in Seq(AttemptState)
    BY <1>1 DEF AttemptState
  <1>4. /\ attempt' \in [Kinds -> Seq(AttemptState)] /\ attempt'[kind] = Append(attempt[kind], "open")
        /\ \A k \in Kinds : k # kind => attempt'[k] = attempt[k]
    BY <1>1, <1>2, <1>3
  <1>5. \A i : OpenAt(kind, i)' <=> i = Len(attempt[kind]) + 1
    <2> DEFINE s == attempt[kind]
    <2>1. s \in Seq(AttemptState) /\ ~\E i \in DOMAIN s : s[i] = "open"
      BY <1>1 DEF IsOpen
    <2> HIDE DEF s
    <2>2. \A i : i \in DOMAIN Append(s, "open") /\ Append(s, "open")[i] = "open" <=> i = Len(s) + 1
      BY <2>1
    <2> QED  BY <1>4, <2>2 DEF OpenAt, s
  <1> QED  BY <1>1, <1>4, <1>5

\* A settled attempt leaves its kind without an open one.
LEMMA SettleAttempt ==
    ASSUME TypeOK, OneOpen, NEW kind \in Kinds, NEW n, OpenAt(kind, n),
           NEW state \in {"verified", "failed"}, Settle(kind, n, state)
    PROVE  /\ attempt' \in [Kinds -> Seq(AttemptState)]
           /\ \A k \in Kinds : k # kind => attempt'[k] = attempt[k]
           /\ \A i : ~OpenAt(kind, i)'
  <1>1. attempt[kind] \in Seq(AttemptState) /\ attempt \in [Kinds -> Seq(AttemptState)]
    BY DEF TypeOK, Kinds
  <1> DEFINE s == attempt[kind]
             t == [s EXCEPT ![n] = state]
  <1>2. attempt' = [attempt EXCEPT ![kind] = t]
    BY DEF Settle
  <1>3. s \in Seq(AttemptState) /\ n \in DOMAIN s /\ state \in AttemptState
    BY <1>1 DEF OpenAt, AttemptState
  <1>4. \A i \in DOMAIN s : s[i] = "open" => i = n
    BY DEF OneOpen, OpenAt
  <1> HIDE DEF s
  <1>5. t \in Seq(AttemptState) /\ DOMAIN t = DOMAIN s /\ \A i \in DOMAIN t : t[i] # "open"
    <2>1. t \in Seq(AttemptState)
      BY <1>3
    <2>2. DOMAIN t = DOMAIN s /\ \A i \in DOMAIN t : t[i] = IF i = n THEN state ELSE s[i]
      BY <1>3
    <2> QED  BY <1>4, <2>1, <2>2
  <1> HIDE DEF t
  <1>6. /\ attempt' \in [Kinds -> Seq(AttemptState)] /\ attempt'[kind] = t
        /\ \A k \in Kinds : k # kind => attempt'[k] = attempt[k]
    BY <1>1, <1>2, <1>5
  <1> QED  BY <1>5, <1>6 DEF OpenAt

------------------------------------------------------------------------------
(* A worker moves.                                                           *)

\* One worker moves; its run stays well typed.
Others(w) == run' \in [Workers -> Run] /\ \A v \in Workers : v # w => run'[v] = run[v]
\* It keeps what it works on.
Carries(w) == /\ run'[w].content = run[w].content /\ run'[w].claim = run[w].claim
              /\ run'[w].tries = run[w].tries
\* It has nothing in its hands any more.
Rests(w) == Others(w) /\ run'[w].pc \in {"idle", "raised", "fail"}

LEMMA GotoMoves ==
    ASSUME TypeOK, NEW w \in Workers, NEW step \in Step, Goto(w, step)
    PROVE  Others(w) /\ Carries(w) /\ run'[w].pc = step /\ run'[w].at = run[w].at
  <1>1. run[w] \in Run /\ run' = [run EXCEPT ![w] = [run[w] EXCEPT !.pc = step]]
    BY DEF TypeOK, Goto
  <1> DEFINE r == [run[w] EXCEPT !.pc = step]
  <1>2. /\ r \in Run /\ r.pc = step /\ r.at = run[w].at /\ r.content = run[w].content
        /\ r.claim = run[w].claim /\ r.tries = run[w].tries
    BY <1>1 DEF Run
  <1> HIDE DEF r
  <1>3. Others(w) /\ run'[w] = r
    BY <1>1, <1>2 DEF TypeOK, Others, r
  <1> QED  BY <1>2, <1>3 DEF Carries

LEMMA RestMoves ==
    ASSUME TypeOK, NEW w \in Workers,
           Acknowledge(w) \/ Goto(w, "fail") \/ \E why \in Reason : Raise(w, why)
    PROVE  Rests(w)
  <1>1. run[w] \in Run /\ run \in [Workers -> Run]
    BY DEF TypeOK
  <1>2. CASE Acknowledge(w)
    <2>1. Resting \in Run /\ Resting.pc = "idle"
      BY EmptyContent, IngestionAssumption DEF Resting, Run, Step, Status, Retries, Reason
    <2> QED  BY <1>1, <1>2, <2>1 DEF Acknowledge, Rests, Others
  <1>3. CASE Goto(w, "fail")
    BY <1>3, GotoMoves DEF Rests, Step
  <1>4. ASSUME NEW why \in Reason, Raise(w, why) PROVE Rests(w)
    <2> DEFINE r == [run[w] EXCEPT !.pc = "raised", !.why = why]
    <2>1. r \in Run /\ r.pc = "raised"
      BY <1>1 DEF Run, Step
    <2>2. run' = [run EXCEPT ![w] = r]
      BY <1>4 DEF Raise
    <2> HIDE DEF r
    <2> QED  BY <1>1, <2>1, <2>2 DEF Rests, Others
  <1> QED  BY <1>2, <1>3, <1>4

\* The loop turns to a status: the next stage, or the end.
LEMMA EnterMoves ==
    ASSUME TypeOK, NEW w \in Workers, NEW status \in Status, status # "pending", Enter(w, status)
    PROVE  \/ Rests(w) /\ status \in Terminal
           \/ /\ Others(w) /\ Carries(w) /\ run'[w].at = status /\ status \in Stages
              /\ run'[w].pc = IF status = "parsing" THEN "make" ELSE "read"
  <1>1. run[w] \in Run /\ run \in [Workers -> Run]
    BY DEF TypeOK
  <1>2. CASE status = "ready"
    <2>1. run' = [run EXCEPT ![w] = Resting]
      BY <1>2 DEF Enter
    <2> QED  BY <1>2, <2>1, RestMoves DEF Acknowledge, Terminal
  <1>3. CASE status = "failed"
    <2>1. run' = [run EXCEPT ![w] = [run[w] EXCEPT !.pc = "raised", !.why = "conflict"]]
      BY <1>3 DEF Enter
    <2>2. Raise(w, "conflict")
      BY <2>1 DEF Raise
    <2> QED  BY <1>3, <2>2, RestMoves DEF Reason, Terminal
  <1>4. CASE status \in Stages
    <2> DEFINE pc == IF status = "parsing" THEN "make" ELSE "read"
               r == [run[w] EXCEPT !.pc = pc, !.at = status]
    <2>1. run' = [run EXCEPT ![w] = r]
      BY <1>4 DEF Enter, Stages
    <2>2. pc \in Step
      BY DEF Step
    <2> HIDE DEF pc
    <2>3. /\ r \in Run /\ r.pc = pc /\ r.at = status /\ r.content = run[w].content
          /\ r.claim = run[w].claim /\ r.tries = run[w].tries
      BY <1>1, <2>2 DEF Run
    <2> HIDE DEF r
    <2>4. Others(w) /\ run'[w] = r
      BY <1>1, <2>1, <2>3 DEF Others
    <2> QED  BY <1>4, <2>3, <2>4 DEF Carries, pc
  <1> QED  BY <1>2, <1>3, <1>4 DEF Status, Terminal

------------------------------------------------------------------------------
(* What a step leaves of the invariant.                                      *)

\* What no worker's place depends on, and the rows and files.
AliasOK ==
  /\ journal \in BOOLEAN /\ alias \in BOOLEAN /\ listed \in BOOLEAN
  /\ other \in {"idle", "with", "without"}
CountersOK ==
  /\ current \in BOOLEAN /\ fenced \in BOOLEAN /\ failedBy \in Reason
  /\ queue \in [Retries -> Nat] /\ sent \in 0 .. MaxDeliveries /\ faults \in 0 .. MaxFaults
FrameOK == AliasOK /\ CountersOK
RowsOK ==
  /\ job \in JobStatus /\ proj \in Status
  /\ slot \in [Roles -> Contents] /\ recorded \in [Roles -> Contents] /\ file \in [Roles -> Contents]
  /\ attempt \in [Kinds -> Seq(AttemptState)]
  /\ build \in {"none", "building", "prepared", "ready"}

LEMMA TypeParts == TypeOK <=> FrameOK /\ RowsOK /\ run \in [Workers -> Run]
  BY DEF TypeOK, FrameOK, AliasOK, CountersOK, RowsOK, Kinds

\* A verified slot and a published file stay, and the statuses only go forward.
Forward ==
  /\ \A role \in Roles : slot[role] # <<>> => slot'[role] = slot[role]
  /\ \A role \in Roles : file[role] # <<>> => file'[role] = file[role]
  /\ proj # "pending" => proj' # "pending"
  /\ proj' # "failed" => proj # "failed" /\ Rank[proj] <= Rank[proj']
  /\ build # "none" => build' # "none"
  /\ build \in {"prepared", "ready"} => build' \in {"prepared", "ready"}

LEMMA RankIsNat == \A s \in Status \ {"failed"} : Rank[s] \in Nat
  BY Tables DEF Status, Stages, Terminal

LEMMA ForwardStays ==
    ASSUME TypeOK, UNCHANGED <<proj, slot, file, build>>
    PROVE  Forward
  <1>1. proj # "failed" => Rank[proj] \in Nat
    BY RankIsNat DEF TypeOK
  <1>2. proj' = proj /\ slot' = slot /\ file' = file /\ build' = build
    OBVIOUS
  <1>3. proj' # "failed" => proj # "failed" /\ Rank[proj] <= Rank[proj']
    BY <1>1, <1>2
  <1> QED  BY <1>2, <1>3 DEF Forward

\* The other workers keep the attempts that they hold.
OpenAfter(kind, i) == i \in DOMAIN attempt'[kind] /\ attempt'[kind][i] = "open"
Claims(w) ==
  \A v \in Workers : v # w /\ Holding(run[v]) => OpenAfter(KindOf(run[v]), run[v].claim)

\* A worker holds what it held before, or what nobody held.
Exclusive(w) ==
  Holding(run'[w]) =>
    \/ Holding(run[w]) /\ KindOf(run'[w]) = KindOf(run[w])
    \/ KindOf(run'[w]) \in Kinds /\ ~IsOpen(KindOf(run'[w]))

LEMMA StillReached ==
    ASSUME TypeOK, RowsOK', Forward, NEW stage \in Stages, Reached(stage)
    PROVE  Reached(stage)'
  <1>1. /\ slot["parsed"] # <<>> => slot'["parsed"] # <<>>
        /\ slot["chunks"] # <<>> => slot'["chunks"] # <<>>
    BY DEF Forward, Roles
  <1>2. ASSUME proj' # "failed" PROVE Rank[stage] <= Rank[proj']
    <2>1. Rank[stage] <= Rank[proj] /\ Rank[proj] <= Rank[proj']
      BY <1>2 DEF Reached, Forward
    <2>2. Rank[stage] \in Nat /\ Rank[proj] \in Nat /\ Rank[proj'] \in Nat
      BY <1>2, RankIsNat DEF TypeOK, RowsOK, Forward, Status, Stages
    <2> QED  BY <2>1, <2>2
  <1> QED  BY <1>1, <1>2 DEF Reached, Forward

LEMMA InputIsContent ==
    ASSUME TypeOK, NEW stage
    PROVE  Input(stage) \in Seq(Workers)
  <1>1. \A s \in Contents : s \in Seq(Workers)
    BY ContentsAre
  <1>2. slot["parsed"] \in Contents /\ slot["chunks"] \in Contents /\ <<>> \in Contents
    BY EmptyContent DEF TypeOK, Roles
  <1> QED  BY <1>1, <1>2 DEF Input

LEMMA MadeIsContent ==
    ASSUME TypeOK, NEW stage, NEW content, Made(Input(stage), content)
    PROVE  content # <<>> /\ content \in Seq(Workers) /\ Len(content) = Len(Input(stage)) + 1
  <1>1. PICK v \in Workers : content = Append(Input(stage), v)
    BY DEF Made
  <1> QED  BY <1>1, InputIsContent, AppendMakes

\* What a worker that does not move knows stays true.
LEMMA RecordFits ==
    ASSUME TypeOK, RowsOK', Forward, NEW CONSTANT r \in Run, RunFits(r),
           Holding(r) => OpenAfter(KindOf(r), r.claim)
    PROVE  RunFits(r)'
  <1>2. RunFits(r)
    OBVIOUS
  <1>3. Holding(r) => OpenAt(KindOf(r), r.claim)'
    BY DEF OpenAt, OpenAfter, KindOf
  <1>4. r.pc \in AtWork => r.at \in Stages /\ Reached(r.at) /\ Reached(r.at)'
    <2>1. ASSUME r.pc \in AtWork PROVE r.at \in Stages /\ Reached(r.at)
      BY <1>2, <2>1 DEF RunFits, AtWork, Publishing, Indexing, Stages, ArtifactStages
    <2> QED  BY <2>1, StillReached
  <1>5. r.pc \in Publishing => Input(r.at)' = Input(r.at)
    BY <1>2, <1>4 DEF RunFits, AtWork, Publishing, Input, Reached, Forward, Roles, ArtifactStages
  <1>6. r.pc \in Publishing => RoleOf[r.at] \in Roles
    BY <1>2, Tables DEF RunFits, Roles, ArtifactStages
  <1>7. r.pc = "accept" /\ r.claim # 0 => file[RoleOf[r.at]] # <<>>
    BY <1>2, MadeIsContent DEF RunFits
  <1>8. r.pc = "accept" =>
          IF r.claim = 0
          THEN slot'[RoleOf[r.at]] # <<>> /\ r.content = slot'[RoleOf[r.at]]
          ELSE Made(Input(r.at)', r.content) /\ file'[RoleOf[r.at]] = r.content
    BY <1>2, <1>5, <1>6, <1>7 DEF RunFits, Publishing, Forward
  <1>9. /\ r.pc \in Publishing => r.at \in ArtifactStages
        /\ r.pc = "read" => r.at \in {"chunking", "embedding", "indexing"}
        /\ r.pc = "advance" => r.at = "embedding" /\ slot'["embeddings"] # <<>>
        /\ r.pc \in Indexing => r.at = "indexing"
        /\ r.pc = "begin" => r.content = <<>>
        /\ r.pc \in Indexing /\ r.pc # "ensure build" => build' # "none"
        /\ r.pc = "verify" => build' \in {"prepared", "ready"}
    BY <1>2 DEF RunFits, Forward, Roles
  <1>10. /\ r.pc = "make" => r.content = Input(r.at)'
         /\ r.pc \in {"reserve", "write", "close"} => Made(Input(r.at)', r.content)
    BY <1>2, <1>5 DEF RunFits, Publishing
  <1> QED  BY <1>3, <1>4, <1>8, <1>9, <1>10 DEF RunFits

LEMMA OtherFits ==
    ASSUME TypeOK, RowsOK', Forward, NEW v \in Workers, RunFits(run[v]), run'[v] = run[v],
           Holding(run[v]) => OpenAfter(KindOf(run[v]), run[v].claim)
    PROVE  RunFits(run[v])'
  <1>1. ASSUME NEW CONSTANT r, r = run[v] PROVE RunFits(run[v])'
    <2>1. r \in Run /\ RunFits(r) /\ (Holding(r) => OpenAfter(KindOf(r), r.claim))
      BY <1>1 DEF TypeOK
    <2>2. RunFits(r)'
      BY <2>1, RecordFits
    <2>3. r = run'[v]
      BY <1>1
    <2>4. (Reached(run[v].at)' <=> Reached(r.at)') /\ Input(run[v].at)' = Input(r.at)'
      BY <2>3 DEF Reached, Input
    <2>5. (Holding(run[v])' <=> Holding(r)') /\ KindOf(run[v])' = KindOf(r)'
      BY <2>3 DEF Holding, KindOf
    <2>6. OpenAt(KindOf(run[v]), run[v].claim)' <=> OpenAt(KindOf(r), r.claim)'
      BY <2>3, <2>5 DEF OpenAt
    <2> QED  BY <2>2, <2>3, <2>4, <2>5, <2>6 DEF RunFits
  <1> QED  BY <1>1

\* One worker moves, everybody else finds the rows as before or further on.
LEMMA StepKeeps ==
    ASSUME Inv, NEW w \in Workers, FrameOK', RowsOK', StatusesAgree', SlotsFit', OneOpen', IndexFits',
           Forward, Others(w), Claims(w), Exclusive(w), RunFits(run[w])'
    PROVE  Inv'
  <1>1. TypeOK'
    BY TypeParts DEF TypeOK, FrameOK, AliasOK, CountersOK, RowsOK, Others, Kinds
  <1>2. \A v \in Workers : RunFits(run[v])'
    <2> TAKE v \in Workers
    <2>1. CASE v = w
      BY <2>1
    <2>2. CASE v # w
      <3>1. run'[v] = run[v] /\ (Holding(run[v]) => OpenAfter(KindOf(run[v]), run[v].claim))
        BY <2>2 DEF Others, Claims
      <3>2. TypeOK /\ RunFits(run[v])
        BY DEF Inv
      <3> QED  BY <3>1, <3>2, OtherFits
    <2> QED  BY <2>1, <2>2
  <1>3. OneHolder'
    <2>1. ASSUME NEW v \in Workers, v # w, Holding(run[v]), Holding(run'[w])
          PROVE  KindOf(run[v]) # KindOf(run'[w])
      <3>1. CASE Holding(run[w]) /\ KindOf(run'[w]) = KindOf(run[w])
        BY <2>1, <3>1 DEF Inv, OneHolder
      <3>2. CASE ~IsOpen(KindOf(run'[w]))
        <4>1. OpenAt(KindOf(run[v]), run[v].claim)
          BY <2>1 DEF Inv, RunFits
        <4>2. IsOpen(KindOf(run[v]))
          BY <4>1 DEF OpenAt, IsOpen
        <4> QED  BY <3>2, <4>2
      <3> QED  BY <2>1, <3>1, <3>2 DEF Exclusive
    <2>2. \A v \in Workers : v # w => run'[v] = run[v]
      BY DEF Others
    <2>3. \A u, v \in Workers :
            Holding(run'[u]) /\ Holding(run'[v]) /\ KindOf(run'[u]) = KindOf(run'[v]) => u = v
      <3> SUFFICES ASSUME NEW u \in Workers, NEW v \in Workers, u # v,
                          Holding(run'[u]), Holding(run'[v])
                   PROVE  KindOf(run'[u]) # KindOf(run'[v])
        BY Zenon
      <3>1. CASE u = w
        BY <2>1, <2>2, <3>1
      <3>2. CASE v = w
        BY <2>1, <2>2, <3>2
      <3>3. CASE u # w /\ v # w
        BY <2>2, <3>3 DEF Inv, OneHolder
      <3> QED  BY <3>1, <3>2, <3>3
    <2> QED  BY <2>3 DEF OneHolder, Holding, KindOf
  <1> QED  BY <1>1, <1>2, <1>3 DEF Inv

Shared == <<job, proj, slot, recorded, file, attempt, build>>

\* What holds when the rows and files are left alone.
LEMMA SharedKeeps ==
    ASSUME Inv, UNCHANGED Shared
    PROVE  /\ RowsOK' /\ StatusesAgree' /\ SlotsFit' /\ OneOpen' /\ IndexFits' /\ Forward
           /\ \A w \in Workers : Claims(w)
  <1>1. RowsOK'
    BY TypeParts DEF Inv, RowsOK, Shared
  <1>2. StatusesAgree' /\ IndexFits'
    BY DEF Inv, StatusesAgree, IndexFits, IsOpen, Shared
  <1>3. SlotsFit'
    BY DEF Inv, SlotsFit, IsOpen, Shared
  <1>4. OneOpen'
    BY DEF Inv, OneOpen, OpenAt, Shared
  <1>5. Forward
    BY ForwardStays DEF Inv, Shared
  <1>6. \A w \in Workers : Claims(w)
    BY DEF Inv, Claims, RunFits, OpenAt, OpenAfter, Shared
  <1> QED  BY <1>1, <1>2, <1>3, <1>4, <1>5, <1>6

LEMMA RunOnlyKeeps ==
    ASSUME Inv, NEW w \in Workers, FrameOK', UNCHANGED Shared, Others(w), Exclusive(w),
           RunFits(run[w])'
    PROVE  Inv'
  BY SharedKeeps, StepKeeps

LEMMA RestFits ==
    ASSUME NEW w \in Workers, Rests(w)
    PROVE  Others(w) /\ Exclusive(w) /\ RunFits(run[w])'
  BY DEF Rests, Exclusive, RunFits, Holding, Publishing, Indexing, AtWork

LEMMA RestKeeps ==
    ASSUME Inv, NEW w \in Workers, FrameOK', UNCHANGED Shared,
           Acknowledge(w) \/ Goto(w, "fail") \/ \E why \in Reason : Raise(w, why)
    PROVE  Inv'
  <1>1. Rests(w)
    BY RestMoves DEF Inv
  <1> QED  BY <1>1, RestFits, RunOnlyKeeps

\* The loop turns to a stage that the projection has come to.
LEMMA EnterFits ==
    ASSUME TypeOK, NEW w \in Workers, NEW status \in Status, Enter(w, status),
           RowsOK', status \in Stages => Reached(status)', status # "pending",
           status = "parsing" => run[w].content = <<>>
    PROVE  Others(w) /\ Exclusive(w) /\ RunFits(run[w])'
  <1>1. CASE Rests(w)
    BY <1>1, RestFits
  <1>2. CASE /\ Others(w) /\ Carries(w) /\ run'[w].at = status /\ status \in Stages
             /\ run'[w].pc = IF status = "parsing" THEN "make" ELSE "read"
    <2>1. Reached(run[w].at)'
      BY <1>2 DEF Reached
    <2>2. ~Holding(run'[w]) /\ Exclusive(w)
      BY <1>2 DEF Holding, Exclusive
    <2>3. run'[w].pc = "make" => run'[w].content = <<>> /\ run'[w].at = "parsing"
      BY <1>2 DEF Carries
    <2>4. run'[w].pc = "make" => run'[w].content = Input(run[w].at)'
      BY <2>3 DEF Input
    <2>5. run'[w].pc \in Publishing => run'[w].at \in ArtifactStages
      BY <1>2 DEF Publishing, ArtifactStages
    <2>6. run'[w].pc = "read" => run'[w].at \in {"chunking", "embedding", "indexing"}
      BY <1>2 DEF Stages
    <2>7. run'[w].pc \in {"make", "read"}
      BY <1>2
    <2> QED  BY <1>2, <2>1, <2>2, <2>4, <2>5, <2>6, <2>7 DEF RunFits, Holding, Indexing, AtWork
  <1> QED  BY <1>1, <1>2, EnterMoves

\* The commit is confirmed or its confirmation is lost.
LEMMA CommitKeeps ==
    ASSUME TypeOK, NEW w \in Workers, Raise(w, "transient")
    PROVE  Others(w) /\ Exclusive(w) /\ RunFits(run[w])'
  BY RestMoves, RestFits DEF Reason

------------------------------------------------------------------------------
(* Counters and messages.                                                    *)

LEMMA MoreMessages ==
    ASSUME queue \in [Retries -> Nat], NEW r \in Retries, queue' = [queue EXCEPT ![r] = @ + 1]
    PROVE  queue' \in [Retries -> Nat]
  <1>1. queue[r] + 1 \in Nat
    OBVIOUS
  <1> QED  BY <1>1

\* The alias, its journal and its lock change in verify and by others only.
LEMMA AliasStays ==
    ASSUME Next, ~OtherReads, ~OtherEnds, \A w \in Workers : ~Verify(w)
    PROVE  UNCHANGED <<journal, alias, listed, other>>
  <1> USE DEF index
  <1>1. CASE Deliver \/ Supersede \/ Fence \/ Terminalize
    BY <1>1 DEF Deliver, Supersede, Fence, Terminalize
  <1>2. ASSUME NEW w \in Workers, NEW r \in Retries, Receive(w, r)
        PROVE  UNCHANGED <<journal, alias, listed, other>>
    BY <1>2 DEF Receive
  <1>3. ASSUME NEW w \in Workers, WorkerStep(w) \/ DatabaseError(w) \/ WorkerCrash(w)
        PROVE  UNCHANGED <<journal, alias, listed, other>>
    <2>1. CASE Begin(w) \/ Read(w) \/ Make(w) \/ Reserve(w) \/ Write(w) \/ Close(w)
      BY <2>1 DEF Begin, Read, Make, Reserve, Write, Close
    <2>2. CASE Accept(w) \/ Advance(w) \/ EnsureBuild(w) \/ ReserveIndex(w) \/ Prepare(w)
      BY <2>2 DEF Accept, Advance, EnsureBuild, ReserveIndex, Prepare
    <2>3. CASE FinishIndex(w) \/ CloseIndex(w) \/ CompleteIndexing(w) \/ Decide(w) \/ Fail(w)
      BY <2>3 DEF FinishIndex, CloseIndex, CompleteIndexing, Decide, Fail
    <2>4. CASE DatabaseError(w) \/ WorkerCrash(w)
      BY <2>4 DEF DatabaseError, WorkerCrash
    <2> QED  BY <1>3, <2>1, <2>2, <2>3, <2>4 DEF WorkerStep
  <1> QED  BY <1>1, <1>2, <1>3 DEF Next

LEMMA AliasStep ==
    ASSUME TypeOK, Next
    PROVE  AliasOK'
  <1> USE DEF TypeOK, AliasOK
  <1>1. CASE UNCHANGED <<journal, alias, listed, other>>
    BY <1>1
  <1>2. CASE OtherReads
    BY <1>2 DEF OtherReads
  <1>3. CASE OtherEnds
    BY <1>3 DEF OtherEnds
  <1>4. ASSUME NEW w \in Workers, Verify(w) PROVE AliasOK'
    BY <1>4 DEF Verify, Activate, index
  <1> QED  BY <1>1, <1>2, <1>3, <1>4, AliasStays

LEMMA CountersStep ==
    ASSUME TypeOK, Next
    PROVE  CountersOK'
  <1>1. Spend \/ UNCHANGED faults => faults' \in 0 .. MaxFaults
    BY IngestionAssumption DEF TypeOK, Spend
  <1>2. \A w \in Workers : run[w].tries \in Retries /\ run[w].why \in Reason
    BY DEF TypeOK, Run
  <1> USE DEF CountersOK, source, broker
  <1>3. CASE Deliver
    <2>1. 0 \in Retries
      BY IngestionAssumption DEF Retries
    <2> QED  BY <1>3, <2>1, MoreMessages, IngestionAssumption DEF Deliver, TypeOK
  <1>4. CASE Supersede \/ Fence \/ OtherReads \/ OtherEnds
    BY <1>1, <1>4 DEF Supersede, Fence, OtherReads, OtherEnds, TypeOK
  <1>5. CASE Terminalize
    BY <1>5 DEF Terminalize, FailBoth, TypeOK, Reason
  <1> SUFFICES ASSUME NEW w \in Workers,
                      \/ \E r \in Retries : Receive(w, r)
                      \/ WorkerStep(w) \/ DatabaseError(w) \/ WorkerCrash(w)
               PROVE  CountersOK'
    BY <1>3, <1>4, <1>5 DEF Next
  <1>6. ASSUME NEW r \in Retries, Receive(w, r) PROVE CountersOK'
    <2>1. queue[r] \in Nat /\ queue[r] > 0
      BY <1>6 DEF Receive, TypeOK
    <2>2. queue[r] - 1 \in Nat
      BY <2>1
    <2> QED  BY <1>6, <2>2 DEF Receive, TypeOK
  <1>7. CASE WorkerCrash(w)
    BY <1>1, <1>2, <1>7, MoreMessages DEF WorkerCrash, TypeOK
  <1>8. CASE Decide(w)
    <2>1. CASE run[w].why = "transient" /\ run[w].tries < MaxRetries
      <3>1. run[w].tries + 1 \in Retries
        BY <1>2, <2>1, IngestionAssumption DEF Retries
      <3> QED  BY <1>8, <2>1, <3>1, MoreMessages DEF Decide, TypeOK
    <2>2. CASE ~(run[w].why = "transient" /\ run[w].tries < MaxRetries)
      BY <1>8, <2>2 DEF Decide, TypeOK
    <2> QED  BY <2>1, <2>2
  <1>9. CASE Fail(w)
    BY <1>1, <1>2, <1>9 DEF Fail, FailBoth, TypeOK
  <1>10. ASSUME UNCHANGED <<source, broker, failedBy>>, Spend \/ UNCHANGED faults PROVE CountersOK'
    BY <1>1, <1>10 DEF TypeOK
  <1>11. CASE Begin(w) \/ Read(w) \/ Make(w) \/ Reserve(w) \/ Write(w) \/ Close(w)
    BY <1>10, <1>11 DEF Begin, Read, Make, Reserve, Write, Close, Commit
  <1>12. CASE Accept(w) \/ Advance(w) \/ EnsureBuild(w) \/ ReserveIndex(w) \/ Prepare(w)
    BY <1>10, <1>12 DEF Accept, Advance, EnsureBuild, ReserveIndex, Prepare, Commit
  <1>13. CASE FinishIndex(w) \/ CloseIndex(w) \/ Verify(w) \/ CompleteIndexing(w) \/ DatabaseError(w)
    BY <1>10, <1>13 DEF FinishIndex, CloseIndex, Verify, CompleteIndexing, DatabaseError, Commit
  <1> QED  BY <1>6, <1>7, <1>8, <1>9, <1>11, <1>12, <1>13 DEF WorkerStep

LEMMA FrameStep ==
    ASSUME TypeOK, Next
    PROVE  FrameOK'
  BY AliasStep, CountersStep DEF FrameOK

------------------------------------------------------------------------------
(* Attempts and slots.                                                       *)

LEMMA KindIsKind ==
    ASSUME Inv, NEW w \in Workers, Holding(run[w])
    PROVE  KindOf(run[w]) \in Kinds /\ OpenAt(KindOf(run[w]), run[w].claim)
  <1>1. RunFits(run[w])
    BY DEF Inv
  <1> QED  BY <1>1, Tables DEF RunFits, Holding, KindOf, Kinds, Roles, Publishing, ArtifactStages

LEMMA OpenKeeps ==
    ASSUME Inv, NEW w \in Workers, NEW kind \in Kinds, ~IsOpen(kind), Open(kind)
    PROVE  /\ attempt' \in [Kinds -> Seq(AttemptState)] /\ OneOpen' /\ Claims(w)
           /\ \A k \in Kinds : k # kind => attempt'[k] = attempt[k]
           /\ OpenAfter(kind, Len(attempt[kind]) + 1)
           /\ Len(attempt[kind]) + 1 \in Nat /\ Len(attempt[kind]) + 1 # 0
  <1>1. TypeOK /\ OneOpen
    BY DEF Inv
  <1>2. /\ attempt' \in [Kinds -> Seq(AttemptState)]
        /\ \A k \in Kinds : k # kind => attempt'[k] = attempt[k]
        /\ \A i : OpenAt(kind, i)' <=> i = Len(attempt[kind]) + 1
        /\ Len(attempt[kind]) + 1 \in Nat
    BY <1>1, OpenAttempt
  <1>3. OneOpen'
    <2> SUFFICES ASSUME NEW k \in Kinds, NEW i, NEW j, OpenAt(k, i)', OpenAt(k, j)' PROVE i = j
      BY DEF OneOpen
    <2>1. CASE k = kind
      BY <1>2, <2>1
    <2>2. CASE k # kind
      BY <1>1, <1>2, <2>2 DEF OneOpen, OpenAt
    <2> QED  BY <2>1, <2>2
  <1>4. Claims(w)
    <2> SUFFICES ASSUME NEW v \in Workers, Holding(run[v])
                 PROVE  OpenAfter(KindOf(run[v]), run[v].claim)
      BY DEF Claims
    <2>1. KindOf(run[v]) \in Kinds /\ OpenAt(KindOf(run[v]), run[v].claim)
      BY KindIsKind
    <2>2. KindOf(run[v]) # kind
      BY <2>1 DEF OpenAt, IsOpen
    <2> QED  BY <1>2, <2>1, <2>2 DEF OpenAt, OpenAfter
  <1>5. Len(attempt[kind]) + 1 # 0
    <2>1. Len(attempt[kind]) \in Nat
      BY <1>1 DEF TypeOK, Kinds
    <2> QED  BY <2>1
  <1>6. OpenAfter(kind, Len(attempt[kind]) + 1)
    <2> DEFINE n == Len(attempt[kind]) + 1
    <2>1. \A i : i = n => OpenAfter(kind, i)
      BY <1>2 DEF OpenAt, OpenAfter
    <2> QED  BY <2>1
  <1> QED  BY <1>2, <1>3, <1>4, <1>5, <1>6

LEMMA SettleKeeps ==
    ASSUME Inv, NEW w \in Workers, NEW kind \in Kinds, Holding(run[w]), KindOf(run[w]) = kind,
           NEW state \in {"verified", "failed"}, Settle(kind, run[w].claim, state)
    PROVE  /\ attempt' \in [Kinds -> Seq(AttemptState)] /\ OneOpen' /\ Claims(w)
           /\ \A k \in Kinds : k # kind => attempt'[k] = attempt[k]
           /\ ~IsOpen(kind)'
  <1>1. TypeOK /\ OneOpen /\ OpenAt(kind, run[w].claim)
    BY KindIsKind DEF Inv
  <1>2. /\ attempt' \in [Kinds -> Seq(AttemptState)]
        /\ \A k \in Kinds : k # kind => attempt'[k] = attempt[k]
        /\ \A i : ~OpenAt(kind, i)'
    BY <1>1, SettleAttempt
  <1>3. OneOpen'
    BY <1>1, <1>2 DEF OneOpen, OpenAt
  <1>4. Claims(w)
    <2> SUFFICES ASSUME NEW v \in Workers, v # w, Holding(run[v])
                 PROVE  OpenAfter(KindOf(run[v]), run[v].claim)
      BY DEF Claims
    <2>1. KindOf(run[v]) \in Kinds /\ OpenAt(KindOf(run[v]), run[v].claim)
      BY KindIsKind
    <2>2. KindOf(run[v]) # kind
      BY DEF Inv, OneHolder
    <2> QED  BY <1>2, <2>1, <2>2 DEF OpenAt, OpenAfter
  <1> QED  BY <1>2, <1>3, <1>4 DEF IsOpen, OpenAt

\* Attempts of empty slots come and go without a slot noticing.
LEMMA AttemptsOnly ==
    ASSUME SlotsFit, UNCHANGED <<proj, slot, recorded, file>>,
           \A role \in Roles : slot[role] # <<>> => attempt'[role] = attempt[role]
    PROVE  SlotsFit'
  BY DEF SlotsFit, IsOpen, Roles

\* The projection moves on.
LEMMA StatusOnly ==
    ASSUME SlotsFit, UNCHANGED <<slot, recorded, file, attempt>>,
           \A stage \in ArtifactStages :
             proj' # "failed" /\ Rank[proj'] > Rank[stage] => slot[RoleOf[stage]] # <<>>
    PROVE  SlotsFit'
  BY DEF SlotsFit, IsOpen

------------------------------------------------------------------------------
(* The steps outside the task.                                               *)

LEMMA StayKeeps ==
    ASSUME Inv, FrameOK', RowsOK', StatusesAgree', SlotsFit', IndexFits', Forward,
           UNCHANGED <<run, attempt>>
    PROVE  Inv'
  <1>1. TypeOK' /\ OneOpen' /\ OneHolder'
    BY TypeParts
       DEF Inv, TypeOK, FrameOK, AliasOK, CountersOK, RowsOK, Kinds, OneOpen, OpenAt, OneHolder
  <1>2. \A v \in Workers : RunFits(run[v])'
    <2> TAKE v \in Workers
    <2>1. TypeOK /\ RunFits(run[v]) /\ run'[v] = run[v]
      BY DEF Inv
    <2>2. Holding(run[v]) => OpenAfter(KindOf(run[v]), run[v].claim)
      BY KindIsKind DEF OpenAt, OpenAfter
    <2> QED  BY <2>1, <2>2, OtherFits
  <1> QED  BY <1>1, <1>2 DEF Inv

LEMMA FailedRows ==
    ASSUME Inv, proj' = "failed", job' = "failed",
           UNCHANGED <<slot, recorded, file, attempt, build>>
    PROVE  /\ RowsOK' /\ StatusesAgree' /\ SlotsFit' /\ OneOpen' /\ IndexFits' /\ Forward
           /\ \A w \in Workers : Claims(w)
  <1>1. RowsOK'
    BY TypeParts DEF Inv, RowsOK, JobStatus, Status, Terminal
  <1>2. StatusesAgree' /\ IndexFits' /\ Forward
    BY DEF Inv, StatusesAgree, IndexFits, IsOpen, Forward
  <1>3. SlotsFit'
    BY StatusOnly DEF Inv
  <1>4. OneOpen'
    BY DEF Inv, OneOpen, OpenAt
  <1>5. \A w \in Workers : Claims(w)
    BY KindIsKind DEF Claims, OpenAt, OpenAfter
  <1> QED  BY <1>1, <1>2, <1>3, <1>4, <1>5

LEMMA OutsideKeeps ==
    ASSUME Inv, FrameOK', Deliver \/ Supersede \/ Fence \/ Terminalize \/ OtherReads \/ OtherEnds
    PROVE  Inv'
  <1>1. CASE Deliver \/ Supersede \/ Fence \/ OtherReads \/ OtherEnds
    <2>1. UNCHANGED Shared /\ UNCHANGED <<run, attempt>>
      BY <1>1 DEF Deliver, Supersede, Fence, OtherReads, OtherEnds, Shared, artifacts, index
    <2> QED  BY <2>1, SharedKeeps, StayKeeps
  <1>2. CASE Terminalize
    <2>1. /\ proj' = "failed" /\ job' = "failed" /\ UNCHANGED run
          /\ UNCHANGED <<slot, recorded, file, attempt, build>>
      BY <1>2 DEF Terminalize, FailBoth, artifacts, index
    <2> QED  BY <2>1, FailedRows, StayKeeps
  <1> QED  BY <1>1, <1>2

------------------------------------------------------------------------------
(* The worker's loop and its ends.                                           *)

LEMMA ReceiveKeeps ==
    ASSUME Inv, FrameOK', NEW w \in Workers, NEW r \in Retries, Receive(w, r)
    PROVE  Inv'
  <1> DEFINE x == [Resting EXCEPT !.pc = "begin", !.tries = r]
  <1>1. Resting \in Run /\ Resting.content = <<>>
    BY EmptyContent, IngestionAssumption DEF Resting, Run, Step, Status, Retries, Reason
  <1>2. x \in Run /\ x.pc = "begin" /\ x.content = <<>>
    BY <1>1 DEF Run, Step
  <1>3. run' = [run EXCEPT ![w] = x] /\ UNCHANGED Shared
    BY DEF Receive, Shared, artifacts, index
  <1> HIDE DEF x
  <1>4. Others(w) /\ run'[w] = x
    BY <1>2, <1>3 DEF Inv, TypeOK, Others
  <1>5. Exclusive(w) /\ RunFits(run[w])'
    BY <1>2, <1>4 DEF Exclusive, RunFits, Holding, Publishing, Indexing, AtWork
  <1> QED  BY <1>3, <1>4, <1>5, RunOnlyKeeps

LEMMA EndKeeps ==
    ASSUME Inv, FrameOK', NEW w \in Workers, Decide(w) \/ WorkerCrash(w) \/ DatabaseError(w)
    PROVE  Inv'
  <1>1. UNCHANGED Shared
    BY DEF Decide, WorkerCrash, DatabaseError, Shared, artifacts, index
  <1>2. Acknowledge(w) \/ Goto(w, "fail") \/ \E why \in Reason : Raise(w, why)
    BY DEF Decide, WorkerCrash, DatabaseError, Reason
  <1> QED  BY <1>1, <1>2, RestKeeps

LEMMA FailKeeps ==
    ASSUME Inv, FrameOK', NEW w \in Workers, Fail(w)
    PROVE  Inv'
  <1>1. Acknowledge(w) /\ Rests(w)
    BY RestMoves DEF Fail, Inv
  <1>2. CASE UNCHANGED <<job, proj>>
    <2>1. UNCHANGED Shared
      BY <1>2 DEF Fail, Shared, artifacts, index
    <2> QED  BY <1>1, <2>1, RestKeeps
  <1>3. CASE FailBoth(run[w].why)
    <2>1. /\ proj' = "failed" /\ job' = "failed"
          /\ UNCHANGED <<slot, recorded, file, attempt, build>>
      BY <1>3 DEF Fail, FailBoth, artifacts, index
    <2> QED  BY <1>1, <2>1, FailedRows, RestFits, StepKeeps
  <1> QED  BY <1>2, <1>3 DEF Fail

\* The projection has come to the status it has.
LEMMA ReachedHere ==
    ASSUME Inv, proj \in Stages
    PROVE  Reached(proj)
  <1>1. Rank[proj] \in Nat
    BY RankIsNat DEF Inv, TypeOK, Stages
  <1>2. /\ proj \in {"chunking", "embedding", "indexing"} => slot["parsed"] # <<>>
        /\ proj \in {"embedding", "indexing"} => slot["chunks"] # <<>>
    BY Tables DEF Inv, SlotsFit, ArtifactStages
  <1> QED  BY <1>1, <1>2 DEF Reached, Stages

\* The loop turns to the status that the projection has.
LEMMA EnterHere ==
    ASSUME Inv, FrameOK', NEW w \in Workers, Enter(w, proj), proj # "pending", UNCHANGED Shared,
           proj = "parsing" => run[w].content = <<>>
    PROVE  Inv'
  <1>1. TypeOK /\ proj \in Status /\ RowsOK'
    BY SharedKeeps DEF Inv, TypeOK
  <1>2. ASSUME NEW CONSTANT status, status = proj
        PROVE  Others(w) /\ Exclusive(w) /\ RunFits(run[w])'
    <2>1. status \in Stages => Reached(status)'
      <3>1. status \in Stages => Reached(status)
        BY <1>2, ReachedHere
      <3> QED  BY <3>1 DEF Reached, Shared
    <2>2. /\ status \in Status /\ Enter(w, status) /\ status # "pending"
          /\ status = "parsing" => run[w].content = <<>>
      BY <1>1, <1>2
    <2> QED  BY <1>1, <2>1, <2>2, EnterFits
  <1>3. Others(w) /\ Exclusive(w) /\ RunFits(run[w])'
    BY <1>2
  <1> QED  BY <1>3, RunOnlyKeeps

LEMMA BeginKeeps ==
    ASSUME Inv, FrameOK', NEW w \in Workers, Begin(w)
    PROVE  Inv'
  <1>1. /\ run[w].content = <<>> /\ UNCHANGED <<slot, recorded, file, attempt, build>>
    BY DEF Begin, At, Inv, RunFits, artifacts, index
  <1>2. CASE Raise(w, "inactive") /\ UNCHANGED <<job, proj>>
    <2>1. UNCHANGED Shared /\ \E why \in Reason : Raise(w, why)
      BY <1>1, <1>2 DEF Shared, Reason
    <2> QED  BY <2>1, RestKeeps
  <1>3. CASE proj # "pending" /\ Enter(w, proj) /\ UNCHANGED <<job, proj>>
    <2>1. UNCHANGED Shared
      BY <1>1, <1>3 DEF Shared
    <2> QED  BY <1>1, <1>3, <2>1, EnterHere
  <1>4. CASE proj = "pending" /\ job' = "running" /\ proj' = "parsing" /\ Commit(w, Enter(w, "parsing"))
    <2>1. RowsOK' /\ StatusesAgree' /\ IndexFits'
      BY <1>1, <1>4, TypeParts
         DEF Inv, RowsOK, JobStatus, Status, Stages, StatusesAgree, IndexFits, IsOpen
    <2>2. SlotsFit'
      BY <1>1, <1>4, Tables, StatusOnly DEF Inv, ArtifactStages
    <2>3. OneOpen' /\ Claims(w)
      BY <1>1, KindIsKind DEF Inv, OneOpen, Claims, OpenAt, OpenAfter
    <2>4. Forward
      BY <1>1, <1>4, Tables DEF Forward
    <2>5. Others(w) /\ Exclusive(w) /\ RunFits(run[w])'
      <3>1. CASE Enter(w, "parsing")
        <4>1. Reached("parsing")'
          BY <1>4, Tables DEF Reached
        <4>2. TypeOK /\ "parsing" \in Status
          BY DEF Inv, Status, Stages
        <4> QED  BY <1>1, <2>1, <3>1, <4>1, <4>2, EnterFits
      <3>2. CASE Raise(w, "transient")
        BY <3>2, CommitKeeps DEF Inv
      <3> QED  BY <1>4, <3>1, <3>2 DEF Commit
    <2> QED  BY <2>1, <2>2, <2>3, <2>4, <2>5, StepKeeps
  <1> QED  BY <1>2, <1>3, <1>4 DEF Begin

LEMMA UpdateMoves ==
    ASSUME TypeOK, NEW w \in Workers, NEW x \in Run, run' = [run EXCEPT ![w] = x]
    PROVE  Others(w) /\ run'[w] = x
  BY DEF TypeOK, Others

------------------------------------------------------------------------------
(* The steps of a stage.                                                     *)

LEMMA ReadKeeps ==
    ASSUME Inv, FrameOK', NEW w \in Workers, Read(w)
    PROVE  Inv'
  <1> DEFINE input == file[InputOf[run[w].at]]
             pc == IF run[w].at = "indexing" THEN "ensure build" ELSE "make"
             x == [run[w] EXCEPT !.content = input, !.pc = pc]
  <1>1. /\ run[w].pc = "read" /\ RunFits(run[w]) /\ TypeOK /\ run[w] \in Run /\ UNCHANGED Shared
        /\ run' = [run EXCEPT ![w] = x]
    BY DEF Inv, TypeOK, Read, At, Shared, artifacts, index
  <1>2. run[w].at \in {"chunking", "embedding", "indexing"} /\ Reached(run[w].at)
    BY <1>1 DEF RunFits, AtWork
  <1>3. input \in Contents /\ pc \in Step
    BY <1>1, <1>2, Tables DEF TypeOK, Roles, Step
  <1>4. pc = "make" => input = Input(run[w].at)
    BY <1>2, Tables DEF Reached, Input, Inv, SlotsFit, Roles
  <1>5. pc = (IF run[w].at = "indexing" THEN "ensure build" ELSE "make")
    OBVIOUS
  <1> HIDE DEF input, pc
  <1>6. x \in Run /\ x.content = input /\ x.pc = pc /\ x.at = run[w].at /\ x.claim = run[w].claim
    BY <1>1, <1>3 DEF Run
  <1> HIDE DEF x
  <1>7. Others(w) /\ run'[w] = x
    BY <1>1, <1>6, UpdateMoves
  <1>8. Reached(run[w].at)' /\ Input(run[w].at)' = Input(run[w].at)
    BY <1>1, <1>2, <1>6, <1>7 DEF Reached, Input, Shared
  <1>9. Exclusive(w)
    BY <1>5, <1>6, <1>7 DEF Exclusive, Holding
  <1>10. run'[w].pc \in Publishing => run'[w].at \in ArtifactStages
    BY <1>2, <1>5, <1>6, <1>7 DEF Publishing, ArtifactStages
  <1>11. RunFits(run[w])'
    BY <1>4, <1>5, <1>6, <1>7, <1>8, <1>10 DEF RunFits, Holding, Indexing
  <1> QED  BY <1>1, <1>7, <1>9, <1>11, RunOnlyKeeps

\* How many stages have made a verified artifact, and of what.
LEMMA Lineage ==
    ASSUME TypeOK, SlotsFit
    PROVE  /\ slot["parsed"] # <<>> => Len(slot["parsed"]) = 1
           /\ slot["chunks"] # <<>> =>
                Len(slot["chunks"]) = 2 /\ SubSeq(slot["chunks"], 1, 1) = slot["parsed"]
           /\ slot["embeddings"] # <<>> => SubSeq(slot["embeddings"], 1, 2) = slot["chunks"]
  <1>1. slot["parsed"] \in Seq(Workers) /\ slot["chunks"] \in Seq(Workers)
    <2>1. slot["parsed"] \in Contents /\ slot["chunks"] \in Contents
      BY DEF TypeOK, Roles
    <2> QED  BY <2>1, ContentsAre
  <1>2. ASSUME slot["parsed"] # <<>> PROVE Len(slot["parsed"]) = 1
    <2>1. PICK v \in Workers : slot["parsed"] = Append(<<>>, v)
      BY <1>2 DEF SlotsFit, Made
    <2>2. <<>> \in Seq(Workers) /\ Len(<<>>) = 0
      OBVIOUS
    <2> QED  BY <2>1, <2>2, AppendMakes
  <1>3. ASSUME slot["chunks"] # <<>>
        PROVE  Len(slot["chunks"]) = 2 /\ SubSeq(slot["chunks"], 1, 1) = slot["parsed"]
    <2>1. slot["parsed"] # <<>> /\ Made(slot["parsed"], slot["chunks"])
      BY <1>3 DEF SlotsFit
    <2>2. PICK v \in Workers : slot["chunks"] = Append(slot["parsed"], v)
      BY <2>1 DEF Made
    <2> QED  BY <1>1, <1>2, <2>1, <2>2, AppendMakes
  <1>4. ASSUME slot["embeddings"] # <<>> PROVE SubSeq(slot["embeddings"], 1, 2) = slot["chunks"]
    <2>1. slot["chunks"] # <<>> /\ Made(slot["chunks"], slot["embeddings"])
      BY <1>4 DEF SlotsFit
    <2>2. PICK v \in Workers : slot["embeddings"] = Append(slot["chunks"], v)
      BY <2>1 DEF Made
    <2> QED  BY <1>1, <1>3, <2>1, <2>2, AppendMakes
  <1> QED  BY <1>2, <1>3, <1>4

\* What a stage works on was made by the stages before it.
LEMMA InputIsShort ==
    ASSUME TypeOK, SlotsFit, NEW stage \in ArtifactStages, Reached(stage)
    PROVE  Input(stage) \in Seq(Workers) /\ Len(Input(stage)) <= 2
  <1>1. Input(stage) \in Seq(Workers)
    BY InputIsContent
  <1>2. /\ slot["parsed"] # <<>> => Len(slot["parsed"]) = 1
        /\ slot["chunks"] # <<>> => Len(slot["chunks"]) = 2
    BY Lineage
  <1>3. Len(<<>>) = 0
    OBVIOUS
  <1>4. Len(Input(stage)) \in {0, 1, 2}
    <2>1. CASE stage = "parsing"
      BY <1>3, <2>1 DEF Input
    <2>2. CASE stage = "chunking"
      <3>1. Input(stage) = slot["parsed"] /\ slot["parsed"] # <<>>
        BY <2>2 DEF Input, Reached
      <3> QED  BY <1>2, <3>1
    <2>3. CASE stage = "embedding"
      <3>1. Input(stage) = slot["chunks"] /\ slot["parsed"] # <<>> /\ slot["chunks"] # <<>>
        BY <2>3 DEF Input, Reached
      <3> QED  BY <1>2, <3>1
    <2> QED  BY <2>1, <2>2, <2>3 DEF ArtifactStages
  <1>5. \A n \in {0, 1, 2} : n <= 2
    OBVIOUS
  <1> QED  BY <1>1, <1>4, <1>5, Zenon

LEMMA MakeKeeps ==
    ASSUME Inv, FrameOK', NEW w \in Workers, Make(w)
    PROVE  Inv'
  <1>1. /\ run[w].pc = "make" /\ RunFits(run[w]) /\ TypeOK /\ SlotsFit /\ run[w] \in Run
        /\ UNCHANGED Shared
    BY DEF Inv, TypeOK, Make, At, Shared, artifacts, index
  <1>2. CASE \E why \in Reason : Raise(w, why)
    BY <1>1, <1>2, RestKeeps
  <1>3. CASE run' = [run EXCEPT ![w].content = Append(@, w), ![w].pc = "reserve"]
    <2> DEFINE made == Append(run[w].content, w)
               x == [run[w] EXCEPT !.content = made, !.pc = "reserve"]
    <2>1. /\ run[w].at \in ArtifactStages /\ Reached(run[w].at)
          /\ run[w].content = Input(run[w].at)
      BY <1>1 DEF RunFits, AtWork, Publishing
    <2>2. run' = [run EXCEPT ![w] = x]
      BY <1>1, <1>3 DEF TypeOK
    <2>3. Made(Input(run[w].at), made)
      BY <2>1 DEF Made
    <2>4. made \in Contents
      <3>1. run[w].content \in Seq(Workers) /\ Len(run[w].content) <= 2
        BY <1>1, <2>1, InputIsShort
      <3>2. made \in Seq(Workers) /\ Len(made) = Len(run[w].content) + 1
        BY <3>1, AppendMakes
      <3>3. Len(made) <= 3
        <4>1. Len(run[w].content) \in Nat
          BY <3>1
        <4> HIDE DEF made
        <4> QED  BY <3>1, <3>2, <4>1
      <3> HIDE DEF made
      <3> QED  BY <3>2, <3>3, ContentsAre, Zenon
    <2> HIDE DEF made
    <2>5. x \in Run /\ x.content = made /\ x.pc = "reserve" /\ x.at = run[w].at
      BY <1>1, <2>4 DEF Run, Step
    <2> HIDE DEF x
    <2>6. Others(w) /\ run'[w] = x
      BY <1>1, <2>2, <2>5, UpdateMoves
    <2>7. Reached(run[w].at)' /\ Input(run[w].at)' = Input(run[w].at)
      BY <1>1, <2>1, <2>5, <2>6 DEF Reached, Input, Shared
    <2>8. Exclusive(w)
      BY <2>5, <2>6 DEF Exclusive, Holding
    <2>9. Made(Input(run[w].at)', run'[w].content)
      BY <2>3, <2>5, <2>6, <2>7
    <2>10. RunFits(run[w])'
      BY <2>1, <2>5, <2>6, <2>7, <2>9 DEF RunFits, Holding, Indexing
    <2> QED  BY <1>1, <2>6, <2>8, <2>10, RunOnlyKeeps
  <1> QED  BY <1>2, <1>3 DEF Make, Reason

\* complete_embedding has the verified vectors.
LEMMA AdvanceKeeps ==
    ASSUME Inv, FrameOK', NEW w \in Workers, Advance(w)
    PROVE  Inv'
  <1>1. /\ run[w].pc = "advance" /\ RunFits(run[w]) /\ TypeOK
        /\ UNCHANGED <<job, slot, recorded, file, attempt, build>>
    BY DEF Inv, Advance, At, artifacts, index
  <1>2. run[w].at = "embedding" /\ slot["embeddings"] # <<>> /\ Reached("embedding")
    BY <1>1 DEF RunFits, AtWork
  <1>3. CASE Raise(w, "inactive") /\ UNCHANGED proj
    <2>1. UNCHANGED Shared /\ \E why \in Reason : Raise(w, why)
      BY <1>1, <1>3 DEF Shared, Reason
    <2> QED  BY <2>1, RestKeeps
  <1>4. CASE proj # "embedding" /\ Enter(w, proj) /\ UNCHANGED proj
    <2>1. UNCHANGED Shared
      BY <1>1, <1>4 DEF Shared
    <2>2. proj # "pending" /\ proj # "parsing"
      BY <1>2, Tables DEF Reached
    <2> QED  BY <1>4, <2>1, <2>2, EnterHere
  <1>5. CASE proj = "embedding" /\ proj' = "indexing" /\ Commit(w, Enter(w, "indexing"))
    <2>1. RowsOK' /\ StatusesAgree' /\ IndexFits'
      BY <1>1, <1>5, TypeParts
         DEF Inv, RowsOK, Status, Stages, StatusesAgree, IndexFits, IsOpen
    <2>2. SlotsFit'
      <3>1. slot["parsed"] # <<>> /\ slot["chunks"] # <<>>
        BY <1>2 DEF Reached
      <3> QED  BY <1>1, <1>2, <3>1, Tables, StatusOnly DEF Inv, ArtifactStages
    <2>3. OneOpen' /\ Claims(w)
      BY <1>1, KindIsKind DEF Inv, OneOpen, Claims, OpenAt, OpenAfter
    <2>4. Forward
      BY <1>1, <1>5, Tables DEF Forward
    <2>5. Others(w) /\ Exclusive(w) /\ RunFits(run[w])'
      <3>1. CASE Enter(w, "indexing")
        <4>1. Reached("indexing")'
          BY <1>1, <1>2, <1>5, Tables DEF Reached
        <4>2. TypeOK /\ "indexing" \in Status
          BY DEF Inv, Status, Stages
        <4> QED  BY <2>1, <3>1, <4>1, <4>2, EnterFits
      <3>2. CASE Raise(w, "transient")
        BY <3>2, CommitKeeps DEF Inv
      <3> QED  BY <1>5, <3>1, <3>2 DEF Commit
    <2> QED  BY <2>1, <2>2, <2>3, <2>4, <2>5, StepKeeps
  <1> QED  BY <1>3, <1>4, <1>5 DEF Advance

------------------------------------------------------------------------------
(* Indexing.                                                                 *)

LEMMA IndexingRun ==
    ASSUME Inv, NEW w \in Workers, run[w].pc \in Indexing
    PROVE  /\ TypeOK /\ RunFits(run[w]) /\ run[w].at = "indexing" /\ Reached("indexing")
           /\ proj # "pending" /\ proj \notin {"parsing", "chunking", "embedding"}
  <1>1. TypeOK /\ RunFits(run[w])
    BY DEF Inv
  <1>2. run[w].at = "indexing" /\ Reached("indexing")
    BY <1>1 DEF RunFits, AtWork
  <1> QED  BY <1>1, <1>2, Tables DEF Reached

\* The indexing stage goes on without an attempt of its own.
LEMMA IndexingGoesOn ==
    ASSUME Inv, NEW w \in Workers, run[w].pc \in Indexing, RowsOK', Forward,
           Goto(w, "reserve index") \/ Goto(w, "verify") \/ Goto(w, "complete"),
           build' # "none", Goto(w, "verify") => build' \in {"prepared", "ready"}
    PROVE  Others(w) /\ Exclusive(w) /\ RunFits(run[w])'
  <1>1. TypeOK /\ run[w].at = "indexing" /\ Reached("indexing")
    BY IndexingRun
  <1>2. Reached("indexing")'
    BY <1>1, StillReached DEF Stages
  <1>3. ASSUME NEW step \in {"reserve index", "verify", "complete"}, Goto(w, step),
               step = "verify" => build' \in {"prepared", "ready"}
        PROVE  Others(w) /\ Exclusive(w) /\ RunFits(run[w])'
    <2>1. Others(w) /\ run'[w].pc = step /\ run'[w].at = "indexing"
      BY <1>1, <1>3, GotoMoves DEF Step
    <2>2. Exclusive(w)
      BY <2>1 DEF Exclusive, Holding
    <2>3. Reached(run[w].at)'
      BY <1>2, <2>1 DEF Reached
    <2> QED  BY <1>3, <2>1, <2>2, <2>3 DEF RunFits, Holding, Publishing
  <1> QED  BY <1>3

LEMMA EnsureBuildKeeps ==
    ASSUME Inv, FrameOK', NEW w \in Workers, EnsureBuild(w)
    PROVE  Inv'
  <1>1. /\ run[w].pc \in Indexing /\ TypeOK
        /\ UNCHANGED <<job, proj, slot, recorded, file, attempt>>
    BY DEF Inv, EnsureBuild, At, Indexing, artifacts
  <1>2. CASE UNCHANGED build /\ \E why \in Reason : Raise(w, why)
    BY <1>1, <1>2, RestKeeps DEF Shared
  <1>3. CASE /\ proj = "indexing" /\ build' = (IF build = "none" THEN "building" ELSE build)
             /\ Commit(w, Goto(w, "reserve index"))
    <2>1. RowsOK' /\ StatusesAgree'
      BY <1>1, <1>3, TypeParts DEF Inv, RowsOK, StatusesAgree
    <2>2. IndexFits'
      BY <1>1, <1>3 DEF Inv, IndexFits, IsOpen
    <2>3. SlotsFit'
      BY <1>1, AttemptsOnly DEF Inv
    <2>4. OneOpen' /\ Claims(w)
      BY <1>1, KindIsKind DEF Inv, OneOpen, Claims, OpenAt, OpenAfter
    <2>5. Forward
      <3>1. UNCHANGED <<proj, slot, file>> /\ proj = "indexing" /\ Rank["indexing"] = 4
        BY <1>1, <1>3, Tables
      <3>2. build' # "none" /\ (build # "none" => build' = build)
        BY <1>3
      <3> QED  BY <3>1, <3>2 DEF Forward
    <2>6. Others(w) /\ Exclusive(w) /\ RunFits(run[w])'
      <3>1. CASE Goto(w, "reserve index")
        <4>1. run'[w].pc = "reserve index"
          BY <1>1, <3>1, GotoMoves DEF Step
        <4>2. ~Goto(w, "verify")
          BY <1>1, <4>1, GotoMoves DEF Step
        <4>3. build' # "none"
          BY <1>3
        <4> QED  BY <1>1, <2>1, <2>5, <3>1, <4>2, <4>3, IndexingGoesOn
      <3>2. CASE Raise(w, "transient")
        BY <3>2, CommitKeeps DEF Inv
      <3> QED  BY <1>3, <3>1, <3>2 DEF Commit
    <2> QED  BY <2>1, <2>2, <2>3, <2>4, <2>5, <2>6, StepKeeps
  <1> QED  BY <1>2, <1>3 DEF EnsureBuild, Reason

LEMMA ReserveIndexKeeps ==
    ASSUME Inv, FrameOK', NEW w \in Workers, ReserveIndex(w)
    PROVE  Inv'
  <1>1. /\ run[w].pc = "reserve index" /\ run[w].pc \in Indexing /\ TypeOK /\ run[w] \in Run
        /\ UNCHANGED <<job, proj, slot, recorded, file, build>>
    BY DEF Inv, TypeOK, ReserveIndex, At, Indexing, artifacts, index
  <1>2. CASE UNCHANGED attempt /\ (Acknowledge(w) \/ \E why \in Reason : Raise(w, why))
    BY <1>1, <1>2, RestKeeps DEF Shared
  <1>3. CASE UNCHANGED attempt /\ build # "building" /\ Goto(w, "verify")
    <2>1. UNCHANGED Shared
      BY <1>1, <1>3 DEF Shared
    <2>2. RowsOK' /\ Forward
      BY <2>1, SharedKeeps
    <2>3. build' \in {"prepared", "ready"}
      <3>1. build # "none"
        BY <1>1, IndexingRun DEF RunFits
      <3> QED  BY <1>1, <1>3, <3>1 DEF TypeOK
    <2> QED  BY <1>1, <1>3, <2>1, <2>2, <2>3, IndexingGoesOn, RunOnlyKeeps
  <1>4. CASE /\ ~IsOpen("index") /\ build = "building" /\ Open("index")
             /\ Commit(w, run' = [run EXCEPT ![w].claim = Len(attempt["index"]) + 1, ![w].pc = "prepare"])
    <2>1. "index" \in Kinds
      BY DEF Kinds
    <2> DEFINE n == Len(attempt["index"]) + 1
    <2>2. /\ attempt' \in [Kinds -> Seq(AttemptState)] /\ OneOpen' /\ Claims(w)
          /\ \A k \in Kinds : k # "index" => attempt'[k] = attempt[k]
          /\ OpenAfter("index", n) /\ n \in Nat
      BY <1>4, <2>1, OpenKeeps
    <2>3. RowsOK' /\ StatusesAgree'
      BY <1>1, <2>2, TypeParts DEF Inv, RowsOK, StatusesAgree
    <2>4. IndexFits'
      BY <1>1, <1>4 DEF Inv, IndexFits
    <2>5. SlotsFit'
      BY <1>1, <2>2, AttemptsOnly DEF Inv, Kinds, Roles
    <2>6. Forward
      BY <1>1, ForwardStays
    <2>7. Others(w) /\ Exclusive(w) /\ RunFits(run[w])'
      <3>1. CASE run' = [run EXCEPT ![w].claim = Len(attempt["index"]) + 1, ![w].pc = "prepare"]
        <4> DEFINE x == [run[w] EXCEPT !.claim = n, !.pc = "prepare"]
        <4>1. run' = [run EXCEPT ![w] = x]
          BY <1>1, <3>1 DEF TypeOK
        <4> HIDE DEF n
        <4>2. x \in Run /\ x.claim = n /\ x.pc = "prepare" /\ x.at = run[w].at
          BY <1>1, <2>2 DEF Run, Step
        <4> HIDE DEF x
        <4>3. Others(w) /\ run'[w] = x
          BY <1>1, <4>1, <4>2, UpdateMoves
        <4>4. run[w].at = "indexing" /\ Reached("indexing")
          BY <1>1, IndexingRun
        <4>5. Reached(run[w].at)'
          BY <1>1, <4>2, <4>3, <4>4 DEF Reached
        <4>6. KindOf(run'[w]) = "index"
          BY <4>2, <4>3 DEF KindOf
        <4>7. OpenAt(KindOf(run[w]), run[w].claim)'
          BY <2>2, <4>2, <4>3, <4>6 DEF OpenAt, OpenAfter, KindOf
        <4>8. Exclusive(w)
          BY <1>4, <2>1, <4>6 DEF Exclusive
        <4>9. RunFits(run[w])'
          BY <1>1, <1>4, <4>2, <4>3, <4>4, <4>5, <4>7 DEF RunFits, Publishing
        <4> QED  BY <4>3, <4>8, <4>9
      <3>2. CASE Raise(w, "transient")
        BY <3>2, CommitKeeps DEF Inv
      <3> QED  BY <1>4, <3>1, <3>2 DEF Commit
    <2> QED  BY <2>2, <2>3, <2>4, <2>5, <2>6, <2>7, StepKeeps
  <1> QED  BY <1>2, <1>3, <1>4 DEF ReserveIndex, MayReserve, Reason

\* The index writer goes on with the attempt that it holds.
LEMMA PrepareKeeps ==
    ASSUME Inv, FrameOK', NEW w \in Workers, Prepare(w)
    PROVE  Inv'
  <1>1. /\ run[w].pc = "prepare" /\ run[w].pc \in Indexing /\ TypeOK /\ UNCHANGED Shared
    BY DEF Inv, Prepare, At, Indexing, Shared, artifacts, index
  <1>2. CASE Acknowledge(w) \/ \E why \in Reason : Raise(w, why)
    BY <1>1, <1>2, RestKeeps
  <1>3. ASSUME NEW step \in {"finish index", "close index"}, Goto(w, step) PROVE Inv'
    <2>1. run[w].at = "indexing" /\ Reached("indexing") /\ build # "none" /\ OpenAt("index", run[w].claim)
      BY <1>1, IndexingRun DEF RunFits, Holding, KindOf
    <2>2. Others(w) /\ Carries(w) /\ run'[w].pc = step /\ run'[w].at = "indexing"
      BY <1>1, <1>3, <2>1, GotoMoves DEF Step
    <2>3. Holding(run[w]) /\ KindOf(run[w]) = "index" /\ KindOf(run'[w]) = "index"
      BY <1>1, <2>2 DEF Holding, KindOf
    <2>4. OpenAt(KindOf(run[w]), run[w].claim)'
      BY <1>1, <2>1, <2>2, <2>3 DEF OpenAt, KindOf, Carries, Shared
    <2>5. Reached(run[w].at)'
      BY <1>1, <2>1, <2>2 DEF Reached, Shared
    <2>6. RunFits(run[w])'
      BY <1>1, <2>1, <2>2, <2>4, <2>5 DEF RunFits, Publishing, Shared
    <2> QED  BY <1>1, <2>2, <2>3, <2>6, RunOnlyKeeps DEF Exclusive
  <1> QED  BY <1>2, <1>3 DEF Prepare, Reason

\* The writer of an index finds the build as it left it: no one else prepares it.
LEMMA IndexWriter ==
    ASSUME Inv, NEW w \in Workers, run[w].pc \in {"finish index", "close index"}
    PROVE  /\ TypeOK /\ Holding(run[w]) /\ KindOf(run[w]) = "index" /\ "index" \in Kinds
           /\ run[w].pc \in Indexing /\ build = "building" /\ proj # "ready"
  <1>1. TypeOK /\ RunFits(run[w]) /\ IndexFits
    BY DEF Inv
  <1>2. Holding(run[w]) /\ KindOf(run[w]) = "index" /\ run[w].pc \in Indexing /\ "index" \in Kinds
    BY DEF Holding, KindOf, Indexing, Kinds
  <1>3. IsOpen("index")
    BY <1>1, <1>2 DEF RunFits, OpenAt, IsOpen
  <1> QED  BY <1>1, <1>2, <1>3 DEF IndexFits

LEMMA FinishIndexKeeps ==
    ASSUME Inv, FrameOK', NEW w \in Workers, FinishIndex(w)
    PROVE  Inv'
  <1>1. /\ run[w].pc = "finish index" /\ UNCHANGED <<job, proj, slot, recorded, file>>
    BY DEF FinishIndex, At, artifacts
  <1>2. /\ TypeOK /\ Holding(run[w]) /\ KindOf(run[w]) = "index" /\ "index" \in Kinds
        /\ run[w].pc \in Indexing /\ build = "building" /\ proj # "ready"
    BY <1>1, IndexWriter
  <1>3. CASE UNCHANGED <<attempt, build>> /\ Raise(w, "inactive")
    <2>1. UNCHANGED Shared /\ \E why \in Reason : Raise(w, why)
      BY <1>1, <1>3 DEF Shared, Reason
    <2> QED  BY <2>1, RestKeeps
  <1>4. CASE /\ build' = "prepared" /\ Settle("index", run[w].claim, "verified")
             /\ Goto(w, "verify") \/ Acknowledge(w)
    <2>1. /\ attempt' \in [Kinds -> Seq(AttemptState)] /\ OneOpen' /\ Claims(w)
          /\ \A k \in Kinds : k # "index" => attempt'[k] = attempt[k]
          /\ ~IsOpen("index")'
      BY <1>2, <1>4, SettleKeeps
    <2>2. RowsOK' /\ StatusesAgree'
      BY <1>1, <1>4, <2>1, TypeParts DEF Inv, RowsOK, StatusesAgree
    <2>3. IndexFits'
      BY <1>1, <1>2, <2>1 DEF IndexFits
    <2>4. SlotsFit'
      BY <1>1, <2>1, AttemptsOnly DEF Inv, Kinds, Roles
    <2>5. Forward
      <3>1. proj # "failed" => Rank[proj] \in Nat
        BY <1>2, RankIsNat DEF TypeOK
      <3>2. proj' = proj /\ slot' = slot /\ file' = file
        BY <1>1
      <3>3. proj' # "failed" => proj # "failed" /\ Rank[proj] <= Rank[proj']
        BY <3>1, <3>2
      <3> QED  BY <1>2, <1>4, <3>2, <3>3 DEF Forward
    <2>6. Others(w) /\ Exclusive(w) /\ RunFits(run[w])'
      <3>1. CASE Goto(w, "verify")
        <4>1. build' \in {"prepared", "ready"} /\ build' # "none"
          BY <1>4
        <4> QED  BY <1>2, <2>2, <2>5, <3>1, <4>1, IndexingGoesOn
      <3>2. CASE Acknowledge(w)
        BY <1>2, <3>2, RestMoves, RestFits
      <3> QED  BY <1>4, <3>1, <3>2
    <2> QED  BY <2>1, <2>2, <2>3, <2>4, <2>5, <2>6, StepKeeps
  <1> QED  BY <1>3, <1>4 DEF FinishIndex

LEMMA CloseIndexKeeps ==
    ASSUME Inv, FrameOK', NEW w \in Workers, CloseIndex(w)
    PROVE  Inv'
  <1>1. /\ run[w].pc = "close index"
        /\ UNCHANGED <<job, proj, slot, recorded, file, build>>
    BY DEF CloseIndex, At, artifacts, index
  <1>2. /\ TypeOK /\ Holding(run[w]) /\ KindOf(run[w]) = "index" /\ "index" \in Kinds /\ proj # "ready"
    BY <1>1, IndexWriter
  <1>3. Acknowledge(w) \/ \E why \in Reason : Raise(w, why)
    BY DEF CloseIndex, Reason
  <1>4. CASE UNCHANGED attempt
    BY <1>1, <1>3, <1>4, RestKeeps DEF Shared
  <1>5. CASE Settle("index", run[w].claim, "failed")
    <2>1. /\ attempt' \in [Kinds -> Seq(AttemptState)] /\ OneOpen' /\ Claims(w)
          /\ \A k \in Kinds : k # "index" => attempt'[k] = attempt[k]
          /\ ~IsOpen("index")'
      BY <1>2, <1>5, SettleKeeps
    <2>2. RowsOK' /\ StatusesAgree'
      BY <1>1, <2>1, TypeParts DEF Inv, RowsOK, StatusesAgree
    <2>3. IndexFits'
      BY <1>1, <1>2, <2>1 DEF IndexFits
    <2>4. SlotsFit'
      BY <1>1, <2>1, AttemptsOnly DEF Inv, Kinds, Roles
    <2>5. Forward
      BY <1>1, <1>2, ForwardStays
    <2>6. Others(w) /\ Exclusive(w) /\ RunFits(run[w])'
      BY <1>2, <1>3, RestMoves, RestFits
    <2> QED  BY <2>1, <2>2, <2>3, <2>4, <2>5, <2>6, StepKeeps
  <1> QED  BY <1>4, <1>5 DEF CloseIndex

\* The alias moves only for a prepared build, whose writer has ended.
LEMMA VerifyKeeps ==
    ASSUME Inv, FrameOK', NEW w \in Workers, Verify(w)
    PROVE  Inv'
  <1>1. /\ run[w].pc = "verify" /\ run[w].pc \in Indexing
        /\ UNCHANGED <<slot, recorded, file, attempt>>
    BY DEF Verify, At, Indexing, artifacts
  <1>2. TypeOK /\ build \in {"prepared", "ready"} /\ IndexFits /\ SlotsFit /\ StatusesAgree
    BY <1>1, IndexingRun DEF RunFits, Inv
  <1>3. CASE UNCHANGED <<job, proj, build>> /\ (Acknowledge(w) \/ \E why \in Reason : Raise(w, why))
    BY <1>1, <1>3, RestKeeps DEF Shared
  <1>4. CASE UNCHANGED <<job, proj, build>> /\ Goto(w, "complete")
    <2>1. UNCHANGED Shared /\ build' = build
      BY <1>1, <1>4 DEF Shared
    <2>2. RowsOK' /\ Forward
      BY <2>1, SharedKeeps
    <2> QED  BY <1>1, <1>2, <1>4, <2>1, <2>2, IndexingGoesOn, RunOnlyKeeps
  <1>5. OneOpen' /\ Claims(w)
    BY <1>1, KindIsKind DEF Inv, OneOpen, Claims, OpenAt, OpenAfter
  <1>6. CASE proj = "indexing" /\ Activate /\ Commit(w, Goto(w, "complete"))
    <2>1. build' = "ready" /\ proj' = "ready" /\ job' = "succeeded"
      BY <1>6 DEF Activate
    <2>2. RowsOK' /\ StatusesAgree'
      BY <1>1, <1>2, <2>1, TypeParts DEF RowsOK, StatusesAgree, JobStatus, Status, Terminal
    <2>3. IndexFits'
      BY <1>1, <1>2, <2>1 DEF IndexFits, IsOpen
    <2>4. SlotsFit'
      <3>1. slot["parsed"] # <<>> /\ slot["chunks"] # <<>> /\ slot["embeddings"] # <<>>
        BY <1>2, <1>6, Tables DEF SlotsFit, ArtifactStages
      <3> QED  BY <1>1, <1>2, <3>1, Tables, StatusOnly DEF ArtifactStages
    <2>5. Forward
      <3>1. Rank[proj] <= Rank[proj']
        BY <1>6, <2>1, Tables
      <3> QED  BY <1>1, <1>6, <2>1, <3>1 DEF Forward
    <2>6. Others(w) /\ Exclusive(w) /\ RunFits(run[w])'
      <3>1. CASE Goto(w, "complete")
        BY <1>1, <2>1, <2>2, <2>5, <3>1, IndexingGoesOn
      <3>2. CASE Raise(w, "transient")
        BY <1>2, <3>2, CommitKeeps
      <3> QED  BY <1>6, <3>1, <3>2 DEF Commit
    <2> QED  BY <1>5, <2>2, <2>3, <2>4, <2>5, <2>6, StepKeeps
  <1> QED  BY <1>3, <1>4, <1>6 DEF Verify, Reason, index

LEMMA CompleteIndexingKeeps ==
    ASSUME Inv, FrameOK', NEW w \in Workers, CompleteIndexing(w)
    PROVE  Inv'
  <1>1. run[w].pc \in Indexing /\ UNCHANGED Shared
    BY DEF CompleteIndexing, At, Indexing, Shared, artifacts, index
  <1>2. proj # "pending" /\ proj # "parsing"
    BY <1>1, IndexingRun
  <1>3. CASE Raise(w, "inactive")
    BY <1>1, <1>3, RestKeeps DEF Reason
  <1>4. CASE Enter(w, proj)
    BY <1>1, <1>2, <1>4, EnterHere
  <1> QED  BY <1>3, <1>4 DEF CompleteIndexing

------------------------------------------------------------------------------
(* Publication.                                                              *)

LEMMA PublishingRun ==
    ASSUME Inv, NEW w \in Workers, run[w].pc \in Publishing
    PROVE  /\ TypeOK /\ SlotsFit /\ RunFits(run[w]) /\ run[w] \in Run
           /\ run[w].at \in ArtifactStages /\ run[w].at \in Stages /\ Reached(run[w].at)
           /\ Role(w) = RoleOf[run[w].at] /\ Role(w) \in Roles /\ Role(w) \in Kinds /\ Role(w) # "index"
  <1>1. TypeOK /\ SlotsFit /\ RunFits(run[w]) /\ run[w] \in Run
    BY DEF Inv, TypeOK
  <1>2. run[w].at \in ArtifactStages /\ run[w].at \in Stages /\ Reached(run[w].at)
    BY <1>1 DEF RunFits, AtWork, ArtifactStages, Stages
  <1> QED  BY <1>1, <1>2, Tables DEF Role, Roles, Kinds, ArtifactStages

\* A claim is the position of an attempt, never 0.
LEMMA ClaimIsPosition ==
    ASSUME TypeOK, NEW kind \in Kinds, NEW n, OpenAt(kind, n)
    PROVE  n # 0
  <1>1. attempt[kind] \in Seq(AttemptState) /\ n \in DOMAIN attempt[kind]
    BY DEF TypeOK, Kinds, OpenAt
  <1> QED  BY <1>1

LEMMA ReserveKeeps ==
    ASSUME Inv, FrameOK', NEW w \in Workers, Reserve(w)
    PROVE  Inv'
  <1>1. /\ run[w].pc = "reserve" /\ run[w].pc \in Publishing
        /\ UNCHANGED <<job, proj, slot, recorded, file, build>>
    BY DEF Reserve, At, Publishing, artifacts, index
  <1>2. /\ TypeOK /\ SlotsFit /\ RunFits(run[w]) /\ run[w] \in Run
        /\ run[w].at \in ArtifactStages /\ run[w].at \in Stages /\ Reached(run[w].at)
        /\ Role(w) = RoleOf[run[w].at] /\ Role(w) \in Roles /\ Role(w) \in Kinds /\ Role(w) # "index"
    BY <1>1, PublishingRun
  <1> DEFINE role == RoleOf[run[w].at]
  <1>3. CASE UNCHANGED attempt /\ (Acknowledge(w) \/ \E why \in Reason : Raise(w, why))
    BY <1>1, <1>3, RestKeeps DEF Shared
  <1>4. CASE /\ slot[Role(w)] # <<>> /\ UNCHANGED attempt
             /\ run' = [run EXCEPT ![w].content = file[Role(w)], ![w].claim = 0, ![w].pc = "accept"]
    <2> DEFINE x == [run[w] EXCEPT !.content = slot[role], !.claim = 0, !.pc = "accept"]
    <2>1. file[role] = slot[role] /\ slot[role] # <<>> /\ slot[role] \in Contents /\ UNCHANGED Shared
      BY <1>1, <1>2, <1>4 DEF SlotsFit, TypeOK, Shared
    <2>2. run' = [run EXCEPT ![w] = x]
      BY <1>2, <1>4, <2>1 DEF TypeOK
    <2>3. x \in Run /\ x.content = slot[role] /\ x.claim = 0 /\ x.pc = "accept" /\ x.at = run[w].at
      BY <1>2, <2>1 DEF Run, Step
    <2> HIDE DEF x
    <2>4. Others(w) /\ run'[w] = x
      BY <1>2, <2>2, <2>3, UpdateMoves
    <2>5. Reached(run[w].at)'
      BY <1>2, <2>1, <2>3, <2>4 DEF Reached, Shared
    <2>6. ~Holding(run'[w])
      BY <2>3, <2>4 DEF Holding
    <2>7. slot'[RoleOf[run'[w].at]] # <<>> /\ run'[w].content = slot'[RoleOf[run'[w].at]]
      BY <1>1, <2>1, <2>3, <2>4
    <2>8. RunFits(run[w])'
      BY <1>2, <2>3, <2>4, <2>5, <2>6, <2>7 DEF RunFits, Indexing
    <2> QED  BY <2>1, <2>4, <2>6, <2>8, RunOnlyKeeps DEF Exclusive
  <1>5. CASE /\ slot[Role(w)] = <<>> /\ ~IsOpen(Role(w)) /\ Open(Role(w))
             /\ Commit(w, run' = [run EXCEPT ![w].claim = Len(attempt[Role(w)]) + 1, ![w].pc = "write"])
    <2> DEFINE n == Len(attempt[role]) + 1
    <2>1. /\ attempt' \in [Kinds -> Seq(AttemptState)] /\ OneOpen' /\ Claims(w)
          /\ \A k \in Kinds : k # role => attempt'[k] = attempt[k]
          /\ OpenAfter(role, n) /\ n \in Nat
      BY <1>2, <1>5, OpenKeeps
    <2>2. RowsOK' /\ StatusesAgree'
      BY <1>1, <1>2, <2>1, TypeParts DEF Inv, RowsOK, StatusesAgree
    <2>3. IndexFits'
      BY <1>1, <1>2, <2>1 DEF Inv, IndexFits, IsOpen, Kinds
    <2>4. SlotsFit'
      BY <1>1, <1>2, <1>5, <2>1, AttemptsOnly DEF Kinds, Roles
    <2>5. Forward
      BY <1>1, <1>2, ForwardStays
    <2>6. Others(w) /\ Exclusive(w) /\ RunFits(run[w])'
      <3>1. CASE run' = [run EXCEPT ![w].claim = Len(attempt[Role(w)]) + 1, ![w].pc = "write"]
        <4> DEFINE x == [run[w] EXCEPT !.claim = n, !.pc = "write"]
        <4>1. run' = [run EXCEPT ![w] = x]
          BY <1>2, <3>1 DEF TypeOK
        <4> HIDE DEF n
        <4>2. /\ x \in Run /\ x.claim = n /\ x.pc = "write" /\ x.at = run[w].at
              /\ x.content = run[w].content
          BY <1>2, <2>1 DEF Run, Step
        <4> HIDE DEF x
        <4>3. Others(w) /\ run'[w] = x
          BY <1>2, <4>1, <4>2, UpdateMoves
        <4>4. Reached(run[w].at)' /\ Input(run[w].at)' = Input(run[w].at)
          BY <1>1, <1>2, <4>2, <4>3 DEF Reached, Input
        <4>5. Made(Input(run[w].at)', run'[w].content)
          BY <1>1, <1>2, <4>2, <4>3, <4>4 DEF RunFits
        <4>6. KindOf(run'[w]) = role
          BY <4>2, <4>3 DEF KindOf
        <4>7. OpenAt(KindOf(run[w]), run[w].claim)'
          BY <2>1, <4>2, <4>3, <4>6 DEF OpenAt, OpenAfter, KindOf
        <4>8. Exclusive(w)
          BY <1>2, <1>5, <4>6 DEF Exclusive
        <4>9. RunFits(run[w])'
          BY <1>2, <4>2, <4>3, <4>4, <4>5, <4>7 DEF RunFits, Indexing
        <4> QED  BY <4>3, <4>8, <4>9
      <3>2. CASE Raise(w, "transient")
        BY <1>2, <3>2, CommitKeeps
      <3> QED  BY <1>5, <3>1, <3>2 DEF Commit
    <2> QED  BY <2>1, <2>2, <2>3, <2>4, <2>5, <2>6, StepKeeps
  <1> QED  BY <1>3, <1>4, <1>5 DEF Reserve, MayReserve, Reason

\* The writer that holds the attempt of a role: its slot is empty.
LEMMA Writer ==
    ASSUME Inv, NEW w \in Workers, \/ run[w].pc \in {"write", "close"}
                                   \/ run[w].pc = "accept" /\ run[w].claim # 0
    PROVE  /\ Holding(run[w]) /\ KindOf(run[w]) = Role(w) /\ run[w].claim # 0
           /\ OpenAt(Role(w), run[w].claim) /\ slot[Role(w)] = <<>>
           /\ Made(Input(run[w].at), run[w].content) /\ run[w].content # <<>>
           /\ run[w].content \in Contents
  <1>1. run[w].pc \in Publishing
    BY DEF Publishing
  <1>2. /\ TypeOK /\ SlotsFit /\ RunFits(run[w]) /\ run[w] \in Run /\ Role(w) \in Roles /\ Role(w) \in Kinds
        /\ Role(w) = RoleOf[run[w].at]
    BY <1>1, PublishingRun
  <1>3. Holding(run[w]) /\ KindOf(run[w]) = Role(w)
    BY <1>2 DEF Holding, KindOf
  <1>4. OpenAt(Role(w), run[w].claim)
    BY <1>3, KindIsKind
  <1>5. slot[Role(w)] = <<>>
    BY <1>2, <1>4 DEF SlotsFit, OpenAt, IsOpen
  <1>6. Made(Input(run[w].at), run[w].content)
    BY <1>2 DEF RunFits
  <1>7. run[w].content # <<>>
    BY <1>2, <1>6, MadeIsContent
  <1>8. run[w].content \in Contents
    BY <1>2 DEF Run
  <1> QED  BY <1>2, <1>3, <1>4, <1>5, <1>6, <1>7, <1>8, ClaimIsPosition

\* A file is published once, and only for an empty slot.
LEMMA WriteKeeps ==
    ASSUME Inv, FrameOK', NEW w \in Workers, Write(w)
    PROVE  Inv'
  <1>1. /\ run[w].pc = "write" /\ run[w].pc \in Publishing
        /\ UNCHANGED <<job, proj, slot, recorded, attempt, build>>
    BY DEF Write, At, Publishing, index
  <1>2. /\ TypeOK /\ SlotsFit /\ RunFits(run[w]) /\ run[w] \in Run
        /\ run[w].at \in ArtifactStages /\ run[w].at \in Stages /\ Reached(run[w].at)
        /\ Role(w) = RoleOf[run[w].at] /\ Role(w) \in Roles /\ Role(w) \in Kinds /\ Role(w) # "index"
    BY <1>1, PublishingRun
  <1>3. /\ Holding(run[w]) /\ KindOf(run[w]) = Role(w) /\ run[w].claim # 0
        /\ OpenAt(Role(w), run[w].claim) /\ slot[Role(w)] = <<>>
        /\ Made(Input(run[w].at), run[w].content) /\ run[w].content # <<>>
        /\ run[w].content \in Contents
    BY <1>1, Writer
  <1>4. \/ UNCHANGED file
        \/ file[Role(w)] = <<>> /\ file' = [file EXCEPT ![Role(w)] = run[w].content]
    BY DEF Write, Linked
  <1>5. /\ file' \in [Roles -> Contents]
        /\ \A role \in Roles : file[role] # <<>> => file'[role] = file[role]
    BY <1>2, <1>3, <1>4 DEF TypeOK
  <1>6. RowsOK' /\ StatusesAgree' /\ IndexFits'
    BY <1>1, <1>2, <1>5, TypeParts DEF Inv, RowsOK, StatusesAgree, IndexFits, IsOpen
  <1>7. SlotsFit'
    <2>1. ASSUME NEW role \in Roles, slot[role] # <<>>
          PROVE  recorded[role] = slot[role] /\ file'[role] = slot[role] /\ ~IsOpen(role)
      BY <1>2, <1>5, <2>1 DEF SlotsFit
    <2> QED  BY <1>1, <1>2, <2>1 DEF SlotsFit, IsOpen
  <1>8. OneOpen' /\ Claims(w)
    BY <1>1, KindIsKind DEF Inv, OneOpen, Claims, OpenAt, OpenAfter
  <1>9. Forward
    <2>1. proj # "failed" => Rank[proj] \in Nat
      BY <1>2, RankIsNat DEF TypeOK
    <2>2. proj' = proj /\ slot' = slot /\ build' = build
      BY <1>1
    <2>3. proj' # "failed" => proj # "failed" /\ Rank[proj] <= Rank[proj']
      BY <2>1, <2>2
    <2> QED  BY <1>5, <2>2, <2>3 DEF Forward
  <1>10. ASSUME NEW step \in {"close", "accept"}, Goto(w, step),
                step = "accept" => file' = [file EXCEPT ![Role(w)] = run[w].content]
         PROVE  Others(w) /\ Exclusive(w) /\ RunFits(run[w])'
    <2>1. Others(w) /\ Carries(w) /\ run'[w].pc = step /\ run'[w].at = run[w].at
      BY <1>2, <1>10, GotoMoves DEF Step
    <2>2. KindOf(run'[w]) = Role(w)
      BY <1>2, <2>1 DEF KindOf
    <2>3. OpenAt(KindOf(run[w]), run[w].claim)'
      BY <1>1, <1>3, <2>1, <2>2 DEF OpenAt, KindOf, Carries
    <2>4. Reached(run[w].at)' /\ Input(run[w].at)' = Input(run[w].at)
      BY <1>1, <1>2, <2>1 DEF Reached, Input
    <2>5. Made(Input(run[w].at)', run'[w].content)
      BY <1>3, <2>1, <2>4 DEF Carries
    <2>6. step = "accept" => file'[RoleOf[run'[w].at]] = run'[w].content
      BY <1>2, <1>10, <2>1 DEF Carries, TypeOK
    <2>7. RunFits(run[w])'
      BY <1>2, <1>3, <2>1, <2>3, <2>4, <2>5, <2>6 DEF RunFits, Carries, Indexing
    <2> QED  BY <1>3, <2>1, <2>2, <2>7 DEF Exclusive
  <1>11. ASSUME NEW why \in Reason, Raise(w, why)
         PROVE  Others(w) /\ Exclusive(w) /\ RunFits(run[w])'
    BY <1>2, <1>11, RestMoves, RestFits
  <1>12. Others(w) /\ Exclusive(w) /\ RunFits(run[w])'
    BY <1>10, <1>11 DEF Write, Linked, Reason
  <1> QED  BY <1>6, <1>7, <1>8, <1>9, <1>12, StepKeeps

LEMMA CloseKeeps ==
    ASSUME Inv, FrameOK', NEW w \in Workers, Close(w)
    PROVE  Inv'
  <1>1. /\ run[w].pc = "close" /\ run[w].pc \in Publishing /\ Settle(Role(w), run[w].claim, "failed")
        /\ UNCHANGED <<job, proj, slot, recorded, file, build>>
    BY DEF Close, At, Publishing, artifacts, index
  <1>2. TypeOK /\ SlotsFit /\ Role(w) \in Roles /\ Role(w) \in Kinds /\ Role(w) # "index"
    BY <1>1, PublishingRun
  <1>3. Holding(run[w]) /\ KindOf(run[w]) = Role(w) /\ slot[Role(w)] = <<>>
    BY <1>1, Writer
  <1>4. /\ attempt' \in [Kinds -> Seq(AttemptState)] /\ OneOpen' /\ Claims(w)
        /\ \A k \in Kinds : k # Role(w) => attempt'[k] = attempt[k]
    BY <1>1, <1>2, <1>3, SettleKeeps
  <1>5. RowsOK' /\ StatusesAgree'
    BY <1>1, <1>2, <1>4, TypeParts DEF Inv, RowsOK, StatusesAgree
  <1>6. IndexFits'
    BY <1>1, <1>2, <1>4 DEF Inv, IndexFits, IsOpen, Kinds
  <1>7. SlotsFit'
    BY <1>1, <1>2, <1>3, <1>4, AttemptsOnly DEF Kinds, Roles
  <1>8. Forward
    BY <1>1, <1>2, ForwardStays
  <1>9. Others(w) /\ Exclusive(w) /\ RunFits(run[w])'
    BY <1>2, RestMoves, RestFits DEF Close, Commit, Reason
  <1> QED  BY <1>4, <1>5, <1>6, <1>7, <1>8, <1>9, StepKeeps

\* What an accepted artifact is, of a writer or of a replay.
LEMMA Accepted ==
    ASSUME Inv, NEW w \in Workers, run[w].pc = "accept"
    PROVE  /\ run[w].content # <<>> /\ run[w].content \in Contents
           /\ Made(Input(run[w].at), run[w].content)
           /\ file[Role(w)] = run[w].content
           /\ run[w].claim = 0 => slot[Role(w)] = run[w].content /\ ~IsOpen(Role(w))
           /\ run[w].claim = 0 => recorded[Role(w)] = run[w].content
           /\ run[w].claim # 0 => slot[Role(w)] = <<>>
  <1>1. run[w].pc \in Publishing
    BY DEF Publishing
  <1>2. /\ TypeOK /\ SlotsFit /\ RunFits(run[w]) /\ run[w] \in Run /\ run[w].at \in ArtifactStages
        /\ Role(w) = RoleOf[run[w].at] /\ Role(w) \in Roles
    BY <1>1, PublishingRun
  <1>3. run[w].content \in Contents
    BY <1>2 DEF Run
  <1>4. CASE run[w].claim # 0
    BY <1>2, <1>3, <1>4, Writer DEF RunFits
  <1>5. CASE run[w].claim = 0
    <2>1. slot[Role(w)] # <<>> /\ run[w].content = slot[Role(w)]
      BY <1>2, <1>5 DEF RunFits
    <2>2. recorded[Role(w)] = slot[Role(w)] /\ file[Role(w)] = slot[Role(w)] /\ ~IsOpen(Role(w))
      BY <1>2, <2>1 DEF SlotsFit
    <2>3. Made(Input(run[w].at), slot[Role(w)])
      BY <1>2, <2>1, Tables DEF SlotsFit, Input, ArtifactStages
    <2> QED  BY <1>3, <1>5, <2>1, <2>2, <2>3
  <1> QED  BY <1>4, <1>5

LEMMA AcceptRows ==
    ASSUME Inv, NEW w \in Workers, run[w].pc = "accept", proj = run[w].at, Finalize(w), Record(w),
           proj' = NextStage[proj], UNCHANGED <<job, file, build>>,
           NEW CONSTANT stage, stage = run[w].at, NEW CONSTANT role, role = Role(w),
           NEW CONSTANT content, content = run[w].content
    PROVE  /\ RowsOK' /\ StatusesAgree' /\ SlotsFit' /\ OneOpen' /\ IndexFits' /\ Forward /\ Claims(w)
           /\ slot'[role] # <<>>
  <1>1. run[w].pc \in Publishing
    BY DEF Publishing
  <1>2. /\ TypeOK /\ SlotsFit /\ run[w] \in Run /\ stage \in ArtifactStages /\ Reached(stage)
        /\ role = RoleOf[stage] /\ role \in Roles /\ role \in Kinds /\ role # "index"
    BY <1>1, PublishingRun
  <1>3. /\ content # <<>> /\ content \in Contents /\ Made(Input(stage), content)
        /\ file[role] = content
        /\ run[w].claim = 0 => slot[role] = content /\ ~IsOpen(role) /\ recorded[role] = content
        /\ run[w].claim # 0 => slot[role] = <<>>
    BY Accepted
  <1>4. /\ attempt' \in [Kinds -> Seq(AttemptState)] /\ OneOpen' /\ Claims(w)
        /\ \A k \in Kinds : k # role => attempt'[k] = attempt[k]
        /\ ~IsOpen(role)'
    <2>1. CASE run[w].claim = 0
      <3>1. attempt' = attempt /\ ~IsOpen(role)
        BY <1>3, <2>1 DEF Finalize
      <3>2. attempt' \in [Kinds -> Seq(AttemptState)]
        BY <1>2, <3>1 DEF TypeOK, Kinds
      <3>3. OneOpen' /\ Claims(w)
        BY <3>1, KindIsKind DEF Inv, OneOpen, Claims, OpenAt, OpenAfter
      <3> QED  BY <3>1, <3>2, <3>3 DEF IsOpen
    <2>2. CASE run[w].claim # 0
      <3>1. Settle(role, run[w].claim, "verified")
        BY <2>2 DEF Finalize
      <3>2. Holding(run[w]) /\ KindOf(run[w]) = role
        BY <2>2, Writer
      <3> QED  BY <1>2, <3>1, <3>2, SettleKeeps
    <2> QED  BY <2>1, <2>2
  <1>5. /\ slot' \in [Roles -> Contents] /\ slot'[role] = content
        /\ \A q \in Roles : q # role => slot'[q] = slot[q]
    <2>1. slot \in [Roles -> Contents]
      BY <1>2 DEF TypeOK
    <2>2. (slot' = slot /\ slot[role] = content) \/ slot' = [slot EXCEPT ![role] = content]
      BY <1>3 DEF Finalize
    <2> QED  BY <1>2, <1>3, <2>1, <2>2
  <1>6. /\ recorded' \in [Roles -> Contents] /\ recorded'[role] = content
        /\ \A q \in Roles : q # role => recorded'[q] = recorded[q]
    <2>1. recorded \in [Roles -> Contents] /\ recorded' = [recorded EXCEPT ![role] = content]
      BY <1>2 DEF TypeOK, Record
    <2> QED  BY <1>2, <1>3, <2>1
  <1>7. /\ proj = stage /\ proj' = NextStage[stage] /\ proj \in Status /\ proj' \in Status
        /\ proj' \in {"chunking", "embedding"} /\ Rank[proj] <= Rank[proj']
    BY <1>2, Tables DEF ArtifactStages, Status, Stages
  <1>8. RowsOK'
    BY <1>2, <1>4, <1>5, <1>6, <1>7, TypeParts DEF RowsOK
  <1>9. StatusesAgree' /\ IndexFits'
    <2>1. StatusesAgree'
      BY <1>2, <1>7 DEF Inv, StatusesAgree, ArtifactStages
    <2>2. attempt'["index"] = attempt["index"]
      BY <1>2, <1>4 DEF Kinds
    <2>3. IndexFits'
      BY <1>7, <2>2 DEF Inv, IndexFits, IsOpen
    <2> QED  BY <2>1, <2>3
  <1>10. Forward
    <2>1. \A q \in Roles : slot[q] # <<>> => slot'[q] = slot[q]
      BY <1>3, <1>5
    <2>2. proj # "failed" /\ proj' # "pending"
      BY <1>2, <1>7 DEF ArtifactStages
    <2> QED  BY <1>7, <2>1, <2>2 DEF Forward
  <1>11. SlotsFit'
    <2>1. \A q \in Roles : slot'[q] # <<>> =>
            recorded'[q] = slot'[q] /\ file'[q] = slot'[q] /\ ~IsOpen(q)'
      <3> TAKE q \in Roles
      <3>1. CASE q = role
        BY <1>3, <1>4, <1>5, <1>6, <3>1
      <3>2. CASE q # role
        <4>1. /\ slot'[q] = slot[q] /\ recorded'[q] = recorded[q] /\ file'[q] = file[q]
              /\ attempt'[q] = attempt[q]
          BY <1>4, <1>5, <1>6, <3>2 DEF Kinds
        <4>2. slot[q] # <<>> => recorded[q] = slot[q] /\ file[q] = slot[q] /\ ~IsOpen(q)
          BY <1>2 DEF SlotsFit
        <4> QED  BY <4>1, <4>2 DEF IsOpen
      <3> QED  BY <3>1, <3>2
    <2>2. CASE stage = "parsing"
      <3>1. role = "parsed" /\ proj' = "chunking" /\ Input(stage) = <<>>
        BY <1>2, <1>7, <2>2, Tables DEF Input
      <3>2. slot'["parsed"] = content /\ slot'["chunks"] = slot["chunks"]
            /\ slot'["embeddings"] = slot["embeddings"]
        BY <1>5, <3>1 DEF Roles
      <3>3. slot["chunks"] # <<>> => slot["parsed"] = content
        BY <1>2, <1>3, <3>1 DEF SlotsFit
      <3>4. \A s \in ArtifactStages : Rank["chunking"] > Rank[s] => RoleOf[s] = "parsed"
        BY Tables DEF ArtifactStages
      <3> QED  BY <1>2, <1>3, <2>1, <3>1, <3>2, <3>3, <3>4 DEF SlotsFit
    <2>3. CASE stage = "chunking"
      <3>1. role = "chunks" /\ proj' = "embedding" /\ Input(stage) = slot["parsed"]
        BY <1>2, <1>7, <2>3, Tables DEF Input
      <3>2. slot'["parsed"] = slot["parsed"] /\ slot'["chunks"] = content
            /\ slot'["embeddings"] = slot["embeddings"] /\ slot["parsed"] # <<>>
        BY <1>2, <1>5, <2>3, <3>1 DEF Roles, Reached
      <3>3. slot["embeddings"] # <<>> => slot["chunks"] = content
        BY <1>2, <1>3, <3>1 DEF SlotsFit
      <3>4. \A s \in ArtifactStages : Rank["embedding"] > Rank[s] => RoleOf[s] \in {"parsed", "chunks"}
        BY Tables DEF ArtifactStages
      <3> QED  BY <1>2, <1>3, <2>1, <3>1, <3>2, <3>3, <3>4 DEF SlotsFit
    <2>4. CASE stage = "embedding"
      <3>1. role = "embeddings" /\ proj' = "embedding" /\ Input(stage) = slot["chunks"]
        BY <1>2, <1>7, <2>4, Tables DEF Input
      <3>2. slot'["parsed"] = slot["parsed"] /\ slot'["chunks"] = slot["chunks"]
            /\ slot'["embeddings"] = content /\ slot["parsed"] # <<>> /\ slot["chunks"] # <<>>
        BY <1>2, <1>5, <2>4, <3>1 DEF Roles, Reached
      <3>3. \A s \in ArtifactStages : Rank["embedding"] > Rank[s] => RoleOf[s] \in {"parsed", "chunks"}
        BY Tables DEF ArtifactStages
      <3> QED  BY <1>2, <1>3, <2>1, <3>1, <3>2, <3>3 DEF SlotsFit
    <2> QED  BY <1>2, <2>2, <2>3, <2>4 DEF ArtifactStages
  <1> QED  BY <1>3, <1>4, <1>5, <1>8, <1>9, <1>10, <1>11

LEMMA AcceptKeeps ==
    ASSUME Inv, FrameOK', NEW w \in Workers, Accept(w)
    PROVE  Inv'
  <1>1. /\ run[w].pc = "accept" /\ run[w].pc \in Publishing
        /\ UNCHANGED <<job, file, build>>
    BY DEF Accept, At, Publishing, index
  <1>2. /\ TypeOK /\ SlotsFit /\ RunFits(run[w]) /\ run[w] \in Run
        /\ run[w].at \in ArtifactStages /\ run[w].at \in Stages /\ Reached(run[w].at)
        /\ Role(w) = RoleOf[run[w].at] /\ Role(w) \in Roles
    BY <1>1, PublishingRun
  <1>3. CASE UNCHANGED <<proj, slot, recorded, attempt>> /\ \E why \in Reason : Raise(w, why)
    BY <1>1, <1>3, RestKeeps DEF Shared
  <1>4. ASSUME run[w].at = "embedding", Goto(w, "advance"), RowsOK', Forward, slot'["embeddings"] # <<>>
        PROVE  Others(w) /\ Exclusive(w) /\ RunFits(run[w])'
    <2>1. Others(w) /\ run'[w].pc = "advance" /\ run'[w].at = "embedding"
      BY <1>2, <1>4, GotoMoves DEF Step
    <2>2. Reached("embedding")'
      BY <1>2, <1>4, StillReached
    <2>3. Reached(run[w].at)'
      BY <2>1, <2>2 DEF Reached
    <2>4. Exclusive(w)
      BY <2>1 DEF Exclusive, Holding
    <2> QED  BY <1>4, <2>1, <2>3, <2>4 DEF RunFits, Holding, Publishing, Indexing
  <1>5. CASE /\ proj # run[w].at /\ proj # "failed" /\ UNCHANGED <<proj, slot, recorded, attempt>>
             /\ IF run[w].at = "embedding" THEN Goto(w, "advance") ELSE Enter(w, proj)
    <2>1. UNCHANGED Shared
      BY <1>1, <1>5 DEF Shared
    <2>2. proj # "pending" /\ proj # "parsing"
      BY <1>2, <1>5, Tables DEF Reached, ArtifactStages
    <2>3. CASE run[w].at = "embedding"
      <3>1. proj \in {"indexing", "ready"}
        BY <1>2, <1>5, <2>2, <2>3, Tables DEF Reached, TypeOK, Status, Stages, Terminal
      <3>2. slot["embeddings"] # <<>>
        BY <1>2, <3>1, Tables DEF SlotsFit, ArtifactStages
      <3>3. RowsOK' /\ Forward /\ slot'["embeddings"] # <<>>
        BY <2>1, <3>2, SharedKeeps DEF Shared
      <3> QED  BY <1>4, <1>5, <2>1, <2>3, <3>3, RunOnlyKeeps
    <2>4. CASE run[w].at # "embedding"
      BY <1>5, <2>1, <2>2, <2>4, EnterHere
    <2> QED  BY <2>3, <2>4
  <1>6. CASE /\ proj = run[w].at /\ Finalize(w) /\ Record(w) /\ proj' = NextStage[proj]
             /\ Commit(w, IF run[w].at = "embedding" THEN Goto(w, "advance") ELSE Enter(w, NextStage[proj]))
    <2>1. ASSUME NEW CONSTANT role, role = Role(w)
          PROVE  /\ RowsOK' /\ StatusesAgree' /\ SlotsFit' /\ OneOpen' /\ IndexFits' /\ Forward /\ Claims(w)
                 /\ slot'[role] # <<>>
      BY <1>1, <1>6, <2>1, AcceptRows
    <2>2. /\ RowsOK' /\ StatusesAgree' /\ SlotsFit' /\ OneOpen' /\ IndexFits' /\ Forward /\ Claims(w)
          /\ slot'[Role(w)] # <<>>
      BY <2>1
    <2>3. Others(w) /\ Exclusive(w) /\ RunFits(run[w])'
      <3>1. CASE run[w].at = "embedding" /\ Goto(w, "advance")
        BY <1>2, <1>4, <2>2, <3>1, Tables
      <3>2. ASSUME NEW status \in {"chunking", "embedding"}, Enter(w, status), run[w].at # "embedding",
                   status = NextStage[run[w].at]
            PROVE  Others(w) /\ Exclusive(w) /\ RunFits(run[w])'
        <4>1. proj' = status
          BY <1>6, <3>2
        <4>2. Reached(status)'
          <5>1. CASE run[w].at = "parsing"
            <6>1. status = "chunking" /\ slot'["parsed"] # <<>>
              BY <1>2, <2>2, <3>2, <5>1, Tables
            <6> QED  BY <4>1, <6>1, Tables DEF Reached
          <5>2. CASE run[w].at = "chunking"
            <6>1. status = "embedding" /\ slot'["chunks"] # <<>>
              BY <1>2, <2>2, <3>2, <5>2, Tables
            <6>2. slot["parsed"] # <<>> /\ slot'["parsed"] = slot["parsed"]
              BY <1>2, <2>2, <5>2 DEF Reached, Forward, Roles
            <6> QED  BY <4>1, <6>1, <6>2, Tables DEF Reached
          <5> QED  BY <1>2, <3>2, <5>1, <5>2 DEF ArtifactStages
        <4>3. status \in Status /\ status # "pending" /\ status # "parsing"
          BY DEF Status, Stages
        <4> QED  BY <1>2, <2>2, <3>2, <4>2, <4>3, EnterFits
      <3>3. CASE run[w].at # "embedding" /\ Enter(w, NextStage[proj])
        <4>1. run[w].at \in {"parsing", "chunking"} /\ NextStage[proj] = NextStage[run[w].at]
          BY <1>2, <1>6, <3>3 DEF ArtifactStages
        <4>2. NextStage[run[w].at] \in {"chunking", "embedding"}
          BY <4>1, Tables
        <4> QED  BY <3>2, <3>3, <4>1, <4>2
      <3>4. CASE Raise(w, "transient")
        BY <1>2, <3>4, CommitKeeps
      <3> QED  BY <1>6, <3>1, <3>3, <3>4 DEF Commit
    <2> QED  BY <2>2, <2>3, StepKeeps
  <1> QED  BY <1>3, <1>5, <1>6 DEF Accept, Reason

------------------------------------------------------------------------------
(* The theorems.                                                             *)

LEMMA InitFits ==
    ASSUME Init
    PROVE  Inv
  <1>1. Resting \in Run /\ Resting.pc = "idle"
    BY EmptyContent, IngestionAssumption DEF Resting, Run, Step, Status, Retries, Reason
  <1>2. TypeOK
    BY <1>1, EmptyContent, IngestionAssumption
       DEF Init, TypeOK, JobStatus, Status, Reason, Kinds, Retries
  <1>3. StatusesAgree /\ SlotsFit
    BY Tables DEF Init, StatusesAgree, SlotsFit, Roles, ArtifactStages
  <1>4. \A kind \in Kinds : attempt[kind] = <<>>
    BY DEF Init, Kinds
  <1>5. OneOpen /\ IndexFits
    BY <1>4 DEF Init, OneOpen, OpenAt, IndexFits, IsOpen, Kinds
  <1>6. \A w \in Workers : run[w].pc = "idle"
    BY <1>1 DEF Init
  <1>7. OneHolder /\ \A w \in Workers : RunFits(run[w])
    BY <1>6 DEF OneHolder, RunFits, Holding, Publishing, Indexing, AtWork
  <1> QED  BY <1>2, <1>3, <1>5, <1>7 DEF Inv

LEMMA NextKeeps ==
    ASSUME Inv, Next
    PROVE  Inv'
  <1>1. FrameOK'
    BY FrameStep DEF Inv
  <1>2. CASE Deliver \/ Supersede \/ Fence \/ Terminalize \/ OtherReads \/ OtherEnds
    BY <1>1, <1>2, OutsideKeeps
  <1>3. ASSUME NEW w \in Workers, NEW r \in Retries, Receive(w, r) PROVE Inv'
    BY <1>1, <1>3, ReceiveKeeps
  <1>4. ASSUME NEW w \in Workers, WorkerStep(w) PROVE Inv'
    <2>1. CASE Begin(w) \/ Read(w) \/ Make(w) \/ Reserve(w) \/ Write(w) \/ Close(w)
      BY <1>1, <2>1, BeginKeeps, ReadKeeps, MakeKeeps, ReserveKeeps, WriteKeeps, CloseKeeps
    <2>2. CASE Accept(w) \/ Advance(w) \/ EnsureBuild(w) \/ ReserveIndex(w) \/ Prepare(w)
      BY <1>1, <2>2, AcceptKeeps, AdvanceKeeps, EnsureBuildKeeps, ReserveIndexKeeps, PrepareKeeps
    <2>3. CASE FinishIndex(w) \/ CloseIndex(w) \/ Verify(w) \/ CompleteIndexing(w)
      BY <1>1, <2>3, FinishIndexKeeps, CloseIndexKeeps, VerifyKeeps, CompleteIndexingKeeps
    <2>4. CASE Decide(w) \/ Fail(w)
      BY <1>1, <2>4, EndKeeps, FailKeeps
    <2> QED  BY <1>4, <2>1, <2>2, <2>3, <2>4 DEF WorkerStep
  <1>5. ASSUME NEW w \in Workers, DatabaseError(w) \/ WorkerCrash(w) PROVE Inv'
    BY <1>1, <1>5, EndKeeps
  <1> QED  BY <1>2, <1>3, <1>4, <1>5 DEF Next

\* Rows, files, attempts and the places of all workers fit together in every state that
\* ensure_indexed, its duplicates, its retries and the reconciler reach.
THEOREM Invariant == Spec => []Inv
  <1>1. Init => Inv
    BY InitFits
  <1>2. Inv /\ [Next]_vars => Inv'
    <2> SUFFICES ASSUME Inv, [Next]_vars PROVE Inv'
      OBVIOUS
    <2>1. CASE Next
      BY <2>1, NextKeeps
    <2>2. CASE UNCHANGED vars
      <3>1. UNCHANGED Shared /\ UNCHANGED <<run, attempt>>
        BY <2>2 DEF vars, Shared
      <3>2. FrameOK'
        BY <2>2, TypeParts DEF Inv, FrameOK, AliasOK, CountersOK, vars
      <3> QED  BY <3>1, <3>2, SharedKeeps, StayKeeps
    <2> QED  BY <2>1, <2>2
  <1> QED  BY <1>1, <1>2, PTL DEF Spec

\* Every row, file, message and worker of the ingestion keeps its type.
THEOREM TypeCorrect == Spec => []TypeOK
  <1>1. Inv => TypeOK
    BY DEF Inv
  <1> QED  BY <1>1, Invariant, PTL

\* Job and projection tell the same story, whoever wrote last: begin never has to raise
\* ingestion_state_inconsistent.
THEOREM StatusesAgreeHolds == Spec => []StatusesAgree
  <1>1. Inv => StatusesAgree
    BY DEF Inv
  <1> QED  BY <1>1, Invariant, PTL

\* Slot, ingestion row and canonical file of a completed stage hold the same bytes, and
\* each verified artifact was made from the verified one before it, for any number of
\* overlapping deliveries, crashes and unconfirmed commits.
THEOREM ArtifactsAgreeHolds == Spec => []ArtifactsAgree
  <1>1. Inv => ArtifactsAgree
    <2> SUFFICES ASSUME Inv PROVE ArtifactsAgree
      OBVIOUS
    <2>1. TypeOK /\ SlotsFit
      BY DEF Inv
    <2>2. /\ slot["chunks"] # <<>> => SubSeq(slot["chunks"], 1, 1) = slot["parsed"]
          /\ slot["embeddings"] # <<>> => SubSeq(slot["embeddings"], 1, 2) = slot["chunks"]
      BY <2>1, Lineage
    <2>3. \A stage \in DOMAIN RoleOf : stage \in ArtifactStages /\ RoleOf[stage] \in Roles
      BY Tables DEF ArtifactStages, Roles
    <2> QED  BY <2>1, <2>2, <2>3 DEF ArtifactsAgree, SlotsFit
  <1> QED  BY <1>1, Invariant, PTL

\* At most one attempt of an artifact or of the index is open, and none beside a verified
\* slot, for any number of workers that reserve, crash and come back.
THEOREM OneWriterHolds == Spec => []OneWriter
  <1>1. Inv => OneWriter
    <2> SUFFICES ASSUME Inv PROVE OneWriter
      OBVIOUS
    <2>1. DOMAIN attempt = Kinds
      BY DEF Inv, TypeOK, Kinds
    <2>2. ASSUME NEW kind \in Kinds
          PROVE  Cardinality({i \in DOMAIN attempt[kind] : attempt[kind][i] = "open"}) <= 1
      <3> DEFINE open == {i \in DOMAIN attempt[kind] : attempt[kind][i] = "open"}
      <3>1. \A i, j \in open : i = j
        BY DEF Inv, OneOpen, OpenAt
      <3>2. open = {} \/ \E i : open = {i}
        <4> HIDE DEF open
        <4> QED  BY <3>1
      <3> HIDE DEF open
      <3>3. Cardinality(open) = 0 \/ Cardinality(open) = 1
        BY <3>2, FS_EmptySet, FS_Singleton
      <3>4. Cardinality(open) <= 1
        BY <3>3
      <3> QED  BY <3>4 DEF open
    <2>3. \A role \in Roles : slot[role] # <<>> => ~IsOpen(role)
      BY DEF Inv, SlotsFit
    <2> QED  BY <2>1, <2>2, <2>3 DEF OneWriter
  <1> QED  BY <1>1, Invariant, PTL

------------------------------------------------------------------------------
(* The alias.                                                                *)

\* What others have read under the profile's lock is still true of a READY projection
\* when they change the alias, because nobody becomes READY meanwhile.
AliasFits ==
  /\ proj = "ready" /\ ActiveSource => alias /\ listed
  /\ other = "with" => alias
  /\ other = "without" => ~(proj = "ready" /\ ActiveSource)

\* Only verify makes a projection READY, and no source becomes active again.
LEMMA ReadyBefore ==
    ASSUME Inv, Next, \A w \in Workers : ~Verify(w), proj' = "ready", ActiveSource'
    PROVE  proj = "ready" /\ ActiveSource
  <1>1. ASSUME UNCHANGED source, proj' \in {proj, "parsing", "chunking", "embedding", "indexing", "failed"}
        PROVE  proj = "ready" /\ ActiveSource
    BY <1>1 DEF source, ActiveSource
  <1>2. CASE Deliver \/ Terminalize \/ OtherReads \/ OtherEnds
    BY <1>1, <1>2 DEF Deliver, Terminalize, FailBoth, OtherReads, OtherEnds
  <1>3. CASE Supersede \/ Fence
    BY <1>3 DEF Supersede, Fence, ActiveSource
  <1>4. ASSUME NEW w \in Workers, NEW r \in Retries, Receive(w, r)
        PROVE  proj = "ready" /\ ActiveSource
    BY <1>1, <1>4 DEF Receive
  <1>5. ASSUME NEW w \in Workers, WorkerStep(w) \/ DatabaseError(w) \/ WorkerCrash(w)
        PROVE  proj = "ready" /\ ActiveSource
    <2>1. CASE Begin(w) \/ Read(w) \/ Make(w) \/ Reserve(w) \/ Write(w) \/ Close(w)
      BY <1>1, <2>1 DEF Begin, Read, Make, Reserve, Write, Close
    <2>2. CASE Accept(w)
      <3>1. run[w].at \in ArtifactStages
        BY <2>2, PublishingRun DEF Accept, At, Publishing
      <3>2. proj = run[w].at => NextStage[proj] \in {"chunking", "embedding"}
        BY <3>1, Tables DEF ArtifactStages
      <3>3. proj' \in {proj, "chunking", "embedding"} /\ UNCHANGED source
        BY <2>2, <3>2 DEF Accept
      <3> QED  BY <1>1, <3>3
    <2>3. CASE Advance(w) \/ EnsureBuild(w) \/ ReserveIndex(w) \/ Prepare(w)
      BY <1>1, <2>3 DEF Advance, EnsureBuild, ReserveIndex, Prepare
    <2>4. CASE FinishIndex(w) \/ CloseIndex(w) \/ CompleteIndexing(w) \/ Decide(w) \/ Fail(w)
      BY <1>1, <2>4 DEF FinishIndex, CloseIndex, CompleteIndexing, Decide, Fail, FailBoth
    <2>5. CASE DatabaseError(w) \/ WorkerCrash(w)
      BY <1>1, <2>5 DEF DatabaseError, WorkerCrash
    <2> QED  BY <1>5, <2>1, <2>2, <2>3, <2>4, <2>5 DEF WorkerStep
  <1> QED  BY <1>2, <1>3, <1>4, <1>5 DEF Next

\* What somebody else who ends does to the alias and to is_active.
LEMMA OtherMoves ==
    ASSUME TypeOK, OtherEnds
    PROVE  /\ other = "with" => (alias => alias') /\ (listed => listed')
           /\ other = "without" => (alias' => alias)
           /\ other \in {"with", "without"}
  <1>1. other \in {"with", "without"} /\ alias \in BOOLEAN /\ listed \in BOOLEAN
    BY DEF OtherEnds, TypeOK
  <1>2. CASE other = "with"
    <2>1. (other = "with") = TRUE
      BY <1>2
    <2>2. /\ alias' = alias \/ alias' = (other = "with")
          /\ listed' = listed \/ listed' = (other = "with")
      BY DEF OtherEnds
    <2>3. (alias' = (other = "with") => alias') /\ (listed' = (other = "with") => listed')
      BY <2>1
    <2>4. (alias => alias') /\ (listed => listed')
      BY <2>2, <2>3
    <2> QED  BY <1>2, <2>4
  <1>3. CASE other = "without"
    <2>1. (other = "with") = FALSE
      BY <1>3
    <2>2. alias' = alias \/ alias' = (other = "with")
      BY DEF OtherEnds
    <2>3. alias' = (other = "with") => ~alias'
      BY <2>1
    <2>4. alias' => alias
      BY <2>2, <2>3
    <2> QED  BY <1>3, <2>4
  <1> QED  BY <1>1, <1>2, <1>3

LEMMA AliasKeeps ==
    ASSUME Inv, AliasFits, Next
    PROVE  AliasFits'
  <1>1. CASE OtherReads
    <2>1. /\ UNCHANGED <<proj, current, fenced, alias, listed>> /\ other = "idle"
          /\ other' = IF IsTarget THEN "with" ELSE "without"
      BY <1>1 DEF OtherReads, ProfileFree, source
    <2>2. proj = "ready" => build = "ready"
      BY DEF Inv, IndexFits
    <2> QED  BY <2>1, <2>2 DEF AliasFits, IsTarget, ActiveSource
  <1>2. CASE OtherEnds
    <2>1. UNCHANGED <<proj, current, fenced>> /\ other' = "idle"
      BY <1>2 DEF OtherEnds, source
    <2> QED  BY <1>2, <2>1, OtherMoves DEF AliasFits, ActiveSource, Inv
  <1>3. ASSUME NEW w \in Workers, Verify(w) PROVE AliasFits'
    <2>1. UNCHANGED <<current, fenced>>
      BY <1>3 DEF Verify, source
    <2>2. \/ UNCHANGED <<proj, alias, listed, other>>
          \/ other = "idle" /\ UNCHANGED other /\ alias' = TRUE /\ listed' = TRUE
          \/ other = "idle" /\ UNCHANGED other /\ proj' = "indexing"
      BY <1>3 DEF Verify, Activate, index, ProfileFree
    <2> QED  BY <2>1, <2>2 DEF AliasFits, ActiveSource
  <1>4. CASE ~OtherReads /\ ~OtherEnds /\ \A w \in Workers : ~Verify(w)
    BY <1>4, AliasStays, ReadyBefore DEF AliasFits
  <1> QED  BY <1>1, <1>2, <1>3, <1>4

\* While somebody holds the profile's lock with the members that it has read, they are
\* right about this ingestion.
THEOREM AliasInvariant == Spec => [](Inv /\ AliasFits)
  <1>1. Init => AliasFits
    BY DEF Init, AliasFits
  <1>2. Inv /\ AliasFits /\ [Next]_vars => AliasFits'
    <2> SUFFICES ASSUME Inv, AliasFits, [Next]_vars PROVE AliasFits'
      OBVIOUS
    <2>1. CASE UNCHANGED vars
      BY <2>1 DEF vars, AliasFits, ActiveSource
    <2> QED  BY <2>1, AliasKeeps
  <1> QED  BY <1>1, <1>2, Invariant, PTL DEF Spec

\* As long as its source is active, the index of a READY projection is a member of the
\* alias, its build row says so and no writer of the index is left: verify of other
\* documents and the parity reconciler compute the members from the rows and never drop
\* it, in whatever order they lock, read, change the alias, fail and commit.
THEOREM ReadyIsSearchableHolds == Spec => []ReadyIsSearchable
  <1>1. Inv /\ AliasFits => ReadyIsSearchable
    BY DEF Inv, IndexFits, AliasFits, ReadyIsSearchable
  <1> QED  BY <1>1, AliasInvariant, PTL

LEMMA InactiveStep ==
    ASSUME Inv, AliasFits, Next, ~current \/ fenced
    PROVE  proj' \in {proj, "failed"} /\ UNCHANGED <<slot, recorded, build>> /\ (alias' => alias)
  <1>1. ~ActiveSource /\ (Usable => proj \in Terminal)
    BY DEF ActiveSource, Usable
  <1> USE DEF artifacts, index
  <1>2. CASE Deliver \/ Supersede \/ Fence \/ Terminalize
    BY <1>2 DEF Deliver, Supersede, Fence, Terminalize, FailBoth
  <1>3. CASE OtherReads
    BY <1>3 DEF OtherReads
  <1>4. CASE OtherEnds
    <2>1. alias' => alias
      BY <1>4, OtherMoves DEF AliasFits, Inv
    <2> QED  BY <1>4, <2>1 DEF OtherEnds
  <1>5. ASSUME NEW w \in Workers, \/ \E r \in Retries : Receive(w, r)
                                  \/ DatabaseError(w) \/ WorkerCrash(w) \/ Decide(w)
        PROVE  proj' = proj /\ UNCHANGED <<slot, recorded, build, alias>>
    BY <1>5 DEF Receive, DatabaseError, WorkerCrash, Decide
  <1>6. ASSUME NEW w \in Workers, Fail(w)
        PROVE  proj' \in {proj, "failed"} /\ UNCHANGED <<slot, recorded, build, alias>>
    BY <1>6 DEF Fail, FailBoth
  <1>7. ASSUME NEW w \in Workers, Begin(w) \/ Read(w) \/ Make(w) \/ Reserve(w) \/ Write(w) \/ Close(w)
        PROVE  proj' = proj /\ UNCHANGED <<slot, recorded, build, alias>>
    BY <1>1, <1>7 DEF Begin, Read, Make, Reserve, Write, Close, Terminal
  <1>8. ASSUME NEW w \in Workers, Accept(w)
        PROVE  proj' = proj /\ UNCHANGED <<slot, recorded, build, alias>>
    <2>1. run[w].pc \in Publishing
      BY <1>8 DEF Accept, At, Publishing
    <2>2. run[w].at \notin Terminal
      BY <2>1, PublishingRun DEF ArtifactStages, Terminal
    <2> QED  BY <1>1, <1>8, <2>2 DEF Accept, Admits
  <1>9. ASSUME NEW w \in Workers, Advance(w) \/ EnsureBuild(w) \/ ReserveIndex(w) \/ Prepare(w)
        PROVE  proj' = proj /\ UNCHANGED <<slot, recorded, build, alias>>
    BY <1>1, <1>9 DEF Advance, EnsureBuild, ReserveIndex, Prepare, Terminal
  <1>10. ASSUME NEW w \in Workers, FinishIndex(w) \/ CloseIndex(w) \/ Verify(w) \/ CompleteIndexing(w)
         PROVE  proj' = proj /\ UNCHANGED <<slot, recorded, build, alias>>
    BY <1>1, <1>10 DEF FinishIndex, CloseIndex, Verify, CompleteIndexing, Terminal
  <1> QED  BY <1>2, <1>3, <1>4, <1>5, <1>6, <1>7, <1>8, <1>9, <1>10 DEF Next, WorkerStep

\* Once the source is superseded or fenced no stage, verified artifact or build moves and
\* the alias never gets the index back, whatever the workers and the others who had read
\* the members were doing when it happened.
THEOREM InactiveStops == Spec => InactiveStopsWriters
  <1>1. Inv /\ AliasFits /\ [Next]_vars => [NothingAdvances]_vars
    BY InactiveStep DEF NothingAdvances
  <1> QED  BY <1>1, AliasInvariant, PTL DEF Spec, InactiveStopsWriters
=============================================================================
