-------------------------- MODULE ConversationProofs --------------------------
(***************************************************************************)
(* Proofs about ConversationTurns and AttachmentDrafts for any number of   *)
(* conversations, requests, submissions, attempts, attachments and faults, *)
(* and without the restriction of the instance that TLC checks.            *)
(***************************************************************************)
EXTENDS AttachmentDrafts, TLAPS

------------------------------------------------------------------------------
(* Turns.                                                                    *)

\* A question whose execution is not known to be over.
Unsettled(t) == t.status # "none" /\ ~t.terminated

\* What a turn row says about its execution and about the model server.
TurnRow(c, q) ==
  LET t == turn[c][q]
      w == work[c][q]
      m == remote[c][q]
  IN /\ t.status = "none" => w.pc = "none" /\ m = {}
     /\ w.inflight => w.pc = "calling"
     /\ "current" \in m => w.inflight
     /\ "lost" \in m => w.lost \/ w.pc = "dead"
     /\ t.terminated => w.pc = "done" /\ m = {}
     /\ Unsettled(t) => Blocks(t)
     /\ t.answer => t.status = "completed" /\ t.terminated /\ conv[c] = "active"
     /\ conv[c] = "none" => t.status = "none"

\* One unsettled question per conversation.
OneUnsettled(c) ==
  \A q, r \in Requests : Unsettled(turn[c][q]) /\ Unsettled(turn[c][r]) => q = r

TurnInv ==
  /\ TurnTypeOK
  /\ \A c \in Convs : OneUnsettled(c) /\ \A q \in Requests : TurnRow(c, q)

\* A step of one question.
RowStep(c, q) ==
  /\ \A d \in Convs, r \in Requests : d # c \/ r # q =>
       /\ turn'[d][r] = turn[d][r] /\ work'[d][r] = work[d][r] /\ remote'[d][r] = remote[d][r]
  /\ conv' = conv

LEMMA RowStepKeeps ==
    ASSUME TurnInv, TurnTypeOK', NEW c \in Convs, NEW q \in Requests, RowStep(c, q),
           TurnRow(c, q)', Unsettled(turn'[c][q]) => Unsettled(turn[c][q])
    PROVE  TurnInv'
  BY DEF TurnInv, RowStep, TurnRow, OneUnsettled, Unsettled, Blocks

\* The part of Touched that matters here: its type.
LEMMA TouchedType == ASSUME TurnTypeOK, NEW c \in Convs PROVE Touched(c) \in [Handlers -> Submission]
  <1>1. ASSUME NEW h \in Handlers
        PROVE  [handler[h] EXCEPT !.fresh = @ /\ handler[h].conv # c] \in Submission
    <2>1. CASE handler[h] = Idle
      <3> DEFINE I == [conv : {"none"}, req : {"none"}, fresh : {FALSE}]
      <3>1. handler[h] \in I
        BY <2>1 DEF Idle
      <3>2. [handler[h] EXCEPT !.fresh = @ /\ handler[h].conv # c] \in I
        BY <3>1
      <3>3. ASSUME NEW x \in I PROVE x = Idle
        <4>1. x = [conv |-> x.conv, req |-> x.req, fresh |-> x.fresh]
          OBVIOUS
        <4>2. x.conv = "none" /\ x.req = "none" /\ x.fresh = FALSE
          OBVIOUS
        <4> QED  BY <4>1, <4>2 DEF Idle
      <3> QED  BY <3>2, <3>3 DEF Submission
    <2>2. CASE handler[h] \in [conv : Convs, req : Requests, fresh : BOOLEAN]
      BY <2>2 DEF Submission
    <2> QED  BY <2>1, <2>2 DEF TurnTypeOK, Submission
  <1> QED  BY <1>1 DEF Touched

LEMMA NoTurnTyped == NoTurn \in Turn /\ NoWork \in Work
  BY TurnsAssumption DEF NoTurn, NoWork, Turn, Work, NoCode

LEMMA ReservedKeeps ==
    ASSUME TurnInv, NEW c \in Convs, NEW q \in Requests, Reserved(c, q),
           \A r \in Requests : ~Unsettled(turn[c][r]),
           turn[c][q].status = "none", remote' = remote, turnFaults' = turnFaults,
           handler' \in [Handlers -> Submission],
           conv' \in [Convs -> {"none", "active", "deleted"}], conv'[c] = "active",
           \A d \in Convs \ {c} : conv'[d] = conv[d]
    PROVE  TurnInv'
  <1> DEFINE nt == [NoTurn EXCEPT !.status = "running"]
             nw == [NoWork EXCEPT !.pc = "history"]
  <1>1. nt \in Turn /\ nw \in Work
    BY NoTurnTyped DEF NoTurn, NoWork, Turn, Work
  <1>2. TurnTypeOK'
    BY <1>1 DEF Reserved, TurnInv, TurnTypeOK
  <1>3. turn'[c][q] = nt /\ work'[c][q] = nw
    BY DEF Reserved, TurnInv, TurnTypeOK
  <1>4. \A d \in Convs, r \in Requests : d # c \/ r # q =>
          turn'[d][r] = turn[d][r] /\ work'[d][r] = work[d][r]
    BY DEF Reserved, TurnInv, TurnTypeOK
  <1>5. TurnRow(c, q) /\ remote[c][q] = {}
    BY DEF TurnInv, TurnRow
  <1>6. TurnRow(c, q)'
    BY <1>3, <1>5 DEF TurnRow, NoTurn, NoWork, Unsettled, Blocks
  <1>8. \A d \in Convs : OneUnsettled(d)'
    BY <1>4 DEF TurnInv, OneUnsettled
  <1>9. ASSUME NEW d \in Convs, NEW r \in Requests, d # c \/ r # q
        PROVE  TurnRow(d, r)'
    <2>1. turn'[d][r] = turn[d][r] /\ work'[d][r] = work[d][r] /\ remote'[d][r] = remote[d][r]
      BY <1>4, <1>9
    <2>2. TurnRow(d, r) /\ (conv'[d] = conv[d] \/ conv'[d] = "active")
      BY DEF TurnInv
    <2> QED  BY <2>1, <2>2 DEF TurnRow, Unsettled
  <1> QED  BY <1>2, <1>6, <1>8, <1>9 DEF TurnInv

LEMMA ConvStepKeeps ==
    ASSUME TurnInv, TurnTypeOK', NEW c \in Convs,
           \A d \in Convs \ {c} : /\ turn'[d] = turn[d] /\ work'[d] = work[d]
                                  /\ remote'[d] = remote[d] /\ conv'[d] = conv[d],
           \A q \in Requests : TurnRow(c, q)' /\ (Unsettled(turn'[c][q]) => Unsettled(turn[c][q]))
    PROVE  TurnInv'
  BY DEF TurnInv, TurnRow, OneUnsettled, Unsettled, Blocks

\* Conversation.recover ends a running turn and leaves it blocking.
LEMMA RecoveredKeeps ==
    ASSUME TurnInv, NEW c \in Convs, NEW late \in BOOLEAN, conv[c] = "active",
           turn' = [turn EXCEPT ![c] = Recovered(c, late)],
           handler' \in [Handlers -> Submission], UNCHANGED <<conv, work, remote, turnFaults>>
    PROVE  TurnInv'
  <1>1. ASSUME NEW q \in Requests
        PROVE  /\ turn'[c][q] \in Turn
               /\ TurnRow(c, q)'
               /\ Unsettled(turn'[c][q]) => Unsettled(turn[c][q])
    <2> DEFINE t == turn[c][q]
               u == [t EXCEPT !.status = "interrupted",
                              !.code = IF t.terminated THEN Other ELSE LeaseUnconfirmed]
    <2>1. t \in Turn /\ TurnRow(c, q)
      BY DEF TurnInv, TurnTypeOK
    <2>2. CASE late /\ t.status = "running"
      <3>1. turn'[c][q] = u
        BY <2>2 DEF Recovered, TurnInv, TurnTypeOK
      <3>2. /\ u \in Turn /\ u.status = "interrupted" /\ u.terminated = t.terminated
            /\ u.answer = t.answer /\ u.code = IF t.terminated THEN Other ELSE LeaseUnconfirmed
        BY <2>1 DEF Turn
      <3> HIDE DEF u
      <3> QED  BY <2>1, <2>2, <3>1, <3>2 DEF TurnRow, Unsettled, Blocks
    <2>3. CASE ~(late /\ t.status = "running")
      <3>1. turn'[c][q] = t
        BY <2>3 DEF Recovered, TurnInv, TurnTypeOK
      <3> QED  BY <2>1, <3>1 DEF TurnRow, Unsettled
    <2> QED  BY <2>2, <2>3
  <1>2. turn'[c] = Recovered(c, late) /\ \A d \in Convs \ {c} : turn'[d] = turn[d]
    BY DEF TurnInv, TurnTypeOK
  <1>3. turn'[c] \in [Requests -> Turn]
    BY <1>1, <1>2 DEF Recovered
  <1>4. TurnTypeOK'
    BY <1>3 DEF TurnInv, TurnTypeOK
  <1> QED  BY <1>1, <1>2, <1>4, ConvStepKeeps

LEMMA DeleteKeeps == ASSUME TurnInv, NEW c \in Convs, Delete(c) PROVE TurnInv'
  <1>1. ASSUME NEW q \in Requests
        PROVE  /\ turn'[c][q] \in Turn
               /\ TurnRow(c, q)'
               /\ Unsettled(turn'[c][q]) => Unsettled(turn[c][q])
    <2> DEFINE t == turn[c][q]
               u == DeletedTurn(t)
    <2>1. t \in Turn /\ TurnRow(c, q) /\ conv'[c] = "deleted"
      BY DEF TurnInv, TurnTypeOK, Delete
    <2>2. turn'[c][q] = u /\ work' = work /\ remote' = remote
      BY DEF Delete, TurnInv, TurnTypeOK
    <2>3. /\ u \in Turn /\ u.terminated = t.terminated /\ u.answer = FALSE
          /\ u.status = IF t.status = "running" THEN "cancelled" ELSE t.status
          /\ u.code = IF t.status = "running" THEN Other ELSE t.code
      BY <2>1 DEF DeletedTurn, Turn
    <2> HIDE DEF u
    <2> QED  BY <2>1, <2>2, <2>3 DEF TurnRow, Unsettled, Blocks
  <1>2. turn'[c] = [q \in Requests |-> DeletedTurn(turn[c][q])]
        /\ \A d \in Convs \ {c} : turn'[d] = turn[d] /\ conv'[d] = conv[d]
    BY DEF Delete, TurnInv, TurnTypeOK
  <1>3. turn'[c] \in [Requests -> Turn]
    BY <1>1, <1>2
  <1>4. TurnTypeOK'
    BY <1>3, TouchedType DEF Delete, TurnInv, TurnTypeOK
  <1> QED  BY <1>1, <1>2, <1>4, ConvStepKeeps DEF Delete

\* Where an execution stands decides what the model server may be doing.
WorkFits(w, m) ==
  /\ w.inflight => w.pc = "calling"
  /\ "current" \in m => w.inflight
  /\ "lost" \in m => w.lost \/ w.pc = "dead"

LEMMA WorkKeeps ==
    ASSUME TurnInv, TurnTypeOK', NEW c \in Convs, NEW q \in Requests, RowStep(c, q),
           turn' = turn, turn[c][q].status # "none", ~turn[c][q].terminated,
           WorkFits(work'[c][q], remote'[c][q])
    PROVE  TurnInv'
  <1>1. TurnRow(c, q)'
    <2>1. TurnRow(c, q) /\ conv' = conv
      BY DEF TurnInv, RowStep
    <2> QED  BY <2>1 DEF WorkFits, TurnRow
  <1> QED  BY <1>1, RowStepKeeps DEF RowStep

\* An execution that is under way belongs to a turn that is not settled.
LEMMA UnderWay ==
    ASSUME TurnInv, NEW c \in Convs, NEW q \in Requests, work[c][q].pc \notin {"none", "done"}
    PROVE  /\ turn[c][q].status # "none" /\ ~turn[c][q].terminated
           /\ WorkFits(work[c][q], remote[c][q])
           /\ work[c][q] \in Work /\ remote[c][q] \in SUBSET {"current", "lost"}
           /\ turn[c][q] \in Turn
  <1>1. TurnRow(c, q)
    BY DEF TurnInv
  <1> QED  BY <1>1 DEF TurnInv, TurnTypeOK, TurnRow, WorkFits

LEMMA CutTyped ==
    ASSUME TurnInv, NEW c \in Convs, NEW q \in Requests
    PROVE  /\ Cut(c, q) \in SUBSET {"current", "lost"}
           /\ "lost" \in Cut(c, q) => "lost" \in remote[c][q] \/ work[c][q].inflight
           /\ work[c][q].inflight => "current" \notin Cut(c, q)
           /\ ~work[c][q].inflight => Cut(c, q) = remote[c][q]
  BY DEF Cut, TurnInv, TurnTypeOK

LEMMA JoinKeeps ==
    ASSUME TurnInv, NEW c \in Convs, NEW q \in Requests,
           work[c][q].pc \in {"history", "calling"},
           NEW outcome \in {"answer", "error", "cancelled"}, JoinStep(c, q, outcome)
    PROVE  TurnInv'
  <1> DEFINE w == work[c][q]
             j == Joined(w, outcome)
  <1>1. /\ turn[c][q].status # "none" /\ ~turn[c][q].terminated /\ WorkFits(w, remote[c][q])
        /\ w \in Work /\ remote[c][q] \in SUBSET {"current", "lost"}
    BY UnderWay
  <1>2. j \in Work /\ j.pc = "joined" /\ ~j.inflight /\ (j.lost <=> w.lost \/ w.inflight)
    BY <1>1 DEF Joined, Work
  <1>3. /\ work' \in [Convs -> [Requests -> Work]] /\ work'[c][q] = j
        /\ \A d \in Convs, r \in Requests : d # c \/ r # q => work'[d][r] = work[d][r]
    BY <1>2 DEF JoinStep, TurnInv, TurnTypeOK
  <1>4. /\ remote' \in [Convs -> [Requests -> SUBSET {"current", "lost"}]]
        /\ remote'[c][q] = Cut(c, q)
        /\ \A d \in Convs, r \in Requests : d # c \/ r # q => remote'[d][r] = remote[d][r]
    BY CutTyped DEF JoinStep, TurnInv, TurnTypeOK
  <1> HIDE DEF j
  <1>7. /\ "lost" \in Cut(c, q) => "lost" \in remote[c][q] \/ w.inflight
        /\ "current" \notin Cut(c, q)
    BY <1>1, CutTyped DEF WorkFits
  <1>5. WorkFits(work'[c][q], remote'[c][q])
    BY <1>1, <1>2, <1>3, <1>4, <1>7 DEF WorkFits
  <1>6. TurnTypeOK' /\ RowStep(c, q) /\ turn' = turn
    BY <1>3, <1>4 DEF JoinStep, TurnInv, TurnTypeOK, RowStep
  <1> QED  BY <1>1, <1>5, <1>6, WorkKeeps

LEMMA DependenciesKeep ==
    ASSUME TurnInv, NEW c \in Convs, NEW q \in Requests, ReserveDependencies(c, q)
    PROVE  TurnInv'
  <1> DEFINE w == work[c][q]
             v == work'[c][q]
  <1>1. /\ turn[c][q].status # "none" /\ ~turn[c][q].terminated /\ WorkFits(w, remote[c][q])
        /\ w \in Work /\ w.pc = "history"
    BY UnderWay DEF ReserveDependencies
  <1>2. v \in {Joined(w, "error"), Joined(w, "cancelled"), [w EXCEPT !.pc = "calling"]}
    BY DEF ReserveDependencies, TurnInv, TurnTypeOK
  <1>3. v \in Work /\ ~v.inflight /\ (v.lost <=> w.lost)
    <2>1. /\ Joined(w, "error") \in Work /\ ~Joined(w, "error").inflight
          /\ Joined(w, "error").lost <=> w.lost
      BY <1>1 DEF Joined, Work, WorkFits
    <2>2. /\ Joined(w, "cancelled") \in Work /\ ~Joined(w, "cancelled").inflight
          /\ Joined(w, "cancelled").lost <=> w.lost
      BY <1>1 DEF Joined, Work, WorkFits
    <2>3. /\ [w EXCEPT !.pc = "calling"] \in Work /\ ~[w EXCEPT !.pc = "calling"].inflight
          /\ [w EXCEPT !.pc = "calling"].lost <=> w.lost
      BY <1>1 DEF Work, WorkFits
    <2> HIDE DEF v
    <2> QED  BY <1>2, <2>1, <2>2, <2>3
  <1>4. /\ work' \in [Convs -> [Requests -> Work]]
        /\ \A d \in Convs, r \in Requests : d # c \/ r # q => work'[d][r] = work[d][r]
    BY <1>3 DEF ReserveDependencies, TurnInv, TurnTypeOK
  <1> HIDE DEF v
  <1>5. TurnTypeOK' /\ RowStep(c, q) /\ turn' = turn /\ remote' = remote
    BY <1>4 DEF ReserveDependencies, TurnInv, TurnTypeOK, RowStep
  <1>6. WorkFits(v, remote'[c][q])
    BY <1>1, <1>3, <1>5 DEF WorkFits
  <1> QED  BY <1>1, <1>5, <1>6, WorkKeeps DEF v

LEMMA AttemptKeeps ==
    ASSUME TurnInv, NEW c \in Convs, NEW q \in Requests,
           Attempt(c, q) \/ AttemptAnswered(c, q) \/ AttemptFails(c, q) \/ RemoteEnds(c, q)
             \/ Die(c, q)
    PROVE  TurnInv'
  <1> DEFINE w == work[c][q]
             v == work'[c][q]
             m == remote[c][q]
             n == remote'[c][q]
  <1> USE TurnsAssumption
  <1>0. TurnRow(c, q) /\ w \in Work /\ m \in SUBSET {"current", "lost"}
    BY DEF TurnInv, TurnTypeOK
  <1>1. ASSUME w.pc \notin {"none", "done"},
               v \in Work, n \in SUBSET {"current", "lost"}, WorkFits(v, n),
               turnFaults' \in 0..MaxTurnFaults,
               \E x : work' = [work EXCEPT ![c][q] = x],
               \E x : remote' = [remote EXCEPT ![c][q] = x],
               UNCHANGED <<conv, turn, handler>>
        PROVE  TurnInv'
    <2>1. /\ work' \in [Convs -> [Requests -> Work]]
          /\ \A d \in Convs, r \in Requests : d # c \/ r # q => work'[d][r] = work[d][r]
      BY <1>1 DEF TurnInv, TurnTypeOK
    <2>2. /\ remote' \in [Convs -> [Requests -> SUBSET {"current", "lost"}]]
          /\ \A d \in Convs, r \in Requests : d # c \/ r # q => remote'[d][r] = remote[d][r]
      BY <1>1 DEF TurnInv, TurnTypeOK
    <2> HIDE DEF v, n
    <2>3. TurnTypeOK' /\ RowStep(c, q)
      BY <1>1, <2>1, <2>2 DEF TurnInv, TurnTypeOK, RowStep
    <2> QED  BY <1>1, <2>3, UnderWay, WorkKeeps DEF v, n
  <1>2. CASE Attempt(c, q)
    <2> DEFINE x == [w EXCEPT !.inflight = TRUE, !.calls = @ + 1]
    <2>1. work' = [work EXCEPT ![c][q] = x] /\ remote' = [remote EXCEPT ![c][q] = m \cup {"current"}]
      BY <1>2 DEF Attempt
    <2>2. x \in Work /\ x.pc = "calling" /\ x.inflight /\ x.lost = w.lost
      <3>1. w.calls + 1 \in 0..MaxCalls
        BY <1>0, <1>2 DEF Attempt, Work
      <3> QED  BY <1>0, <1>2, <3>1 DEF Attempt, Work
    <2>3. v = x /\ n = m \cup {"current"}
      BY <2>1 DEF TurnInv, TurnTypeOK
    <2>4. WorkFits(v, n)
      BY <1>0, <2>2, <2>3, <1>2 DEF WorkFits, TurnRow, Attempt
    <2> QED  BY <1>0, <1>1, <1>2, <2>1, <2>2, <2>3, <2>4 DEF Attempt, TurnInv, TurnTypeOK
  <1>3. CASE AttemptAnswered(c, q)
    <2> DEFINE x == [w EXCEPT !.inflight = FALSE]
    <2>1. work' = [work EXCEPT ![c][q] = x] /\ remote' = [remote EXCEPT ![c][q] = m \ {"current"}]
      BY <1>3 DEF AttemptAnswered
    <2>2. x \in Work /\ x.pc = w.pc /\ ~x.inflight /\ x.lost = w.lost
      BY <1>0 DEF Work
    <2>3. v = x /\ n = m \ {"current"}
      BY <2>1 DEF TurnInv, TurnTypeOK
    <2>4. WorkFits(v, n)
      BY <1>0, <2>2, <2>3 DEF WorkFits, TurnRow
    <2>5. w.pc = "calling"
      BY <1>0, <1>3 DEF TurnRow, AttemptAnswered
    <2> QED  BY <1>0, <1>1, <1>3, <2>1, <2>2, <2>3, <2>4, <2>5 DEF AttemptAnswered, TurnInv, TurnTypeOK
  <1>4. CASE AttemptFails(c, q)
    <2> DEFINE x == [w EXCEPT !.inflight = FALSE, !.lost = TRUE]
    <2>1. work' = [work EXCEPT ![c][q] = x] /\ remote' = [remote EXCEPT ![c][q] = Cut(c, q)]
      BY <1>4 DEF AttemptFails
    <2>2. x \in Work /\ x.pc = w.pc /\ ~x.inflight /\ x.lost
      BY <1>0 DEF Work
    <2>3. v = x /\ n = Cut(c, q)
      BY <2>1 DEF TurnInv, TurnTypeOK
    <2>4. WorkFits(v, n)
      <3>1. "current" \notin Cut(c, q)
        BY <1>4, CutTyped DEF AttemptFails
      <3> HIDE DEF x
      <3> QED  BY <2>2, <2>3, <3>1 DEF WorkFits
    <2>5. w.pc = "calling"
      BY <1>0, <1>4 DEF TurnRow, AttemptFails
    <2>6. n \in SUBSET {"current", "lost"}
      BY <2>3, CutTyped
    <2>7. UNCHANGED <<conv, turn, handler>> /\ turnFaults' \in 0..MaxTurnFaults
      BY <1>4 DEF AttemptFails, TurnInv, TurnTypeOK
    <2> QED  BY <1>1, <2>1, <2>2, <2>3, <2>4, <2>5, <2>6, <2>7
  <1>5. CASE RemoteEnds(c, q)
    <2>1. remote' = [remote EXCEPT ![c][q] = m \ {"lost"}]
          /\ UNCHANGED <<conv, turn, work, handler, turnFaults>>
      BY <1>5 DEF RemoteEnds
    <2>2. /\ remote' \in [Convs -> [Requests -> SUBSET {"current", "lost"}]]
          /\ \A d \in Convs, r \in Requests : d # c \/ r # q => remote'[d][r] = remote[d][r]
          /\ n = m \ {"lost"}
      BY <1>0, <2>1 DEF TurnInv, TurnTypeOK
    <2>3. TurnTypeOK' /\ RowStep(c, q)
      BY <2>1, <2>2 DEF TurnInv, TurnTypeOK, RowStep
    <2>4. turn[c][q].status # "none" /\ ~turn[c][q].terminated
      BY <1>0, <1>5 DEF TurnRow, RemoteEnds
    <2>5. WorkFits(v, n)
      BY <1>0, <2>1, <2>2 DEF WorkFits, TurnRow
    <2> QED  BY <2>1, <2>3, <2>4, <2>5, WorkKeeps
  <1>6. CASE Die(c, q)
    <2> DEFINE x == [w EXCEPT !.pc = "dead", !.inflight = FALSE]
    <2>1. work' = [work EXCEPT ![c][q] = x] /\ remote' = [remote EXCEPT ![c][q] = Cut(c, q)]
      BY <1>6 DEF Die
    <2>2. x \in Work /\ x.pc = "dead" /\ ~x.inflight
      BY <1>0 DEF Work
    <2>3. v = x /\ n = Cut(c, q)
      BY <2>1 DEF TurnInv, TurnTypeOK
    <2>4. WorkFits(v, n)
      BY <1>0, <2>2, <2>3, CutTyped DEF WorkFits, TurnRow
    <2>5. turnFaults' \in 0..MaxTurnFaults
      BY <1>6 DEF Die, TurnInv, TurnTypeOK
    <2>6. n \in SUBSET {"current", "lost"}
      BY <2>3, CutTyped
    <2>7. UNCHANGED <<conv, turn, handler>> /\ w.pc \notin {"none", "done"}
      BY <1>6 DEF Die
    <2> QED  BY <1>1, <2>1, <2>2, <2>3, <2>4, <2>5, <2>6, <2>7
  <1> QED  BY <1>2, <1>3, <1>4, <1>5, <1>6

\* finalize settles the turn when every attempt was answered, and leaves it blocking otherwise.
LEMMA FinalizeKeeps ==
    ASSUME TurnInv, NEW c \in Convs, NEW q \in Requests, NEW allowed \in BOOLEAN,
           Finalize(c, q, allowed)
    PROVE  TurnInv'
  <1> DEFINE w == work[c][q]
             t == turn[c][q]
             u == turn'[c][q]
             confirmed == ~w.lost
  <1>1. /\ t.status # "none" /\ ~t.terminated /\ WorkFits(w, remote[c][q]) /\ w.pc = "joined"
        /\ w \in Work /\ remote[c][q] \in SUBSET {"current", "lost"} /\ t \in Turn
        /\ TurnRow(c, q)
    BY UnderWay DEF Finalize, TurnInv
  <1>2. /\ work'[c][q] = [w EXCEPT !.pc = "done"] /\ remote' = remote /\ conv' = conv
        /\ [w EXCEPT !.pc = "done"] \in Work
        /\ work' \in [Convs -> [Requests -> Work]]
        /\ \A d \in Convs, r \in Requests : d # c \/ r # q => work'[d][r] = work[d][r]
    BY <1>1 DEF Finalize, TurnInv, TurnTypeOK, Work
  <1>3. /\ work'[c][q].pc = "done" /\ ~work'[c][q].inflight
        /\ work'[c][q].lost <=> w.lost
    BY <1>1, <1>2 DEF Work, WorkFits
  <1>4. confirmed => remote[c][q] = {}
    BY <1>1 DEF WorkFits
  <1>5. conv[c] # "none" /\ ~t.answer
    BY <1>1 DEF TurnRow, Turn
  <1>6. CASE conv[c] = "active"
    <2>1. u = Finalized(t, w.outcome, confirmed, allowed)
      BY <1>6 DEF Finalize, TurnInv, TurnTypeOK
    <2>2. /\ u \in Turn /\ u.status # "none" /\ (u.terminated <=> confirmed)
          /\ ~confirmed => u.code = ProviderUnconfirmed
          /\ u.answer => confirmed /\ u.status = "completed"
      <3> DEFINE answered == w.outcome = "answer" /\ confirmed /\ allowed
                 status == IF t.status # "running" THEN t.status
                           ELSE IF w.outcome = "cancelled" THEN "cancelled"
                           ELSE IF answered THEN "completed" ELSE "failed"
                 code == IF ~confirmed THEN ProviderUnconfirmed
                         ELSE IF status = "completed" THEN NoCode
                         ELSE IF t.status = "running" \/ t.code = LeaseUnconfirmed THEN Other
                         ELSE t.code
                 answer == confirmed /\ (IF t.status = "running" THEN answered ELSE t.answer)
      <3>1. /\ status \in {"running", "completed", "failed", "cancelled", "interrupted"}
            /\ answered /\ t.status = "running" => status = "completed"
        BY <1>1 DEF Turn
      <3>2. code \in {NoCode, Other, LeaseUnconfirmed, ProviderUnconfirmed}
            /\ (~confirmed => code = ProviderUnconfirmed)
        BY <1>1 DEF Turn
      <3>3. answer \in BOOLEAN /\ (answer => confirmed /\ status = "completed")
        BY <1>1, <1>5, <3>1 DEF Turn
      <3>4. u = [status |-> status, code |-> code, terminated |-> confirmed, answer |-> answer]
        BY <2>1 DEF Finalized
      <3>5. confirmed \in BOOLEAN
        OBVIOUS
      <3> HIDE DEF status, code, answer, answered, confirmed
      <3> QED  BY <3>1, <3>2, <3>3, <3>4, <3>5 DEF Turn
    <2>3. \A d \in Convs, r \in Requests : d # c \/ r # q => turn'[d][r] = turn[d][r]
      BY <1>6 DEF Finalize, TurnInv, TurnTypeOK
    <2> HIDE DEF u
    <2>4. turn' \in [Convs -> [Requests -> Turn]]
      <3>1. turn' = [turn EXCEPT ![c][q] = u]
        BY <1>6, <2>1 DEF Finalize
      <3> QED  BY <2>2, <3>1 DEF TurnInv, TurnTypeOK
    <2>5. TurnTypeOK' /\ RowStep(c, q)
      BY <1>2, <1>6, <2>3, <2>4, TouchedType DEF Finalize, TurnInv, TurnTypeOK, RowStep
    <2>6. TurnRow(c, q)'
      BY <1>1, <1>2, <1>3, <1>4, <1>6, <2>2 DEF TurnRow, WorkFits, Unsettled, Blocks, u
    <2> QED  BY <1>1, <2>2, <2>5, <2>6, RowStepKeeps DEF Unsettled, u
  <1>7. CASE conv[c] # "active"
    <2>1. u = [t EXCEPT !.terminated = @ \/ confirmed]
      BY <1>7 DEF Finalize, TurnInv, TurnTypeOK
    <2>2. /\ u \in Turn /\ u.status = t.status /\ (u.terminated <=> confirmed)
          /\ u.code = t.code /\ ~u.answer
      BY <1>1, <1>5, <2>1 DEF Turn
    <2>3. \A d \in Convs, r \in Requests : d # c \/ r # q => turn'[d][r] = turn[d][r]
      BY <1>7 DEF Finalize, TurnInv, TurnTypeOK
    <2> HIDE DEF u
    <2>4. turn' \in [Convs -> [Requests -> Turn]]
      <3>1. turn' = [turn EXCEPT ![c][q] = u]
        BY <1>7, <2>1 DEF Finalize
      <3> QED  BY <2>2, <3>1 DEF TurnInv, TurnTypeOK
    <2>5. TurnTypeOK' /\ RowStep(c, q)
      BY <1>2, <1>7, <2>3, <2>4 DEF Finalize, TurnInv, TurnTypeOK, RowStep
    <2>6. TurnRow(c, q)'
      BY <1>1, <1>2, <1>3, <1>4, <1>5, <2>2 DEF TurnRow, WorkFits, Unsettled, Blocks, u
    <2> QED  BY <1>1, <2>2, <2>5, <2>6, RowStepKeeps DEF Unsettled, u
  <1> QED  BY <1>6, <1>7

LEMMA CancelKeeps ==
    ASSUME TurnInv, NEW c \in Convs, NEW q \in Requests, Cancel(c, q)
    PROVE  TurnInv'
  <1> DEFINE t == turn[c][q]
             u == turn'[c][q]
  <1>1. t \in Turn /\ TurnRow(c, q) /\ t.status = "running" /\ conv[c] = "active"
    BY DEF Cancel, TurnInv, TurnTypeOK
  <1>2. u = [t EXCEPT !.status = "cancelled", !.code = Other]
    BY DEF Cancel, TurnInv, TurnTypeOK
  <1>3. u \in Turn /\ u.status = "cancelled" /\ u.terminated = t.terminated /\ u.answer = t.answer
    BY <1>1, <1>2 DEF Turn
  <1> HIDE DEF u
  <1>4. /\ turn' \in [Convs -> [Requests -> Turn]]
        /\ \A d \in Convs, r \in Requests : d # c \/ r # q => turn'[d][r] = turn[d][r]
    BY <1>2, <1>3 DEF Cancel, TurnInv, TurnTypeOK
  <1>5. TurnTypeOK' /\ RowStep(c, q)
    BY <1>4, TouchedType DEF Cancel, TurnInv, TurnTypeOK, RowStep
  <1>6. TurnRow(c, q)'
    BY <1>1, <1>3 DEF Cancel, TurnRow, Unsettled, Blocks, u
  <1> QED  BY <1>1, <1>3, <1>5, <1>6, RowStepKeeps DEF Unsettled, u

LEMMA SubmitKeeps ==
    ASSUME TurnInv, NEW h \in Handlers,
           SubmitReserve(h) \/ \E c \in Convs, q \in Requests, late \in BOOLEAN :
                                  SubmitCheck(h, c, q, late)
    PROVE  TurnInv'
  <1>1. ASSUME NEW c \in Convs, NEW q \in Requests, NEW late \in BOOLEAN, SubmitCheck(h, c, q, late)
        PROVE  TurnInv'
    <2> DEFINE seen == IF late THEN Touched(c) ELSE handler
               mine == [conv |-> c, req |-> q, fresh |-> ~late]
    <2>1. seen \in [Handlers -> Submission] /\ mine \in Submission
      BY TouchedType DEF Submission, TurnInv, TurnTypeOK
    <2>2. handler' \in {seen, [seen EXCEPT ![h] = mine]}
      BY <1>1 DEF SubmitCheck
    <2> HIDE DEF seen, mine
    <2>3. handler' \in [Handlers -> Submission]
      BY <2>1, <2>2
    <2> QED  BY <1>1, <2>3, RecoveredKeeps DEF SubmitCheck
  <1>2. CASE SubmitReserve(h)
    <2> DEFINE c == handler[h].conv
               q == handler[h].req
               granted == /\ conv[c] = "active" /\ turn[c][q].status = "none"
                          /\ handler[h].fresh /\ ~Busy(c)
    <2>1. c \in Convs /\ q \in Requests
      BY <1>2 DEF SubmitReserve, TurnInv, TurnTypeOK, Submission
    <2>2. Idle \in Submission
      BY DEF Submission
    <2>3. CASE granted
      <3>1. Reserved(c, q) /\ handler' = [Touched(c) EXCEPT ![h] = Idle]
            /\ UNCHANGED <<conv, remote, turnFaults>>
        BY <1>2, <2>3 DEF SubmitReserve
      <3>2. handler' \in [Handlers -> Submission]
        BY <2>1, <2>2, <3>1, TouchedType DEF TurnInv
      <3>3. \A r \in Requests : ~Unsettled(turn[c][r])
        BY <2>1, <2>3 DEF Busy, TurnInv, TurnRow
      <3> HIDE DEF c, q
      <3> QED  BY <2>1, <2>3, <3>1, <3>2, <3>3, ReservedKeeps DEF TurnInv, TurnTypeOK
    <2>4. CASE ~granted
      <3>1. handler' = [handler EXCEPT ![h] = Idle]
            /\ UNCHANGED <<conv, turn, work, remote, turnFaults>>
        BY <1>2, <2>4 DEF SubmitReserve
      <3> QED  BY <2>2, <3>1 DEF TurnInv, TurnTypeOK, TurnRow, OneUnsettled
    <2> QED  BY <2>3, <2>4
  <1> QED  BY <1>1, <1>2

LEMMA TurnStepKeeps == ASSUME TurnInv, TurnStep PROVE TurnInv'
  <1>1. PICK c \in Convs :
          \/ Detail(c) \/ Rename(c)
          \/ \E q \in Requests :
               \/ Execution(c, q)
               \/ Attempt(c, q) \/ RemoteEnds(c, q)
               \/ Cancel(c, q) \/ Shutdown(c, q) \/ Die(c, q)
               \/ \E h \in Handlers :
                    SubmitReserve(h) \/ \E late \in BOOLEAN : SubmitCheck(h, c, q, late)
    BY DEF TurnStep
  <1>2. CASE Detail(c)
    BY <1>2, TouchedType, RecoveredKeeps DEF Detail, TurnInv
  <1>3. CASE Rename(c)
    BY <1>3, TouchedType DEF Rename, TurnInv, TurnTypeOK, TurnRow, OneUnsettled
  <1>4. ASSUME NEW q \in Requests,
               Attempt(c, q) \/ RemoteEnds(c, q) \/ Die(c, q) \/ Cancel(c, q)
                 \/ AttemptAnswered(c, q) \/ AttemptFails(c, q) \/ ReserveDependencies(c, q)
        PROVE  TurnInv'
    BY <1>4, AttemptKeeps, CancelKeeps, DependenciesKeep
  <1>5. ASSUME NEW q \in Requests, Shutdown(c, q) \/ Monitor(c, q)
                                     \/ \E outcome \in {"answer", "error"} : Returns(c, q, outcome)
        PROVE  TurnInv'
    BY <1>5, JoinKeeps DEF Shutdown, Monitor, Returns
  <1>6. ASSUME NEW q \in Requests, NEW h \in Handlers,
               SubmitReserve(h) \/ \E late \in BOOLEAN : SubmitCheck(h, c, q, late)
        PROVE  TurnInv'
    BY <1>6, SubmitKeeps
  <1> QED  BY <1>1, <1>2, <1>3, <1>4, <1>5, <1>6 DEF Execution

LEMMA StartKeeps ==
    ASSUME TurnInv, NEW c \in Convs, NEW q \in Requests, StartConversation(c, q)
    PROVE  TurnInv'
  <1>1. \A r \in Requests : turn[c][r].status = "none"
    BY DEF TurnInv, TurnRow, StartConversation
  <1> QED  BY <1>1, ReservedKeeps DEF StartConversation, TurnInv, TurnTypeOK, Unsettled

------------------------------------------------------------------------------
(* Drafts and attachments.                                                   *)

DraftTypeOK ==
  /\ draft \in Draft
  /\ att \in [Attachments -> Attachment]
  /\ upload \in [Attachments -> Upload]
  /\ start \in [Convs -> Start]
  /\ ledger \in [Requests -> Convs \cup {None}]
  /\ losses \in 0..MaxLosses

\* How far the upload of a row has come.
UploadFits(r, u) ==
  /\ r.parent = None => /\ u.pc = "none" /\ r.state = "none" /\ ~r.terminated
                        /\ r.cleanup = "retained"
  /\ u.pc = "none" <=> u.to = None
  /\ u.pc = "none" => r.parent = None \/ r.source
  /\ u.pc # "none" => r.parent \in Convs \cup {"draft"} /\ u.to \in Convs \cup {"draft"}
  /\ u.pc \in {"reserved", "streaming", "failing"} => r.state # "none"
  /\ u.pc \in {"confirm", "confirming", "done"} => r.state \in {"attached", "failed"}
  /\ u.pc = "confirming" => u.read = r.parent
  /\ u.pc = "streaming" \/ r.state = "attached" => r.source
  /\ r.terminated => u.pc \in {"none", "done"}

\* Where a row belongs, and what its upload believes.
ParentFits(r, u) ==
  /\ r.parent \in Convs /\ u.to # r.parent => r.terminated
  /\ r.parent = "draft" => u.to \in {"draft", None}
  /\ r.parent \in Convs => conv[r.parent] # "none"

\* The facts a row needs to be offered for clean-up; none of them is undone.
Ended(p) ==
  IF p = "draft" THEN draft.state \in {"abandoned", "expired"}
  ELSE p \in Convs /\ conv[p] = "deleted" /\ TurnsOver(turn[p])
CandidateFits(r) ==
  r.cleanup = "cleanup_candidate" => r.terminated /\ ~r.source /\ Ended(r.parent)

RowInv(a) ==
  UploadFits(att[a], upload[a]) /\ ParentFits(att[a], upload[a]) /\ CandidateFits(att[a])

\* The rows that a conversation got from its draft.
Bound(c) == {a \in Attachments : att[a].parent = c /\ upload[a].to # c /\ ~att[a].excluded}

\* The conversation, the draft, the ledger and the start attempt name each other.
ConvInv(c) ==
  conv[c] # "none" =>
    /\ draft.state = "bound" /\ draft.bound = c
    /\ start[c].pc = "done" /\ start[c].req \in Requests /\ ledger[start[c].req] = c
    /\ start[c].seen = Bound(c)

\* An attempt that was checked against the current revision knows the manifest.
StartInv(c) ==
  /\ start[c].pc = "checked" => /\ start[c].req \in Requests
                                /\ start[c].revision <= draft.revision
                                /\ draft.state = "open" /\ start[c].revision = draft.revision
                                     => start[c].seen = Manifest
  /\ draft.state = "none" => start[c].pc = "idle"

DraftInv ==
  /\ DraftTypeOK
  /\ \A a \in Attachments : RowInv(a)
  /\ \A c \in Convs : ConvInv(c) /\ StartInv(c)
Inv == TurnInv /\ DraftInv

\* An empty place has no parent among the conversations.
LEMMA Disjoint == "draft" \notin Convs /\ "legacy" \notin Convs /\ None \notin Convs
  BY DraftsAssumption DEF None

\* The rows keep their place, and their uploads their aim.
SameShape ==
  \A b \in Attachments : /\ att'[b].parent = att[b].parent /\ upload'[b].to = upload[b].to
                         /\ att'[b].excluded = att[b].excluded

LEMMA ShapeKeeps ==
    ASSUME DraftInv, SameShape, UNCHANGED <<conv, draft, start, ledger>>
    PROVE  \A c \in Convs : ConvInv(c)' /\ StartInv(c)'
  <1>1. Manifest' = Manifest /\ \A c \in Convs : Bound(c)' = Bound(c)
    BY DEF SameShape, Manifest, Bound
  <1>2. SUFFICES ASSUME NEW c \in Convs PROVE ConvInv(c)' /\ StartInv(c)'
    OBVIOUS
  <1> QED  BY <1>1 DEF DraftInv, ConvInv, StartInv

\* A step of one upload that leaves its row in its place.
UploadOnly(a) ==
  /\ \A b \in Attachments : b # a => att'[b] = att[b] /\ upload'[b] = upload[b]
  /\ att'[a].parent = att[a].parent /\ att'[a].excluded = att[a].excluded
  /\ att'[a].terminated <=> att[a].terminated
  /\ att'[a].cleanup = att[a].cleanup
  /\ upload'[a].to = upload[a].to
  /\ UNCHANGED <<turnVars, draft, start, ledger>>

LEMMA UploadKeeps ==
    ASSUME Inv, NEW a \in Attachments, DraftTypeOK', UploadOnly(a),
           UploadFits(att'[a], upload'[a]),
           att[a].cleanup = "cleanup_candidate" => ~att'[a].source
    PROVE  Inv'
  <1>1. SameShape /\ UNCHANGED <<conv, turn, draft, start, ledger>>
    BY DEF UploadOnly, SameShape, turnVars
  <1>2. ASSUME NEW b \in Attachments PROVE RowInv(b)'
    <2>1. CASE b = a
      BY <1>1, <2>1 DEF Inv, DraftInv, RowInv, UploadOnly, ParentFits, CandidateFits, Ended, TurnsOver
    <2>2. CASE b # a
      BY <1>1, <2>2 DEF Inv, DraftInv, RowInv, UploadOnly, UploadFits, ParentFits, CandidateFits,
                        Ended, TurnsOver
    <2> QED  BY <2>1, <2>2
  <1>3. TurnInv'
    BY DEF UploadOnly, turnVars, Inv, TurnInv, TurnTypeOK, TurnRow, OneUnsettled
  <1> QED  BY <1>1, <1>2, <1>3, ShapeKeeps DEF Inv, DraftInv

\* The type of the rows after one row and one upload were replaced.
LEMMA ReplacedTyped ==
    ASSUME DraftTypeOK, NEW a \in Attachments, NEW x \in Attachment, NEW v \in Upload,
           att' = [att EXCEPT ![a] = x], upload' = [upload EXCEPT ![a] = v],
           UNCHANGED <<draft, start, ledger>>, losses' \in 0..MaxLosses
    PROVE  /\ DraftTypeOK' /\ att'[a] = x /\ upload'[a] = v
           /\ \A b \in Attachments : b # a => att'[b] = att[b] /\ upload'[b] = upload[b]
  BY DEF DraftTypeOK

LEMMA LossTyped ==
    ASSUME DraftTypeOK, losses' = losses \/ (losses < MaxLosses /\ losses' = losses + 1)
    PROVE  losses' \in 0..MaxLosses
  BY DraftsAssumption DEF DraftTypeOK

\* The upload writes its intake, its outcome or nothing, and goes on.
LEMMA UploadStepKeeps ==
    ASSUME Inv, NEW a \in Attachments,
           \/ ReserveIntake(a) \/ Fail(a) \/ ConfirmReads(a) \/ UploadDies(a)
           \/ \E clean \in BOOLEAN : Attach(a, clean) \/ UploadFails(a, clean)
    PROVE  Inv'
  <1> DEFINE r == att[a]
             u == upload[a]
  <1>0. /\ r \in Attachment /\ u \in Upload /\ DraftTypeOK /\ RowInv(a)
        /\ UploadFits(r, u) /\ CandidateFits(r)
    BY DEF Inv, DraftInv, DraftTypeOK, RowInv
  <1>1. ASSUME NEW x \in Attachment, NEW v \in Upload,
               att' = [att EXCEPT ![a] = x], upload' = [upload EXCEPT ![a] = v],
               UNCHANGED <<turnVars, draft, start, ledger>>,
               losses' = losses \/ (losses < MaxLosses /\ losses' = losses + 1),
               x.parent = r.parent, x.excluded = r.excluded, x.terminated <=> r.terminated,
               x.cleanup = r.cleanup, v.to = u.to, UploadFits(x, v),
               r.cleanup = "cleanup_candidate" => ~x.source
        PROVE  Inv'
    <2>1. /\ DraftTypeOK' /\ att'[a] = x /\ upload'[a] = v
          /\ \A b \in Attachments : b # a => att'[b] = att[b] /\ upload'[b] = upload[b]
      BY <1>0, <1>1, ReplacedTyped, LossTyped
    <2>2. UploadOnly(a)
      BY <1>1, <2>1 DEF UploadOnly
    <2> QED  BY <1>1, <2>1, <2>2, UploadKeeps
  <1>2. CASE ReserveIntake(a)
    <2> DEFINE x == [r EXCEPT !.source = TRUE]
               v == [u EXCEPT !.pc = "streaming"]
    <2>1. /\ att' = [att EXCEPT ![a] = x] /\ upload' = [upload EXCEPT ![a] = v]
          /\ UNCHANGED <<turnVars, draft, start, ledger, losses>>
      BY <1>2 DEF ReserveIntake
    <2>2. /\ x \in Attachment /\ x.parent = r.parent /\ x.excluded = r.excluded /\ x.source
          /\ (x.terminated <=> r.terminated) /\ x.cleanup = r.cleanup /\ x.state = r.state
      BY <1>0 DEF Attachment
    <2>3. v \in Upload /\ v.pc = "streaming" /\ v.to = u.to
      BY <1>0 DEF Upload
    <2>4. u.pc = "reserved" /\ Authorized(u.to) /\ r.parent = u.to /\ r.state = "uploading"
      BY <1>2 DEF ReserveIntake, Bindable
    <2> HIDE DEF x, v
    <2>5. UploadFits(x, v)
      BY <1>0, <2>2, <2>3, <2>4 DEF UploadFits
    <2>6. r.cleanup # "cleanup_candidate"
      BY <1>0, <2>4 DEF CandidateFits, Ended, Authorized, Open
    <2> QED  BY <1>1, <2>1, <2>2, <2>3, <2>5, <2>6
  <1>3. ASSUME NEW clean \in BOOLEAN, Attach(a, clean)
        PROVE  Inv'
    <2> DEFINE x == [r EXCEPT !.state = "attached"]
               v(pc) == [u EXCEPT !.pc = pc, !.clean = clean]
    <2>1. PICK pc \in {"confirm", "failing"} :
            /\ att' = [att EXCEPT ![a] = x] /\ upload' = [upload EXCEPT ![a] = v(pc)]
            /\ UNCHANGED <<turnVars, draft, start, ledger>>
            /\ losses' = losses \/ (losses < MaxLosses /\ losses' = losses + 1)
      BY <1>3 DEF Attach
    <2>2. /\ x \in Attachment /\ x.parent = r.parent /\ x.excluded = r.excluded
          /\ (x.source <=> r.source)
          /\ (x.terminated <=> r.terminated) /\ x.cleanup = r.cleanup /\ x.state = "attached"
      BY <1>0 DEF Attachment
    <2>3. v(pc) \in Upload /\ v(pc).pc = pc /\ v(pc).to = u.to
      BY <1>0 DEF Upload
    <2>4. u.pc = "streaming"
      BY <1>3 DEF Attach
    <2> HIDE DEF x, v
    <2>5. UploadFits(x, v(pc))
      BY <1>0, <2>2, <2>3, <2>4 DEF UploadFits
    <2>6. r.cleanup = "cleanup_candidate" => ~x.source
      BY <1>0, <2>2 DEF CandidateFits
    <2> QED  BY <1>1, <2>1, <2>2, <2>3, <2>5, <2>6
  <1>4. ASSUME NEW v \in Upload, upload' = [upload EXCEPT ![a] = v], att' = att,
               UNCHANGED <<turnVars, draft, start, ledger>>,
               losses' = losses \/ (losses < MaxLosses /\ losses' = losses + 1),
               v.to = u.to, UploadFits(r, v)
        PROVE  Inv'
    <2>1. att' = [att EXCEPT ![a] = r]
      BY <1>0, <1>4 DEF DraftTypeOK
    <2>2. r.cleanup = "cleanup_candidate" => ~r.source
      BY <1>0 DEF CandidateFits
    <2> QED  BY <1>0, <1>1, <1>4, <2>1, <2>2
  <1>5. ASSUME NEW clean \in BOOLEAN, UploadFails(a, clean)
        PROVE  Inv'
    <2> DEFINE v == [u EXCEPT !.pc = "failing", !.clean = clean]
    <2>1. v \in Upload /\ v.pc = "failing" /\ v.to = u.to
      BY <1>0 DEF Upload
    <2>2. UploadFits(r, v)
      BY <1>0, <1>5, <2>1 DEF UploadFits, UploadFails
    <2> QED  BY <1>4, <1>5, <2>1, <2>2 DEF UploadFails
  <1>6. CASE ConfirmReads(a)
    <2> DEFINE v == [u EXCEPT !.pc = "confirming", !.read = r.parent]
    <2>1. v \in Upload /\ v.pc = "confirming" /\ v.to = u.to /\ v.read = r.parent
      BY <1>0 DEF Upload, Attachment
    <2>2. UploadFits(r, v)
      BY <1>0, <1>6, <2>1 DEF UploadFits, ConfirmReads
    <2> QED  BY <1>4, <1>6, <2>1, <2>2 DEF ConfirmReads
  <1>7. CASE UploadDies(a)
    <2> DEFINE v == [u EXCEPT !.pc = "dead"]
    <2>1. v \in Upload /\ v.pc = "dead" /\ v.to = u.to
      BY <1>0 DEF Upload
    <2>2. UploadFits(r, v)
      BY <1>0, <1>7, <2>1 DEF UploadFits, UploadDies
    <2> QED  BY <1>4, <1>7, <2>1, <2>2 DEF UploadDies
  <1>8. CASE Fail(a)
    <2> DEFINE x == [r EXCEPT !.state = IF @ = "uploading" THEN "failed" ELSE @]
               v == [u EXCEPT !.pc = "confirm"]
    <2>1. /\ att' = [att EXCEPT ![a] = x] /\ upload' = [upload EXCEPT ![a] = v]
          /\ UNCHANGED <<turnVars, draft, start, ledger, losses>> /\ u.pc = "failing"
      BY <1>8 DEF Fail
    <2>2. /\ x \in Attachment /\ x.parent = r.parent /\ x.excluded = r.excluded
          /\ (x.source <=> r.source) /\ (x.terminated <=> r.terminated) /\ x.cleanup = r.cleanup
          /\ x.state = IF r.state = "uploading" THEN "failed" ELSE r.state
      BY <1>0 DEF Attachment
    <2>3. v \in Upload /\ v.pc = "confirm" /\ v.to = u.to
      BY <1>0 DEF Upload
    <2> HIDE DEF x, v
    <2>4. r.state \in {"uploading", "attached", "failed"}
      BY <1>0, <2>1 DEF UploadFits, Attachment
    <2>5. UploadFits(x, v)
      BY <1>0, <2>1, <2>2, <2>3, <2>4 DEF UploadFits
    <2>6. r.cleanup = "cleanup_candidate" => ~x.source
      BY <1>0, <2>2 DEF CandidateFits
    <2> QED  BY <1>1, <2>1, <2>2, <2>3, <2>5, <2>6
  <1> QED  BY <1>2, <1>3, <1>5, <1>6, <1>7, <1>8

\* What an assessment may change: the clean-up state of the rows of one parent,
\* and a new candidate has ended without a source.
AssessedFrom(rows, p, over) ==
  \A b \in Attachments :
    /\ att'[b] \in Attachment
    /\ att'[b].parent = rows[b].parent /\ att'[b].state = rows[b].state
    /\ att'[b].excluded = rows[b].excluded
    /\ att'[b].source <=> rows[b].source
    /\ att'[b].terminated <=> rows[b].terminated
    /\ rows[b].parent # p => att'[b] = rows[b]
    /\ rows[b].parent = p /\ att'[b].cleanup = "cleanup_candidate"
         => over /\ rows[b].terminated /\ ~rows[b].source

LEMMA ReconciledRows ==
    ASSUME NEW rows \in [Attachments -> Attachment], NEW p, NEW over \in BOOLEAN,
           att' = Reconciled(rows, p, over)
    PROVE  att' \in [Attachments -> Attachment] /\ AssessedFrom(rows, p, over)
  <1>1. ASSUME NEW b \in Attachments
        PROVE  /\ att'[b] \in Attachment
               /\ att'[b].parent = rows[b].parent /\ att'[b].state = rows[b].state
               /\ att'[b].excluded = rows[b].excluded
               /\ att'[b].source <=> rows[b].source
               /\ att'[b].terminated <=> rows[b].terminated
               /\ rows[b].parent # p => att'[b] = rows[b]
               /\ rows[b].parent = p /\ att'[b].cleanup = "cleanup_candidate"
                    => over /\ rows[b].terminated /\ ~rows[b].source
    <2>1. rows[b] \in Attachment
      OBVIOUS
    <2>2. CASE rows[b].parent = p
      <3>1. att'[b] = [rows[b] EXCEPT !.cleanup = IF rows[b].terminated /\ over /\ ~rows[b].source
                                                 THEN "cleanup_candidate" ELSE "cleanup_waiting"]
        BY <2>2 DEF Reconciled, Assessed
      <3> QED  BY <2>1, <2>2, <3>1 DEF Attachment
    <2>3. CASE rows[b].parent # p
      BY <2>1, <2>3 DEF Reconciled
    <2> QED  BY <2>2, <2>3
  <1>2. att' \in [Attachments -> Attachment]
    BY <1>1 DEF Reconciled
  <1> QED  BY <1>1, <1>2 DEF AssessedFrom

\* An assessment of an ended parent keeps the invariant of the rows.
LEMMA AssessmentKeeps ==
    ASSUME DraftTypeOK, \A b \in Attachments : RowInv(b), NEW p \in Convs \cup {"draft"},
           att' \in [Attachments -> Attachment],
           NEW over \in BOOLEAN, AssessedFrom(att, p, over), upload' = upload,
           over => Ended(p)', \A o \in Parents : Ended(o) => Ended(o)',
           \A c \in Convs : conv[c] # "none" => conv'[c] # "none"
    PROVE  (\A b \in Attachments : RowInv(b)') /\ SameShape
  <1>1. ASSUME NEW b \in Attachments PROVE RowInv(b)'
    <2>1. /\ att'[b].parent = att[b].parent /\ att'[b].state = att[b].state
          /\ att'[b].excluded = att[b].excluded
          /\ att'[b].source <=> att[b].source
          /\ att'[b].terminated <=> att[b].terminated
          /\ att[b].parent # p => att'[b] = att[b]
          /\ att[b].parent = p /\ att'[b].cleanup = "cleanup_candidate"
               => over /\ att[b].terminated /\ ~att[b].source
          /\ att[b] \in Attachment /\ att'[b] \in Attachment
      BY DEF AssessedFrom, DraftTypeOK
    <2>2. att[b].parent = None => att'[b] = att[b]
      BY <2>1, Disjoint DEF None
    <2>3. UploadFits(att[b], upload[b])'
      BY <2>1, <2>2 DEF RowInv, UploadFits
    <2>4. ParentFits(att[b], upload[b])'
      BY <2>1 DEF RowInv, ParentFits
    <2>5. CandidateFits(att[b])'
      <3>1. CASE att[b].parent = p
        BY <2>1, <3>1 DEF CandidateFits
      <3>2. CASE att[b].parent # p
        <4>1. att'[b] = att[b] /\ att[b].parent \in Parents \cup {None}
          BY <2>1, <3>2 DEF Attachment
        <4>2. att[b].cleanup = "cleanup_candidate" => att[b].parent # None
          BY DEF RowInv, UploadFits
        <4> QED  BY <4>1, <4>2 DEF RowInv, CandidateFits
      <3> QED  BY <3>1, <3>2
    <2> QED  BY <2>3, <2>4, <2>5 DEF RowInv
  <1>2. SameShape
    BY DEF SameShape, AssessedFrom
  <1> QED  BY <1>1, <1>2

LEMMA TurnsUnchanged == ASSUME TurnInv, UNCHANGED turnVars PROVE TurnInv'
  BY DEF turnVars, TurnInv, TurnTypeOK, TurnRow, OneUnsettled

\* touch_manifest.
LEMMA TouchedDraftTyped ==
    ASSUME NEW d \in Draft
    PROVE  /\ TouchedDraft(d) \in Draft /\ TouchedDraft(d).state = d.state
           /\ TouchedDraft(d).bound = d.bound
           /\ TouchedDraft(d).revision = d.revision + 1 /\ d.revision \in Nat
  <1> DEFINE n == d.revision + 1
  <1>1. d.revision \in Nat /\ n \in Nat
    BY DEF Draft
  <1>2. TouchedDraft(d) = [d EXCEPT !.revision = n, !.late = FALSE]
    BY DEF TouchedDraft
  <1> HIDE DEF n
  <1>3. /\ TouchedDraft(d) \in Draft /\ TouchedDraft(d).state = d.state
        /\ TouchedDraft(d).bound = d.bound /\ TouchedDraft(d).revision = n
    BY <1>1, <1>2 DEF Draft
  <1> QED  BY <1>1, <1>3 DEF n

\* The draft is abandoned, or expires, or was ended before.
LEMMA DraftEndKeeps == ASSUME Inv, ExpireDraft \/ Abandon PROVE Inv'
  <1>1. /\ draft' \in Draft /\ draft'.state \in {"abandoned", "expired"}
        /\ draft'.revision >= draft.revision /\ draft.state \in {"open", "abandoned", "expired"}
    <2>1. draft \in Draft
      BY DEF Inv, DraftInv, DraftTypeOK
    <2>2. CASE ExpireDraft
      <3>1. draft' = [draft EXCEPT !.state = IF @ = "open" THEN "expired" ELSE @]
        BY <2>2 DEF ExpireDraft
      <3> QED  BY <2>1, <2>2, <3>1 DEF ExpireDraft, Draft
    <2>3. CASE Abandon
      <3> DEFINE d == [draft EXCEPT !.state = "abandoned"]
      <3>1. d \in Draft /\ d.state = "abandoned" /\ d.revision = draft.revision
        BY <2>1 DEF Draft
      <3>2. draft' = TouchedDraft(d) /\ draft.state = "open"
        BY <2>3 DEF Abandon, Open
      <3> HIDE DEF d
      <3>3. /\ draft' \in Draft /\ draft'.state = "abandoned" /\ draft.revision \in Nat
            /\ draft'.revision = draft.revision + 1
        BY <3>1, <3>2, TouchedDraftTyped
      <3> QED  BY <3>2, <3>3
    <2> QED  BY <2>2, <2>3
  <1>2. /\ att' = Reconciled(att, "draft", TRUE)
        /\ UNCHANGED <<turnVars, upload, start, ledger, losses>>
    BY DEF ExpireDraft, Abandon
  <1>3. att' \in [Attachments -> Attachment] /\ AssessedFrom(att, "draft", TRUE)
    BY <1>2, ReconciledRows DEF Inv, DraftInv, DraftTypeOK
  <1>4. Ended("draft")' /\ \A o \in Parents : Ended(o) => Ended(o)'
    BY <1>1, <1>2 DEF Ended, TurnsOver, turnVars
  <1>5. (\A b \in Attachments : RowInv(b)') /\ SameShape
    BY <1>2, <1>3, <1>4, AssessmentKeeps DEF Inv, DraftInv, turnVars
  <1>6. ASSUME NEW c \in Convs PROVE ConvInv(c)' /\ StartInv(c)'
    <2>1. conv[c] = "none" /\ conv' = conv
      BY <1>1, <1>2 DEF Inv, DraftInv, ConvInv, turnVars
    <2>2. start[c] \in Start /\ draft.revision \in Nat /\ draft'.revision \in Nat
      BY <1>1 DEF Inv, DraftInv, DraftTypeOK, Draft
    <2>3. start[c].revision \in Nat
      BY <2>2 DEF Start
    <2>4. StartInv(c)'
      BY <1>1, <1>2, <2>2, <2>3 DEF Inv, DraftInv, StartInv
    <2> QED  BY <2>1, <2>4 DEF ConvInv
  <1>7. DraftTypeOK'
    BY <1>1, <1>2, <1>3 DEF Inv, DraftInv, DraftTypeOK
  <1> QED  BY <1>2, <1>5, <1>6, <1>7, TurnsUnchanged DEF Inv, DraftInv

\* The rows of a deleted conversation are assessed; its turns may settle or be
\* cancelled in the same step.
LEMMA AssessedConvKeeps ==
    ASSUME Inv, TurnInv', NEW c \in Convs, conv[c] # "none", conv'[c] = "deleted",
           att' = Reconciled(att, c, TurnsOver(turn'[c])),
           \A d \in Convs : d # c => conv'[d] = conv[d] /\ turn'[d] = turn[d],
           Ended(c) => Ended(c)',
           UNCHANGED <<draft, upload, start, ledger, losses>>
    PROVE  Inv'
  <1> DEFINE over == TurnsOver(turn'[c])
  <1>1. over \in BOOLEAN
    BY DEF TurnsOver
  <1>2. att' = Reconciled(att, c, over)
    OBVIOUS
  <1>3. over => Ended(c)'
    BY Disjoint DEF Ended
  <1> HIDE DEF over
  <1>4. att' \in [Attachments -> Attachment] /\ AssessedFrom(att, c, over)
    BY <1>1, <1>2, ReconciledRows DEF Inv, DraftInv, DraftTypeOK
  <1>5. \A o \in Parents : Ended(o) => Ended(o)'
    BY Disjoint DEF Ended, TurnsOver
  <1>6. \A d \in Convs : conv[d] # "none" => conv'[d] # "none"
    OBVIOUS
  <1>7. (\A b \in Attachments : RowInv(b)') /\ SameShape
    BY <1>1, <1>3, <1>4, <1>5, <1>6, AssessmentKeeps DEF Inv, DraftInv
  <1>8. Manifest' = Manifest /\ \A d \in Convs : Bound(d)' = Bound(d)
    BY <1>7 DEF SameShape, Manifest, Bound
  <1>9. ASSUME NEW d \in Convs PROVE ConvInv(d)' /\ StartInv(d)'
    BY <1>8 DEF Inv, DraftInv, ConvInv, StartInv
  <1>10. DraftTypeOK'
    BY <1>4 DEF Inv, DraftInv, DraftTypeOK
  <1> QED  BY <1>7, <1>9, <1>10 DEF Inv, DraftInv

LEMMA ConvCleanupKeeps ==
    ASSUME Inv, NEW c \in Convs,
           \/ DeleteConversation(c) \/ ListCleanup(c)
           \/ \E q \in Requests, allowed \in BOOLEAN : FinalizeTurn(c, q, allowed)
    PROVE  Inv'
  <1>0. TurnInv /\ TurnTypeOK /\ DraftInv
    BY DEF Inv, TurnInv
  <1>1. CASE ListCleanup(c)
    <2>1. TurnInv' /\ conv' = conv /\ turn' = turn
      BY <1>0, <1>1, TurnsUnchanged DEF ListCleanup, turnVars
    <2> QED  BY <1>1, <2>1, AssessedConvKeeps DEF ListCleanup, Ended, TurnsOver
  <1>2. CASE DeleteConversation(c)
    <2>1. TurnInv'
      BY <1>0, <1>2, DeleteKeeps DEF DeleteConversation
    <2>2. /\ conv[c] = "active" /\ conv'[c] = "deleted"
          /\ \A d \in Convs : d # c => conv'[d] = conv[d] /\ turn'[d] = turn[d]
      BY <1>0, <1>2 DEF DeleteConversation, Delete, TurnTypeOK
    <2>3. ~Ended(c)
      BY <2>2, Disjoint DEF Ended
    <2> QED  BY <1>2, <2>1, <2>2, <2>3, AssessedConvKeeps DEF DeleteConversation
  <1>3. ASSUME NEW q \in Requests, NEW allowed \in BOOLEAN, FinalizeTurn(c, q, allowed)
        PROVE  Inv'
    <2>1. TurnInv' /\ conv' = conv
      BY <1>0, <1>3, FinalizeKeeps DEF FinalizeTurn, Finalize
    <2>2. \A d \in Convs : d # c => turn'[d] = turn[d]
      BY <1>0, <1>3 DEF FinalizeTurn, Finalize, TurnTypeOK
    <2>3. Ended(c) => Ended(c)'
      <3>1. SUFFICES ASSUME Ended(c) PROVE Ended(c)'
        OBVIOUS
      <3>2. conv[c] = "deleted" /\ TurnsOver(turn[c])
        BY <3>1, Disjoint DEF Ended
      <3>3. turn' = [turn EXCEPT ![c][q].terminated = @ \/ ~work[c][q].lost]
        BY <1>3, <3>2 DEF FinalizeTurn, Finalize
      <3>4. ASSUME NEW r \in Requests
            PROVE  /\ turn'[c][r].status = turn[c][r].status
                   /\ turn[c][r].terminated => turn'[c][r].terminated
        <4>1. turn[c][r] \in Turn
          BY <1>0 DEF TurnTypeOK
        <4>2. turn'[c][r] = IF r = q THEN [turn[c][r] EXCEPT !.terminated = @ \/ ~work[c][q].lost]
                            ELSE turn[c][r]
          BY <1>0, <3>3 DEF TurnTypeOK
        <4> QED  BY <4>1, <4>2 DEF Turn
      <3> QED  BY <2>1, <3>2, <3>4, Disjoint DEF Ended, TurnsOver
    <2>4. CASE conv[c] = "deleted" /\ ~work[c][q].lost
      BY <1>3, <2>1, <2>2, <2>3, <2>4, AssessedConvKeeps DEF FinalizeTurn
    <2>5. CASE ~(conv[c] = "deleted" /\ ~work[c][q].lost)
      <3>1. UNCHANGED <<conv, draftVars>>
        BY <1>3, <2>1, <2>5 DEF FinalizeTurn, draftVars
      <3>2. ASSUME NEW b \in Attachments PROVE RowInv(b)'
        <4>1. \A o \in Convs : Ended(o) => Ended(o)'
          BY <2>1, <2>2, <2>3, Disjoint DEF Ended, TurnsOver
        <4>2. Ended("draft") => Ended("draft")'
          BY <3>1 DEF Ended, draftVars
        <4>3. \A o : Ended(o) => o = "draft" \/ o \in Convs
          BY DEF Ended
        <4>4. CandidateFits(att[b])'
          BY <1>0, <3>1, <4>1, <4>2, <4>3 DEF DraftInv, RowInv, CandidateFits, draftVars
        <4> QED  BY <1>0, <3>1, <4>4 DEF DraftInv, RowInv, UploadFits, ParentFits, draftVars
      <3> QED  BY <1>0, <2>1, <3>1, <3>2
               DEF Inv, DraftInv, DraftTypeOK, ConvInv, StartInv, Bound, Manifest, draftVars
    <2> QED  BY <2>4, <2>5
  <1> QED  BY <1>1, <1>2, <1>3

\* confirm_upload_termination: the parents read without a lock are still the
\* parents of the row, so the right parent is assessed.
LEMMA ConfirmKeeps == ASSUME Inv, NEW a \in Attachments, ConfirmTermination(a) PROVE Inv'
  <1> DEFINE p == upload[a].read
             x == [att[a] EXCEPT !.terminated = @ \/ upload[a].clean]
             rows == [att EXCEPT ![a] = x]
             v == [upload[a] EXCEPT !.pc = "done"]
  <1>0. /\ TurnInv /\ DraftTypeOK /\ att[a] \in Attachment /\ upload[a] \in Upload /\ RowInv(a)
        /\ upload[a].pc = "confirming" /\ p = att[a].parent
    BY DEF Inv, DraftInv, DraftTypeOK, RowInv, UploadFits, ConfirmTermination
  <1>1. p \in Convs \cup {"draft"} /\ att[a].state \in {"attached", "failed"} /\ ~att[a].terminated
    BY <1>0 DEF RowInv, UploadFits
  <1>2. /\ x \in Attachment /\ x.parent = att[a].parent /\ x.state = att[a].state
        /\ x.excluded = att[a].excluded /\ (x.source <=> att[a].source) /\ x.cleanup = att[a].cleanup
        /\ att[a].terminated => x.terminated
    BY <1>0 DEF Attachment
  <1>3. v \in Upload /\ v.pc = "done" /\ v.to = upload[a].to
    BY <1>0 DEF Upload
  <1>4. /\ rows \in [Attachments -> Attachment] /\ rows[a] = x
        /\ \A b \in Attachments : b # a => rows[b] = att[b]
        /\ upload' \in [Attachments -> Upload] /\ upload'[a] = v
        /\ \A b \in Attachments : b # a => upload'[b] = upload[b]
        /\ UNCHANGED <<turnVars, draft, start, ledger, losses>>
        /\ UNCHANGED <<conv, turn>>
    BY <1>0, <1>2, <1>3 DEF ConfirmTermination, DraftTypeOK, turnVars
  <1>5. PICK over \in BOOLEAN : /\ att' = rows \/ att' = Reconciled(rows, p, over)
                                /\ att' # rows => (over => Ended(p))
    <2>1. CASE p = "draft"
      <3>1. att' = IF draft.state \in {"abandoned", "expired"} THEN Reconciled(rows, p, TRUE) ELSE rows
        BY <2>1 DEF ConfirmTermination
      <3>2. draft.state \in {"abandoned", "expired"} => Ended(p)
        BY <2>1 DEF Ended
      <3> QED  BY <3>1, <3>2
    <2>2. CASE p # "draft"
      <3>1. att' = IF conv[p] = "deleted" THEN Reconciled(rows, p, TurnsOver(turn[p])) ELSE rows
        BY <2>2 DEF ConfirmTermination
      <3>2. TurnsOver(turn[p]) /\ conv[p] = "deleted" => Ended(p)
        BY <1>1, <2>2 DEF Ended
      <3>3. TurnsOver(turn[p]) \in BOOLEAN
        BY DEF TurnsOver
      <3> QED  BY <3>1, <3>2, <3>3
    <2> QED  BY <2>1, <2>2
  <1> HIDE DEF rows, x, v, p
  <1>6. /\ att' \in [Attachments -> Attachment]
        /\ \A b \in Attachments :
             /\ att'[b] \in Attachment
             /\ att'[b].parent = rows[b].parent /\ att'[b].state = rows[b].state
             /\ att'[b].excluded = rows[b].excluded
             /\ att'[b].source <=> rows[b].source
             /\ att'[b].terminated <=> rows[b].terminated
             /\ rows[b].parent # p => att'[b] = rows[b]
             /\ att'[b].cleanup = "cleanup_candidate" =>
                  \/ rows[b].cleanup = "cleanup_candidate"
                  \/ Ended(rows[b].parent) /\ rows[b].terminated /\ ~rows[b].source
    <2>1. CASE att' = rows
      BY <1>4, <2>1
    <2>2. CASE att' # rows
      <3>1. att' \in [Attachments -> Attachment] /\ AssessedFrom(rows, p, over)
        BY <1>4, <1>5, <2>2, ReconciledRows
      <3> QED  BY <1>4, <1>5, <2>2, <3>1 DEF AssessedFrom
    <2> QED  BY <2>1, <2>2
  <1>7. \A o : Ended(o) <=> Ended(o)'
    BY <1>4 DEF Ended, TurnsOver
  <1>8. ASSUME NEW b \in Attachments PROVE RowInv(b)'
    <2>0. /\ rows[b].parent = att[b].parent /\ rows[b].state = att[b].state
          /\ (rows[b].source <=> att[b].source) /\ rows[b].cleanup = att[b].cleanup
          /\ att[b].terminated => rows[b].terminated
          /\ b # a => rows[b] = att[b]
      BY <1>2, <1>4
    <2>1. RowInv(b)
      BY DEF Inv, DraftInv
    <2>2. att[b].parent = None => att'[b] = att[b] /\ b # a
      BY <1>0, <1>1, <1>6, <2>0, Disjoint DEF None
    <2>3. UploadFits(att[b], upload[b])'
      <3>1. CASE b = a
        BY <1>0, <1>1, <1>3, <1>4, <1>6, <2>0, <2>1, <2>2, <3>1 DEF RowInv, UploadFits
      <3>2. CASE b # a
        BY <1>4, <1>6, <2>0, <2>1, <2>2, <3>2 DEF RowInv, UploadFits
      <3> QED  BY <3>1, <3>2
    <2>4. upload'[b].to = upload[b].to
      BY <1>3, <1>4
    <2>5. ParentFits(att[b], upload[b])'
      BY <1>4, <1>6, <2>0, <2>1, <2>4 DEF RowInv, ParentFits
    <2>6. CandidateFits(att[b])'
      BY <1>6, <1>7, <2>0, <2>1 DEF RowInv, CandidateFits
    <2> QED  BY <2>3, <2>5, <2>6 DEF RowInv
  <1>9. SameShape
    BY <1>2, <1>3, <1>4, <1>6 DEF SameShape
  <1>10. DraftTypeOK'
    BY <1>0, <1>4, <1>6 DEF DraftTypeOK
  <1> QED  BY <1>0, <1>4, <1>8, <1>9, <1>10, ShapeKeeps, TurnsUnchanged DEF Inv, DraftInv

\* The rows of unchanged files keep their invariant when no end is undone.
LEMMA SameRowKeeps ==
    ASSUME NEW b \in Attachments, RowInv(b), att'[b] = att[b], upload'[b] = upload[b],
           \A o : Ended(o) => Ended(o)',
           \A c \in Convs : conv[c] # "none" => conv'[c] # "none"
    PROVE  RowInv(b)'
  BY DEF RowInv, UploadFits, ParentFits, CandidateFits

\* A draft appears, empty or with the rows of a fenced conversation.
LEMMA DraftAppears == ASSUME Inv, CreateDraft \/ RestoreLegacy PROVE Inv'
  <1>0. TurnInv /\ DraftTypeOK /\ draft \in Draft
    BY DEF Inv, DraftInv, DraftTypeOK
  <1>1. /\ draft.state = "none" /\ draft' = [draft EXCEPT !.state = "open", !.revision = 1]
        /\ UNCHANGED <<turnVars, upload, start, ledger, losses>>
        /\ UNCHANGED <<conv, turn>>
    BY DEF CreateDraft, RestoreLegacy, turnVars
  <1>2. draft' \in Draft /\ draft'.state = "open"
    BY <1>0, <1>1 DEF Draft
  <1>3. /\ att' \in [Attachments -> Attachment]
        /\ \A b \in Attachments :
             \/ att'[b] = att[b]
             \/ att[b].parent = "legacy" /\ att'[b] = [att[b] EXCEPT !.parent = "draft"]
    BY <1>0 DEF CreateDraft, RestoreLegacy, DraftTypeOK, Attachment, Parents
  <1>4. \A o : Ended(o) => Ended(o)'
    BY <1>1 DEF Ended, TurnsOver
  <1>5. ASSUME NEW b \in Attachments PROVE RowInv(b)'
    <2>1. RowInv(b) /\ att[b] \in Attachment /\ upload'[b] = upload[b]
      BY <1>0, <1>1 DEF Inv, DraftInv, DraftTypeOK
    <2>2. CASE att'[b] = att[b]
      BY <1>1, <1>4, <2>1, <2>2, SameRowKeeps
    <2>3. CASE att[b].parent = "legacy" /\ att'[b] = [att[b] EXCEPT !.parent = "draft"]
      <3>1. /\ att'[b].parent = "draft" /\ att'[b].state = att[b].state
            /\ (att'[b].source <=> att[b].source) /\ (att'[b].terminated <=> att[b].terminated)
            /\ att'[b].cleanup = att[b].cleanup
        BY <2>1, <2>3 DEF Attachment
      <3>2. upload[b].pc = "none" /\ upload[b].to = None /\ att[b].cleanup # "cleanup_candidate"
        BY <2>1, <2>3, Disjoint DEF RowInv, UploadFits, CandidateFits, Ended
      <3>3. UploadFits(att[b], upload[b])'
        BY <2>1, <2>3, <3>1, <3>2 DEF RowInv, UploadFits, None
      <3> QED  BY <2>1, <3>1, <3>2, <3>3, Disjoint DEF RowInv, ParentFits, CandidateFits
    <2> QED  BY <1>3, <2>2, <2>3
  <1>6. \A c \in Convs : ConvInv(c)' /\ StartInv(c)'
    BY <1>1, <1>2 DEF Inv, DraftInv, ConvInv, StartInv
  <1>7. DraftTypeOK'
    BY <1>0, <1>1, <1>2, <1>3 DEF DraftTypeOK
  <1> QED  BY <1>0, <1>1, <1>5, <1>6, <1>7, TurnsUnchanged DEF Inv, DraftInv

LEMMA TimeKeeps == ASSUME Inv, TimePasses PROVE Inv'
  <1>1. /\ draft' = [draft EXCEPT !.late = TRUE] /\ draft \in Draft /\ TurnInv
        /\ UNCHANGED <<turnVars, att, upload, start, ledger, losses>> /\ UNCHANGED <<conv, turn>>
    BY DEF TimePasses, Inv, DraftInv, DraftTypeOK, turnVars
  <1>2. /\ draft' \in Draft /\ draft'.state = draft.state /\ draft'.bound = draft.bound
        /\ draft'.revision = draft.revision
    BY <1>1 DEF Draft
  <1>3. \A o : Ended(o) => Ended(o)'
    BY <1>1, <1>2 DEF Ended, TurnsOver
  <1>4. \A b \in Attachments : RowInv(b)'
    BY <1>1, <1>3, SameRowKeeps DEF Inv, DraftInv
  <1>5. Manifest' = Manifest /\ \A c \in Convs : Bound(c)' = Bound(c)
    BY <1>1 DEF Manifest, Bound
  <1>6. \A c \in Convs : ConvInv(c)' /\ StartInv(c)'
    BY <1>1, <1>2, <1>5 DEF Inv, DraftInv, ConvInv, StartInv
  <1> QED  BY <1>1, <1>2, <1>4, <1>6, TurnsUnchanged DEF Inv, DraftInv, DraftTypeOK

\* A new revision makes every checked attempt stale.
LEMMA TouchMakesStale ==
    ASSUME Inv, draft.state = "open", draft' = TouchedDraft(draft), start' = start, conv' = conv
    PROVE  /\ draft' \in Draft /\ draft'.state = draft.state
           /\ \A c \in Convs : ConvInv(c)' /\ StartInv(c)'
  <1>1. /\ draft' \in Draft /\ draft'.state = "open" /\ draft.revision \in Nat
        /\ draft'.revision = draft.revision + 1
    BY TouchedDraftTyped DEF Inv, DraftInv, DraftTypeOK
  <1>2. ASSUME NEW c \in Convs PROVE ConvInv(c)' /\ StartInv(c)'
    <2>1. start[c].revision \in Nat
      BY DEF Inv, DraftInv, DraftTypeOK, Start
    <2>2. start[c].pc = "checked" =>
            start[c].req \in Requests /\ start[c].revision < draft'.revision
      BY <1>1, <2>1 DEF Inv, DraftInv, StartInv
    <2>3. StartInv(c)'
      BY <1>1, <2>1, <2>2 DEF StartInv
    <2>4. ConvInv(c)'
      BY DEF Inv, DraftInv, ConvInv
    <2> QED  BY <2>3, <2>4
  <1> QED  BY <1>1, <1>2

LEMMA ExcludeKeeps == ASSUME Inv, NEW a \in Attachments, Exclude(a) PROVE Inv'
  <1> DEFINE x == [att[a] EXCEPT !.excluded = TRUE]
  <1>1. /\ draft.state = "open" /\ draft' = TouchedDraft(draft) /\ att' = [att EXCEPT ![a] = x]
        /\ UNCHANGED <<turnVars, upload, start, ledger, losses>> /\ UNCHANGED <<conv, turn>>
        /\ TurnInv /\ DraftTypeOK
    BY DEF Exclude, Open, Inv, DraftInv, turnVars
  <1>2. att[a] \in Attachment
    BY <1>1 DEF DraftTypeOK
  <1>3. /\ x \in Attachment /\ x.parent = att[a].parent /\ x.state = att[a].state
        /\ (x.source <=> att[a].source) /\ (x.terminated <=> att[a].terminated)
        /\ x.cleanup = att[a].cleanup
    BY <1>2 DEF Attachment
  <1> HIDE DEF x
  <1>4. /\ draft' \in Draft /\ draft'.state = draft.state
        /\ \A c \in Convs : ConvInv(c)' /\ StartInv(c)'
    BY <1>1, TouchMakesStale
  <1>5. /\ att' \in [Attachments -> Attachment] /\ att'[a] = x
        /\ \A b \in Attachments : b # a => att'[b] = att[b]
    BY <1>1, <1>3 DEF DraftTypeOK
  <1>6. \A o : Ended(o) => Ended(o)'
    BY <1>1, <1>4 DEF Ended, TurnsOver
  <1>7. RowInv(a)'
    <2>1. RowInv(a)
      BY DEF Inv, DraftInv
    <2> QED  BY <1>1, <1>3, <1>5, <1>6, <2>1 DEF RowInv, UploadFits, ParentFits, CandidateFits
  <1>8. \A b \in Attachments : RowInv(b)'
    BY <1>1, <1>5, <1>6, <1>7, SameRowKeeps DEF Inv, DraftInv
  <1>9. DraftTypeOK'
    BY <1>1, <1>4, <1>5 DEF DraftTypeOK
  <1> QED  BY <1>1, <1>4, <1>8, <1>9, TurnsUnchanged DEF Inv, DraftInv

LEMMA ReserveKeeps ==
    ASSUME Inv, NEW a \in Attachments, NEW p \in Convs \cup {"draft"}, Reserve(a, p)
    PROVE  Inv'
  <1> DEFINE x == [att[a] EXCEPT !.parent = p, !.state = "uploading"]
             v == [upload[a] EXCEPT !.pc = "reserved", !.to = p]
  <1>1. /\ att' = [att EXCEPT ![a] = x] /\ upload' = [upload EXCEPT ![a] = v]
        /\ draft' = IF p = "draft" THEN TouchedDraft(draft) ELSE draft
        /\ att[a].parent = None /\ Authorized(p) /\ TurnInv /\ DraftTypeOK /\ RowInv(a)
        /\ UNCHANGED <<turnVars, start, ledger, losses>> /\ UNCHANGED <<conv, turn, start>>
    BY DEF Reserve, Inv, DraftInv, turnVars
  <1>2. att[a] \in Attachment /\ upload[a] \in Upload
    BY <1>1 DEF DraftTypeOK
  <1>3. /\ x \in Attachment /\ x.parent = p /\ x.state = "uploading"
        /\ (x.source <=> att[a].source) /\ (x.terminated <=> att[a].terminated)
        /\ x.cleanup = att[a].cleanup
    BY <1>2 DEF Attachment, Parents
  <1>4. v \in Upload /\ v.pc = "reserved" /\ v.to = p
    BY <1>2 DEF Upload, Parents
  <1> HIDE DEF x, v
  <1>5. /\ att' \in [Attachments -> Attachment] /\ upload' \in [Attachments -> Upload]
        /\ att'[a] = x /\ upload'[a] = v
        /\ \A b \in Attachments : b # a => att'[b] = att[b] /\ upload'[b] = upload[b]
    BY <1>1, <1>3, <1>4 DEF DraftTypeOK
  <1>6. /\ upload[a].pc = "none" /\ ~att[a].terminated /\ att[a].cleanup = "retained"
    BY <1>1 DEF RowInv, UploadFits
  <1>7. RowInv(a)'
    <2>1. UploadFits(x, v)
      BY <1>3, <1>4, <1>6, Disjoint DEF UploadFits, None
    <2>2. ParentFits(att[a], upload[a])'
      BY <1>1, <1>3, <1>4, <1>5, Disjoint DEF ParentFits, Authorized
    <2>3. CandidateFits(att[a])'
      BY <1>3, <1>5, <1>6 DEF CandidateFits
    <2> QED  BY <1>5, <2>1, <2>2, <2>3 DEF RowInv
  <1>8. /\ draft' \in Draft /\ draft'.state = draft.state
        /\ \A c \in Convs : ConvInv(c)' /\ StartInv(c)'
    <2>1. CASE p = "draft"
      BY <1>1, <2>1, TouchMakesStale DEF Authorized, Open
    <2>2. CASE p # "draft"
      <3>1. draft' = draft /\ ledger' = ledger
        BY <1>1, <2>2
      <3>2. Manifest' = Manifest
        BY <1>1, <1>3, <1>5, <2>2 DEF Manifest, None
      <3>3. ASSUME NEW c \in Convs PROVE Bound(c)' = Bound(c)
        <4>1. att[a].parent # c
          BY <1>1, Disjoint
        <4> QED  BY <1>3, <1>4, <1>5, <4>1 DEF Bound
      <3> QED  BY <1>1, <3>1, <3>2, <3>3 DEF Inv, DraftInv, DraftTypeOK, ConvInv, StartInv
    <2> QED  BY <2>1, <2>2
  <1>9. \A o : Ended(o) => Ended(o)'
    BY <1>1, <1>8 DEF Ended, TurnsOver
  <1>10. \A b \in Attachments : RowInv(b)'
    BY <1>1, <1>5, <1>7, <1>9, SameRowKeeps DEF Inv, DraftInv
  <1>11. DraftTypeOK'
    BY <1>1, <1>5, <1>8 DEF DraftTypeOK
  <1> QED  BY <1>1, <1>8, <1>10, <1>11, TurnsUnchanged DEF Inv, DraftInv

\* An attempt reads the ledger and the manifest, or gives up.
LEMMA AttemptToStartKeeps ==
    ASSUME Inv, NEW c \in Convs, StartRefuse(c) \/ \E q \in Requests : StartCheck(c, q)
    PROVE  Inv'
  <1>0. /\ TurnInv /\ DraftTypeOK /\ UNCHANGED <<turnVars, draft, att, upload, ledger, losses>>
        /\ UNCHANGED <<conv, turn>>
    BY DEF Inv, DraftInv, StartRefuse, StartCheck, turnVars
  <1>1. Manifest' = Manifest /\ \A d \in Convs : Bound(d)' = Bound(d)
    BY <1>0 DEF Manifest, Bound
  <1>2. /\ start' \in [Convs -> Start] /\ start[c].pc # "done"
        /\ \A d \in Convs : d # c => start'[d] = start[d]
        /\ StartInv(c)'
    <2>1. CASE StartRefuse(c)
      <3> DEFINE s == [NoStart EXCEPT !.pc = "done"]
      <3>1. s \in Start /\ s.pc = "done"
        BY DEF NoStart, Start
      <3>2. start' = [start EXCEPT ![c] = s] /\ start[c].pc = "checked"
        BY <2>1 DEF StartRefuse
      <3> HIDE DEF s
      <3>3. start' \in [Convs -> Start] /\ start'[c] = s /\ \A d \in Convs : d # c => start'[d] = start[d]
        BY <1>0, <3>1, <3>2 DEF DraftTypeOK
      <3>4. draft.state # "none"
        BY <3>2 DEF Inv, DraftInv, StartInv
      <3> QED  BY <1>0, <3>1, <3>2, <3>3, <3>4 DEF StartInv
    <2>2. ASSUME NEW q \in Requests, StartCheck(c, q)
          PROVE  /\ start' \in [Convs -> Start] /\ start[c].pc # "done"
                 /\ \A d \in Convs : d # c => start'[d] = start[d]
                 /\ StartInv(c)'
      <3> DEFINE s == [pc |-> "checked", req |-> q, revision |-> draft.revision, seen |-> Manifest]
      <3>1. draft.revision \in Nat /\ Manifest \in SUBSET Attachments
        BY <1>0 DEF DraftTypeOK, Draft, Manifest
      <3>2. s \in Start /\ s.pc = "checked" /\ s.req = q /\ s.revision = draft.revision /\ s.seen = Manifest
        BY <3>1 DEF Start
      <3>3. start' = [start EXCEPT ![c] = s] /\ start[c].pc = "idle" /\ draft.state # "none"
        BY <2>2 DEF StartCheck
      <3> HIDE DEF s
      <3>4. start' \in [Convs -> Start] /\ start'[c] = s /\ \A d \in Convs : d # c => start'[d] = start[d]
        BY <1>0, <3>2, <3>3 DEF DraftTypeOK
      <3> QED  BY <1>0, <1>1, <3>1, <3>2, <3>3, <3>4 DEF StartInv
    <2> QED  BY <2>1, <2>2
  <1>3. ASSUME NEW d \in Convs PROVE ConvInv(d)' /\ StartInv(d)'
    BY <1>0, <1>1, <1>2 DEF Inv, DraftInv, ConvInv, StartInv
  <1>4. \A o : Ended(o) => Ended(o)'
    BY <1>0 DEF Ended, TurnsOver
  <1>5. \A b \in Attachments : RowInv(b)'
    BY <1>0, <1>4, SameRowKeeps DEF Inv, DraftInv
  <1> QED  BY <1>0, <1>2, <1>3, <1>5, TurnsUnchanged DEF Inv, DraftInv, DraftTypeOK

\* The binding: no row of the draft is being uploaded, and no other conversation
\* exists, so exactly the manifest that the attempt saw moves.
LEMMA AcceptKeeps == ASSUME Inv, NEW c \in Convs, StartAccept(c) PROVE Inv'
  <1> DEFINE q == start[c].req
             s == [start[c] EXCEPT !.pc = "done"]
  <1>0. TurnInv /\ DraftTypeOK /\ draft \in Draft /\ start[c] \in Start
    BY DEF Inv, DraftInv, DraftTypeOK
  <1>1. /\ start[c].pc = "checked" /\ ledger[q] = None /\ draft.state = "open"
        /\ draft.revision = start[c].revision /\ StartConversation(c, q)
        /\ \A b \in Attachments : att[b].parent = "draft" => att[b].terminated
        /\ ledger' = [ledger EXCEPT ![q] = c] /\ start' = [start EXCEPT ![c] = s]
        /\ draft' = [draft EXCEPT !.state = "bound", !.bound = c]
        /\ UNCHANGED <<upload, losses>>
    BY DEF StartAccept, Open, Members, UploadBusy
  <1>2. q \in Requests /\ start[c].seen = Manifest
    BY <1>1 DEF Inv, DraftInv, StartInv
  <1>3. draft' \in Draft /\ draft'.state = "bound" /\ draft'.bound = c
    BY <1>0, <1>1 DEF Draft
  <1>4. s \in Start /\ s.pc = "done" /\ s.req = q /\ s.seen = start[c].seen
    BY <1>0 DEF Start
  <1> HIDE DEF s
  <1>5. /\ start' \in [Convs -> Start] /\ start'[c] = s
        /\ \A d \in Convs : d # c => start'[d] = start[d]
        /\ ledger' \in [Requests -> Convs \cup {None}] /\ ledger'[q] = c
    BY <1>0, <1>1, <1>2, <1>4 DEF DraftTypeOK
  <1>6. \A d \in Convs : conv[d] = "none"
    BY <1>1 DEF Inv, DraftInv, ConvInv
  <1>7. /\ conv'[c] = "active" /\ \A d \in Convs : d # c => conv'[d] = conv[d]
        /\ TurnInv'
    BY <1>0, <1>1, <1>2, StartKeeps DEF StartConversation, TurnInv, TurnTypeOK
  <1>8. \A b \in Attachments :
          att'[b] = IF att[b].parent = "draft" THEN [att[b] EXCEPT !.parent = c] ELSE att[b]
    BY DEF StartAccept
  <1>9. ASSUME NEW b \in Attachments
        PROVE  /\ att'[b] \in Attachment
               /\ att'[b].parent = IF att[b].parent = "draft" THEN c ELSE att[b].parent
               /\ att'[b].state = att[b].state /\ att'[b].excluded = att[b].excluded
               /\ (att'[b].source <=> att[b].source) /\ (att'[b].terminated <=> att[b].terminated)
               /\ att'[b].cleanup = att[b].cleanup
               /\ att[b].parent \notin Convs
    <2>1. att[b] \in Attachment
      BY <1>0 DEF DraftTypeOK
    <2>2. att[b].parent \notin Convs
      BY <1>6 DEF Inv, DraftInv, RowInv, ParentFits
    <2>3. CASE att[b].parent = "draft"
      <3>1. att'[b] = [att[b] EXCEPT !.parent = c]
        BY <1>8, <2>3
      <3> QED  BY <2>1, <2>2, <2>3, <3>1 DEF Attachment, Parents
    <2>4. CASE att[b].parent # "draft"
      BY <1>8, <2>1, <2>2, <2>4
    <2> QED  BY <2>3, <2>4
  <1>10. att' \in [Attachments -> Attachment]
    BY <1>9 DEF StartAccept
  <1>11. ASSUME NEW b \in Attachments PROVE RowInv(b)'
    <2>1. RowInv(b)
      BY DEF Inv, DraftInv
    <2>2. att[b].cleanup # "cleanup_candidate"
      BY <1>1, <1>6, <2>1 DEF RowInv, CandidateFits, Ended
    <2>3. att'[b].parent = None <=> att[b].parent = None
      BY <1>9, Disjoint DEF None
    <2>4. att[b].parent = "draft" => upload[b].pc # "confirming"
      BY <1>1, <2>1 DEF RowInv, UploadFits
    <2>5. UploadFits(att[b], upload[b])'
      BY <1>1, <1>9, <2>1, <2>3, <2>4 DEF RowInv, UploadFits
    <2>6. ParentFits(att[b], upload[b])'
      BY <1>1, <1>7, <1>9, <2>1, Disjoint DEF RowInv, ParentFits
    <2> QED  BY <1>9, <2>2, <2>5, <2>6 DEF RowInv, CandidateFits
  <1>12. Bound(c)' = Manifest
    <2>1. ASSUME NEW b \in Attachments, att[b].parent = "draft" PROVE upload[b].to # c
      BY <2>1, Disjoint DEF Inv, DraftInv, RowInv, ParentFits, None
    <2> QED  BY <1>1, <1>9, <2>1 DEF Bound, Manifest
  <1>13. ASSUME NEW d \in Convs PROVE ConvInv(d)' /\ StartInv(d)'
    <2>1. CASE d = c
      BY <1>2, <1>3, <1>4, <1>5, <1>12, <2>1 DEF ConvInv, StartInv
    <2>2. CASE d # c
      <3>1. ConvInv(d)'
        BY <1>6, <1>7, <2>2 DEF ConvInv
      <3>2. draft'.revision = draft.revision
        BY <1>0, <1>1 DEF Draft
      <3> QED  BY <1>1, <1>3, <1>5, <2>2, <3>1, <3>2 DEF Inv, DraftInv, StartInv
    <2> QED  BY <2>1, <2>2
  <1>14. DraftTypeOK'
    BY <1>0, <1>1, <1>3, <1>5, <1>10 DEF DraftTypeOK
  <1> QED  BY <1>7, <1>11, <1>13, <1>14 DEF Inv, DraftInv

\* The steps of the questions leave tombstones alone.
LEMMA TombstoneKeeps ==
    ASSUME TurnTypeOK, TurnStep
    PROVE  conv' = conv /\ \A d \in Convs : conv[d] = "deleted" => turn'[d] = turn[d]
  <1>1. ASSUME NEW h \in Handlers, SubmitReserve(h)
        PROVE  conv' = conv /\ \A d \in Convs : conv[d] = "deleted" => turn'[d] = turn[d]
    BY <1>1 DEF SubmitReserve, Reserved, TurnTypeOK
  <1>2. ASSUME NEW c \in Convs, NEW q \in Requests, NEW late \in BOOLEAN, NEW h \in Handlers,
               SubmitCheck(h, c, q, late)
        PROVE  conv' = conv /\ \A d \in Convs : conv[d] = "deleted" => turn'[d] = turn[d]
    BY <1>2 DEF SubmitCheck, TurnTypeOK
  <1>3. ASSUME NEW c \in Convs, Detail(c) \/ Rename(c) \/ \E q \in Requests : Cancel(c, q)
        PROVE  conv' = conv /\ \A d \in Convs : conv[d] = "deleted" => turn'[d] = turn[d]
    BY <1>3 DEF Detail, Rename, Cancel, TurnTypeOK
  <1>4. ASSUME NEW c \in Convs, NEW q \in Requests,
               \/ Execution(c, q) \/ Attempt(c, q) \/ RemoteEnds(c, q)
               \/ Shutdown(c, q) \/ Die(c, q)
        PROVE  conv' = conv /\ turn' = turn
    BY <1>4 DEF Execution, ReserveDependencies, AttemptAnswered, AttemptFails, Returns, Monitor,
                Attempt, RemoteEnds, Shutdown, Die, JoinStep
  <1> QED  BY <1>1, <1>2, <1>3, <1>4 DEF TurnStep

LEMMA QuestionsKeep ==
    ASSUME Inv, TurnStep \/ (\E q \in Requests : StartReplay(q)), UNCHANGED draftVars
    PROVE  Inv'
  <1>0. TurnInv /\ TurnTypeOK /\ DraftInv /\ DraftTypeOK
    BY DEF Inv, TurnInv, DraftInv
  <1>1. TurnStep
    <2>1. ASSUME NEW q \in Requests, StartReplay(q) PROVE TurnStep
      <3>1. ledger[q] \in Convs
        BY <1>0, <2>1 DEF StartReplay, DraftTypeOK
      <3> QED  BY <2>1, <3>1 DEF StartReplay, TurnStep
    <2> QED  BY <2>1
  <1>2. TurnInv' /\ conv' = conv /\ \A d \in Convs : conv[d] = "deleted" => turn'[d] = turn[d]
    BY <1>0, <1>1, TombstoneKeeps, TurnStepKeeps
  <1>3. \A o : Ended(o) => Ended(o)'
    BY <1>2 DEF Ended, TurnsOver, draftVars
  <1>4. \A b \in Attachments : RowInv(b)'
    BY <1>0, <1>2, <1>3, SameRowKeeps DEF DraftInv, draftVars
  <1>5. Manifest' = Manifest /\ \A d \in Convs : Bound(d)' = Bound(d)
    BY DEF Manifest, Bound, draftVars
  <1>6. \A c \in Convs : ConvInv(c)' /\ StartInv(c)'
    BY <1>0, <1>2, <1>5 DEF DraftInv, ConvInv, StartInv, draftVars
  <1> QED  BY <1>0, <1>2, <1>4, <1>6 DEF Inv, DraftInv, DraftTypeOK, draftVars

\* The rows of a fenced conversation, and free ones.
LEMMA LegacyRowsTyped ==
    ASSUME att \in LegacyRows
    PROVE  /\ att \in [Attachments -> Attachment]
           /\ \A b \in Attachments :
                /\ att[b].parent \in {None, "legacy"} /\ att[b].cleanup = "retained"
                /\ att[b].parent = None => att[b].state = "none" /\ ~att[b].terminated
                /\ att[b].parent = None \/ att[b].source
                /\ att[b].state = "attached" => att[b].source
  <1>1. PICK old \in SUBSET Attachments, ended \in BOOLEAN :
          att = [a \in Attachments |-> IF a \in old THEN LegacyRow(ended) ELSE NoAttachment]
    BY DEF LegacyRows
  <1>2. /\ NoAttachment \in Attachment /\ NoAttachment.parent = None
        /\ NoAttachment.cleanup = "retained" /\ NoAttachment.state = "none"
        /\ ~NoAttachment.terminated
    BY DEF NoAttachment, Attachment
  <1>3. /\ LegacyRow(ended) \in Attachment /\ LegacyRow(ended).parent = "legacy"
        /\ LegacyRow(ended).cleanup = "retained" /\ LegacyRow(ended).source
    BY <1>2 DEF LegacyRow, Attachment, Parents
  <1>4. "legacy" # None
    BY DEF None
  <1> QED  BY <1>1, <1>2, <1>3, <1>4

LEMMA InitHolds == ASSUME Init PROVE Inv
  <1>1. TurnInv
    <2>1. Idle \in Submission /\ 0 \in 0..MaxTurnFaults
      BY TurnsAssumption DEF Submission
    <2>2. TurnTypeOK
      BY <2>1, NoTurnTyped DEF Init, TurnInit, TurnTypeOK
    <2>3. ASSUME NEW c \in Convs, NEW q \in Requests
          PROVE  /\ conv[c] = "none" /\ turn[c][q].status = "none" /\ ~turn[c][q].terminated
                 /\ ~turn[c][q].answer /\ work[c][q].pc = "none" /\ ~work[c][q].inflight
                 /\ remote[c][q] = {}
      BY DEF Init, TurnInit, NoTurn, NoWork
    <2> QED  BY <2>2, <2>3 DEF TurnInv, TurnRow, OneUnsettled, Unsettled
  <1>2. DraftTypeOK
    <2>1. NoUpload \in Upload /\ NoStart \in Start
      BY DEF NoUpload, NoStart, Upload, Start, None
    <2>2. draft \in Draft /\ 0 \in 0..MaxLosses
      BY DraftsAssumption DEF Init, Draft
    <2>3. att \in [Attachments -> Attachment]
      BY LegacyRowsTyped DEF Init
    <2> QED  BY <2>1, <2>2, <2>3 DEF DraftTypeOK, Init
  <1>3. ASSUME NEW b \in Attachments PROVE RowInv(b)
    <2>2. /\ att[b].parent \in {None, "legacy"} /\ att[b].cleanup = "retained"
          /\ att[b].parent = None => att[b].state = "none" /\ ~att[b].terminated
          /\ att[b].parent = None \/ att[b].source
          /\ att[b].state = "attached" => att[b].source
      BY LegacyRowsTyped DEF Init
    <2>3. upload[b].pc = "none" /\ upload[b].to = None
      BY DEF Init, NoUpload
    <2>4. UploadFits(att[b], upload[b])
      BY <2>2, <2>3 DEF UploadFits
    <2>5. ParentFits(att[b], upload[b]) /\ CandidateFits(att[b])
      BY <2>2, <2>3, Disjoint DEF ParentFits, CandidateFits, None
    <2> QED  BY <2>4, <2>5 DEF RowInv
  <1>4. ASSUME NEW c \in Convs PROVE ConvInv(c) /\ StartInv(c)
    BY DEF Init, TurnInit, ConvInv, StartInv, NoStart
  <1> QED  BY <1>1, <1>2, <1>3, <1>4 DEF Inv, DraftInv

LEMMA NextKeeps == ASSUME Inv, [Next]_vars PROVE Inv'
  <1>1. CASE UNCHANGED vars
    <2>1. \A o : Ended(o) => Ended(o)'
      BY <1>1 DEF vars, turnVars, draftVars, Ended, TurnsOver
    <2>2. \A b \in Attachments : RowInv(b)'
      BY <1>1, <2>1, SameRowKeeps DEF Inv, DraftInv, vars, turnVars, draftVars
    <2>3. SameShape /\ UNCHANGED <<conv, draft, start, ledger>>
      BY <1>1 DEF SameShape, vars, turnVars, draftVars
    <2>4. TurnInv' /\ DraftTypeOK'
      BY <1>1, TurnsUnchanged DEF Inv, DraftInv, DraftTypeOK, vars, draftVars
    <2> QED  BY <2>2, <2>3, <2>4, ShapeKeeps DEF Inv, DraftInv
  <1>2. CASE TurnStep /\ UNCHANGED draftVars
    BY <1>2, QuestionsKeep
  <1>3. CASE DraftStep
    <2>1. CASE \E q \in Requests : StartReplay(q)
      BY <2>1, QuestionsKeep DEF StartReplay
    <2>2. ASSUME NEW a \in Attachments,
                 \/ Exclude(a) \/ UploadStep(a) \/ UploadDies(a)
                 \/ \E p \in Convs \cup {"draft"} : Reserve(a, p)
          PROVE  Inv'
      BY <2>2, ExcludeKeeps, UploadStepKeeps, ConfirmKeeps, ReserveKeeps DEF UploadStep
    <2>3. ASSUME NEW c \in Convs,
                 \/ StartAccept(c) \/ StartRefuse(c) \/ DeleteConversation(c) \/ ListCleanup(c)
                 \/ \E q \in Requests : StartCheck(c, q)
                 \/ \E q \in Requests, allowed \in BOOLEAN : FinalizeTurn(c, q, allowed)
          PROVE  Inv'
      BY <2>3, AcceptKeeps, AttemptToStartKeeps, ConvCleanupKeeps
    <2> QED  BY <1>3, <2>1, <2>2, <2>3, DraftAppears, TimeKeeps, DraftEndKeeps DEF DraftStep
  <1> QED  BY <1>1, <1>2, <1>3 DEF Next

\* The inductive invariant: what a turn row says about its execution, one
\* unsettled question per conversation, how far each upload has come, where each
\* row belongs, and that conversation, draft, ledger and attempt agree.
THEOREM Invariant == Spec => []Inv
  <1>1. Init => Inv
    BY InitHolds
  <1>2. Inv /\ [Next]_vars => Inv'
    BY NextKeeps
  <1> QED  BY <1>1, <1>2, PTL DEF Spec

\* Type correctness of the rows, the executions, the uploads and the attempts.
THEOREM TypeCorrect == Spec => []TypeOK
  <1>1. Inv => TypeOK
    BY DEF Inv, TurnInv, DraftInv, DraftTypeOK, TypeOK
  <1> QED  BY <1>1, Invariant, PTL

\* At most one question of a conversation is worked on by a model server, for
\* any number of turns, cancellations, lease expiries and deaths: an attempt
\* under way keeps its turn unsettled, and reserve_turn waits for the unsettled.
THEOREM OneInferenceHolds == Spec => []OneInference
  <1>1. Inv => OneInference
    BY DEF Inv, TurnInv, TurnRow, OneUnsettled, Unsettled, OneInference
  <1> QED  BY <1>1, Invariant, PTL

\* An answer is visible only in a settled, completed turn of a live conversation
\* (finalize, delete, recover).
THEOREM AnswerOnlyWhenSettledHolds == Spec => []AnswerOnlyWhenSettled
  <1>1. Inv => AnswerOnlyWhenSettled
    BY DEF Inv, TurnInv, TurnRow, AnswerOnlyWhenSettled
  <1> QED  BY <1>1, Invariant, PTL

\* A draft is bound to one conversation, with the files its owner saw, whatever
\* first questions, reservations and exclusions race (repository.start).
THEOREM DraftBoundOnceHolds == Spec => []DraftBoundOnce
  <1>1. Inv => DraftBoundOnce
    BY DEF Inv, DraftInv, ConvInv, Bound, DraftBoundOnce
  <1> QED  BY <1>1, Invariant, PTL

\* A row is offered for clean-up only when its parent, its upload and every
\* model call of its conversation are over (assess_attachment_cleanup).
THEOREM CandidateIsUnusedHolds == Spec => []CandidateIsUnused
  <1>1. ASSUME Inv, NEW a \in Attachments, att[a].cleanup = "cleanup_candidate"
        PROVE  /\ att[a].state = "failed" /\ ~att[a].source /\ upload[a].pc \in {"done", "dead"}
               /\ IF att[a].parent = "draft" THEN draft.state \in {"abandoned", "expired"}
                  ELSE /\ conv[att[a].parent] = "deleted"
                       /\ \A q \in Requests : remote[att[a].parent][q] = {}
    <2>1. RowInv(a) /\ att[a].terminated /\ ~att[a].source /\ Ended(att[a].parent)
      BY <1>1 DEF Inv, DraftInv, RowInv, CandidateFits
    <2>2. upload[a].pc = "done" /\ att[a].state = "failed"
      BY <2>1, <1>1 DEF RowInv, UploadFits
    <2>3. ASSUME NEW c \in Convs, conv[c] = "deleted", TurnsOver(turn[c]), NEW q \in Requests
          PROVE  remote[c][q] = {}
      BY <1>1, <2>3 DEF Inv, TurnInv, TurnRow, TurnsOver
    <2> QED  BY <2>1, <2>2, <2>3 DEF Ended
  <1>2. Inv => CandidateIsUnused
    BY <1>1 DEF CandidateIsUnused
  <1> QED  BY <1>2, Invariant, PTL

\* The upload columns of a row.
SameUploadState(b) ==
  /\ att'[b].parent = att[b].parent /\ att'[b].state = att[b].state
  /\ att'[b].source = att[b].source /\ att'[b].terminated = att[b].terminated

\* Reconciled leaves the upload columns alone.
LEMMA ReconciledSame ==
    ASSUME NEW rows \in [Attachments -> Attachment], NEW b \in Attachments, rows[b] = att[b],
           NEW p, NEW over \in BOOLEAN, att' = Reconciled(rows, p, over)
    PROVE  SameUploadState(b)
  <1>1. CASE rows[b].parent = p
    <2>1. att'[b] = [att[b] EXCEPT !.cleanup = IF att[b].terminated /\ over /\ ~att[b].source
                                               THEN "cleanup_candidate" ELSE "cleanup_waiting"]
      BY <1>1 DEF Reconciled, Assessed
    <2>2. att[b] \in Attachment
      OBVIOUS
    <2> QED  BY <2>1, <2>2 DEF SameUploadState, Attachment
  <1>2. CASE rows[b].parent # p
    BY <1>2 DEF Reconciled, SameUploadState
  <1> QED  BY <1>1, <1>2

\* The upload columns of a row that came with a draft no longer change: a bound
\* row has a confirmed upload, and every writer that could still run is either
\* another row's or refused (upload_busy, require_upload_binding, and the
\* unlocked read of confirm_upload_termination).
THEOREM BoundRowsStayFrozen == Spec => BoundRowsAreFrozen
  <1> DEFINE A == \A a \in Attachments :
                    att[a].parent \in Convs /\ upload[a].to # att[a].parent
                      => /\ att'[a].parent = att[a].parent /\ att'[a].state = att[a].state
                         /\ att'[a].source = att[a].source /\ att'[a].terminated = att[a].terminated
  <1>1. Inv /\ [Next]_vars => [A]_vars
    <2>1. SUFFICES ASSUME Inv, Next, NEW b \in Attachments, att[b].parent \in Convs,
                          upload[b].to # att[b].parent
                   PROVE  SameUploadState(b)
      BY DEF SameUploadState
    <2>2. /\ att \in [Attachments -> Attachment] /\ RowInv(b) /\ att[b].terminated
          /\ upload[b].pc \in {"none", "done"} /\ DraftTypeOK
      BY <2>1 DEF Inv, DraftInv, DraftTypeOK, RowInv, UploadFits, ParentFits
    <2>3. CASE att' = att
      BY <2>3 DEF SameUploadState
    <2>4. ASSUME NEW a \in Attachments, Exclude(a) PROVE SameUploadState(b)
      <3>1. att[a].parent = "draft" /\ att' = [att EXCEPT ![a].excluded = TRUE]
        BY <2>4 DEF Exclude, Manifest
      <3> QED  BY <2>1, <2>2, <3>1, Disjoint DEF SameUploadState
    <2>5. ASSUME NEW a \in Attachments, NEW p \in Convs \cup {"draft"}, Reserve(a, p)
          PROVE  SameUploadState(b)
      <3>1. att[a].parent = None /\ att' = [att EXCEPT ![a].parent = p, ![a].state = "uploading"]
        BY <2>5 DEF Reserve
      <3> QED  BY <2>1, <2>2, <3>1, Disjoint DEF SameUploadState
    <2>6. ASSUME NEW a \in Attachments, ReserveIntake(a) \/ Fail(a)
                                          \/ \E clean \in BOOLEAN : Attach(a, clean)
          PROVE  SameUploadState(b)
      <3>1. a # b
        BY <2>2, <2>6 DEF ReserveIntake, Fail, Attach
      <3>2. att'[b] = att[b]
        BY <2>2, <2>6, <3>1 DEF ReserveIntake, Fail, Attach
      <3> QED  BY <3>2 DEF SameUploadState
    <2>7. ASSUME NEW a \in Attachments, ConfirmTermination(a) PROVE SameUploadState(b)
      <3> DEFINE x == [att[a] EXCEPT !.terminated = @ \/ upload[a].clean]
                 rows == [att EXCEPT ![a] = x]
                 p == upload[a].read
      <3>1. a # b /\ x \in Attachment
        BY <2>2, <2>7 DEF ConfirmTermination, Attachment
      <3> HIDE DEF x
      <3>2. rows \in [Attachments -> Attachment] /\ rows[b] = att[b]
        BY <2>2, <3>1
      <3> USE DEF x
      <3>3. \/ att' = rows \/ att' = Reconciled(rows, p, TRUE)
            \/ att' = Reconciled(rows, p, TurnsOver(turn[p]))
        BY <2>7 DEF ConfirmTermination
      <3>4. TurnsOver(turn[p]) \in BOOLEAN
        BY DEF TurnsOver
      <3> HIDE DEF rows, p
      <3> QED  BY <3>2, <3>3, <3>4, ReconciledSame DEF SameUploadState
    <2>8. ASSUME NEW p, NEW over \in BOOLEAN, att' = Reconciled(att, p, over)
          PROVE  SameUploadState(b)
      BY <2>2, <2>8, ReconciledSame
    <2>9. CASE ExpireDraft \/ Abandon
      BY <2>8, <2>9 DEF ExpireDraft, Abandon
    <2>10. ASSUME NEW c \in Convs, \/ DeleteConversation(c) \/ ListCleanup(c)
                                   \/ \E q \in Requests, allowed \in BOOLEAN :
                                        FinalizeTurn(c, q, allowed)
           PROVE  SameUploadState(b)
      <3>1. /\ TurnsOver(turn[c]) \in BOOLEAN /\ TurnsOver(turn'[c]) \in BOOLEAN
        BY DEF TurnsOver
      <3>2. \/ att' = att \/ att' = Reconciled(att, c, TurnsOver(turn[c]))
            \/ att' = Reconciled(att, c, TurnsOver(turn'[c]))
        BY <2>10 DEF DeleteConversation, ListCleanup, FinalizeTurn
      <3> QED  BY <2>3, <2>8, <3>1, <3>2
    <2>11. ASSUME NEW c \in Convs, StartAccept(c) PROVE SameUploadState(b)
      <3>1. att'[b] = att[b]
        BY <2>1, <2>11, Disjoint DEF StartAccept
      <3> QED  BY <3>1 DEF SameUploadState
    <2>12. CASE RestoreLegacy
      <3>1. att'[b] = att[b]
        BY <2>1, <2>12, Disjoint DEF RestoreLegacy
      <3> QED  BY <3>1 DEF SameUploadState
    <2>13. ASSUME NEW a \in Attachments,
                  \/ Exclude(a) \/ UploadStep(a) \/ UploadDies(a)
                  \/ \E p \in Convs \cup {"draft"} : Reserve(a, p)
           PROVE  SameUploadState(b)
      BY <2>3, <2>4, <2>5, <2>6, <2>7, <2>13 DEF UploadStep, UploadDies, UploadFails, ConfirmReads
    <2>14. ASSUME NEW c \in Convs,
                  \/ StartAccept(c) \/ StartRefuse(c) \/ DeleteConversation(c) \/ ListCleanup(c)
                  \/ \E q \in Requests : StartCheck(c, q)
                  \/ \E q \in Requests, allowed \in BOOLEAN : FinalizeTurn(c, q, allowed)
           PROVE  SameUploadState(b)
      BY <2>3, <2>10, <2>11, <2>14 DEF StartRefuse, StartCheck
    <2>15. CASE \/ UNCHANGED draftVars \/ CreateDraft \/ TimePasses
                \/ \E q \in Requests : StartReplay(q)
      BY <2>3, <2>15 DEF draftVars, CreateDraft, TimePasses, StartReplay
    <2> QED  BY <2>1, <2>9, <2>12, <2>13, <2>14, <2>15 DEF Next, DraftStep
  <1> QED  BY <1>1, Invariant, PTL DEF Spec, BoundRowsAreFrozen
=============================================================================
