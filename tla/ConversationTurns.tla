-------------------------- MODULE ConversationTurns --------------------------
(***************************************************************************)
(* Questions of a conversation (labs/rag/conversations/service.py and      *)
(* domain.py).  A question is reserved as a running turn in one            *)
(* transaction; a background execution then calls the model, watches the   *)
(* row, and writes the outcome in a second transaction.  Between the two   *)
(* the owner may cancel, delete or reload the conversation, the fifteen    *)
(* minute lease may run out, the process may stop or die.                  *)
(*                                                                         *)
(* The revision of a conversation is abstracted to what it decides: every  *)
(* touch makes the expected revision of the submissions under way stale.   *)
(***************************************************************************)
EXTENDS Naturals, FiniteSets

CONSTANTS
  Convs,          \* identifiers of conversations
  Requests,       \* request identifiers chosen by the client
  Handlers,       \* submissions that may be under way at the same time
  MaxCalls,       \* HTTP attempts the model-call budget allows one execution
  MaxTurnFaults   \* executions that may die

ASSUME TurnsAssumption == MaxCalls \in Nat /\ MaxTurnFaults \in Nat

VARIABLES
  conv,       \* row of a conversation: none, active or deleted (a tombstone)
  turn,       \* turn rows
  work,       \* the execution of a turn in the background loop
  remote,     \* attempts the model server may still be working on
  handler,    \* submissions between their two transactions
  turnFaults  \* executions that died so far

turnVars == <<conv, turn, work, remote, handler, turnFaults>>

NoCode == "none"                    \* error_code is NULL
Other == "other"                    \* an error code that releases the turn
LeaseUnconfirmed == "conversation_termination_unconfirmed"
ProviderUnconfirmed == "provider_termination_unconfirmed"

Turn == [status : {"none", "running", "completed", "failed", "cancelled", "interrupted"},
         code : {NoCode, Other, LeaseUnconfirmed, ProviderUnconfirmed},
         terminated : BOOLEAN, answer : BOOLEAN]
Work == [pc : {"none", "history", "calling", "joined", "done", "dead"},
         outcome : {"none", "answer", "error", "cancelled"},
         inflight : BOOLEAN, lost : BOOLEAN, calls : 0..MaxCalls]
Idle == [conv |-> "none", req |-> "none", fresh |-> FALSE]
Submission == [conv : Convs, req : Requests, fresh : BOOLEAN] \cup {Idle}

NoTurn == [status |-> "none", code |-> NoCode, terminated |-> FALSE, answer |-> FALSE]
NoWork == [pc |-> "none", outcome |-> "none", inflight |-> FALSE, lost |-> FALSE, calls |-> 0]

TurnTypeOK ==
  /\ conv \in [Convs -> {"none", "active", "deleted"}]
  /\ turn \in [Convs -> [Requests -> Turn]]
  /\ work \in [Convs -> [Requests -> Work]]
  /\ remote \in [Convs -> [Requests -> SUBSET {"current", "lost"}]]
  /\ handler \in [Handlers -> Submission]
  /\ turnFaults \in 0..MaxTurnFaults

TurnInit ==
  /\ conv = [c \in Convs |-> "none"]
  /\ turn = [c \in Convs |-> [q \in Requests |-> NoTurn]]
  /\ work = [c \in Convs |-> [q \in Requests |-> NoWork]]
  /\ remote = [c \in Convs |-> [q \in Requests |-> {}]]
  /\ handler = [h \in Handlers |-> Idle]
  /\ turnFaults = 0

----------------------------------------------------------------------------
\* Conversation.touch: the handlers that read an earlier revision are stale.
Touched(c) ==
  [h \in Handlers |-> [handler[h] EXCEPT !.fresh = @ /\ handler[h].conv # c]]

\* The turns of a conversation after Conversation.recover; late says whether
\* the running turn is older than RUNNING_LEASE.
Recovered(c, late) ==
  [q \in Requests |->
     IF late /\ turn[c][q].status = "running"
     THEN [turn[c][q] EXCEPT
             !.status = "interrupted",
             !.code = IF turn[c][q].terminated THEN Other ELSE LeaseUnconfirmed]
     ELSE turn[c][q]]

Running(c) == {q \in Requests : turn[c][q].status = "running"}

\* The condition under which reserve_turn refuses a new question.  (Mutant: a
\* cancelled turn does not block.)
BlocksWhileRunning(t) ==
  \/ t.status = "running"
  \/ ~t.terminated /\ t.code \in {ProviderUnconfirmed, LeaseUnconfirmed}
Blocks(t) ==
  \/ t.status = "running"
  \/ /\ ~t.terminated
     /\ t.status = "cancelled" \/ t.code \in {ProviderUnconfirmed, LeaseUnconfirmed}
Busy(c) == \E q \in Requests : Blocks(turn[c][q])

\* A question of a new or an existing conversation becomes a running turn and
\* its execution is started (reserve_turn, then _execute_reserved).
Reserved(c, q) ==
  /\ turn' = [turn EXCEPT ![c][q] = [NoTurn EXCEPT !.status = "running"]]
  /\ work' = [work EXCEPT ![c][q] = [NoWork EXCEPT !.pc = "history"]]

\* ConversationService.start accepted: the row and its first turn, at once.
StartConversation(c, q) ==
  /\ conv[c] = "none"
  /\ conv' = [conv EXCEPT ![c] = "active"]
  /\ Reserved(c, q)
  /\ UNCHANGED <<remote, handler, turnFaults>>

\* ConversationService.submit, first transaction: recover, and return the turn
\* that a repeated request already has.
SubmitCheck(h, c, q, late) ==
  /\ conv[c] = "active" /\ handler[h] = Idle
  /\ late => Running(c) # {}
  /\ turn' = [turn EXCEPT ![c] = Recovered(c, late)]
  /\ LET seen == IF late THEN Touched(c) ELSE handler
     IN handler' = IF turn[c][q].status = "none"
                   THEN [seen EXCEPT ![h] = [conv |-> c, req |-> q, fresh |-> ~late]]
                   ELSE seen
  /\ UNCHANGED <<conv, work, remote, turnFaults>>

\* submit, second transaction: the scope was resolved, reserve_turn decides.
SubmitReserve(h) ==
  LET c == handler[h].conv
      q == handler[h].req
      granted == /\ conv[c] = "active" /\ turn[c][q].status = "none"
                 /\ handler[h].fresh /\ ~Busy(c)
  IN /\ handler[h] # Idle
     /\ IF granted
        THEN /\ Reserved(c, q)
             /\ handler' = [Touched(c) EXCEPT ![h] = Idle]
        ELSE /\ handler' = [handler EXCEPT ![h] = Idle]
             /\ UNCHANGED <<turn, work>>
     /\ UNCHANGED <<conv, remote, turnFaults>>

\* ConversationService.cancel of a running turn.
Cancel(c, q) ==
  /\ conv[c] = "active" /\ turn[c][q].status = "running"
  /\ turn' = [turn EXCEPT ![c][q].status = "cancelled", ![c][q].code = Other]
  /\ handler' = Touched(c)
  /\ UNCHANGED <<conv, work, remote, turnFaults>>

\* ConversationService.detail after the lease of the running turn ran out.
Detail(c) ==
  /\ conv[c] = "active" /\ Running(c) # {}
  /\ turn' = [turn EXCEPT ![c] = Recovered(c, TRUE)]
  /\ handler' = Touched(c)
  /\ UNCHANGED <<conv, work, remote, turnFaults>>

\* ConversationService.rename.
Rename(c) ==
  /\ conv[c] = "active"
  /\ handler' = Touched(c)
  /\ UNCHANGED <<conv, turn, work, remote, turnFaults>>

\* ConversationService.delete: running turns are cancelled, bodies erased.
DeletedTurn(t) ==
  [t EXCEPT !.status = IF @ = "running" THEN "cancelled" ELSE @,
            !.code = IF t.status = "running" THEN Other ELSE @,
            !.answer = FALSE]

Delete(c) ==
  /\ conv[c] = "active"
  /\ conv' = [conv EXCEPT ![c] = "deleted"]
  /\ turn' = [turn EXCEPT ![c] = [q \in Requests |-> DeletedTurn(@[q])]]
  /\ handler' = Touched(c)
  /\ UNCHANGED <<work, remote, turnFaults>>

----------------------------------------------------------------------------
\* Ends the calling part of an execution with an outcome.  An attempt that is
\* cut here stays pending: a closed transport says nothing about the server.
Joined(w, outcome) ==
  [w EXCEPT !.pc = "joined", !.outcome = outcome,
            !.inflight = FALSE, !.lost = @ \/ w.inflight]
Cut(c, q) == IF work[c][q].inflight /\ "current" \in remote[c][q]
             THEN (remote[c][q] \ {"current"}) \cup {"lost"} ELSE remote[c][q]
JoinStep(c, q, outcome) ==
  /\ work' = [work EXCEPT ![c][q] = Joined(@, outcome)]
  /\ remote' = [remote EXCEPT ![c][q] = Cut(c, q)]
  /\ UNCHANGED <<conv, turn, handler, turnFaults>>

\* The transaction that stores the dependencies: a turn that is no longer
\* running is not executed.
ReserveDependencies(c, q) ==
  /\ work[c][q].pc = "history"
  /\ work' = [work EXCEPT ![c][q] =
                IF conv[c] = "deleted" THEN Joined(@, "error")
                ELSE IF turn[c][q].status # "running" THEN Joined(@, "cancelled")
                ELSE [@ EXCEPT !.pc = "calling"]]
  /\ UNCHANGED <<conv, turn, remote, handler, turnFaults>>

\* track_local_http_attempt: the attempt is pending before it is sent.
Attempt(c, q) ==
  /\ work[c][q].pc = "calling" /\ ~work[c][q].inflight /\ work[c][q].calls < MaxCalls
  /\ work' = [work EXCEPT ![c][q].inflight = TRUE, ![c][q].calls = @ + 1]
  /\ remote' = [remote EXCEPT ![c][q] = @ \cup {"current"}]
  /\ UNCHANGED <<conv, turn, handler, turnFaults>>

\* A full response settles its own attempt; a failed transport settles nothing.
AttemptAnswered(c, q) ==
  /\ work[c][q].inflight
  /\ work' = [work EXCEPT ![c][q].inflight = FALSE]
  /\ remote' = [remote EXCEPT ![c][q] = @ \ {"current"}]
  /\ UNCHANGED <<conv, turn, handler, turnFaults>>
AttemptFails(c, q) ==
  /\ work[c][q].inflight
  /\ work' = [work EXCEPT ![c][q].inflight = FALSE, ![c][q].lost = TRUE]
  /\ remote' = [remote EXCEPT ![c][q] = Cut(c, q)]
  /\ UNCHANGED <<conv, turn, handler, turnFaults>>

\* The model server ends an attempt nobody waits for.
RemoteEnds(c, q) ==
  /\ "lost" \in remote[c][q]
  /\ remote' = [remote EXCEPT ![c][q] = @ \ {"lost"}]
  /\ UNCHANGED <<conv, turn, work, handler, turnFaults>>

\* The call returns an answer or raises.
Returns(c, q, outcome) ==
  /\ work[c][q].pc = "calling" /\ ~work[c][q].inflight
  /\ outcome \in {"answer", "error"}
  /\ JoinStep(c, q, outcome)

\* The half-second poll finds the turn ended by somebody else.
Monitor(c, q) ==
  /\ work[c][q].pc = "calling"
  /\ conv[c] = "deleted" \/ turn[c][q].status # "running"
  /\ JoinStep(c, q, IF conv[c] = "deleted" THEN "error" ELSE "cancelled")

\* ConversationBackground.aclose cancels the tasks and joins their finalizers.
Shutdown(c, q) ==
  /\ work[c][q].pc \in {"history", "calling"}
  /\ JoinStep(c, q, "cancelled")

\* finalize: what the joined execution writes into its row.  confirmed says
\* that every HTTP attempt was answered, allowed that the final authority and
\* visibility checks passed.  (Mutants: the answer is stored whatever became of
\* the turn; a failed check leaves the row as it is.)
FinalizedLate(t, outcome, confirmed, allowed) ==
  [status |-> IF t.status # "running" THEN t.status
              ELSE IF outcome = "answer" /\ confirmed /\ allowed THEN "completed" ELSE "failed",
   code |-> IF confirmed THEN Other ELSE ProviderUnconfirmed, terminated |-> confirmed,
   answer |-> outcome = "answer" /\ confirmed /\ allowed]
FinalizedIfAllowed(t, outcome, confirmed, allowed) ==
  IF allowed THEN FinalizedLate(t, outcome, confirmed, allowed) ELSE t
Finalized(t, outcome, confirmed, allowed) ==
  LET answered == outcome = "answer" /\ confirmed /\ allowed
      status == IF t.status # "running" THEN t.status
                ELSE IF outcome = "cancelled" THEN "cancelled"
                ELSE IF answered THEN "completed" ELSE "failed"
      code == IF ~confirmed THEN ProviderUnconfirmed
              ELSE IF status = "completed" THEN NoCode
              ELSE IF t.status = "running" \/ t.code = LeaseUnconfirmed THEN Other
              ELSE t.code
  IN [status |-> status, code |-> code, terminated |-> confirmed,
      answer |-> confirmed /\ (IF t.status = "running" THEN answered ELSE t.answer)]

\* The last transaction of an execution.  On a tombstone only a confirmed
\* termination is recorded (record_termination).
Finalize(c, q, allowed) ==
  LET confirmed == ~work[c][q].lost
  IN /\ work[c][q].pc = "joined"
     /\ work' = [work EXCEPT ![c][q].pc = "done"]
     /\ IF conv[c] = "active"
        THEN /\ turn' = [turn EXCEPT ![c][q] =
                           Finalized(@, work[c][q].outcome, confirmed, allowed)]
             /\ handler' = Touched(c)
        ELSE /\ turn' = [turn EXCEPT ![c][q].terminated = @ \/ confirmed]
             /\ UNCHANGED handler
     /\ UNCHANGED <<conv, remote, turnFaults>>

\* The process dies, or the finalizer fails on the database: nothing is written.
Die(c, q) ==
  /\ turnFaults < MaxTurnFaults /\ turnFaults' = turnFaults + 1
  /\ work[c][q].pc \in {"history", "calling", "joined"}
  /\ work' = [work EXCEPT ![c][q].pc = "dead", ![c][q].inflight = FALSE]
  /\ remote' = [remote EXCEPT ![c][q] = Cut(c, q)]
  /\ UNCHANGED <<conv, turn, handler>>

\* The steps an execution takes by itself up to its last transaction.
Execution(c, q) ==
  \/ ReserveDependencies(c, q)
  \/ AttemptAnswered(c, q)
  \/ AttemptFails(c, q)
  \/ \E outcome \in {"answer", "error"} : Returns(c, q, outcome)
  \/ Monitor(c, q)

----------------------------------------------------------------------------
\* At most one question of a conversation is being worked on by a model server
\* at any time, although turns are cancelled, expire after fifteen minutes or
\* lose their process while an attempt is under way (reserve_turn, finalize).
OneInference ==
  \A c \in Convs, q \in Requests, r \in Requests :
     remote[c][q] # {} /\ remote[c][r] # {} => q = r

\* An answer is visible only in a completed turn of a conversation that was not
\* deleted, and only when no attempt of its execution can still be running: a
\* late answer never replaces a cancellation, a lease expiry or a tombstone.
AnswerOnlyWhenSettled ==
  \A c \in Convs, q \in Requests :
     turn[c][q].answer => /\ turn[c][q].status = "completed" /\ conv[c] = "active"
                          /\ turn[c][q].terminated /\ remote[c][q] = {}

\* A running turn ends, unless the process that executes it dies: then only the
\* lease ends it, the next time its owner opens the conversation.
TurnsSettle ==
  \A c \in Convs, q \in Requests :
     turn[c][q].status = "running"
       ~> (turn[c][q].status # "running" \/ work[c][q].pc = "dead")

=============================================================================
