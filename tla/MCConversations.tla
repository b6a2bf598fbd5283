--------------------------- MODULE MCConversations ---------------------------
(***************************************************************************)
(* The instance of AttachmentDrafts, with the turns of ConversationTurns,  *)
(* for TLC.  Submissions and attachments meet only through the deletion of *)
(* the conversation, which the first turn reaches as well: a behaviour     *)
(* either has attachments or follow-up questions, and one fault.  The      *)
(* first attempt to start is named FirstConv and its request FirstRequest: *)
(* the specification is symmetric in both.                                 *)
(***************************************************************************)
EXTENDS AttachmentDrafts

CONSTANTS FirstConv, FirstRequest

FollowUp == \/ \E h \in Handlers : handler[h] # Idle
            \/ \E c \in Convs : Cardinality({q \in Requests : turn[c][q].status # "none"}) > 1
Apart == /\ FollowUp => \A a \in Attachments : att[a].parent = None
         /\ turnFaults + losses <= 1
         /\ (\E c \in Convs : start[c].pc # "idle") => start[FirstConv].pc # "idle"
         /\ start[FirstConv].req \in {None, FirstRequest}

MCSpec == Init /\ [][Next /\ Apart']_vars /\ Fairness
=============================================================================
