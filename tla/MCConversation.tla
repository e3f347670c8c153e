--------------------------- MODULE MCConversation ---------------------------
(* Either the relay with a few items on each side, or the messages service   *)
(* with a few senders and readers; the .cfg files give the sets.             *)
EXTENDS BoardRelay, Messages

VARIABLE part   \* the service a behaviour is about

MCConversationInit ==
    /\ RelayInit /\ MessagesInit
    /\ part \in {"relay", "messages"}

MCConversationNext ==
    /\ UNCHANGED part
    /\ \/ part = "relay" /\ RelayNext /\ UNCHANGED messageVars
       \/ part = "messages" /\ MessagesNext /\ UNCHANGED relayVars

\* RelayFairness and MessagesFairness, of the service the behaviour is about.
MCConversationFairness ==
    /\ \A s \in Syncs :
          WF_relayVars(part = "relay" /\ (ListIssues(s) \/ SyncSteps(s)))
    /\ \A r \in Waiters :
          /\ WF_messageVars(part = "messages" /\ WaitForMessages(r))
          /\ WF_messageVars(part = "messages" /\ MarkRead(r))

MCConversationSpec ==
    /\ MCConversationInit /\ [][MCConversationNext]_<<part, relayVars, messageVars>>
    /\ MCConversationFairness

=============================================================================
