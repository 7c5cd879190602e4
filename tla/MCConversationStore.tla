------------------------ MODULE MCConversationStore ------------------------
(* TLC instance of ConversationStore.                                      *)
EXTENDS ConversationStore, TLC
=============================================================================
