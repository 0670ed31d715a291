-------------------------- MODULE MCPamConversation --------------------------
(* Three prompts in calls of up to two messages of any style: a name and a    *)
(* passphrase asked one by one, or a passphrase and its confirmation at once. *)
EXTENDS PamConversation
===============================================================================
