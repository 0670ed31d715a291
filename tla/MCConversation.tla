---------------------------- MODULE MCConversation ----------------------------
(* The mock's own scripts, a wrong answer after a right one, one that stops   *)
(* short, and some that take the bound to the step.                           *)
EXTENDS Conversation

Asked == {<<"prompt", "complete">>, <<"prompt", "info", "complete">>,
          <<"prompt", "failed">>, <<"prompt", "prompt", "failed">>,
          <<"prompt">>, <<"prompt", "info", "prompt", "complete">>,
          <<"prompt", "prompt", "prompt", "prompt">>}
Verdicts == {"Ok", "NewAuthTokRequired", "AcctExpired", "PermDenied", "none"}
MCScripts == [steps : Asked, acct : Verdicts]

MCFailures == {"none", "Start", "CloseSession"}
              \cup {CallAt[step] : step \in DOMAIN CallAt}
MCPlan == {"MUKAE_SEAT", "XDG_SESSION_CLASS"}
MCModules == {"XDG_SESSION_TYPE"}
===============================================================================
