------------------------------- MODULE MCMukaed -------------------------------
(* The daemon with the conversation of NativeSeatEnv, and one with a message, *)
(* two visible prompts and a secret one, as the generic serve_observed allows. *)
EXTENDS Mukaed

Native == <<"EchoOn", "EchoOff">>
SecondFactor == <<"EchoOn", "info", "EchoOn", "EchoOff">>
MCScripts == {Native, SecondFactor}
===============================================================================
