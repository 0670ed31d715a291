----------------------------- MODULE MCLoginWire -----------------------------
(* The conversation of NativeSeatEnv, and one with a message, two visible     *)
(* prompts and a secret one, as the generic serve_observed allows.            *)
EXTENDS LoginWire

Native == <<"EchoOn", "EchoOff">>
SecondFactor == <<"EchoOn", "info", "EchoOn", "EchoOff">>
MCScripts == {Native, SecondFactor}
===============================================================================
