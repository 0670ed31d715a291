------------------------------- MODULE MCGreetd -------------------------------
(* A name, and two messages of any type from greetd.                          *)
EXTENDS Greetd
===============================================================================
