-------------------------------- MODULE MCSpawn --------------------------------
(* A session, as a user and as root, with nothing to keep; the greeter, with  *)
(* its socket on 3 and its console on 0, 1 and 2, or without a console; and   *)
(* lists no caller makes: one mapping takes the source of the next, a number  *)
(* twice, a descriptor onto itself, the status pipe's number, and a           *)
(* descriptor that is closed.                                                 *)
EXTENDS Spawn

MCTargets == {[uid |-> 1000, gid |-> 100, groups |-> {100, 27}],
              [uid |-> 0, gid |-> 0, groups |-> {0}]}

Session == <<>>
GreeterOnVt == <<<<6, 3>>, <<7, 0>>, <<7, 1>>, <<7, 2>>>>
GreeterSeatless == <<<<6, 3>>>>
Clobbered == <<<<6, 7>>, <<7, 0>>>>
Moved == <<<<3, 0>>, <<6, 3>>>>
Twice == <<<<6, 3>>, <<7, 3>>>>
OntoItself == <<<<6, 6>>, <<7, 0>>>>
OverThePipe == <<<<6, 8>>, <<7, 0>>>>
OfNothing == <<<<7, 0>>, <<4, 3>>>>
MCLayouts == {Session, GreeterOnVt, GreeterSeatless, Clobbered, Moved, Twice, OntoItself,
              OverThePipe, OfNothing}

\* 3 is the claimed console, 5 and 6 the socket pair, 7 the greeter's console; the
\* pipe is 8, after pipe2 made 4 its other end, which the child has closed.
MCOpen0 == [n \in {0, 1, 2, 3, 5, 6, 7} |->
              CASE n \in 0..2 -> "journal" [] n = 3 -> "claim" [] n = 5 -> "mine"
                [] n = 6 -> "theirs" [] n = 7 -> "tty"]
MCWr == 8
===============================================================================
