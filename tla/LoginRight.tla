------------------------------ MODULE LoginRight ------------------------------
(***************************************************************************)
(* What a login environment promises, without transactions, prompts,       *)
(* passphrases or logind.  An attempt is granted to one principal or it is *)
(* denied; a grant is a right that starts at most one session, as that     *)
(* principal, and is over once it did or once the attempt is given up.     *)
(* SeatEnv, and Conversation over the mock, are shown to implement it.     *)
(***************************************************************************)
CONSTANTS Attempts,   \* the login attempts of one process
          Uids,       \* the principals a session can run as
          None        \* no principal

VARIABLES right,      \* how far each attempt got
          principal,  \* whom an attempt is granted to, while it is
          started     \* the sessions started, with the attempt that paid

rightVars == <<right, principal, started>>

Init ==
  /\ right = [a \in Attempts |-> "unused"]
  /\ principal = [a \in Attempts |-> None]
  /\ started = {}

Begin(a) ==
  /\ right[a] = "unused"
  /\ right' = [right EXCEPT ![a] = "asking"]
  /\ UNCHANGED <<principal, started>>

Grant(a, u) ==
  /\ right[a] = "asking"
  /\ right' = [right EXCEPT ![a] = "granted"]
  /\ principal' = [principal EXCEPT ![a] = u]
  /\ UNCHANGED started

Deny(a) ==
  /\ right[a] = "asking"
  /\ right' = [right EXCEPT ![a] = "denied"]
  /\ UNCHANGED <<principal, started>>

\* The right buys one session, as the principal it was granted to.
Spend(a) ==
  /\ right[a] = "granted"
  /\ right' = [right EXCEPT ![a] = "over"]
  /\ principal' = [principal EXCEPT ![a] = None]
  /\ started' = started \cup {[attempt |-> a, uid |-> principal[a]]}

\* The session failed to start, or the attempt was given up.
Lose(a) ==
  /\ right[a] \in {"asking", "granted", "denied"}
  /\ right' = [right EXCEPT ![a] = "over"]
  /\ principal' = [principal EXCEPT ![a] = None]
  /\ UNCHANGED started

Next ==
  \E a \in Attempts :
     \/ Begin(a) \/ Deny(a) \/ Spend(a) \/ Lose(a)
     \/ \E u \in Uids : Grant(a, u)

Spec == Init /\ [][Next]_rightVars
===============================================================================
