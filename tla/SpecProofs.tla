------------------------------ MODULE SpecProofs ------------------------------
(***************************************************************************)
(* Proofs about the two modules of mukae-spec.  Of Conversation, what its  *)
(* run checks for 35 scripts and three conversations, for all scripts,     *)
(* plans and bounds and any number of conversations; of Surface, theorems  *)
(* about its operators.                                                    *)
(***************************************************************************)
EXTENDS Conversation, Surface, SequenceTheorems, TLAPS

Txns == [cursor : Nat, completed : BOOLEAN, awaiting : BOOLEAN,
         env : SUBSET Plan, session : BOOLEAN]

Outcomes == {"none", "error", "too long", "Denied", "TokenChangeRequired",
             "Authenticated", "Abandoned"}

\* Where run is, and where start_session is.
RunPcs == {"next", "answer", "end", "acct", "mint"}
SessionPcs == {"setcred", "put", "open", "getenv", "fork"}

TypeOK ==
  /\ script \in Scripts
  /\ open \subseteq Handles /\ txns \in [Handles -> Txns]
  /\ next \in Nat /\ next \in 1..(MaxTxn + 1)
  /\ pc \in RunPcs \cup SessionPcs \cup {"caller"} /\ h \in Nat /\ steps \in Nat
  /\ outcome \in [Handles -> Outcomes] /\ walked \subseteq Handles
  /\ caps \subseteq Handles
  /\ children \in Seq([txn : Handles, env : SUBSET (Plan \cup Modules)])
  /\ got \subseteq Plan \cup Modules

\* The conversation being driven has no outcome before run returns, and none has
\* one before it was started.
OutcomesSoFar ==
  /\ pc # "caller" => h \in Handles /\ h < next
  /\ pc \in RunPcs => outcome[h] = "none"
  /\ \A a \in Handles : a >= next => outcome[a] = "none"
  /\ \A a \in open \cup walked : a < next
  /\ \A a \in open : outcome[a] = "none" => a = h /\ pc \in RunPcs

\* Who is granted what, and from whom.
Granted ==
  /\ pc \in SessionPcs => h \in caps
  /\ \A a \in caps : outcome[a] = "Authenticated" /\ (a \in open => txns[a].completed)
  /\ pc = "mint" => script.acct = "Ok"
  /\ caps # {} \/ children # <<>> => script.acct = "Ok"

\* Each session was paid for, with a capability that is gone, and by nobody else.
Paid ==
  \A i \in DOMAIN children :
    /\ outcome[children[i].txn] = "Authenticated" /\ children[i].txn \notin caps
    /\ \A j \in DOMAIN children : children[i].txn = children[j].txn => i = j

\* Who walked away, and what became of that.
WalkedSoFar ==
  /\ pc = "end" => h \in walked
  /\ \A a \in walked : \/ a = h /\ pc = "end"
                       \/ outcome[a] = "Abandoned" \/ failOn = "End"
  /\ \A a \in Handles : outcome[a] = "Abandoned" => a \in walked \ open

\* The loop counts the steps it pulled, and none of them was a verdict.
Endless(n) ==
  /\ Len(script.steps) >= n
  /\ \A i \in 1..n : script.steps[i] \in {"prompt", "info"}

StepsSoFar ==
  /\ pc \in {"next", "answer"} =>
       txn.cursor = steps /\ steps <= MaxSteps /\ Endless(steps)
  /\ \A a \in Handles : outcome[a] = "too long" => Endless(MaxSteps)

IInv ==
  /\ TypeOK /\ OutcomesSoFar /\ Granted /\ Paid /\ WalkedSoFar /\ StepsSoFar

\* A handle is a number.
LEMMA HandleFacts == \A a \in Handles : a \in Nat /\ a >= 1
BY ConversationAssumption DEF Handles

\* One that was not given out is not below one that was.
LEMMA NotGivenOut == \A n \in Nat : \A a \in Handles : a >= n => ~(a < n)
BY HandleFacts

\* The sessions there are are records of attempts.
LEMMA ChildFacts ==
  ASSUME TypeOK, NEW i \in DOMAIN children
  PROVE  children[i].txn \in Handles
<1> DEFINE Child == [txn : Handles, env : SUBSET (Plan \cup Modules)]
<1>1. children \in Seq(Child)
  BY DEF TypeOK
<1> HIDE DEF Child
<1>2. children[i] \in Child
  BY <1>1, ElementOfSeq, LenProperties
<1> QED
  BY <1>2 DEF Child

\* What was paid for stays so while outcomes are final and no right comes back.
LEMMA NothingSpent ==
  ASSUME TypeOK, Paid, children' = children,
         \A a \in Handles : outcome[a] = "Authenticated" =>
            outcome'[a] = "Authenticated" /\ (a \in caps' => a \in caps)
  PROVE  Paid'
BY ChildFacts DEF Paid

\* Writing the transaction being driven writes no other.
LEMMA PutTxn ==
  ASSUME TypeOK, h \in Handles, NEW t \in Txns, Put(t), h' = h
  PROVE  /\ txn' = t /\ txns' \in [Handles -> Txns]
         /\ \A a \in Handles \ {h} : txns'[a] = txns[a]
BY DEF TypeOK, Put, txn

-------------------------------------------------------------------------------
\* Nothing was started, and nobody has walked away.
LEMMA InitInv == Init => IInv
<1> SUFFICES ASSUME Init PROVE IInv
  OBVIOUS
<1> USE DEF Init
<1>1. TypeOK
  <2>1. NewTxn \in Txns /\ txns \in [Handles -> Txns]
    BY DEF Txns, NewTxn
  <2>2. outcome \in [Handles -> Outcomes]
    BY DEF Outcomes
  <2>3. next \in 1..(MaxTxn + 1)
    BY ConversationAssumption
  <2>4. children \in Seq([txn : Handles, env : SUBSET (Plan \cup Modules)])
    BY EmptySeq
  <2> QED
    BY <2>1, <2>2, <2>3, <2>4 DEF TypeOK
<1>2. OutcomesSoFar /\ Granted /\ WalkedSoFar /\ StepsSoFar
  BY DEF OutcomesSoFar, Granted, WalkedSoFar, StepsSoFar, RunPcs, SessionPcs
<1>3. Paid
  BY DEF Paid
<1> QED
  BY <1>1, <1>2, <1>3 DEF IInv

-------------------------------------------------------------------------------
(* Conversation::run. *)

\* A conversation is started with nothing of the one before.
LEMMA StartInv == IInv /\ Start => IInv'
<1> SUFFICES ASSUME IInv, Start PROVE IInv'
  OBVIOUS
<1> USE DEF Start, Keeps, IInv
<1>1. next \in Handles /\ next \in Nat /\ h' = next /\ next' = next + 1
  BY ConversationAssumption DEF TypeOK, Handles
<1>2. NewTxn \in Txns
  BY DEF NewTxn, Txns
<1>3. TypeOK'
  <2>1. txns' \in [Handles -> Txns] /\ open' \subseteq Handles
    BY <1>1, <1>2 DEF TypeOK
  <2>2. next' \in 1..(MaxTxn + 1) /\ next' \in Nat
    BY <1>1, ConversationAssumption DEF TypeOK
  <2> QED
    BY <1>1, <2>1, <2>2 DEF TypeOK, RunPcs
<1>4. /\ txn' = NewTxn /\ outcome[next] = "none" /\ next \notin caps
      /\ \A a \in Handles \ {next} : txns'[a] = txns[a]
  BY <1>1 DEF txn, TypeOK, OutcomesSoFar, Granted
<1>5. OutcomesSoFar'
  <2>1. \A a \in Handles : a >= next + 1 => a >= next
    BY <1>1, HandleFacts
  <2>2. \A a \in open \cup walked : a < next /\ a \in Handles
    BY DEF OutcomesSoFar, TypeOK
  <2>3. \A a \in open' \cup walked' : a < next'
    <3>1. \A a \in Handles : a < next => a < next + 1
      BY <1>1, HandleFacts
    <3>2. next < next + 1
      BY <1>1
    <3>3. open' = open \cup {next} /\ walked' = walked /\ next' = next + 1
      OBVIOUS
    <3> QED
      BY <2>2, <3>1, <3>2, <3>3
  <2> QED
    BY <1>1, <1>4, <2>1, <2>3 DEF OutcomesSoFar, RunPcs
<1>6. Granted'
  BY <1>4 DEF Granted, RunPcs, SessionPcs, TypeOK
<1>7. Paid'
  BY NothingSpent
<1>8. WalkedSoFar'
  <2>1. next \notin walked /\ \A a \in Handles : outcome[a] = "Abandoned" => a # next
    BY <1>1, <1>4 DEF OutcomesSoFar, TypeOK
  <2> QED
    BY <2>1 DEF WalkedSoFar
<1>9. StepsSoFar'
  <2>1. Len(script.steps) \in Nat
    BY ConversationAssumption DEF TypeOK
  <2>2. Endless(0)
    BY <2>1 DEF Endless
  <2>3. txn'.cursor = 0
    BY <1>4 DEF NewTxn
  <2>4. steps' = 0 /\ 0 <= MaxSteps /\ script' = script /\ outcome' = outcome
    BY ConversationAssumption
  <2>5. \A a \in Handles : outcome'[a] = "too long" => Endless(MaxSteps)'
    BY <2>4 DEF StepsSoFar, Endless
  <2> QED
    BY <2>2, <2>3, <2>4, <2>5 DEF StepsSoFar, Endless
<1> QED
  BY <1>3, <1>5, <1>6, <1>7, <1>8, <1>9

\* run returns: the outcome it comes to is the driven conversation's, and a
\* capability is had of a success alone.
LEMMA ReturnInv ==
  ASSUME IInv, pc \in RunPcs,
         NEW o \in Outcomes \ {"none"}, Return(o),
         o = "too long" => Endless(MaxSteps),
         o = "Abandoned" => h \in walked \ open',
         pc = "end" => failOn = "End" \/ o = "Abandoned",
         open' \subseteq open, txns' \in [Handles -> Txns],
         \A a \in Handles \ {h} : txns'[a] = txns[a],
         steps' \in Nat, caps' \subseteq caps \cup {h},
         h \in caps' => /\ o = "Authenticated" /\ script.acct = "Ok"
                        /\ h \in open' => txns'[h].completed,
         UNCHANGED <<script, failOn, next, h, walked, got, children>>
  PROVE  IInv'
<1> USE DEF Return, IInv
<1>1. h \in Handles /\ outcome[h] = "none" /\ h \notin caps /\ pc' = "caller"
  BY DEF OutcomesSoFar, RunPcs, Granted
<1>2. /\ \A a \in Handles : a # h => outcome'[a] = outcome[a]
      /\ outcome'[h] = o /\ outcome' \in [Handles -> Outcomes]
  BY <1>1 DEF TypeOK
<1>3. TypeOK'
  BY <1>1, <1>2 DEF TypeOK
<1>4. OutcomesSoFar'
  <2>1. h < next
    BY <1>1 DEF OutcomesSoFar, RunPcs
  <2>2. \A a \in Handles : a >= next' => outcome'[a] = "none"
    <3>1. \A a \in Handles : a >= next => ~(a < next)
      BY NotGivenOut DEF TypeOK
    <3>2. \A a \in Handles : a >= next => a # h
      BY <2>1, <3>1
    <3> QED
      BY <1>2, <3>2 DEF OutcomesSoFar
  <2>3. \A a \in open : outcome'[a] # "none"
    BY <1>1, <1>2 DEF OutcomesSoFar, TypeOK
  <2> QED
    BY <1>1, <2>2, <2>3 DEF OutcomesSoFar, RunPcs
<1>5. Granted'
  <2>1. \A a \in caps \ {h} : a \in Handles /\ outcome'[a] = outcome[a] /\ txns'[a] = txns[a]
    BY <1>2 DEF TypeOK
  <2>2. \A a \in caps' : outcome'[a] = "Authenticated" /\ (a \in open' => txns'[a].completed)
    BY <1>1, <1>2, <2>1 DEF Granted
  <2>3. caps' # {} \/ children' # <<>> => script'.acct = "Ok"
    BY DEF Granted
  <2> QED
    BY <1>1, <2>2, <2>3 DEF Granted, RunPcs, SessionPcs
<1>6. Paid'
  BY <1>1, <1>2, NothingSpent
<1>7. WalkedSoFar'
  <2>1. \A a \in walked : outcome'[a] = "Abandoned" \/ failOn = "End"
    BY <1>1, <1>2 DEF WalkedSoFar, TypeOK
  <2>2. \A a \in Handles : outcome'[a] = "Abandoned" => a \in walked \ open'
    BY <1>1, <1>2 DEF WalkedSoFar
  <2> QED
    BY <1>1, <2>1, <2>2 DEF WalkedSoFar
<1>8. StepsSoFar'
  <2>1. \A a \in Handles : outcome'[a] = "too long" => Endless(MaxSteps)
    BY <1>1, <1>2 DEF StepsSoFar
  <2> QED
    BY <1>1, <2>1 DEF StepsSoFar, Endless
<1> QED
  BY <1>3, <1>4, <1>5, <1>6, <1>7, <1>8

\* The bound stops a loop that pulled as many steps, none of them a verdict.
LEMMA StopsAtTheBoundInv == IInv /\ StopsAtTheBound => IInv'
<1> SUFFICES ASSUME IInv, StopsAtTheBound PROVE IInv'
  OBVIOUS
<1>1. pc = "next" /\ steps + 1 > MaxSteps /\ Return("too long")
  BY DEF StopsAtTheBound, TooLong
<1>2. steps \in Nat /\ steps <= MaxSteps /\ Endless(steps)
  BY <1>1 DEF IInv, StepsSoFar, TypeOK
<1>3. steps = MaxSteps
  <2>1. \A a, b \in Nat : a + 1 > b /\ a <= b => a = b
    OBVIOUS
  <2> QED
    BY <1>1, <1>2, <2>1, ConversationAssumption
<1>4. Endless(MaxSteps)
  BY <1>2, <1>3
<1>5. pc \in RunPcs /\ "too long" \in Outcomes \ {"none"} /\ h \notin caps
  BY <1>1 DEF RunPcs, Outcomes, IInv, OutcomesSoFar, Granted
<1>6. /\ txns' = txns /\ txns' \in [Handles -> Txns] /\ steps' \in Nat
      /\ UNCHANGED <<script, failOn, open, next, h, walked, caps, got, children>>
  BY DEF StopsAtTheBound, Keeps, IInv, TypeOK
<1> QED
  BY <1>1, <1>4, <1>5, <1>6, ReturnInv

\* A step of start_session or of its caller, which drives no conversation: it may
\* let capabilities go, and holds on to the one a session is being started with.
LEMMA SessionInv ==
  ASSUME IInv, pc \notin RunPcs, pc' \in SessionPcs \cup {"caller"},
         UNCHANGED <<script, failOn, next, steps, outcome, walked>>,
         open' \subseteq open, txns' \in [Handles -> Txns],
         caps' \subseteq caps, h' \in Nat,
         \A a \in caps' : a \in open' => txns'[a].completed,
         pc' # "caller" => h' \in caps',
         got' \subseteq Plan \cup Modules,
         \/ UNCHANGED children
         \/ /\ pc = "fork" /\ caps' = caps \ {h}
            /\ children' = Append(children, [txn |-> h, env |-> got])
  PROVE  IInv'
<1> USE DEF IInv
<1>1. pc' \notin RunPcs
  BY DEF RunPcs, SessionPcs
<1>2. \A a \in caps : a \in Handles /\ a < next
  BY HandleFacts DEF TypeOK, OutcomesSoFar, Granted
<1> DEFINE Child == [txn : Handles, env : SUBSET (Plan \cup Modules)]
           new == [txn |-> h, env |-> got]
<1>3. CASE children' = children
  <2>1. children' \in Seq(Child) /\ Paid'
    BY <1>3, NothingSpent DEF TypeOK
  <2>2. children' # <<>> => script.acct = "Ok"
    BY <1>3 DEF Granted
  <2>3. TypeOK'
    BY <1>3, <2>1 DEF TypeOK
  <2>4. OutcomesSoFar'
    <3>1. pc' # "caller" => h' \in Handles /\ h' < next'
      BY <1>2
    <3>2. \A a \in open : outcome[a] # "none"
      BY DEF OutcomesSoFar
    <3> QED
      BY <1>1, <3>1, <3>2 DEF OutcomesSoFar
  <2>5. Granted'
    <3>1. pc' \in SessionPcs => h' \in caps'
      BY DEF SessionPcs
    <3>2. pc' # "mint"
      BY <1>1 DEF RunPcs
    <3>3. \A a \in caps' : outcome'[a] = "Authenticated"
      BY DEF Granted
    <3>4. caps' # {} => script.acct = "Ok"
      BY DEF Granted
    <3> QED
      BY <2>2, <3>1, <3>2, <3>3, <3>4 DEF Granted
  <2>6. WalkedSoFar' /\ StepsSoFar'
    BY <1>1 DEF WalkedSoFar, StepsSoFar, Endless, RunPcs
  <2> QED
    BY <2>1, <2>3, <2>4, <2>5, <2>6
<1>4. CASE /\ pc = "fork" /\ caps' = caps \ {h}
           /\ children' = Append(children, new)
  <2>1. /\ h \in caps /\ h \in Handles /\ outcome[h] = "Authenticated"
        /\ script.acct = "Ok"
    BY <1>2, <1>4 DEF Granted, SessionPcs
  <2>2. new \in Child /\ children \in Seq(Child)
    BY <2>1 DEF TypeOK
  <2>3. /\ children' \in Seq(Child) /\ DOMAIN children' = DOMAIN children \cup {Len(children) + 1}
        /\ children'[Len(children) + 1].txn = h
        /\ \A i \in DOMAIN children : children'[i] = children[i]
    <3> HIDE DEF Child, new
    <3>1. /\ children' \in Seq(Child) /\ Len(children') = Len(children) + 1
          /\ children'[Len(children) + 1] = new
          /\ \A i \in 1..Len(children) : children'[i] = children[i]
      BY <1>4, <2>2, AppendProperties
    <3>2. DOMAIN children = 1..Len(children) /\ DOMAIN children' = 1..Len(children')
          /\ Len(children) \in Nat
      BY <2>2, <3>1, LenProperties
    <3> QED
      BY <3>1, <3>2 DEF new
  <2>4. Paid'
    <3>1. \A i \in DOMAIN children : children[i].txn # h
      BY <2>1 DEF Paid
    <3> QED
      BY <1>4, <2>1, <2>3, <3>1 DEF Paid
  <2>5. Granted'
    BY <1>1, <2>1 DEF Granted, SessionPcs
  <2> QED
    BY <1>1, <1>2, <2>3, <2>4, <2>5 DEF TypeOK, OutcomesSoFar, WalkedSoFar, StepsSoFar,
       Endless, RunPcs
<1> QED
  BY <1>3, <1>4

\* A session step is of a conversation that earned it.
LEMMA InSession ==
  ASSUME IInv, pc \in SessionPcs
  PROVE  /\ h \in caps /\ h \in Handles /\ txn \in Txns /\ pc \notin RunPcs
         /\ h \in Nat /\ txns \in [Handles -> Txns] /\ got \subseteq Plan \cup Modules
         /\ \A a \in caps : a \in Handles /\ (a \in open => txns[a].completed)
BY DEF IInv, Granted, TypeOK, txn, SessionPcs, RunPcs

\* A call that fails ends run with an error, or takes the capability with it.
LEMMA CallFailsInv == IInv /\ CallFails => IInv'
<1> SUFFICES ASSUME IInv, CallFails PROVE IInv'
  OBVIOUS
<1>1. UNCHANGED <<script, failOn, open, txns, next, h, steps, walked, got, children>>
  BY DEF CallFails, Keeps
<1>2. /\ txns \in [Handles -> Txns] /\ steps \in Nat /\ h \in Nat
      /\ pc \in RunPcs \cup SessionPcs
  BY DEF IInv, TypeOK, CallFails, CallAt, RunPcs, SessionPcs
<1>3. CASE pc \in RunPcs
  <2>1. Return("error") /\ UNCHANGED caps /\ "error" \in Outcomes \ {"none"}
    BY <1>3 DEF CallFails, RunPcs, Outcomes
  <2>2. pc = "end" => failOn = "End"
    BY DEF CallFails, CallAt
  <2>3. h \notin caps
    BY <1>3 DEF IInv, OutcomesSoFar, Granted
  <2> QED
    BY <1>1, <1>2, <1>3, <2>1, <2>2, <2>3, ReturnInv
<1>4. CASE pc \in SessionPcs
  <2>1. pc' = "caller" /\ UNCHANGED outcome /\ caps' = caps \ {h}
    BY <1>4 DEF CallFails, Loses, SessionPcs
  <2> QED
    BY <1>1, <1>2, <1>4, <2>1, InSession, SessionInv
<1> QED
  BY <1>2, <1>3, <1>4

\* A script that has nothing more to say is an error.
LEMMA NothingToSayInv == IInv /\ NothingToSay => IInv'
<1> SUFFICES ASSUME IInv, NothingToSay PROVE IInv'
  OBVIOUS
<1>1. pc = "next" /\ Return("error")
  BY DEF NothingToSay
<1>2. pc \in RunPcs /\ "error" \in Outcomes \ {"none"} /\ h \notin caps
  BY <1>1 DEF RunPcs, Outcomes, IInv, OutcomesSoFar, Granted
<1>3. /\ txns' = txns /\ txns' \in [Handles -> Txns] /\ steps' \in Nat
      /\ UNCHANGED <<script, failOn, open, next, h, walked, caps, got, children>>
  BY DEF NothingToSay, Keeps, IInv, TypeOK
<1> QED
  BY <1>1, <1>2, <1>3, ReturnInv

\* The step that is pulled counts, and is the script's next.
LEMMA PullsFacts ==
  ASSUME IInv, NEW step \in StepKinds, Pulls(step)
  PROVE  /\ h \in Handles /\ h' = h /\ h \notin caps /\ outcome[h] = "none"
         /\ txns' \in [Handles -> Txns] /\ \A a \in Handles \ {h} : txns'[a] = txns[a]
         /\ steps' = steps + 1 /\ steps' \in Nat /\ steps' <= MaxSteps
         /\ txn'.cursor = steps'
         /\ step \in {"prompt", "info"} => Endless(steps')
<1> USE DEF Pulls, Keeps, IInv
<1>1. h \in Handles /\ txn \in Txns /\ h' = h /\ h \notin caps /\ outcome[h] = "none"
  BY DEF OutcomesSoFar, TypeOK, txn, RunPcs, Granted
<1>2. txn.cursor \in Nat /\ txn.completed \in BOOLEAN /\ txn.awaiting \in BOOLEAN
  BY <1>1 DEF Txns
<1> DEFINE t == [txn EXCEPT !.cursor = @ + 1, !.awaiting = @ \/ step = "prompt",
                            !.completed = @ \/ step = "complete"]
<1>3. t \in Txns /\ t.cursor = txn.cursor + 1
  <2> HIDE DEF IInv, Pulls, Keeps
  <2>1. PICK p \in BOOLEAN : p = (txn.awaiting \/ step = "prompt")
    BY <1>2
  <2>2. PICK q \in BOOLEAN : q = (txn.completed \/ step = "complete")
    BY <1>2
  <2>3. PICK n \in Nat : n = txn.cursor + 1
    BY <1>2
  <2>4. t = [txn EXCEPT !.cursor = n, !.awaiting = p, !.completed = q]
    BY <2>1, <2>2, <2>3
  <2> HIDE DEF t
  <2>5. t \in Txns /\ t.cursor = n
    BY <1>1, <2>4 DEF Txns
  <2> QED
    BY <2>3, <2>5
<1>4. Put(t)
  OBVIOUS
<1>5. txn' = t /\ txns' \in [Handles -> Txns] /\ \A a \in Handles \ {h} : txns'[a] = txns[a]
  <2> HIDE DEF t
  <2> QED
    BY <1>1, <1>3, <1>4, PutTxn
<1>6. /\ txn.cursor = steps /\ steps' = steps + 1 /\ steps' \in Nat /\ steps' <= MaxSteps
      /\ Endless(steps)
  <2>1. pc = "next" /\ steps' = steps + 1 /\ ~(steps + 1 > MaxSteps) /\ steps \in Nat
    BY DEF TooLong, TypeOK
  <2>2. txn.cursor = steps /\ Endless(steps)
    BY <2>1 DEF StepsSoFar
  <2> QED
    BY <2>1, <2>2, ConversationAssumption
<1>7. /\ Len(script.steps) \in Nat /\ Len(script.steps) >= steps'
      /\ script.steps[steps'] = step
  BY <1>6, ConversationAssumption DEF Step, TypeOK
<1>8. step \in {"prompt", "info"} => Endless(steps')
  <2> SUFFICES ASSUME step \in {"prompt", "info"} PROVE Endless(steps')
    OBVIOUS
  <2>1. steps \in Nat /\ \A i \in 1..steps' : i \in 1..steps \/ i = steps'
    BY <1>6 DEF TypeOK
  <2>2. \A i \in 1..steps' : script.steps[i] \in {"prompt", "info"}
    BY <1>6, <1>7, <2>1 DEF Endless
  <2> QED
    BY <1>7, <2>2 DEF Endless
<1> HIDE DEF t
<1> QED
  BY <1>1, <1>3, <1>5, <1>6, <1>8

\* A step of run that returns nothing and touches the driven transaction alone.
LEMMA RunInv ==
  ASSUME IInv, pc \in RunPcs, pc' \in RunPcs,
         UNCHANGED <<script, failOn, open, next, h, outcome, caps, got, children>>,
         txns' \in [Handles -> Txns], \A a \in Handles \ {h} : txns'[a] = txns[a],
         steps' \in Nat, pc # "end",
         walked' = IF pc' = "end" THEN walked \cup {h} ELSE walked,
         pc' = "mint" => script.acct = "Ok",
         pc' \in {"next", "answer"} =>
           txn'.cursor = steps' /\ steps' <= MaxSteps /\ Endless(steps')
  PROVE  IInv'
<1> USE DEF IInv
<1>1. h \in Handles /\ h < next /\ outcome[h] = "none" /\ h \notin caps
  BY DEF OutcomesSoFar, RunPcs, Granted
<1>2. TypeOK'
  BY <1>1 DEF TypeOK
<1>3. OutcomesSoFar'
  BY <1>1 DEF OutcomesSoFar
<1>4. Granted'
  BY <1>1 DEF Granted, RunPcs, SessionPcs, TypeOK
<1>5. Paid'
  BY NothingSpent
<1>6. WalkedSoFar'
  BY <1>1 DEF WalkedSoFar
<1>7. StepsSoFar'
  BY DEF StepsSoFar, Endless
<1> QED
  BY <1>2, <1>3, <1>4, <1>5, <1>6, <1>7

\* A step that is no verdict, or that completes: run goes on.
LEMMA PullsInv == IInv /\ (PullsPrompt \/ PullsInfo \/ PullsComplete) => IInv'
<1> SUFFICES ASSUME IInv, PullsPrompt \/ PullsInfo \/ PullsComplete PROVE IInv'
  OBVIOUS
<1>1. PICK step \in {"prompt", "info", "complete"} :
        /\ Pulls(step) /\ UNCHANGED outcome
        /\ \/ step = "prompt" /\ pc' = "answer" /\ UNCHANGED walked
           \/ step = "prompt" /\ pc' = "end" /\ walked' = walked \cup {h}
           \/ step = "info" /\ pc' = "next" /\ UNCHANGED walked
           \/ step = "complete" /\ pc' = "acct" /\ UNCHANGED walked
  BY DEF PullsPrompt, PullsInfo, PullsComplete, Pulls
<1>2. pc = "next" /\ UNCHANGED <<script, failOn, open, next, h, caps, got, children>>
  BY <1>1 DEF Pulls, Keeps
<1>3. /\ txns' \in [Handles -> Txns] /\ \A a \in Handles \ {h} : txns'[a] = txns[a]
      /\ steps' \in Nat /\ steps' <= MaxSteps /\ txn'.cursor = steps'
      /\ step \in {"prompt", "info"} => Endless(steps')
  BY <1>1, PullsFacts DEF StepKinds
<1> QED
  BY <1>1, <1>2, <1>3, RunInv DEF RunPcs

\* PAM refuses.
LEMMA PullsFailedInv == IInv /\ PullsFailed => IInv'
<1> SUFFICES ASSUME IInv, PullsFailed PROVE IInv'
  OBVIOUS
<1>1. Pulls("failed") /\ Return("Denied") /\ UNCHANGED walked /\ "failed" \in StepKinds
  BY DEF PullsFailed, StepKinds
<1>2. pc = "next" /\ UNCHANGED <<script, failOn, open, next, h, caps, got, children>>
  BY <1>1 DEF Pulls, Keeps
<1>3. /\ txns' \in [Handles -> Txns] /\ \A a \in Handles \ {h} : txns'[a] = txns[a]
      /\ steps' \in Nat /\ h \notin caps
  BY <1>1, PullsFacts
<1>4. pc \in RunPcs /\ "Denied" \in Outcomes \ {"none"}
  BY <1>2 DEF RunPcs, Outcomes
<1> QED
  BY <1>1, <1>2, <1>3, <1>4, ReturnInv

\* The human answers, and the loop goes on.
LEMMA AnswersInv == IInv /\ Answers => IInv'
<1> SUFFICES ASSUME IInv, Answers PROVE IInv'
  OBVIOUS
<1>1. /\ pc = "answer" /\ pc' = "next" /\ Put([txn EXCEPT !.awaiting = FALSE])
      /\ UNCHANGED <<script, failOn, open, next, h, steps, outcome, walked, caps, got,
                     children>>
  BY DEF Answers, Keeps
<1>2. h \in Handles /\ txn \in Txns /\ steps \in Nat /\ TypeOK
  BY <1>1 DEF IInv, OutcomesSoFar, RunPcs, TypeOK, txn
<1>3. /\ [txn EXCEPT !.awaiting = FALSE] \in Txns
      /\ [txn EXCEPT !.awaiting = FALSE].cursor = txn.cursor
  BY <1>2 DEF Txns
<1>4. /\ txns' \in [Handles -> Txns] /\ txn'.cursor = txn.cursor
      /\ \A a \in Handles \ {h} : txns'[a] = txns[a]
  BY <1>1, <1>2, <1>3, PutTxn
<1>5. txn'.cursor = steps' /\ steps' <= MaxSteps /\ Endless(steps')
  BY <1>1, <1>4 DEF IInv, StepsSoFar
<1> QED
  BY <1>1, <1>2, <1>4, <1>5, RunInv DEF RunPcs

\* Walking away ends the transaction, and is no verdict.
LEMMA AbandonsInv == IInv /\ Abandons => IInv'
<1> SUFFICES ASSUME IInv, Abandons PROVE IInv'
  OBVIOUS
<1>1. /\ pc = "end" /\ open' = open \ {h} /\ Put(NewTxn) /\ Return("Abandoned")
      /\ UNCHANGED <<script, failOn, next, h, steps, walked, caps, got, children>>
  BY DEF Abandons, Keeps
<1>2. /\ h \in Handles /\ h \notin caps /\ NewTxn \in Txns /\ h \in walked \ open'
      /\ steps \in Nat /\ TypeOK /\ pc \in RunPcs /\ "Abandoned" \in Outcomes \ {"none"}
  BY <1>1 DEF IInv, OutcomesSoFar, RunPcs, NewTxn, Txns, Granted, WalkedSoFar, TypeOK,
     Outcomes
<1>3. txns' \in [Handles -> Txns] /\ \A a \in Handles \ {h} : txns'[a] = txns[a]
  BY <1>1, <1>2, PutTxn
<1> QED
  BY <1>1, <1>2, <1>3, ReturnInv

\* A good account goes on to the proof; any other is run's verdict.
LEMMA AsksAccountInv == IInv /\ AsksAccount => IInv'
<1> SUFFICES ASSUME IInv, AsksAccount PROVE IInv'
  OBVIOUS
<1>1. /\ pc = "acct"
      /\ UNCHANGED <<script, failOn, open, txns, next, h, steps, walked, caps, got, children>>
  BY DEF AsksAccount, Keeps
<1>2. /\ txns' \in [Handles -> Txns] /\ steps' \in Nat /\ pc \in RunPcs
      /\ h \notin caps /\ script.acct \in Accounts
  BY <1>1, ConversationAssumption DEF IInv, TypeOK, RunPcs, OutcomesSoFar, Granted
<1>3. CASE script.acct = "Ok"
  <2>1. pc' = "mint" /\ UNCHANGED outcome
    BY <1>3 DEF AsksAccount
  <2> QED
    BY <1>1, <1>2, <1>3, <2>1, RunInv DEF RunPcs
<1>4. ASSUME NEW o \in {"TokenChangeRequired", "Denied", "error"}, Return(o)
      PROVE  IInv'
  <2>1. o \in Outcomes \ {"none"} /\ o \notin {"too long", "Abandoned"}
    BY DEF Outcomes
  <2> QED
    BY <1>1, <1>2, <1>4, <2>1, ReturnInv
<1>5. CASE script.acct = "NewAuthTokRequired"
  BY <1>4, <1>5 DEF AsksAccount
<1>6. CASE script.acct \in {"AcctExpired", "PermDenied"}
  BY <1>4, <1>6 DEF AsksAccount
<1>7. CASE script.acct = "none"
  BY <1>4, <1>7 DEF AsksAccount
<1> QED
  BY <1>2, <1>3, <1>5, <1>6, <1>7 DEF Accounts

\* The proof is minted for what completed, and is one more right to a session.
LEMMA MintsInv == IInv /\ Mints => IInv'
<1> SUFFICES ASSUME IInv, Mints PROVE IInv'
  OBVIOUS
<1>1. /\ pc = "mint"
      /\ UNCHANGED <<script, failOn, open, txns, next, h, steps, walked, got, children>>
  BY DEF Mints, Keeps
<1>2. /\ txns' \in [Handles -> Txns] /\ steps' \in Nat /\ pc \in RunPcs
      /\ script.acct = "Ok" /\ h \notin caps
  BY <1>1 DEF IInv, TypeOK, RunPcs, OutcomesSoFar, Granted
<1>3. CASE ~txn.completed
  <2>1. Return("error") /\ UNCHANGED caps /\ "error" \in Outcomes \ {"none"}
    BY <1>3 DEF Mints, Outcomes
  <2> QED
    BY <1>1, <1>2, <2>1, ReturnInv
<1>4. CASE txn.completed
  <2>1. /\ Return("Authenticated") /\ caps' = caps \cup {h} /\ txns'[h].completed
        /\ "Authenticated" \in Outcomes \ {"none"}
    BY <1>1, <1>4 DEF Mints, Outcomes, txn
  <2> QED
    BY <1>1, <1>2, <2>1, ReturnInv
<1> QED
  BY <1>3, <1>4

-------------------------------------------------------------------------------
(* start_session, and the caller around it. *)

\* The caller starts a session with a capability it has, or lets one go.
LEMMA CallerInv == IInv /\ (BeginsSession \/ DropsCapability) => IInv'
<1> SUFFICES ASSUME IInv, BeginsSession \/ DropsCapability PROVE IInv'
  OBVIOUS
<1>1. /\ UNCHANGED <<script, failOn, open, txns, next, steps, outcome, walked, got, children>>
      /\ pc = "caller" /\ caps' \subseteq caps
      /\ \/ h' \in caps' /\ pc' = "setcred"
         \/ h' = h /\ pc' = "caller"
  BY DEF BeginsSession, DropsCapability, Keeps
<1>2. /\ txns \in [Handles -> Txns] /\ h' \in Nat /\ got \subseteq Plan \cup Modules
      /\ \A a \in caps : a \in open => txns[a].completed
  BY <1>1, HandleFacts DEF IInv, TypeOK, Granted
<1> QED
  BY <1>1, <1>2, SessionInv DEF RunPcs, SessionPcs

\* The credentials are set, all of the plan is put, or the transaction is found gone.
LEMMA QuietSessionInv == IInv /\ (SetsCred \/ PutAll \/ TransactionIsGone) => IInv'
<1> SUFFICES ASSUME IInv, SetsCred \/ PutAll \/ TransactionIsGone PROVE IInv'
  OBVIOUS
<1>1. /\ UNCHANGED <<script, failOn, open, txns, next, h, steps, outcome, walked, got,
                     children>>
      /\ pc \in SessionPcs
      /\ \/ pc' \in SessionPcs /\ UNCHANGED caps
         \/ pc' = "caller" /\ caps' = caps \ {h}
  BY DEF SetsCred, PutAll, TransactionIsGone, Loses, SessionStep, After, Keeps, SessionPcs
<1> QED
  BY <1>1, InSession, SessionInv

\* What start_session writes to the transaction leaves it completed.
LEMMA WritesInv ==
  ASSUME IInv, pc \in SessionPcs, pc' \in SessionPcs, NEW t \in Txns, Put(t),
         h \in open => t.completed,
         UNCHANGED <<script, failOn, open, next, h, steps, outcome, walked, caps, got, children>>
  PROVE  IInv'
<1>1. TypeOK /\ h \in Handles /\ h' = h
  BY InSession DEF IInv
<1>2. /\ txns' \in [Handles -> Txns] /\ txns'[h] = t
      /\ \A a \in Handles \ {h} : txns'[a] = txns[a]
  BY <1>1, PutTxn DEF txn
<1>3. \A a \in caps : a \in open => txns'[a].completed
  BY <1>2, InSession
<1> QED
  BY <1>1, <1>2, <1>3, InSession, SessionInv

\* Each variable of the plan is put, and the session is opened.
LEMMA PutsEnvInv == IInv /\ PutsEnv => IInv'
<1> SUFFICES ASSUME IInv, PutsEnv PROVE IInv'
  OBVIOUS
<1>1. /\ pc = "put" /\ pc' = pc /\ pc \in SessionPcs
      /\ UNCHANGED <<script, failOn, open, next, h, steps, outcome, walked, caps, got, children>>
  BY DEF PutsEnv, Keeps, SessionPcs
<1>2. txn \in Txns /\ (h \in open => txn.completed)
  BY <1>1, InSession DEF txn
<1>3. PICK v \in Plan \ txn.env : Put([txn EXCEPT !.env = @ \cup {v}])
  BY DEF PutsEnv
<1>4. PICK e \in SUBSET Plan : e = txn.env \cup {v}
  BY <1>2 DEF Txns
<1>5. Put([txn EXCEPT !.env = e])
  BY <1>3, <1>4
<1>6. [txn EXCEPT !.env = e] \in Txns /\ [txn EXCEPT !.env = e].completed = txn.completed
  BY <1>2 DEF Txns
<1> QED
  BY <1>1, <1>2, <1>5, <1>6, WritesInv

LEMMA OpensInv == IInv /\ Opens => IInv'
<1> SUFFICES ASSUME IInv, Opens PROVE IInv'
  OBVIOUS
<1>1. /\ pc = "open" /\ pc' = "getenv" /\ pc \in SessionPcs /\ pc' \in SessionPcs
      /\ Put([txn EXCEPT !.session = TRUE])
      /\ UNCHANGED <<script, failOn, open, next, h, steps, outcome, walked, caps, got, children>>
  BY DEF Opens, SessionStep, After, Keeps, SessionPcs
<1>2. txn \in Txns /\ (h \in open => txn.completed)
  BY <1>1, InSession DEF txn
<1>3. /\ [txn EXCEPT !.session = TRUE] \in Txns
      /\ [txn EXCEPT !.session = TRUE].completed = txn.completed
  BY <1>2 DEF Txns
<1> QED
  BY <1>1, <1>2, <1>3, WritesInv

\* The environment is read back.
LEMMA GetsEnvInv == IInv /\ GetsEnv => IInv'
<1> SUFFICES ASSUME IInv, GetsEnv PROVE IInv'
  OBVIOUS
<1>1. /\ pc = "getenv" /\ pc' = "fork" /\ pc \in SessionPcs /\ pc' \in SessionPcs
      /\ got' = txn.env \cup (IF txn.session THEN Modules ELSE {})
      /\ UNCHANGED <<script, failOn, open, txns, next, h, steps, outcome, walked, caps, children>>
  BY DEF GetsEnv, SessionStep, After, Keeps, SessionPcs
<1>2. got' \subseteq Plan \cup Modules
  BY <1>1, InSession DEF Txns
<1> QED
  BY <1>1, <1>2, InSession, SessionInv

\* The session starts, and the capability that paid for it is gone.
LEMMA ForksInv == IInv /\ Forks => IInv'
<1> SUFFICES ASSUME IInv, Forks PROVE IInv'
  OBVIOUS
<1>1. /\ pc = "fork" /\ pc' = "caller" /\ caps' = caps \ {h} /\ pc \in SessionPcs
      /\ children' = Append(children, [txn |-> h, env |-> got])
      /\ UNCHANGED <<script, failOn, open, txns, next, h, steps, outcome, walked, got>>
  BY DEF Forks, SessionStep, After, Keeps, SessionPcs
<1> QED
  BY <1>1, InSession, SessionInv

\* A session the caller was told of is closed, or a transaction ended.
LEMMA ClosesInv == IInv /\ (Closes \/ Ends) => IInv'
<1> SUFFICES ASSUME IInv, Closes \/ Ends PROVE IInv'
  OBVIOUS
<1>1. /\ pc = "caller" /\ pc' = pc
      /\ UNCHANGED <<script, failOn, next, h, steps, outcome, walked, caps, got, children>>
  BY DEF Closes, Ends, Keeps
<1>2. /\ txns \in [Handles -> Txns] /\ h \in Nat /\ got \subseteq Plan \cup Modules
      /\ \A a \in caps : a \in Handles /\ (a \in open => txns[a].completed)
      /\ Known \subseteq Handles
  BY DEF IInv, TypeOK, Granted, Known
<1>3. /\ open' \subseteq open /\ txns' \in [Handles -> Txns]
      /\ \A a \in caps : a \in open' => txns'[a].completed
  <2>1. CASE Closes
    <3>1. PICK a \in Known : txns' = [txns EXCEPT ![a].session = FALSE]
      BY <2>1 DEF Closes
    <3>2. txns[a] \in Txns
      BY <1>2
    <3>3. /\ [txns[a] EXCEPT !.session = FALSE] \in Txns
          /\ [txns[a] EXCEPT !.session = FALSE].completed = txns[a].completed
      BY <3>2 DEF Txns
    <3>4. open' = open
      BY <2>1 DEF Closes, Keeps
    <3> QED
      BY <1>2, <3>1, <3>3, <3>4
  <2>2. CASE Ends
    <3>1. PICK a \in Known : open' = open \ {a} /\ txns' = [txns EXCEPT ![a] = NewTxn]
      BY <2>2 DEF Ends
    <3>2. NewTxn \in Txns
      BY DEF NewTxn, Txns
    <3> QED
      BY <1>2, <3>1, <3>2
  <2> QED
    BY <2>1, <2>2
<1> QED
  BY <1>1, <1>2, <1>3, SessionInv DEF RunPcs

-------------------------------------------------------------------------------
(* The theorems about Conversation. *)

\* Every step preserves the invariant.
LEMMA NextInv == IInv /\ [Next]_vars => IInv'
<1> SUFFICES ASSUME IInv, [Next]_vars PROVE IInv'
  OBVIOUS
<1>1. CASE UNCHANGED vars
  BY <1>1 DEF vars, mockVars, IInv, TypeOK, OutcomesSoFar, Granted, Paid, WalkedSoFar,
              StepsSoFar, Endless, txn
<1>2. CASE Start \/ StopsAtTheBound \/ CallFails \/ NothingToSay
  BY <1>2, StartInv, StopsAtTheBoundInv, CallFailsInv, NothingToSayInv
<1>3. CASE PullsPrompt \/ PullsInfo \/ PullsFailed \/ PullsComplete
  BY <1>3, PullsInv, PullsFailedInv
<1>4. CASE Answers \/ Abandons \/ AsksAccount \/ Mints
  BY <1>4, AnswersInv, AbandonsInv, AsksAccountInv, MintsInv
<1>5. CASE BeginsSession \/ DropsCapability \/ SetsCred \/ PutsEnv \/ PutAll
  BY <1>5, CallerInv, QuietSessionInv, PutsEnvInv
<1>6. CASE Opens \/ TransactionIsGone \/ GetsEnv \/ Forks \/ Closes \/ Ends
  BY <1>6, OpensInv, QuietSessionInv, GetsEnvInv, ForksInv, ClosesInv
<1>7. CASE Rests
  BY <1>1, <1>7 DEF Rests
<1> QED
  BY <1>1, <1>2, <1>3, <1>4, <1>5, <1>6, <1>7 DEF Next

\* The invariant holds of every conversation.
LEMMA IInvAlways == Spec => []IInv
<1>1. Init => IInv
  BY InitInv
<1>2. IInv /\ [Next]_vars => IInv'
  BY NextInv
<1> QED
  BY <1>1, <1>2, PTL DEF Spec

\* The mock's and run's state keeps its types: an outcome is one of run's, a cursor
\* and the loop's counter count, and handles are given out one after the other.
THEOREM TypeCorrect == Spec => []TypeOK
<1>1. IInv => TypeOK
  BY DEF IInv
<1> QED
  BY <1>1, IInvAlways, PTL

\* A session, or the right to one, is of a conversation that completed on a good
\* account, and no authentication is used twice: mint_proof and capability_from,
\* whatever the script and the call that fails.
THEOREM EarnedOnceAlways == Spec => []EarnedOnce
<1>1. IInv => EarnedOnce
  BY DEF IInv, Granted, Paid, EarnedOnce
<1> QED
  BY <1>1, IInvAlways, PTL

\* Walking away ends the transaction and is reported as that; what is still open the
\* caller was told of, or it failed: run's Abandoned arm.
THEOREM NothingIsLeftBehindAlways == Spec => []NothingIsLeftBehind
<1> SUFFICES ASSUME IInv PROVE NothingIsLeftBehind
  BY IInvAlways, PTL
<1> USE DEF IInv
<1>1. \A a \in walked : Running(a) \/ outcome[a] = "Abandoned" \/ failOn = "End"
  BY DEF WalkedSoFar, Running
<1>2. \A a \in Handles : outcome[a] = "Abandoned" => a \in walked \ open
  BY DEF WalkedSoFar
<1>3. ASSUME NEW a \in open
      PROVE  Running(a) \/ a \in Known \/ outcome[a] \in {"error", "too long"}
  <2>1. a \in Handles /\ outcome[a] \in Outcomes /\ outcome[a] # "Abandoned"
    BY <1>2, <1>3 DEF TypeOK
  <2>2. outcome[a] = "none" => Running(a)
    BY <1>3 DEF OutcomesSoFar, Running, RunPcs
  <2> QED
    BY <1>3, <2>1, <2>2 DEF Outcomes, Known
<1> QED
  BY <1>1, <1>2, <1>3 DEF NothingIsLeftBehind

\* The bound stops only a script that has had as many steps and come to no verdict:
\* run's loop of max_steps.
THEOREM BoundStopsOnlyTheEndlessAlways == Spec => []BoundStopsOnlyTheEndless
<1>1. IInv => BoundStopsOnlyTheEndless
  BY DEF IInv, StepsSoFar, Endless, BoundStopsOnlyTheEndless
<1> QED
  BY <1>1, IInvAlways, PTL

-------------------------------------------------------------------------------
(* run and start_session implement LoginRight. *)

Goal == [Right!Next]_(Right!rightVars)

Rights == [a \in Handles |-> RightOf(a)]
Principals == [a \in Handles |-> IF RightOf(a) = "granted" THEN "uid" ELSE "none"]
Started == {[attempt |-> children[i].txn, uid |-> "uid"] : i \in DOMAIN children}

Stays(a) == RightOf(a)' = RightOf(a)

\* How far a conversation may get in one step without starting anything.
Moves(a) ==
  \/ Stays(a)
  \/ RightOf(a) = "unused" /\ RightOf(a)' = "asking"
  \/ RightOf(a) = "asking" /\ RightOf(a)' \in {"granted", "denied", "over"}
  \/ RightOf(a) \in {"granted", "denied"} /\ RightOf(a)' = "over"

\* Conversations that all stay where they are stutter.
LEMMA AllStay ==
  ASSUME \A a \in Handles : Stays(a), UNCHANGED children
  PROVE  Goal
<1>1. Rights' = Rights /\ Principals' = Principals /\ Started' = Started
  BY DEF Stays, Rights, Principals, Started
<1> QED
  BY <1>1 DEF Goal, Right!rightVars, Rights, Principals, Started

\* One conversation that moves on, the others staying put, is a step of LoginRight.
LEMMA MoveIsAStep ==
  ASSUME NEW a \in Handles, Moves(a), \A b \in Handles \ {a} : Stays(b),
         UNCHANGED children
  PROVE  Goal
<1> DEFINE P == Principals
           R == Rights
<1>1. Started' = Started
  BY DEF Started
<1>2. /\ R' = [R EXCEPT ![a] = RightOf(a)']
      /\ P' = [P EXCEPT ![a] = IF RightOf(a)' = "granted" THEN "uid" ELSE "none"]
      /\ R[a] = RightOf(a) /\ P = [P EXCEPT ![a] = P[a]]
      /\ P[a] = IF RightOf(a) = "granted" THEN "uid" ELSE "none"
  BY DEF Stays, Rights, Principals
<1>3. CASE Stays(a)
  BY <1>3, AllStay
<1>4. CASE RightOf(a) = "unused" /\ RightOf(a)' = "asking"
  <2>1. Right!Begin(a)
    BY <1>1, <1>2, <1>4 DEF Right!Begin, Rights, Principals, Started
  <2> QED
    BY <2>1 DEF Goal, Right!Next
<1>5. CASE RightOf(a) = "asking" /\ RightOf(a)' = "denied"
  <2>1. Right!Deny(a)
    BY <1>1, <1>2, <1>5 DEF Right!Deny, Rights, Principals, Started
  <2> QED
    BY <2>1 DEF Goal, Right!Next
<1>6. CASE RightOf(a) = "asking" /\ RightOf(a)' = "granted"
  <2>1. Right!Grant(a, "uid")
    BY <1>1, <1>2, <1>6 DEF Right!Grant, Rights, Principals, Started
  <2> QED
    BY <2>1 DEF Goal, Right!Next
<1>7. CASE RightOf(a) \in {"asking", "granted", "denied"} /\ RightOf(a)' = "over"
  <2>1. Right!Lose(a)
    BY <1>1, <1>2, <1>7 DEF Right!Lose, Rights, Principals, Started
  <2> QED
    BY <2>1 DEF Goal, Right!Next
<1> QED
  BY <1>3, <1>4, <1>5, <1>6, <1>7 DEF Moves

\* A step that starts no conversation moves only those whose outcome, transaction or
\* capability it touches.
LEMMA OthersStay ==
  ASSUME NEW b \in Handles, next' = next, outcome'[b] = outcome[b],
         b \in open <=> b \in open', b \in caps <=> b \in caps'
  PROVE  Stays(b)
BY DEF Stays, RightOf

\* A step that leaves outcomes, transactions and the capabilities alone moves nothing.
LEMMA QuietRefines ==
  ASSUME UNCHANGED <<open, next, outcome, caps, children>>
  PROVE  Goal
<1>1. \A a \in Handles : Stays(a)
  BY OthersStay
<1> QED
  BY <1>1, AllStay

\* run returns: the attempt is granted, denied or over.
LEMMA ReturnRefines ==
  ASSUME IInv, pc \in RunPcs, NEW o \in Outcomes \ {"none"}, Return(o),
         open' \in {open, open \ {h}}, caps' \in {caps, caps \cup {h}},
         UNCHANGED <<next, children>>
  PROVE  Goal
<1>1. PICK a \in Handles : a = h
  BY DEF IInv, OutcomesSoFar, RunPcs
<1>2. a < next /\ a \in Nat /\ next \in Nat /\ outcome[a] = "none"
  BY <1>1, HandleFacts DEF IInv, TypeOK, OutcomesSoFar, RunPcs
<1>3. outcome'[a] = o /\ \A b \in Handles \ {a} : outcome'[b] = outcome[b]
  BY <1>1 DEF IInv, TypeOK, Return
<1>4. RightOf(a) = "asking"
  BY <1>2 DEF RightOf
<1>5. RightOf(a)' \in {"granted", "denied", "over"}
  BY <1>2, <1>3 DEF RightOf
<1>6. \A b \in Handles \ {a} : Stays(b)
  BY <1>1, <1>3, OthersStay
<1> QED
  BY <1>4, <1>5, <1>6, MoveIsAStep DEF Moves

\* A capability that goes was its conversation's right, and nobody else's.
LEMMA Held ==
  ASSUME IInv, NEW a \in caps, caps' = caps \ {a}, UNCHANGED <<open, next, outcome>>
  PROVE  /\ a \in Handles /\ RightOf(a) = "granted" /\ RightOf(a)' = "over"
         /\ \A b \in Handles \ {a} : Stays(b)
<1>1. a \in Handles /\ outcome[a] = "Authenticated"
  BY DEF IInv, TypeOK, Granted
<1>2. a < next /\ a \in Nat /\ next \in Nat
  BY <1>1, HandleFacts DEF IInv, TypeOK, OutcomesSoFar
<1>3. RightOf(a) = "granted" /\ RightOf(a)' = "over"
  BY <1>1, <1>2 DEF RightOf
<1>4. \A b \in Handles \ {a} : Stays(b)
  BY OthersStay
<1> QED
  BY <1>1, <1>3, <1>4

\* It goes without a session: dropped, or consumed by a start that fails.
LEMMA LoseRefines ==
  ASSUME IInv, NEW a \in caps, caps' = caps \ {a},
         UNCHANGED <<open, next, outcome, children>>
  PROVE  Goal
<1>1. /\ a \in Handles /\ RightOf(a) = "granted" /\ RightOf(a)' = "over"
      /\ \A b \in Handles \ {a} : Stays(b)
  BY Held
<1> QED
  BY <1>1, MoveIsAStep DEF Moves

\* A conversation is started: its attempt is asking.
LEMMA StartRefines == IInv /\ Start => Goal
<1> SUFFICES ASSUME IInv, Start PROVE Goal
  OBVIOUS
<1>1. PICK a \in Handles : a = next
  BY ConversationAssumption DEF Start, IInv, TypeOK, Handles
<1>2. /\ a \in Nat /\ next \in Nat /\ next' = a + 1
      /\ open' = open \cup {a} /\ UNCHANGED <<outcome, caps, children>>
      /\ outcome[a] = "none"
  BY <1>1, HandleFacts DEF Start, Keeps, IInv, TypeOK, OutcomesSoFar
<1>3. RightOf(a) = "unused" /\ RightOf(a)' = "asking"
  BY <1>1, <1>2 DEF RightOf
<1>4. ASSUME NEW b \in Handles \ {a} PROVE Stays(b)
  <2>1. b >= next <=> b >= next'
    BY <1>1, <1>2, HandleFacts
  <2> QED
    BY <1>2, <2>1 DEF Stays, RightOf
<1> QED
  BY <1>2, <1>3, <1>4, MoveIsAStep DEF Moves

\* The capability buys its session.
LEMMA ForksRefines == IInv /\ Forks => Goal
<1> SUFFICES ASSUME IInv, Forks PROVE Goal
  OBVIOUS
<1> DEFINE new == [txn |-> h, env |-> got]
<1>1. /\ h \in caps /\ caps' = caps \ {h} /\ UNCHANGED <<open, next, outcome>>
      /\ children' = Append(children, new)
      /\ children \in Seq([txn : Handles, env : SUBSET (Plan \cup Modules)])
      /\ new \in [txn : Handles, env : SUBSET (Plan \cup Modules)]
  BY InSession DEF Forks, SessionStep, Keeps, SessionPcs, IInv, TypeOK
<1>2. PICK a \in Handles : a = h
  BY <1>1, InSession DEF Forks, SessionStep, SessionPcs
<1>3. /\ RightOf(a) = "granted" /\ RightOf(a)' = "over"
      /\ \A b \in Handles \ {a} : Stays(b)
  BY <1>1, <1>2, Held
<1>4. /\ DOMAIN children' = DOMAIN children \cup {Len(children) + 1}
      /\ children'[Len(children) + 1].txn = h
      /\ \A i \in DOMAIN children : children'[i] = children[i]
  <2> HIDE DEF new
  <2>1. /\ Len(children') = Len(children) + 1 /\ children'[Len(children) + 1] = new
        /\ \A i \in 1..Len(children) : children'[i] = children[i]
    BY <1>1, AppendProperties
  <2>2. DOMAIN children = 1..Len(children) /\ Len(children) \in Nat
    BY <1>1, LenProperties
  <2>3. DOMAIN children' = 1..Len(children')
    BY <1>1, AppendProperties, LenProperties
  <2> QED
    BY <2>1, <2>2, <2>3 DEF new
<1>5. Started' = Started \cup {[attempt |-> a, uid |-> "uid"]}
  BY <1>2, <1>4 DEF Started
<1>6. Rights' = [Rights EXCEPT ![a] = "over"] /\ Rights[a] = "granted"
  BY <1>3 DEF Rights, Stays
<1>7. Principals' = [Principals EXCEPT ![a] = "none"] /\ Principals[a] = "uid"
  BY <1>3 DEF Principals, Stays
<1>8. Right!Spend(a)
  BY <1>5, <1>6, <1>7 DEF Right!Spend, Rights, Principals, Started
<1> QED
  BY <1>8 DEF Goal, Right!Next

\* The caller ends a transaction it was told of: an attempt that was denied is over,
\* and a right that is held outlives its transaction.
LEMMA EndsRefines == IInv /\ Ends => Goal
<1> SUFFICES ASSUME IInv, Ends PROVE Goal
  OBVIOUS
<1>1. PICK a \in Known : open' = open \ {a}
  BY DEF Ends
<1>2. /\ a \in Handles /\ a \in Nat /\ a < next /\ next \in Nat /\ a \in open
      /\ outcome[a] \in {"Denied", "TokenChangeRequired", "Authenticated"}
      /\ UNCHANGED <<next, outcome, caps, children>>
  BY HandleFacts DEF Known, IInv, TypeOK, OutcomesSoFar, Ends, Keeps
<1>3. \/ a \in caps /\ RightOf(a) = "granted" /\ RightOf(a)' = "granted"
      \/ RightOf(a) \in {"denied", "over"} /\ RightOf(a)' = "over"
  BY <1>1, <1>2 DEF RightOf
<1>4. \A b \in Handles \ {a} : Stays(b)
  BY <1>1, <1>2, OthersStay
<1> QED
  BY <1>2, <1>3, <1>4, MoveIsAStep DEF Moves, Stays

\* A call that fails: run returns an error, start_session loses the capability it
\* was given, and no other.
LEMMA FailureRefines == IInv /\ (CallFails \/ TransactionIsGone) => Goal
<1> SUFFICES ASSUME IInv, CallFails \/ TransactionIsGone PROVE Goal
  OBVIOUS
<1>1. UNCHANGED <<open, next, children>>
  BY DEF CallFails, TransactionIsGone, Keeps
<1>2. CASE pc \in RunPcs
  <2>1. Return("error") /\ UNCHANGED caps
    BY <1>2 DEF CallFails, TransactionIsGone, RunPcs
  <2> QED
    BY <1>1, <1>2, <2>1, ReturnRefines DEF Outcomes
<1>3. CASE pc \in SessionPcs
  <2>1. h \in caps /\ caps' = caps \ {h} /\ UNCHANGED outcome
    BY <1>3, InSession DEF CallFails, TransactionIsGone, Loses, Keeps, SessionPcs
  <2> QED
    BY <1>1, <2>1, LoseRefines
<1> QED
  BY <1>2, <1>3 DEF CallFails, TransactionIsGone, CallAt, RunPcs, SessionPcs

\* What asking the account, and minting, come to.
LEMMA VerdictRefines == IInv /\ (AsksAccount \/ Mints) => Goal
<1> SUFFICES ASSUME IInv, AsksAccount \/ Mints PROVE Goal
  OBVIOUS
<1>1. UNCHANGED <<open, next, children>> /\ pc \in RunPcs
  BY DEF AsksAccount, Mints, Keeps, RunPcs
<1>2. ASSUME NEW o \in Outcomes \ {"none"}, Return(o), caps' \in {caps, caps \cup {h}}
      PROVE  Goal
  BY <1>1, <1>2, ReturnRefines
<1>3. CASE AsksAccount
  <2>1. script.acct \in Accounts /\ UNCHANGED caps
    BY <1>3, ConversationAssumption DEF IInv, TypeOK, AsksAccount, Keeps
  <2>2. CASE script.acct = "Ok"
    BY <1>1, <1>3, <2>2, QuietRefines DEF AsksAccount, Keeps
  <2>3. CASE script.acct = "NewAuthTokRequired"
    BY <1>2, <1>3, <2>1, <2>3 DEF AsksAccount, Outcomes
  <2>4. CASE script.acct \in {"AcctExpired", "PermDenied"}
    BY <1>2, <1>3, <2>1, <2>4 DEF AsksAccount, Outcomes
  <2>5. CASE script.acct = "none"
    BY <1>2, <1>3, <2>1, <2>5 DEF AsksAccount, Outcomes
  <2> QED
    BY <2>1, <2>2, <2>3, <2>4, <2>5 DEF Accounts
<1>4. CASE Mints
  <2>1. /\ Return("Authenticated") \/ Return("error")
        /\ caps' \in {caps, caps \cup {h}}
    BY <1>4 DEF Mints
  <2> QED
    BY <1>2, <2>1 DEF Outcomes
<1> QED
  BY <1>3, <1>4

\* Each step of run, start_session or their caller is one of LoginRight, or a
\* stuttering step.
LEMMA NextRefines == IInv /\ [Next]_vars => Goal
<1> SUFFICES ASSUME IInv, [Next]_vars PROVE Goal
  OBVIOUS
<1>1. CASE \/ PullsPrompt \/ PullsInfo \/ PullsComplete \/ Answers \/ BeginsSession
           \/ SetsCred \/ PutsEnv \/ PutAll \/ Opens \/ GetsEnv \/ Closes \/ Rests
           \/ UNCHANGED vars
  <2>1. UNCHANGED <<open, next, outcome, caps, children>>
    BY <1>1 DEF PullsPrompt, PullsInfo, PullsComplete, Pulls, Answers, BeginsSession,
       SetsCred, PutsEnv, PutAll, Opens, GetsEnv, SessionStep, Closes, Rests, Keeps,
       vars, mockVars
  <2> QED
    BY <2>1, QuietRefines
<1>2. CASE StopsAtTheBound \/ NothingToSay \/ PullsFailed \/ Abandons
  <2>1. /\ pc \in RunPcs /\ UNCHANGED <<next, caps, children>>
        /\ open' \in {open, open \ {h}}
        /\ \E o \in {"too long", "error", "Denied", "Abandoned"} : Return(o)
    BY <1>2 DEF StopsAtTheBound, NothingToSay, PullsFailed, Pulls, Abandons, Keeps, RunPcs
  <2> QED
    BY <2>1, ReturnRefines DEF Outcomes
<1>3. CASE DropsCapability
  BY <1>3, LoseRefines DEF DropsCapability, Keeps
<1> QED
  BY <1>1, <1>2, <1>3, StartRefines, FailureRefines, VerdictRefines, ForksRefines,
     EndsRefines DEF Next

\* The initial states map to initial states.
LEMMA InitRefines == Init => Right!Init
<1> SUFFICES ASSUME Init PROVE Right!Init
  OBVIOUS
<1>1. \A a \in Handles : RightOf(a) = "unused"
  BY HandleFacts, ConversationAssumption DEF Init, RightOf, Handles
<1>2. Started = {}
  BY DEF Init, Started
<1> QED
  BY <1>1, <1>2 DEF Right!Init, Started

\* Conversation::run and start_session over the mock keep the promise NativeSeatEnv
\* keeps, attempt by attempt: each is granted or denied once, and a grant starts one
\* session, whichever of the rights in hand the caller uses and whenever it does.
THEOREM Refinement == Spec => RunImplementsLoginRight
<1>1. Init => Right!Init
  BY InitRefines
<1>2. IInv /\ [Next]_vars => [Right!Next]_(Right!rightVars)
  BY NextRefines DEF Goal
<1> QED
  BY <1>1, <1>2, IInvAlways, PTL DEF Spec, RunImplementsLoginRight, Right!Spec

-------------------------------------------------------------------------------
(* The theorems about Surface. *)

\* "A loop may CLOSE a session and may never OPEN one": diff hands a loop no
\* drift that Key::drivable forbids it, so none opens a session or names an owner.
THEOREM ActionsAreDrivable ==
  ASSUME NEW want \in Surfaces, NEW have \in Surfaces,
         NEW k \in Actionable(want, have)
  PROVE  k \in Keys /\ want[k] \in Drivable[k]
<1>1. PICK keys \in SUBSET Keys : want \in Over(keys)
  BY DEF Surfaces
<1>2. k \in keys /\ want[k] \in Values[k] /\ Closeable(want, k)
  BY <1>1 DEF Actionable, Drifts, Over
<1>3. CASE k = "LoginsEnabled"
  BY <1>2, <1>3 DEF Values, Drivable, Keys
<1>4. CASE k = "SessionOpen" /\ ~want[k]
  <2>1. want[k] = FALSE
    BY <1>2, <1>4 DEF Values
  <2> QED
    BY <2>1, <1>4 DEF Drivable, Keys
<1> QED
  BY <1>2, <1>3, <1>4 DEF Closeable

\* What cannot be read is never converged: with the observe there is, a
\* declaration that sessions be closed, or logins be on or off, is acted on at
\* every pass, whatever the world has become.
THEOREM UnreadNeverConverges ==
  ASSUME NEW want \in Surfaces,
         NEW k \in DOMAIN want, Closeable(want, k)
  PROVE  k \in Actionable(want, Observed) /\ ~IsConverged(want, Observed)
<1>1. DOMAIN Observed = {}
  BY DEF Observed
<1>2. k \in Actionable(want, Observed)
  BY <1>1 DEF Actionable, Drifts
<1> QED
  BY <1>2 DEF IsConverged

\* "NeedsHuman drifts do NOT block convergence": one that asks for a session, or
\* for an owner, and nothing else, counts as converged in every world.
THEOREM WaitingIsConverged ==
  ASSUME NEW want \in Surfaces, NEW have \in Surfaces, DOMAIN want # {},
         \A k \in DOMAIN want : k = "SessionOwner" \/ (k = "SessionOpen" /\ want[k])
  PROVE  IsConverged(want, have)
<1>1. ASSUME NEW k \in Actionable(want, have) PROVE FALSE
  BY <1>1 DEF Actionable, Drifts, Closeable
<1> QED
  BY <1>1 DEF IsConverged
===============================================================================
