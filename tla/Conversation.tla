------------------------------ MODULE Conversation ------------------------------
(***************************************************************************)
(* Conversation::run and start_session over MockSeatEnv, as the tests of   *)
(* mukae-spec drive them: mukae-spec/src/conversation.rs, mock.rs,         *)
(* session.rs.                                                             *)
(*                                                                         *)
(* One action per call of the environment.  A run and a start_session      *)
(* borrow it mutably, so they follow one another; a capability borrows     *)
(* nothing, so a caller may hold those of several conversations, run       *)
(* another meanwhile, and start a session with any.  A script is what PAM  *)
(* asks, and failOn the call that was told to fail, always; the log of the *)
(* calls is left out.  Outcome::Authenticated does not name its            *)
(* transaction; the caller is taken to know it, as the tests do.           *)
(***************************************************************************)
EXTENDS Naturals, Sequences

CONSTANTS
  Scripts,     \* what PAM may ask, and its account verdict
  Failures,    \* the call that fails, or none
  Plan,        \* the variables a session plan sets
  Modules,     \* those the session modules contribute
  MaxSteps,    \* the bound the caller gives run
  MaxTxn       \* how many conversations a caller has

\* PamStep and AcctVerdict; a script may have no account verdict.
StepKinds == {"prompt", "info", "failed", "complete"}
Accounts == {"Ok", "NewAuthTokRequired", "AcctExpired", "PermDenied", "none"}

ASSUME ConversationAssumption ==
  /\ \A s \in Scripts : s.steps \in Seq(StepKinds) /\ s.acct \in Accounts
  /\ MaxSteps \in Nat /\ MaxTxn \in Nat

VARIABLES
  script, failOn,         \* MockSeatEnv's script and fail_on
  open, txns, next,       \* its transactions
  pc, h, steps,           \* run or start_session: where, its handle, the loop's counter
  outcome,                \* what each run returned
  walked,                 \* the conversations a human walked away from
  caps,                   \* the conversations whose capability is held
  got, children           \* the environment read, the sessions in order

mockVars == <<script, failOn, open, txns, next>>
vars == <<mockVars, pc, h, steps, outcome, walked, caps, got, children>>

Handles == 1..MaxTxn
NewTxn == [cursor |-> 0, completed |-> FALSE, awaiting |-> FALSE,
           env |-> {}, session |-> FALSE]

\* The transaction being driven.
txn == txns[h]

Init ==
  /\ script \in Scripts /\ failOn \in Failures
  /\ open = {} /\ txns = [a \in Handles |-> NewTxn] /\ next = 1
  /\ pc = "caller" /\ h = 0 /\ steps = 0
  /\ outcome = [a \in Handles |-> "none"] /\ walked = {}
  /\ caps = {} /\ got = {} /\ children = <<>>

-------------------------------------------------------------------------------
(* MockSeatEnv. *)

\* record: the call is not the one that was told to fail.
Record(call) == failOn # call
Put(t) == txns' = [txns EXCEPT ![h] = t]
Keeps(vs) == UNCHANGED <<script, failOn, vs>>

\* The call each step of run and start_session makes.
CallAt == [next |-> "Next", answer |-> "Answer", end |-> "End", acct |-> "AcctMgmt",
           mint |-> "MintProof", setcred |-> "SetCred", put |-> "PutEnv",
           open |-> "OpenSession", getenv |-> "GetEnvList", fork |-> "Fork"]

Step == script.steps[txn.cursor + 1]

-------------------------------------------------------------------------------
(* Conversation::run. *)

\* run returns.
Return(o) == pc' = "caller" /\ outcome' = [outcome EXCEPT ![h] = o]

Start ==
  /\ pc = "caller" /\ next <= MaxTxn
  /\ Record("Start")
  /\ h' = next /\ next' = next + 1 /\ open' = open \cup {next}
  /\ txns' = [txns EXCEPT ![next] = NewTxn]
  /\ pc' = "next" /\ steps' = 0
  /\ Keeps(<<outcome, walked, caps, got, children>>)

TooLongByOne == steps + 1 >= MaxSteps
TooLong == steps + 1 > MaxSteps

StopsAtTheBound ==
  /\ pc = "next" /\ TooLong
  /\ Return("too long")
  /\ Keeps(<<open, txns, next, h, steps, walked, caps, got, children>>)

\* start_session returns an error: the capability is consumed.
Loses == pc' = "caller" /\ caps' = caps \ {h}

\* `?`, on the call that was told to fail.
CallFails ==
  /\ pc \in DOMAIN CallAt /\ CallAt[pc] = failOn
  /\ pc = "next" => ~TooLong
  /\ pc = "put" => ~(Plan \subseteq txn.env)
  /\ IF pc \in {"next", "answer", "end", "acct", "mint"}
     THEN Return("error") /\ UNCHANGED caps
     ELSE Loses /\ UNCHANGED outcome
  /\ Keeps(<<open, txns, next, h, steps, walked, got, children>>)

\* "script exhausted".
NothingToSay ==
  /\ pc = "next" /\ ~TooLong /\ Record("Next")
  /\ txn.cursor = Len(script.steps)
  /\ Return("error")
  /\ Keeps(<<open, txns, next, h, steps, walked, caps, got, children>>)

\* pam_next, up to what the arms of run do with it.
Pulls(step) ==
  /\ pc = "next" /\ ~TooLong /\ Record("Next")
  /\ txn.cursor < Len(script.steps) /\ Step = step
  /\ Put([txn EXCEPT !.cursor = @ + 1, !.awaiting = @ \/ step = "prompt",
                     !.completed = @ \/ step = "complete"])
  /\ steps' = steps + 1
  /\ Keeps(<<open, next, h, caps, got, children>>)

\* The human answers, or walks away.
PullsPrompt ==
  /\ Pulls("prompt")
  /\ \/ pc' = "answer" /\ UNCHANGED walked
     \/ pc' = "end" /\ walked' = walked \cup {h}
  /\ UNCHANGED outcome

\* The face is told, and whatever it says to that is dropped.
PullsInfo == Pulls("info") /\ UNCHANGED <<pc, outcome, walked>>
PullsFailed == Pulls("failed") /\ Return("Denied") /\ UNCHANGED walked
PullsComplete == Pulls("complete") /\ pc' = "acct" /\ UNCHANGED <<outcome, walked>>

Answers ==
  /\ pc = "answer" /\ Record("Answer")
  /\ Put([txn EXCEPT !.awaiting = FALSE]) /\ pc' = "next"
  /\ Keeps(<<open, next, h, steps, outcome, walked, caps, got, children>>)

AbandonsOpen ==
  /\ pc = "end" /\ Record("End")
  /\ Return("Abandoned")
  /\ Keeps(<<open, txns, next, h, steps, walked, caps, got, children>>)

Abandons ==
  /\ pc = "end" /\ Record("End")
  /\ open' = open \ {h} /\ Put(NewTxn)
  /\ Return("Abandoned")
  /\ Keeps(<<next, h, steps, walked, caps, got, children>>)

AccountIsAFormality ==
  /\ pc = "acct" /\ Record("AcctMgmt")
  /\ IF script.acct = "PermDenied" THEN Return("Denied")
     ELSE pc' = "mint" /\ UNCHANGED outcome
  /\ Keeps(<<open, txns, next, h, steps, walked, caps, got, children>>)

\* pam_acct_mgmt; a script without a verdict is an error.
AsksAccount ==
  /\ pc = "acct" /\ Record("AcctMgmt")
  /\ CASE script.acct = "Ok" -> pc' = "mint" /\ UNCHANGED outcome
       [] script.acct = "NewAuthTokRequired" -> Return("TokenChangeRequired")
       [] script.acct \in {"AcctExpired", "PermDenied"} -> Return("Denied")
       [] script.acct = "none" -> Return("error")
  /\ Keeps(<<open, txns, next, h, steps, walked, caps, got, children>>)

\* mint_proof, which refuses an unfinished conversation, and capability_from.
Mints ==
  /\ pc = "mint" /\ Record("MintProof")
  /\ IF txn.completed THEN Return("Authenticated") /\ caps' = caps \cup {h}
                      ELSE Return("error") /\ UNCHANGED caps
  /\ Keeps(<<open, txns, next, h, steps, walked, got, children>>)

-------------------------------------------------------------------------------
(* start_session, and the caller around it. *)

\* The order start_session calls the environment in.
After == [setcred |-> "put", put |-> "open", open |-> "getenv", getenv |-> "fork",
          fork |-> "caller"]

SessionStep(at) ==
  /\ pc = at /\ Record(CallAt[at]) /\ pc' = After[at]
  /\ Keeps(<<open, next, h, steps, outcome, walked>>)

BeginsWithTheLast ==
  /\ pc = "caller" /\ caps # {}
  /\ pc' = "setcred" /\ h' = next - 1
  /\ Keeps(<<open, txns, next, steps, outcome, walked, caps, got, children>>)

\* With any capability held, the handle in it is what start_session drives.
BeginsSession ==
  /\ pc = "caller" /\ h' \in caps
  /\ pc' = "setcred"
  /\ Keeps(<<open, txns, next, steps, outcome, walked, caps, got, children>>)

DropsCapability ==
  /\ pc = "caller"
  /\ \E a \in caps : caps' = caps \ {a}
  /\ Keeps(<<open, txns, next, h, pc, steps, outcome, walked, got, children>>)

\* pam_setcred does not look at the transaction.
SetsCred ==
  /\ SessionStep("setcred")
  /\ UNCHANGED <<txns, caps, got, children>>

PutsEnv ==
  /\ pc = "put" /\ h \in open /\ Record("PutEnv")
  /\ \E v \in Plan \ txn.env : Put([txn EXCEPT !.env = @ \cup {v}])
  /\ Keeps(<<open, next, h, pc, steps, outcome, walked, caps, got, children>>)

PutAll ==
  /\ pc = "put" /\ Plan \subseteq txn.env
  /\ pc' = After["put"]
  /\ Keeps(<<open, txns, next, h, steps, outcome, walked, caps, got, children>>)

Opens ==
  /\ h \in open /\ SessionStep("open") /\ Put([txn EXCEPT !.session = TRUE])
  /\ UNCHANGED <<caps, got, children>>

\* NoSuchHandle: the caller ended the transaction before it used the capability.
TransactionIsGone ==
  /\ h \notin open
  /\ \/ pc = "put" /\ ~(Plan \subseteq txn.env) /\ Record("PutEnv")
     \/ pc = "open" /\ Record("OpenSession")
  /\ Loses
  /\ Keeps(<<open, txns, next, h, steps, outcome, walked, got, children>>)

\* pam_getenvlist: what the session modules add is there once it is open.
GetsEnv ==
  /\ SessionStep("getenv")
  /\ got' = txn.env \cup (IF txn.session THEN Modules ELSE {})
  /\ UNCHANGED <<txns, caps, children>>

ForksAndKeeps ==
  /\ SessionStep("fork")
  /\ children' = Append(children, [txn |-> h, env |-> got])
  /\ UNCHANGED <<txns, caps, got>>

\* The capability is consumed; that it is before the first call is of no effect.
Forks ==
  /\ SessionStep("fork")
  /\ children' = Append(children, [txn |-> h, env |-> got])
  /\ caps' = caps \ {h} /\ UNCHANGED <<txns, got>>

\* pam_close_session and pam_end of any transaction the caller was told of: a
\* denial, a token change or a success, whether its capability is still held or
\* not; an error tells it of none.
Known == {a \in open : outcome[a] \in {"Denied", "TokenChangeRequired", "Authenticated"}}

Closes ==
  /\ pc = "caller" /\ Record("CloseSession")
  /\ \E a \in Known : txns[a].session /\ txns' = [txns EXCEPT ![a].session = FALSE]
  /\ Keeps(<<open, next, h, pc, steps, outcome, walked, caps, got, children>>)

Ends ==
  /\ pc = "caller" /\ Record("End")
  /\ \E a \in Known : open' = open \ {a} /\ txns' = [txns EXCEPT ![a] = NewTxn]
  /\ Keeps(<<next, h, pc, steps, outcome, walked, caps, got, children>>)

\* The caller has had its conversations, or cannot start one.
Rests ==
  /\ pc = "caller" /\ caps = {} /\ (next > MaxTxn \/ failOn = "Start")
  /\ UNCHANGED vars

Next ==
  \/ Start \/ StopsAtTheBound \/ CallFails \/ NothingToSay
  \/ PullsPrompt \/ PullsInfo \/ PullsFailed \/ PullsComplete \/ Answers \/ Abandons
  \/ AsksAccount \/ Mints
  \/ BeginsSession \/ DropsCapability
  \/ SetsCred \/ PutsEnv \/ PutAll \/ Opens \/ TransactionIsGone \/ GetsEnv \/ Forks
  \/ Closes \/ Ends \/ Rests

Spec == Init /\ [][Next]_vars

-------------------------------------------------------------------------------
(* Properties. *)

Running(a) == a = h /\ pc # "caller"

\* "Start a session that was never authenticated", "reuse one authentication":
\* a session, or the right to one, is of a conversation that completed, on an
\* account that was asked and is good.  None has two sessions, or one and a right
\* to another, in whatever order a caller used the rights it had collected.
EarnedOnce ==
  /\ \A a \in caps : outcome[a] = "Authenticated" /\ (a \in open => txns[a].completed)
  /\ caps # {} \/ children # <<>> => script.acct = "Ok"
  /\ \A i \in DOMAIN children :
       /\ outcome[children[i].txn] = "Authenticated" /\ children[i].txn \notin caps
       /\ \A j \in DOMAIN children : children[i].txn = children[j].txn => i = j

\* "NOT a denial, NOT a retry": walking away ends the transaction and is neither.
\* A transaction left open is one the caller was told of, or one of an error.
NothingIsLeftBehind ==
  /\ \A a \in walked : Running(a) \/ outcome[a] = "Abandoned" \/ failOn = "End"
  /\ \A a \in Handles : outcome[a] = "Abandoned" => a \in walked \ open
  /\ \A a \in open : Running(a) \/ a \in Known \/ outcome[a] \in {"error", "too long"}

\* "Bounded by max_steps": the bound stops only what has had max_steps steps and
\* come to no verdict in them.
BoundStopsOnlyTheEndless ==
  \A a \in Handles : outcome[a] = "too long" =>
     /\ Len(script.steps) >= MaxSteps
     /\ \A i \in 1..MaxSteps : script.steps[i] \in {"prompt", "info"}

\* How far a conversation has got towards a session, outcome by outcome.
RightOf(a) ==
  IF a >= next THEN "unused"
  ELSE IF outcome[a] = "none" THEN "asking"
  ELSE IF a \in caps THEN "granted"
  ELSE IF a \in open /\ outcome[a] \in {"Denied", "TokenChangeRequired"} THEN "denied"
  ELSE "over"

\* Who the script's uid is does not matter: a mock has one script.
Right == INSTANCE LoginRight WITH
  Attempts <- Handles,
  Uids <- {"uid"},
  None <- "none",
  right <- [a \in Handles |-> RightOf(a)],
  principal <- [a \in Handles |-> IF RightOf(a) = "granted" THEN "uid" ELSE "none"],
  started <- {[attempt |-> children[i].txn, uid |-> "uid"] : i \in DOMAIN children}

\* "The capability is consumed either way", "a denial is a fact": run and
\* start_session over the mock keep the promise NativeSeatEnv keeps, attempt by
\* attempt, for a caller that holds one right while it earns or spends another.
RunImplementsLoginRight == Right!Spec
===============================================================================
