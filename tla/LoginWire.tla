------------------------------- MODULE LoginWire -------------------------------
(***************************************************************************)
(* One login over mukaed's socket (mukae-seat/src/ipc.rs): serve_observed  *)
(* in the daemon, greeter_side on the greeter's worker thread, and the     *)
(* face of Bridge, in two processes either of which may be killed.         *)
(*                                                                         *)
(* The SeatEnv the daemon serves is the script of what its pam_next asks:  *)
(* NativeSeatEnv asks EchoOn, then EchoOff.  An answer to an EchoOff       *)
(* prompt may refuse the login or fail (the shadow file was unreadable).   *)
(* frames are Frame values; a killed process is a closed socket end.       *)
(***************************************************************************)
EXTENDS Bridge

CONSTANT Scripts      \* the conversations an environment may want

ASSUME WireAssumption ==
  \A s \in Scripts : s \in Seq(Styles \cup {"info"}) /\ Len(s) <= MaxPrompts

VARIABLES
  wpc, wask,                 \* the worker: where it is, the prompt it is asking
  toGreeter, toDaemon,       \* the two directions of the socket
  gOpen, dOpen,              \* whether each process still has its end open
  dpc, result,               \* serve_observed: where it is, what it returned
  script, at, decided,       \* the daemon's environment
  failures, successes,       \* LoginFlow, the daemon's copy
  heard                      \* the answers the environment was given

workerVars == <<wpc, wask>>
wireVars == <<toGreeter, toDaemon, gOpen, dOpen>>
daemonVars == <<dpc, result, script, at, decided, failures, successes, heard>>
vars == <<bridgeVars, workerVars, wireVars, daemonVars>>

PromptFrame(style, i) == [kind |-> "prompt", style |-> style, id |-> i]
InfoFrame == [kind |-> "info", style |-> "none", id |-> 0]
Outcome(ok) == [kind |-> IF ok THEN "ok" ELSE "no", style |-> "none", id |-> 0]
Answer(r) == [kind |-> "answer", reply |-> r]
Cancel == [kind |-> "cancel", reply |-> NoReply]

Init ==
  /\ BridgeInit
  /\ wpc = "recv" /\ wask = NoStep
  /\ toGreeter = <<>> /\ toDaemon = <<>> /\ gOpen = TRUE /\ dOpen = TRUE
  /\ dpc = "next" /\ result = "none yet"
  /\ script \in Scripts /\ at = 1 /\ decided = "open"
  /\ failures = 0 /\ successes = 0 /\ heard = {}

-------------------------------------------------------------------------------
(* greeter_side: the worker thread of the greeter. *)

\* Frames written to a closed socket are lost, and the writer learns of it.
ToDaemon(frame) == toDaemon' = IF dOpen THEN Append(toDaemon, frame) ELSE toDaemon

\* ConvSide::finish: blocked until the face takes the last step, or has left.
Finish(kind) == offer' = Plain(kind) /\ wpc' = "finishing"

WorkerReadsPrompt ==
  /\ wpc = "recv" /\ toGreeter # <<>> /\ Head(toGreeter).kind = "prompt"
  /\ toGreeter' = Tail(toGreeter)
  /\ wask' = Prompt(Head(toGreeter).style, Head(toGreeter).id)
  /\ offer' = wask' /\ wpc' = "asking"
  /\ UNCHANGED <<reply, gone, faceVars, toDaemon, gOpen, dOpen, daemonVars>>

InfoIsAnswered ==
  /\ wpc = "recv" /\ toGreeter # <<>> /\ Head(toGreeter).kind = "info"
  /\ toGreeter' = Tail(toGreeter)
  /\ offer' = Plain("info") /\ wpc' = "telling"
  /\ ToDaemon(Answer(NoReply))
  /\ UNCHANGED <<reply, gone, faceVars, wask, gOpen, dOpen, daemonVars>>

WorkerReadsInfo ==
  /\ wpc = "recv" /\ toGreeter # <<>> /\ Head(toGreeter).kind = "info"
  /\ toGreeter' = Tail(toGreeter)
  /\ offer' = Plain("info") /\ wpc' = "telling"
  /\ UNCHANGED <<reply, gone, faceVars, wask, toDaemon, gOpen, dOpen, daemonVars>>

OutcomeStep(kind) == IF kind = "ok" THEN "complete" ELSE "failed"

WorkerReadsOutcome ==
  /\ wpc = "recv" /\ toGreeter # <<>> /\ Head(toGreeter).kind \in {"ok", "no"}
  /\ toGreeter' = Tail(toGreeter)
  /\ Finish(OutcomeStep(Head(toGreeter).kind))
  /\ UNCHANGED <<reply, gone, faceVars, wask, toDaemon, gOpen, dOpen, daemonVars>>

EofIsNothingYet ==
  /\ wpc = "recv" /\ toGreeter = <<>> /\ ~dOpen
  /\ UNCHANGED <<bridgeVars, workerVars, wireVars, daemonVars>>

\* The daemon went away: the face must be told.
WorkerReadsEof ==
  /\ wpc = "recv" /\ toGreeter = <<>> /\ ~dOpen
  /\ Finish("failed")
  /\ UNCHANGED <<reply, gone, faceVars, wask, wireVars, daemonVars>>

\* A rendezvous took place: the face took the prompt, or the message.
WorkerIsHeard ==
  /\ wpc \in {"asking", "telling"} /\ offer = NoStep
  /\ wpc' = IF wpc = "asking" THEN "awaiting" ELSE "recv"
  /\ UNCHANGED <<bridgeVars, wask, wireVars, daemonVars>>

\* ask fails once the face has dropped its ends; a failed tell is ignored.
WorkerAskFails ==
  /\ FaceGone
  /\ \/ wpc = "asking" /\ offer # NoStep
     \/ wpc = "awaiting" /\ reply = NoReply
  /\ ToDaemon(Cancel)
  /\ Finish("failed")
  /\ UNCHANGED <<reply, gone, faceVars, wask, toGreeter, gOpen, dOpen, daemonVars>>

WorkerTellFails ==
  /\ FaceGone /\ wpc = "telling" /\ offer # NoStep
  /\ offer' = NoStep /\ wpc' = "recv"
  /\ UNCHANGED <<reply, gone, faceVars, wask, wireVars, daemonVars>>

\* The answer goes to the daemon, unless it is a secret nobody asked for or
\* the daemon is no longer there to read it.
WorkerTakesAnswer ==
  /\ wpc = "awaiting" /\ reply # NoReply
  /\ reply' = NoReply
  /\ LET rightKind == reply.secret => wask.style = "EchoOff" IN
       /\ ToDaemon(IF rightKind THEN Answer(reply) ELSE Cancel)
       /\ IF rightKind /\ dOpen THEN wpc' = "recv" /\ UNCHANGED offer
                               ELSE Finish("failed")
  /\ UNCHANGED <<gone, faceVars, wask, toGreeter, gOpen, dOpen, daemonVars>>

\* The last step was taken, or there is nobody to take it: the worker returns,
\* and its socket end and channel ends go with it.
WorkerReturns ==
  /\ wpc = "finishing" /\ (offer = NoStep \/ FaceGone)
  /\ offer' = NoStep /\ wpc' = "returned" /\ gone' = TRUE /\ gOpen' = FALSE
  /\ UNCHANGED <<reply, faceVars, wask, toGreeter, toDaemon, dOpen, daemonVars>>

WorkerStep ==
  \/ WorkerReadsPrompt \/ WorkerReadsInfo \/ WorkerReadsOutcome \/ WorkerReadsEof
  \/ WorkerIsHeard \/ WorkerAskFails \/ WorkerTellFails \/ WorkerTakesAnswer
  \/ WorkerReturns

\* The greeter process ends: main returns once the face has quit, or it is
\* killed; the worker thread and the socket end go with it.
GreeterEnds ==
  /\ fpc' = "exited" /\ wpc' = "returned" /\ gone' = TRUE /\ gOpen' = FALSE
  /\ offer' = NoStep /\ reply' = NoReply
  /\ UNCHANGED <<awaiting, verdict, focus, fields, shown, wask, toGreeter, toDaemon,
                 dOpen, daemonVars>>

GreeterExits == fpc = "dropped" /\ GreeterEnds
GreeterKilled == fpc # "exited" /\ GreeterEnds

-------------------------------------------------------------------------------
(* serve_observed: the daemon. *)

PromptsUpTo(n) == Cardinality({i \in 1..n : script[i] \in Styles})

\* serve_observed returns; on an error mukaed itself is over, and its end of
\* the socket with it.
Return(r) ==
  /\ dpc' = "returned" /\ result' = r
  /\ dOpen' = (r # "error")

\* Send a frame and go on with then, or return the error of the failed write.
SendOr(frame, then) ==
  IF gOpen THEN toGreeter' = Append(toGreeter, frame) /\ then
           ELSE UNCHANGED toGreeter /\ Return("error")

Goto(pc) == dpc' = pc /\ UNCHANGED <<result, dOpen>>

Asks == dpc = "next" /\ decided = "open" /\ at <= Len(script)

DaemonPrompts ==
  /\ Asks /\ script[at] \in Styles
  /\ SendOr(PromptFrame(script[at], PromptsUpTo(at)), Goto("recv"))
  /\ UNCHANGED <<bridgeVars, workerVars, toDaemon, gOpen,
                 script, at, decided, failures, successes, heard>>

DaemonInforms ==
  /\ Asks /\ script[at] = "info"
  /\ SendOr(InfoFrame, Goto("next"))
  /\ at' = at + 1
  /\ UNCHANGED <<bridgeVars, workerVars, toDaemon, gOpen,
                 script, decided, failures, successes, heard>>

DaemonAccepts ==
  /\ dpc = "next" /\ decided = "open" /\ at > Len(script)
  /\ decided' = "Complete" /\ successes' = successes + 1
  /\ SendOr(Outcome(TRUE), Return("some"))
  /\ UNCHANGED <<bridgeVars, workerVars, toDaemon, gOpen, script, at, failures, heard>>

DaemonRefuses ==
  /\ dpc = "next" /\ decided = "Failed"
  /\ failures' = failures + 1
  /\ SendOr(Outcome(FALSE), Return("none"))
  /\ UNCHANGED <<bridgeVars, workerVars, toDaemon, gOpen,
                 script, at, decided, successes, heard>>

\* pam_answer: the transaction goes on, refuses, or reports an error.
DaemonHears ==
  /\ dpc = "recv" /\ toDaemon # <<>> /\ Head(toDaemon).kind = "answer"
  /\ toDaemon' = Tail(toDaemon)
  /\ heard' = heard \cup {[prompt |-> PromptsUpTo(at), style |-> script[at],
                          reply |-> Head(toDaemon).reply]}
  /\ at' = at + 1
  /\ \/ Goto("next") /\ UNCHANGED decided
     \/ script[at] = "EchoOff" /\ Goto("next") /\ decided' = "Failed"
     \/ script[at] = "EchoOff" /\ Return("error") /\ UNCHANGED decided
  /\ UNCHANGED <<bridgeVars, workerVars, toGreeter, gOpen, script, failures, successes>>

CancelIsAFailure ==
  /\ dpc = "recv" /\ toDaemon # <<>> /\ Head(toDaemon).kind = "cancel"
  /\ toDaemon' = Tail(toDaemon)
  /\ failures' = failures + 1
  /\ Return("none")
  /\ UNCHANGED <<bridgeVars, workerVars, toGreeter, gOpen,
                 script, at, decided, successes, heard>>

DaemonHearsCancel ==
  /\ dpc = "recv" /\ toDaemon # <<>> /\ Head(toDaemon).kind = "cancel"
  /\ toDaemon' = Tail(toDaemon)
  /\ Return("none")
  /\ UNCHANGED <<bridgeVars, workerVars, toGreeter, gOpen,
                 script, at, decided, failures, successes, heard>>

\* greeter_login dropped its own copy of the greeter's end before serving.
PeerStaysOpen == FALSE
PeerClosed == ~gOpen

DaemonReadsEof ==
  /\ dpc = "recv" /\ toDaemon = <<>> /\ PeerClosed
  /\ Return("error")
  /\ UNCHANGED <<bridgeVars, workerVars, toGreeter, toDaemon, gOpen,
                 script, at, decided, failures, successes, heard>>

DaemonStep ==
  \/ DaemonPrompts \/ DaemonInforms \/ DaemonAccepts \/ DaemonRefuses
  \/ DaemonHears \/ DaemonHearsCancel \/ DaemonReadsEof

DaemonKilled ==
  /\ dpc \in {"next", "recv"}
  /\ dpc' = "dead" /\ dOpen' = FALSE
  /\ UNCHANGED <<bridgeVars, workerVars, toGreeter, toDaemon, gOpen, result,
                 script, at, decided, failures, successes, heard>>

-------------------------------------------------------------------------------
FaceActs(action) == action /\ UNCHANGED <<workerVars, wireVars, daemonVars>>

\* Both processes are done with the conversation: nothing is left to do.
Over ==
  /\ fpc = "exited" /\ dpc \in {"returned", "dead"}
  /\ UNCHANGED vars

Next ==
  \/ FaceActs(FaceStep) \/ FaceActs(Unowed)
  \/ WorkerStep \/ GreeterExits \/ GreeterKilled
  \/ DaemonStep \/ DaemonKilled
  \/ Over

\* The threads run; nobody owes a keystroke, or a kill.
Fairness ==
  /\ WF_vars(FaceActs(FaceStep)) /\ WF_vars(WorkerStep) /\ WF_vars(GreeterExits)
  /\ WF_vars(DaemonStep)

Spec == Init /\ [][Next]_vars /\ Fairness

-------------------------------------------------------------------------------
(* Properties. *)

FaceOver == fpc \in {"quit", "dropped", "exited"}

\* "The password reaching pam_authenticate is the one the person typed for
\* that prompt": an answer is consumed at the prompt it was submitted at, and
\* a secret one only at a prompt that asked for a secret; an answer to a visible
\* prompt holds nothing typed at an earlier one (Session::submit clears the
\* visible field too).
AnswersReachTheirPrompt ==
  \A x \in heard :
    /\ x.reply.for = x.prompt /\ x.reply.secret = (x.style = "EchoOff")
    /\ x.style = "EchoOn" => x.reply.typed \subseteq {x.prompt}

\* The doc's sentence for every answer: what was typed was typed for that
\* prompt, the masked field included.
AnswersWereTypedForTheirPrompt ==
  \A x \in heard : x.reply.typed \subseteq {x.prompt}

\* The two processes agree on how a login ended.  The face never says
\* Authenticated of a login the daemon did not accept, no login is counted twice,
\* and one the person left with Escape is "not a failure and must never be counted
\* as one": the daemon's counters stay as they were.
VerdictsAgree ==
  /\ verdict = "Authenticated" => decided = "Complete" /\ successes = 1
  /\ failures + successes <= 1
  /\ verdict = "Abandoned" => failures = 0 /\ successes = 0

\* The daemon is gone and the worker is not held up by the person: "the face
\* must be told rather than left waiting" of a daemon that went away.
DiedUnasked == dpc = "dead" /\ toGreeter = <<>> /\ wpc \notin {"asking", "awaiting"}

\* Whichever way serve_observed ends, a SIGKILL included, the face stops waiting:
\* its worker tells it, no timeout is counted on (while a prompt is on screen, only
\* once it has been answered).
FaceLearnsOfTheEnd == (dpc = "returned" \/ DiedUnasked) ~> FaceOver

\* Whichever way the greeter goes, serve_observed does not wait for it forever.
DaemonOutlivesTheGreeter == (fpc = "exited") ~> (dpc \in {"returned", "dead"})
===============================================================================
