--------------------------------- MODULE Greetd ---------------------------------
(***************************************************************************)
(* The greetd transport (mukae-greetd/src/lib.rs): the worker that speaks  *)
(* greetd's request/response protocol on one side and holds the ConvSide   *)
(* of Bridge on the other, inside the greeter process.                     *)
(*                                                                         *)
(* greetd is external, and is as the transport uses it: a session it has   *)
(* been asked to create must be cancelled before another can be, every     *)
(* auth message waits for a response, and StartSession schedules a session *)
(* that is ready.  It may answer with an error, or die, at any request.    *)
(***************************************************************************)
EXTENDS Bridge

VARIABLES
  wpc, wask, resp,        \* the worker: where, the prompt it asks, last response
  toGreetd, toWorker,     \* the two directions of the socket
  up,                     \* greetd has its end of the socket open
  gsession, gasked,       \* greetd: its session, the auth message it waits on
  told,                   \* how many auth messages it sent
  heard                   \* the responses it got, with what it had asked

workerVars == <<wpc, wask, resp>>
socketVars == <<toGreetd, toWorker, up>>
greetdVars == <<gsession, gasked, told, heard>>
vars == <<bridgeVars, workerVars, socketVars, greetdVars>>

\* auth_message_type: secret and visible want an answer, the others do not.
MessageTypes == {"secret", "visible", "error", "info"}

Request(kind) == [kind |-> kind, reply |-> NoReply]
Null == Request("respond")
Response(kind) == [kind |-> kind, id |-> 0]
NoMessage == Response("none")

Init ==
  /\ BridgeInit
  /\ wpc = "begin" /\ wask = NoStep /\ resp = NoMessage
  /\ toGreetd = <<>> /\ toWorker = <<>> /\ up = TRUE
  /\ gsession = "none" /\ gasked = NoMessage /\ told = 0 /\ heard = {}

-------------------------------------------------------------------------------
(* The worker: run. *)

Finish(kind) == offer' = Plain(kind) /\ wpc' = "finishing"

\* fail: CancelSession if the socket still takes it, then Failed.
Send(request) == toGreetd' = IF up THEN Append(toGreetd, request) ELSE toGreetd
Fail == Send(Request("cancel")) /\ Finish("failed")

\* Send a request and read the response to it next, or fail.
SendOrFail(request, then) ==
  IF up THEN Send(request) /\ wpc' = then /\ UNCHANGED offer ELSE Fail

Ask(style, id) ==
  wask' = Prompt(style, id) /\ offer' = wask' /\ wpc' = "asking"

\* The synthetic prompt for the name, before greetd is spoken to at all.
AskName ==
  /\ wpc = "begin"
  /\ Ask("EchoOn", 1)
  /\ UNCHANGED <<reply, gone, faceVars, resp, socketVars, greetdVars>>

\* A rendezvous took place: the face took the prompt.
IsHeard ==
  /\ wpc = "asking" /\ offer = NoStep
  /\ wpc' = "awaiting"
  /\ UNCHANGED <<bridgeVars, wask, resp, socketVars, greetdVars>>

InfoIsNotAnswered ==
  /\ wpc = "telling" /\ (offer = NoStep \/ FaceGone)
  /\ offer' = NoStep /\ wpc' = "recv"
  /\ UNCHANGED <<reply, gone, faceVars, wask, resp, socketVars, greetdVars>>

\* Told, or nobody to tell: greetd is owed a null response all the same.
Told ==
  /\ wpc = "telling" /\ (offer = NoStep \/ FaceGone)
  /\ IF up THEN /\ Send(Null) /\ wpc' = "recv" /\ offer' = NoStep
           ELSE Fail
  /\ UNCHANGED <<reply, gone, faceVars, wask, resp, toWorker, up, greetdVars>>

VanishedFaceIsAnswered ==
  /\ FaceGone
  /\ \/ wpc = "asking" /\ offer # NoStep
     \/ wpc = "awaiting" /\ reply = NoReply
  /\ offer' = NoStep /\ wpc' = "recv"
  /\ Send(IF gsession = "none" THEN Request("create") ELSE Null)
  /\ UNCHANGED <<reply, gone, faceVars, wask, resp, toWorker, up, greetdVars>>

\* ask fails once the face has dropped its ends.  Before CreateSession there
\* is nothing to cancel.
AskFails ==
  /\ FaceGone
  /\ \/ wpc = "asking" /\ offer # NoStep
     \/ wpc = "awaiting" /\ reply = NoReply
  /\ IF wask.id = 1 THEN Finish("failed") /\ UNCHANGED toGreetd ELSE Fail
  /\ UNCHANGED <<reply, gone, faceVars, wask, resp, toWorker, up, greetdVars>>

\* The name goes into CreateSession, unless it came through the secret field;
\* any other answer is the response to the auth message it was asked for.
TakesAnswer ==
  /\ wpc = "awaiting" /\ reply # NoReply
  /\ reply' = NoReply
  /\ IF wask.id = 1
     THEN IF reply.secret
          THEN Finish("failed") /\ UNCHANGED toGreetd
          ELSE SendOrFail([kind |-> "create", reply |-> reply], "recv")
     ELSE SendOrFail([kind |-> "respond", reply |-> reply], "recv")
  /\ UNCHANGED <<gone, faceVars, wask, resp, toWorker, up, greetdVars>>

Style(type) == IF type = "secret" THEN "EchoOff" ELSE "EchoOn"

\* AuthMessage: asked, or told, by its type.
ReadsMessage ==
  /\ wpc = "recv" /\ toWorker # <<>> /\ Head(toWorker).kind \in MessageTypes
  /\ resp' = Head(toWorker) /\ toWorker' = Tail(toWorker)
  /\ IF resp'.kind \in {"secret", "visible"}
     THEN Ask(Style(resp'.kind), resp'.id)
     ELSE offer' = Plain("info") /\ wpc' = "telling" /\ UNCHANGED wask
  /\ UNCHANGED <<reply, gone, faceVars, toGreetd, up, greetdVars>>

SuccessIsComplete ==
  /\ wpc = "recv" /\ toWorker # <<>> /\ Head(toWorker).kind = "success"
  /\ resp' = Head(toWorker) /\ toWorker' = Tail(toWorker)
  /\ Send(Request("start")) /\ Finish("complete")
  /\ UNCHANGED <<reply, gone, faceVars, wask, up, greetdVars>>

\* Authenticated, not yet logged in: greetd is told to start the session.
ReadsSuccess ==
  /\ wpc = "recv" /\ toWorker # <<>> /\ Head(toWorker).kind = "success"
  /\ resp' = Head(toWorker) /\ toWorker' = Tail(toWorker)
  /\ SendOrFail(Request("start"), "starting")
  /\ UNCHANGED <<reply, gone, faceVars, wask, up, greetdVars>>

ErrorIsNotCancelled ==
  /\ wpc = "recv" /\ toWorker # <<>> /\ Head(toWorker).kind = "refusal"
  /\ resp' = Head(toWorker) /\ toWorker' = Tail(toWorker)
  /\ Finish("failed") /\ UNCHANGED toGreetd
  /\ UNCHANGED <<reply, gone, faceVars, wask, up, greetdVars>>

\* Error, of whatever type: cancelled first, then reported.
ReadsError ==
  /\ wpc = "recv" /\ toWorker # <<>> /\ Head(toWorker).kind = "refusal"
  /\ resp' = Head(toWorker) /\ toWorker' = Tail(toWorker)
  /\ Fail
  /\ UNCHANGED <<reply, gone, faceVars, wask, up, greetdVars>>

\* What greetd says to StartSession: only Success is a login.  An error is
\* explained to the face and then reported; nothing is cancelled.
ReadsStarted ==
  /\ wpc = "starting" /\ toWorker # <<>>
  /\ resp' = Head(toWorker) /\ toWorker' = Tail(toWorker)
  /\ CASE resp'.kind = "success" -> Finish("complete")
       [] resp'.kind = "refusal" -> offer' = Plain("info") /\ wpc' = "explaining"
       [] OTHER -> Finish("failed")
  /\ UNCHANGED <<reply, gone, faceVars, wask, toGreetd, up, greetdVars>>

Explained ==
  /\ wpc = "explaining" /\ (offer = NoStep \/ FaceGone)
  /\ Finish("failed")
  /\ UNCHANGED <<reply, gone, faceVars, wask, resp, socketVars, greetdVars>>

\* The socket is closed: fail while authenticating, Abort while starting.
ReadsEof ==
  /\ wpc \in {"recv", "starting"} /\ toWorker = <<>> /\ ~up
  /\ Finish("failed")
  /\ UNCHANGED <<reply, gone, faceVars, wask, resp, socketVars, greetdVars>>

\* The last step was taken, or there is nobody to take it.
Returns ==
  /\ wpc = "finishing" /\ (offer = NoStep \/ FaceGone)
  /\ offer' = NoStep /\ wpc' = "returned" /\ gone' = TRUE
  /\ UNCHANGED <<reply, faceVars, wask, resp, socketVars, greetdVars>>

WorkerStep ==
  \/ AskName \/ IsHeard \/ Told \/ AskFails \/ TakesAnswer
  \/ ReadsMessage \/ ReadsSuccess \/ ReadsError \/ ReadsStarted \/ Explained
  \/ ReadsEof \/ Returns

\* The greeter process ends, by itself or killed, and the worker with it.
GreeterEnds ==
  /\ fpc' = "exited" /\ wpc' = "returned" /\ gone' = TRUE
  /\ offer' = NoStep /\ reply' = NoReply
  /\ UNCHANGED <<awaiting, verdict, focus, fields, shown, wask, resp, socketVars, greetdVars>>

GreeterExits == fpc = "dropped" /\ GreeterEnds
GreeterKilled == fpc # "exited" /\ GreeterEnds

-------------------------------------------------------------------------------
(* greetd. *)

GreetdTakes(kind) ==
  /\ up /\ toGreetd # <<>> /\ Head(toGreetd).kind = kind
  /\ toGreetd' = Tail(toGreetd)
  /\ UNCHANGED <<bridgeVars, workerVars, up>>

GreetdCreates ==
  /\ GreetdTakes("create") /\ gsession = "none"
  /\ gsession' = "checking"
  /\ UNCHANGED <<toWorker, gasked, told, heard>>

\* The PAM stack behind greetd: one more message, or its verdict.
GreetdDecides ==
  /\ up /\ gsession = "checking"
  /\ \/ /\ told < MaxPrompts - 1
        /\ \E type \in MessageTypes : gasked' = [kind |-> type, id |-> told + 2]
        /\ gsession' = "asking" /\ told' = told + 1
        /\ toWorker' = Append(toWorker, gasked')
     \/ /\ gsession' = "ready" /\ toWorker' = Append(toWorker, Response("success"))
        /\ UNCHANGED <<gasked, told>>
     \/ /\ gsession' = "failed" /\ toWorker' = Append(toWorker, Response("refusal"))
        /\ UNCHANGED <<gasked, told>>
  /\ UNCHANGED <<bridgeVars, workerVars, toGreetd, up, heard>>

GreetdHears ==
  /\ GreetdTakes("respond") /\ gsession = "asking"
  /\ heard' = heard \cup {[asked |-> gasked, reply |-> Head(toGreetd).reply]}
  /\ gsession' = "checking"
  /\ UNCHANGED <<toWorker, gasked, told>>

GreetdStarts ==
  /\ GreetdTakes("start") /\ gsession = "ready"
  /\ \/ gsession' = "scheduled" /\ toWorker' = Append(toWorker, Response("success"))
     \/ UNCHANGED gsession /\ toWorker' = Append(toWorker, Response("refusal"))
  /\ UNCHANGED <<gasked, told, heard>>

GreetdCancels ==
  /\ GreetdTakes("cancel")
  /\ gsession' = "none" /\ toWorker' = Append(toWorker, Response("success"))
  /\ UNCHANGED <<gasked, told, heard>>

GreetdDies ==
  /\ up /\ up' = FALSE
  /\ UNCHANGED <<bridgeVars, workerVars, toGreetd, toWorker, greetdVars>>

GreetdStep ==
  GreetdCreates \/ GreetdDecides \/ GreetdHears \/ GreetdStarts \/ GreetdCancels

-------------------------------------------------------------------------------
FaceActs(action) == action /\ UNCHANGED <<workerVars, socketVars, greetdVars>>

\* The greeter is gone and greetd has nothing to go on with.
Over ==
  /\ fpc = "exited" /\ ~up
  /\ UNCHANGED vars

Next ==
  \/ FaceActs(FaceStep) \/ FaceActs(Unowed)
  \/ WorkerStep \/ GreeterExits \/ GreeterKilled
  \/ GreetdStep \/ GreetdDies
  \/ Over

Spec == Init /\ [][Next]_vars

-------------------------------------------------------------------------------
(* Properties. *)

\* greetd hears, for each of its messages, the answer the person submitted at
\* that very prompt: a secret one where it asked for a secret, a visible one
\* where it asked for that, and nothing where it asked for nothing.
ResponsesAnswerTheirMessage ==
  \A x \in heard :
     IF x.asked.kind \in {"secret", "visible"}
     THEN x.reply.for = x.asked.id /\ x.reply.secret = (x.asked.kind = "secret")
     ELSE x.reply = NoReply

\* "A transport that reported Complete here would claim a session that does
\* not exist": Authenticated on the screen means greetd has the session, and a
\* person who pressed Escape is not logged in afterwards, however far the
\* worker and greetd were.
VerdictIsGreetds ==
  /\ verdict = "Authenticated" => gsession = "scheduled"
  /\ verdict = "Abandoned" => gsession # "scheduled"

\* "Skipping it wedges the conversation": whenever the worker waits for greetd
\* with nothing in flight, it is greetd's turn.
NobodyWaitsForBoth ==
  wpc \in {"recv", "starting"} /\ up /\ toWorker = <<>> /\ toGreetd = <<>>
    => gsession = "checking"

\* A session greetd is still authenticating, or has refused, is cancelled
\* before the face learns of the failure and may exit.
RefusalIsCancelledFirst ==
  offer.kind = "failed" /\ up /\ gsession \in {"checking", "asking", "failed"}
    => \E i \in DOMAIN toGreetd : toGreetd[i].kind = "cancel"

\* "greetd requires the session be cancelled before another can be created":
\* the same of every failure the worker reports.
FailureIsCancelledFirst ==
  offer.kind = "failed" /\ up /\ gsession # "none"
    => \E i \in DOMAIN toGreetd : toGreetd[i].kind = "cancel"
===============================================================================
