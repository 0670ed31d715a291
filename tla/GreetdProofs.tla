------------------------------ MODULE GreetdProofs ------------------------------
(***************************************************************************)
(* What the run of Greetd checks for three prompts, proved for any number  *)
(* of them.                                                                *)
(***************************************************************************)
EXTENDS Greetd, TLAPS

\* What is in flight on the socket: one request, or one response, at most.
Quiet == toGreetd = <<>> /\ toWorker = <<>>
Requested(kind) ==
  toGreetd # <<>> /\ toGreetd = <<Head(toGreetd)>> /\ Head(toGreetd).kind = kind
Responded(kind) ==
  /\ toGreetd = <<>> /\ toWorker # <<>>
  /\ toWorker = <<Head(toWorker)>> /\ Head(toWorker).kind = kind

Wanting == {"secret", "visible"}

\* A response that answers the auth message x.
Answers(x, r) ==
  IF x.kind \in Wanting THEN r.for = x.id /\ r.secret = (x.kind = "secret")
                        ELSE r = NoReply

\* greetd waits for the answer to its message, and the worker is at it.
AtMessage ==
  /\ Quiet /\ gsession = "asking"
  /\ gasked.kind \in MessageTypes /\ gasked.id > 1

AtPrompt ==
  \/ wask = Prompt("EchoOn", 1) /\ Quiet /\ gsession = "none"
  \/ /\ AtMessage /\ gasked.kind \in Wanting
     /\ wask = Prompt(Style(gasked.kind), gasked.id)

\* Whose turn it is, by where the worker has got to.
Turns ==
  /\ wpc = "begin" => Quiet /\ gsession = "none"
  /\ wpc \in {"asking", "awaiting"} => AtPrompt
  /\ wpc = "telling" => AtMessage /\ gasked.kind \notin Wanting
  /\ wpc = "recv" =>
       \/ Requested("create") /\ toWorker = <<>> /\ gsession = "none"
       \/ Requested("respond") /\ toWorker = <<>> /\ gsession = "asking"
       \/ Quiet /\ gsession = "checking"
       \/ /\ gsession = "asking" /\ gasked.kind \in MessageTypes /\ gasked.id > 1
          /\ toGreetd = <<>> /\ toWorker = <<gasked>>
       \/ Responded("success") /\ gsession = "ready"
       \/ Responded("refusal") /\ gsession = "failed"
  /\ wpc = "starting" =>
       \/ Requested("start") /\ toWorker = <<>> /\ gsession = "ready"
       \/ Responded("success") /\ gsession = "scheduled"
       \/ Responded("refusal") /\ gsession = "ready"
  /\ wpc = "explaining" => Quiet /\ gsession = "ready"

\* What greetd can still be asked, the worker being gone or not.
Requests ==
  \/ toGreetd = <<>>
  \/ Requested("cancel") /\ gsession # "scheduled"
  \/ Requested("create") /\ gsession = "none"
  \/ Requested("respond") /\ gsession = "asking" /\ Answers(gasked, Head(toGreetd).reply)
  \/ Requested("start") /\ gsession = "ready"

\* What the worker can be offering, by where it has got to.
Offers ==
  /\ wpc \in {"begin", "awaiting", "recv", "starting", "returned"} => offer = NoStep
  /\ wpc = "asking" => offer \in {NoStep, wask}
  /\ wpc \in {"telling", "explaining"} => offer \in {NoStep, Plain("info")}
  /\ wpc = "finishing" => offer \in {NoStep, Plain("complete"), Plain("failed")}
  /\ gone <=> wpc = "returned"

\* A face with a prompt on screen, or an answer in hand, has the worker's prompt.
FaceAtPrompt ==
  /\ wpc \in {"asking", "awaiting"} /\ offer = NoStep
  /\ shown = wask.id /\ awaiting = wask.style

FaceFollows ==
  /\ fpc = "ui" => FaceAtPrompt /\ reply = NoReply
  /\ reply # NoReply =>
       /\ fpc = "answering" /\ FaceAtPrompt
       /\ reply.for = wask.id /\ reply.secret = (wask.style = "EchoOff")

\* What an outcome, offered or shown, says of greetd's session.
Outcomes ==
  /\ offer.kind = "complete" => gsession = "scheduled"
  /\ verdict = "Authenticated" => gsession = "scheduled"
  /\ verdict = "Abandoned" =>
       /\ fpc \in {"quit", "dropped", "exited"}
       /\ wpc \in {"asking", "awaiting", "finishing", "returned"}
       /\ toGreetd = <<>> \/ Requested("cancel")
       /\ gsession \in {"none", "asking"}
  /\ offer.kind = "failed" /\ up =>
       \/ Requested("cancel")
       \/ toGreetd = <<>> /\ gsession \in {"none", "ready"}

WPcs == {"begin", "asking", "awaiting", "telling", "recv", "starting", "explaining",
         "finishing", "returned"}

IInv ==
  /\ wpc \in WPcs /\ told \in Nat
  /\ Turns /\ Requests /\ Offers /\ FaceFollows /\ Outcomes
  /\ ResponsesAnswerTheirMessage

-------------------------------------------------------------------------------
(* The operators. *)

\* A queue of one is read and is empty again.
LEMMA OneInFlight ==
  \A m : /\ Append(<<>>, m) = <<m>> /\ <<m>> # <<>>
         /\ Head(<<m>>) = m /\ Tail(<<m>>) = <<>>
OBVIOUS

\* The fields of the records the worker, the face and greetd exchange.
LEMMA Fields ==
  /\ NoStep.kind = "none" /\ NoStep # Plain("info") /\ NoStep # Plain("complete")
  /\ NoStep # Plain("failed") /\ Plain("complete") # Plain("failed")
  /\ \A k : Plain(k).kind = k /\ Request(k).kind = k /\ Request(k).reply = NoReply
            /\ Response(k).kind = k
  /\ \A s, i : /\ Prompt(s, i).kind = "prompt" /\ Prompt(s, i) # NoStep
               /\ Prompt(s, i).style = s /\ Prompt(s, i).id = i
  /\ NoReply.for = 0
BY DEF NoStep, Plain, Request, Response, Prompt, NoReply

\* A prompt is asked in the style of its message, under a number above 0.
LEMMA PromptFacts ==
  ASSUME AtPrompt
  PROVE  /\ Quiet /\ gsession \in {"none", "asking"}
         /\ wask.kind = "prompt" /\ wask # NoStep /\ wask.id # 0
         /\ wask.id = 1 => wask = Prompt("EchoOn", 1) /\ gsession = "none"
         /\ wask.id # 1 => /\ AtMessage /\ gasked.kind \in Wanting /\ gasked.id = wask.id
                           /\ (wask.style = "EchoOff") <=> (gasked.kind = "secret")
BY Fields DEF AtPrompt, AtMessage, Style, Wanting

-------------------------------------------------------------------------------
\* The conversation begins with nothing said.
LEMMA InitInv == Init => IInv
<1> SUFFICES ASSUME Init PROVE IInv
  OBVIOUS
<1> USE DEF Init, BridgeInit
<1>1. wpc \in WPcs /\ told \in Nat
  BY DEF WPcs
<1>2. Turns /\ Requests
  BY DEF Turns, Quiet, Requests
<1>3. Offers /\ FaceFollows
  BY DEF Offers, FaceFollows
<1>4. Outcomes /\ ResponsesAnswerTheirMessage
  BY Fields DEF Outcomes, ResponsesAnswerTheirMessage
<1> QED
  BY <1>1, <1>2, <1>3, <1>4 DEF IInv

-------------------------------------------------------------------------------
(* The face and the person. *)

\* What the face does touches neither the socket nor greetd.
LEMMA FaceInv ==
  ASSUME IInv, FaceActs(FaceStep) \/ FaceActs(Unowed)
  PROVE  IInv'
<1> USE DEF FaceActs, workerVars, socketVars, greetdVars
<1>1. UNCHANGED <<workerVars, socketVars, greetdVars>>
  OBVIOUS
<1>2. /\ wpc' \in WPcs /\ told' \in Nat
      /\ Turns' /\ Requests' /\ ResponsesAnswerTheirMessage'
  BY <1>1 DEF IInv, Turns, Requests, ResponsesAnswerTheirMessage, Quiet, Requested,
              Responded, AtPrompt, AtMessage, Answers
<1>3. Offers' /\ FaceFollows' /\ Outcomes'
  <2> USE Fields DEF IInv, Offers, FaceFollows, FaceAtPrompt, Outcomes, WPcs, Requested,
                     faceVars
  <2>1. CASE PumpPrompt
    BY <2>1 DEF PumpPrompt
  <2>2. CASE PumpInfo
    BY <2>2 DEF PumpInfo
  <2>3. CASE PumpOutcome
    BY <2>3 DEF PumpOutcome, Quit
  <2>4. CASE PumpGone \/ PumpTimesOut
    BY <2>4 DEF PumpGone, PumpTimesOut, PumpNothing, Quit
  <2>5. CASE AnswerTaken
    BY <2>5 DEF AnswerTaken
  <2>6. CASE AnswerRefused
    BY <2>6 DEF AnswerRefused, Quit
  <2>7. CASE DropBridge
    BY <2>7 DEF DropBridge
  <2>8. CASE Type \/ Tab \/ Backspace
    BY <2>8 DEF Type, Tab, Backspace
  <2>9. CASE Submit
    BY <2>9 DEF Submit
  <2>10. CASE Escape
    BY <2>10, PromptFacts DEF Escape, Turns, Quiet
  <2> QED
    BY <2>1, <2>2, <2>3, <2>4, <2>5, <2>6, <2>7, <2>8, <2>9, <2>10 DEF FaceStep, Unowed
<1> QED
  BY <1>2, <1>3 DEF IInv

-------------------------------------------------------------------------------
(* The worker. *)

\* What is sent when nothing was in flight is all that is.
LEMMA SendOne ==
  ASSUME toGreetd = <<>>, NEW m, Send(m)
  PROVE  toGreetd' = IF up THEN <<m>> ELSE <<>>
BY OneInFlight DEF Send

\* The request that is in flight is the one that was sent.
LEMMA RequestedOne ==
  ASSUME NEW m, toGreetd' = <<m>>
  PROVE  Head(toGreetd') = m /\ \A k : Requested(k)' <=> m.kind = k
BY OneInFlight DEF Requested

\* Cancelling: greetd's session is not scheduled and nothing else is in flight.
LEMMA FailInv ==
  ASSUME IInv, Fail, toGreetd = <<>>, gsession # "scheduled",
         wpc # "returned", fpc # "ui", reply' = NoReply,
         UNCHANGED <<gone, faceVars, up, greetdVars>>
  PROVE  IInv'
<1> USE DEF IInv, Fail, Finish, greetdVars, faceVars
<1>1. toGreetd' = IF up THEN <<Request("cancel")>> ELSE <<>>
  BY SendOne
<1>2. Request("cancel").kind = "cancel"
  BY Fields
<1>3. IF up THEN Requested("cancel")' ELSE toGreetd' = <<>>
  BY <1>1, <1>2, RequestedOne
<1>4. wpc' \in WPcs /\ told' \in Nat
  BY DEF WPcs
<1>5. Turns' /\ Offers' /\ FaceFollows'
  BY Fields DEF Turns, Offers, FaceFollows
<1>6. Requests'
  BY <1>3 DEF Requests
<1>7. Outcomes'
  BY <1>3, Fields DEF Outcomes
<1>8. ResponsesAnswerTheirMessage'
  BY DEF ResponsesAnswerTheirMessage
<1> QED
  BY <1>4, <1>5, <1>6, <1>7, <1>8

\* Failing without a cancel: there is nothing at greetd to be cancelled, or it
\* said itself that it would not go on.
LEMMA FinishInv ==
  ASSUME IInv, Finish("failed"), up => toGreetd = <<>> /\ gsession \in {"none", "ready"},
         wpc # "returned", fpc # "ui", reply' = NoReply,
         UNCHANGED <<gone, faceVars, toGreetd, up, greetdVars>>
  PROVE  IInv'
<1> USE DEF IInv, Finish, greetdVars, faceVars
<1>1. wpc' \in WPcs /\ told' \in Nat
  BY DEF WPcs
<1>2. Turns' /\ Offers' /\ FaceFollows'
  BY Fields DEF Turns, Offers, FaceFollows
<1>3. Requests'
  BY DEF Requests, Answers, Requested
<1>4. Outcomes'
  BY Fields DEF Outcomes, Requested
<1>5. ResponsesAnswerTheirMessage'
  BY DEF ResponsesAnswerTheirMessage
<1> QED
  BY <1>1, <1>2, <1>3, <1>4, <1>5

\* Sending a request that is not a cancel, in the turns where it is due.
LEMMA SentInv ==
  ASSUME IInv, NEW m, Send(m), toGreetd = <<>>, offer' = NoStep, up,
         wpc \in {"awaiting", "telling", "recv"}, fpc # "ui", reply' = NoReply,
         verdict # "Abandoned",
         \/ /\ wpc' = "recv" /\ m.kind = "create"
            /\ gsession = "none" /\ toWorker' = <<>>
         \/ /\ wpc' = "recv" /\ m.kind = "respond" /\ gsession = "asking"
            /\ toWorker' = <<>> /\ Answers(gasked, m.reply)
         \/ /\ wpc' = "starting" /\ m.kind = "start"
            /\ gsession = "ready" /\ toWorker' = <<>>,
         UNCHANGED <<gone, faceVars, wask, up, greetdVars>>
  PROVE  IInv'
<1> USE DEF IInv, greetdVars, faceVars
<1>1. toGreetd' = <<m>>
  BY SendOne
<1>2. Head(toGreetd') = m /\ \A k : Requested(k)' <=> m.kind = k
  BY <1>1, RequestedOne
<1>3. wpc' \in WPcs /\ told' \in Nat
  BY DEF WPcs
<1>4. Turns'
  BY <1>2 DEF Turns
<1>5. Requests'
  BY <1>2 DEF Requests, Answers
<1>6. Offers' /\ FaceFollows'
  BY Fields DEF Offers, FaceFollows
<1>7. Outcomes'
  BY Fields DEF Outcomes
<1>8. ResponsesAnswerTheirMessage'
  BY DEF ResponsesAnswerTheirMessage
<1> QED
  BY <1>3, <1>4, <1>5, <1>6, <1>7, <1>8

\* The name is asked for before greetd hears anything.
LEMMA AskNameInv == IInv /\ AskName => IInv'
<1> SUFFICES ASSUME IInv, AskName PROVE IInv'
  OBVIOUS
<1> USE DEF AskName, Ask, IInv, socketVars, greetdVars, faceVars
<1>1. wpc' \in WPcs /\ told' \in Nat
  BY DEF WPcs
<1>2. Turns' /\ Requests'
  BY DEF Turns, Requests, AtPrompt, Quiet
<1>3. Offers' /\ FaceFollows'
  BY Fields DEF Offers, FaceFollows, FaceAtPrompt
<1>4. Outcomes' /\ ResponsesAnswerTheirMessage'
  BY Fields DEF Outcomes, ResponsesAnswerTheirMessage
<1> QED
  BY <1>1, <1>2, <1>3, <1>4

\* A prompt that was taken is still the one that is asked.
LEMMA IsHeardInv == IInv /\ IsHeard => IInv'
<1> SUFFICES ASSUME IInv, IsHeard PROVE IInv'
  OBVIOUS
<1> USE DEF IsHeard, IInv, bridgeVars, socketVars, greetdVars, faceVars
<1>1. wpc' \in WPcs /\ told' \in Nat
  BY DEF WPcs
<1>2. Turns' /\ Requests'
  BY DEF Turns, Requests, Requested, AtPrompt, AtMessage, Quiet, Answers
<1>3. Offers' /\ FaceFollows'
  BY Fields DEF Offers, FaceFollows, FaceAtPrompt
<1>4. Outcomes' /\ ResponsesAnswerTheirMessage'
  BY Fields DEF Outcomes, ResponsesAnswerTheirMessage, Requested
<1> QED
  BY <1>1, <1>2, <1>3, <1>4

\* A null response is due to a message that wants no answer.
LEMMA ToldInv == IInv /\ Told => IInv'
<1> SUFFICES ASSUME IInv, Told PROVE IInv'
  OBVIOUS
<1> USE DEF Told, IInv, greetdVars, faceVars
<1>1. AtMessage /\ gasked.kind \notin Wanting /\ Quiet /\ gsession = "asking"
  BY DEF Turns, AtMessage
<1>2. fpc # "ui" /\ reply = NoReply /\ verdict # "Abandoned"
  BY DEF FaceFollows, FaceAtPrompt, Outcomes
<1>3. CASE up
  <2>1. Null.kind = "respond" /\ Answers(gasked, Null.reply)
    BY <1>1, Fields DEF Null, Answers
  <2> QED
    BY <1>1, <1>2, <1>3, <2>1, SentInv DEF Quiet
<1>4. CASE ~up
  BY <1>1, <1>2, <1>4, FailInv DEF Quiet
<1> QED
  BY <1>3, <1>4

\* A face that has gone leaves nothing at greetd, or a cancel on its way.
LEMMA AskFailsInv == IInv /\ AskFails => IInv'
<1> SUFFICES ASSUME IInv, AskFails PROVE IInv'
  OBVIOUS
<1> USE DEF AskFails, IInv, greetdVars, faceVars
<1>1. Quiet /\ gsession \in {"none", "asking"} /\ (wask.id = 1 => gsession = "none")
  BY PromptFacts DEF Turns
<1>2. fpc # "ui" /\ fpc # "answering" /\ reply = NoReply
  BY DEF FaceGone, FaceFollows
<1>3. CASE wask.id = 1
  BY <1>1, <1>2, <1>3, FinishInv DEF Quiet
<1>4. CASE wask.id # 1
  BY <1>1, <1>2, <1>4, FailInv DEF Quiet
<1> QED
  BY <1>3, <1>4

\* The answer that was given is the one greetd waits for.
LEMMA TakesAnswerInv == IInv /\ TakesAnswer => IInv'
<1> SUFFICES ASSUME IInv, TakesAnswer PROVE IInv'
  OBVIOUS
<1> USE DEF TakesAnswer, SendOrFail, IInv, greetdVars, faceVars
<1>1. AtPrompt /\ Quiet /\ gsession \in {"none", "asking"}
  BY PromptFacts DEF Turns
<1>2. /\ fpc = "answering" /\ offer = NoStep /\ verdict # "Abandoned"
      /\ reply.for = wask.id /\ reply.secret = (wask.style = "EchoOff")
  BY DEF FaceFollows, FaceAtPrompt, Outcomes
<1>3. CASE wask.id = 1
  <2>1. gsession = "none"
    BY <1>1, <1>3, PromptFacts
  <2>2. CASE reply.secret
    BY <1>1, <1>2, <1>3, <2>1, <2>2, FinishInv DEF Quiet
  <2>3. CASE ~reply.secret /\ up
    BY <1>1, <1>2, <1>3, <2>1, <2>3, SentInv DEF Quiet
  <2>4. CASE ~reply.secret /\ ~up
    BY <1>1, <1>2, <1>3, <2>1, <2>4, FailInv DEF Quiet
  <2> QED
    BY <2>2, <2>3, <2>4
<1>4. CASE wask.id # 1 /\ up
  <2>1. gsession = "asking" /\ Answers(gasked, reply)
    BY <1>1, <1>2, <1>4, PromptFacts DEF AtMessage, Answers
  <2> QED
    BY <1>1, <1>2, <1>4, <2>1, SentInv DEF Quiet
<1>5. CASE wask.id # 1 /\ ~up
  BY <1>1, <1>2, <1>5, FailInv DEF Quiet
<1> QED
  BY <1>3, <1>4, <1>5

\* The worker reads what greetd said last, and the queue is empty again.
LEMMA ReadsOne ==
  ASSUME IInv, wpc = "recv", toWorker # <<>>, toWorker' = Tail(toWorker)
  PROVE  /\ toGreetd = <<>> /\ toWorker' = <<>>
         /\ Head(toWorker).kind \in MessageTypes =>
              /\ gsession = "asking" /\ Head(toWorker) = gasked /\ gasked.id > 1
         /\ Head(toWorker).kind = "success" => gsession = "ready"
         /\ Head(toWorker).kind = "refusal" => gsession = "failed"
         /\ fpc # "ui" /\ reply = NoReply /\ offer = NoStep /\ verdict # "Abandoned"
<1>1. /\ toGreetd = <<>> /\ toWorker = <<Head(toWorker)>>
      /\ Head(toWorker).kind \in MessageTypes =>
           /\ gsession = "asking" /\ Head(toWorker) = gasked /\ gasked.id > 1
      /\ Head(toWorker).kind = "success" => gsession = "ready"
      /\ Head(toWorker).kind = "refusal" => gsession = "failed"
  BY OneInFlight DEF IInv, Turns, Responded, Quiet, MessageTypes
<1>2. toWorker' = <<>>
  BY <1>1, OneInFlight
<1>3. fpc # "ui" /\ reply = NoReply /\ offer = NoStep /\ verdict # "Abandoned"
  BY DEF IInv, FaceFollows, FaceAtPrompt, Offers, Outcomes
<1> QED
  BY <1>1, <1>2, <1>3

\* The prompt that is asked next is greetd's last message.
LEMMA ReadsMessageInv == IInv /\ ReadsMessage => IInv'
<1> SUFFICES ASSUME IInv, ReadsMessage PROVE IInv'
  OBVIOUS
<1> USE DEF ReadsMessage, Ask, IInv, greetdVars, faceVars
<1>1. /\ Quiet' /\ gsession = "asking" /\ Head(toWorker) = gasked /\ gasked.id > 1
      /\ fpc # "ui" /\ reply = NoReply /\ verdict # "Abandoned"
  BY ReadsOne DEF Quiet
<1>2. AtMessage'
  BY <1>1 DEF AtMessage
<1>3. wpc' \in {"asking", "telling"} /\ told' \in Nat
  OBVIOUS
<1>4. Turns' /\ Requests'
  BY <1>1, <1>2 DEF Turns, Requests, AtPrompt, Wanting, Quiet
<1>5. Offers' /\ FaceFollows'
  BY <1>1, <1>3, Fields DEF Offers, FaceFollows, FaceAtPrompt
<1>6. Outcomes' /\ ResponsesAnswerTheirMessage'
  BY <1>1, Fields DEF Outcomes, ResponsesAnswerTheirMessage
<1> QED
  BY <1>3, <1>4, <1>5, <1>6 DEF WPcs

\* A session that is ready is asked to start.
LEMMA ReadsSuccessInv == IInv /\ ReadsSuccess => IInv'
<1> SUFFICES ASSUME IInv, ReadsSuccess PROVE IInv'
  OBVIOUS
<1> USE DEF ReadsSuccess, SendOrFail, greetdVars, faceVars
<1>1. /\ toGreetd = <<>> /\ toWorker' = <<>> /\ gsession = "ready"
      /\ fpc # "ui" /\ reply = NoReply /\ offer = NoStep /\ verdict # "Abandoned"
  BY ReadsOne
<1>2. CASE up
  BY <1>1, <1>2, SentInv, Fields
<1>3. CASE ~up
  BY <1>1, <1>3, FailInv
<1> QED
  BY <1>2, <1>3

\* A session that was refused is cancelled.
LEMMA ReadsErrorInv == IInv /\ ReadsError => IInv'
<1> SUFFICES ASSUME IInv, ReadsError PROVE IInv'
  OBVIOUS
<1> USE DEF ReadsError, greetdVars, faceVars
<1>1. toGreetd = <<>> /\ gsession = "failed" /\ fpc # "ui" /\ reply = NoReply
  BY ReadsOne
<1> QED
  BY <1>1, FailInv

\* Complete is reported of a session greetd has scheduled, and of no other.
LEMMA ReadsStartedInv == IInv /\ ReadsStarted => IInv'
<1> SUFFICES ASSUME IInv, ReadsStarted PROVE IInv'
  OBVIOUS
<1> USE DEF ReadsStarted, IInv, greetdVars, faceVars
<1>1. /\ toGreetd = <<>> /\ toWorker' = <<>>
      /\ \/ Head(toWorker).kind = "success" /\ gsession = "scheduled"
         \/ Head(toWorker).kind = "refusal" /\ gsession = "ready"
  BY OneInFlight DEF Turns, Responded
<1>2. fpc # "ui" /\ reply = NoReply /\ verdict # "Abandoned"
  BY DEF FaceFollows, FaceAtPrompt, Outcomes
<1>3. /\ resp'.kind = "success" /\ gsession = "scheduled" /\ Finish("complete")
      \/ /\ resp'.kind = "refusal" /\ gsession = "ready"
         /\ offer' = Plain("info") /\ wpc' = "explaining"
  BY <1>1
<1>4. wpc' \in {"finishing", "explaining"} /\ told' \in Nat
  BY <1>3 DEF Finish
<1>5. Turns' /\ Requests'
  BY <1>1, <1>3 DEF Turns, Requests, Quiet, Finish
<1>6. Offers' /\ FaceFollows'
  BY <1>2, <1>3, Fields DEF Offers, FaceFollows, Finish
<1>7. Outcomes' /\ ResponsesAnswerTheirMessage'
  BY <1>1, <1>2, <1>3, Fields DEF Outcomes, ResponsesAnswerTheirMessage, Finish
<1> QED
  BY <1>4, <1>5, <1>6, <1>7 DEF WPcs

\* A start that was refused is explained, and the session is still ready.
LEMMA ExplainedInv == IInv /\ Explained => IInv'
<1> SUFFICES ASSUME IInv, Explained PROVE IInv'
  OBVIOUS
<1>1. toGreetd = <<>> /\ gsession = "ready" /\ fpc # "ui" /\ reply = NoReply
  BY DEF Explained, IInv, Turns, Quiet, FaceFollows, FaceAtPrompt
<1> QED
  BY <1>1, FinishInv DEF Explained, socketVars, greetdVars, faceVars

\* A closed socket ends the conversation, and there is nobody to cancel at.
LEMMA ReadsEofInv == IInv /\ ReadsEof => IInv'
<1> SUFFICES ASSUME IInv, ReadsEof PROVE IInv'
  OBVIOUS
<1>1. fpc # "ui" /\ reply = NoReply
  BY DEF ReadsEof, IInv, FaceFollows, FaceAtPrompt
<1> QED
  BY <1>1, FinishInv DEF ReadsEof, socketVars, greetdVars, faceVars

\* The worker that returns leaves the socket as it was.
LEMMA ReturnsInv == IInv /\ Returns => IInv'
<1> SUFFICES ASSUME IInv, Returns PROVE IInv'
  OBVIOUS
<1> USE DEF Returns, IInv, socketVars, greetdVars, faceVars
<1>1. wpc' \in WPcs /\ told' \in Nat
  BY DEF WPcs
<1>2. Turns' /\ Requests'
  BY DEF Turns, Requests, Requested, Answers
<1>3. Offers' /\ FaceFollows'
  BY Fields DEF Offers, FaceFollows, FaceAtPrompt
<1>4. Outcomes' /\ ResponsesAnswerTheirMessage'
  BY Fields DEF Outcomes, ResponsesAnswerTheirMessage, Requested
<1> QED
  BY <1>1, <1>2, <1>3, <1>4

\* However the greeter ends, what it said to greetd stays said.
LEMMA GreeterEndsInv == IInv /\ GreeterEnds => IInv'
<1> SUFFICES ASSUME IInv, GreeterEnds PROVE IInv'
  OBVIOUS
<1> USE DEF GreeterEnds, IInv, socketVars, greetdVars
<1>1. wpc' \in WPcs /\ told' \in Nat
  BY DEF WPcs
<1>2. Turns' /\ Requests'
  BY DEF Turns, Requests, Requested, Answers
<1>3. Offers' /\ FaceFollows'
  BY Fields DEF Offers, FaceFollows
<1>4. Outcomes' /\ ResponsesAnswerTheirMessage'
  BY Fields DEF Outcomes, ResponsesAnswerTheirMessage, Requested
<1> QED
  BY <1>1, <1>2, <1>3, <1>4

-------------------------------------------------------------------------------
(* greetd. *)

\* greetd says something: the worker, if it waits, waits for just that.
LEMMA GreetdSaysInv ==
  ASSUME IInv, UNCHANGED <<bridgeVars, workerVars, up>>,
         told' \in Nat, ResponsesAnswerTheirMessage',
         toGreetd' = <<>> \/ (toGreetd' = toGreetd /\ gsession = "checking"),
         Turns', Requests',
         gsession' = "scheduled" => verdict # "Abandoned" /\ offer.kind # "failed",
         gsession = "scheduled" => gsession' = "scheduled",
         verdict = "Abandoned" => gsession' \in {"none", "asking"},
         offer.kind = "failed" /\ up /\ toGreetd' = <<>> => gsession' \in {"none",
         "ready"}
  PROVE  IInv'
<1> USE DEF IInv, bridgeVars, workerVars, faceVars
<1>1. Offers' /\ FaceFollows' /\ wpc' \in WPcs
  BY DEF Offers, FaceFollows, FaceAtPrompt
<1>2. Outcomes'
  BY DEF Outcomes, Requested
<1> QED
  BY <1>1, <1>2

\* The response that is in flight is the one greetd sent.
LEMMA RespondedOne ==
  ASSUME NEW m, toGreetd' = <<>>, toWorker' = <<m>>
  PROVE  \A k : Responded(k)' <=> m.kind = k
BY OneInFlight DEF Responded

\* The request greetd reads was the only one in flight.
LEMMA TakenOne ==
  ASSUME IInv, NEW kind, GreetdTakes(kind)
  PROVE  Requested(kind) /\ toGreetd' = <<>>
<1>1. toGreetd = <<Head(toGreetd)>> /\ Head(toGreetd).kind = kind /\ toGreetd # <<>>
  BY DEF IInv, Requests, Requested, GreetdTakes
<1> QED
  BY <1>1, OneInFlight DEF GreetdTakes, Requested

\* A session is created when none is, and the worker waits for it.
LEMMA GreetdCreatesInv == IInv /\ GreetdCreates => IInv'
<1> SUFFICES ASSUME IInv, GreetdCreates PROVE IInv'
  OBVIOUS
<1> USE DEF GreetdCreates
<1>1. Requested("create") /\ toGreetd' = <<>> /\ UNCHANGED <<bridgeVars, workerVars, up>>
  BY TakenOne DEF GreetdTakes
<1>2. ~Quiet /\ ~Requested("cancel") /\ ~Requested("start") /\ ~Requested("respond")
  BY <1>1 DEF Requested, Quiet
<1>3. Turns' /\ Requests'
  BY <1>1, <1>2, PromptFacts DEF IInv, Turns, Requests, Quiet, AtMessage, workerVars,
     Responded
<1>4. ResponsesAnswerTheirMessage'
  BY DEF IInv, ResponsesAnswerTheirMessage
<1>5. verdict # "Abandoned" /\ ~(offer.kind = "failed" /\ up)
  BY <1>1, <1>2 DEF IInv, Outcomes, Requested
<1> QED
  BY <1>1, <1>3, <1>4, <1>5, GreetdSaysInv DEF IInv

\* What greetd hears answers what it asked.
LEMMA GreetdHearsInv == IInv /\ GreetdHears => IInv'
<1> SUFFICES ASSUME IInv, GreetdHears PROVE IInv'
  OBVIOUS
<1> USE DEF GreetdHears
<1>1. Requested("respond") /\ toGreetd' = <<>> /\ UNCHANGED <<bridgeVars, workerVars, up>>
  BY TakenOne DEF GreetdTakes
<1>2. ~Quiet /\ ~Requested("cancel") /\ ~Requested("start") /\ ~Requested("create")
  BY <1>1 DEF Requested, Quiet
<1>3. wpc \in {"recv", "finishing", "returned"} /\ (wpc = "recv" => toWorker = <<>>)
  BY <1>1, <1>2, PromptFacts DEF IInv, WPcs, Turns, Quiet, AtMessage, Responded, Requested
<1>4. Turns' /\ Requests'
  BY <1>1, <1>3 DEF Turns, Requests, Quiet, workerVars
<1>5. ResponsesAnswerTheirMessage'
  <2>1. Answers(gasked, Head(toGreetd).reply)
    BY <1>1, <1>2 DEF IInv, Requests, Requested
  <2> QED
    BY <2>1 DEF IInv, ResponsesAnswerTheirMessage, Answers, Wanting
<1>6. verdict # "Abandoned" /\ ~(offer.kind = "failed" /\ up)
  BY <1>1, <1>2 DEF IInv, Outcomes, Requested
<1> QED
  BY <1>1, <1>4, <1>5, <1>6, GreetdSaysInv DEF IInv

\* A session is scheduled, or not, and the worker is told which.
LEMMA GreetdStartsInv == IInv /\ GreetdStarts => IInv'
<1> SUFFICES ASSUME IInv, GreetdStarts PROVE IInv'
  OBVIOUS
<1> USE DEF GreetdStarts
<1>1. Requested("start") /\ toGreetd' = <<>> /\ UNCHANGED <<bridgeVars, workerVars, up>>
  BY TakenOne DEF GreetdTakes
<1>2. ~Quiet /\ ~Requested("cancel") /\ ~Requested("create") /\ ~Requested("respond")
  BY <1>1 DEF Requested, Quiet
<1>3. wpc \in {"starting", "finishing", "returned"} /\ (wpc = "starting" => toWorker = <<>>)
  BY <1>1, <1>2, PromptFacts DEF IInv, WPcs, Turns, Quiet, AtMessage, Responded, Requested
<1>4. ASSUME wpc = "starting"
      PROVE  \/ gsession' = "scheduled" /\ Responded("success")'
             \/ gsession' = "ready" /\ Responded("refusal")'
  <2>1. \/ gsession' = "scheduled" /\ toWorker' = <<Response("success")>>
        \/ gsession' = gsession /\ toWorker' = <<Response("refusal")>>
    BY <1>3, <1>4, OneInFlight
  <2>2. gsession = "ready"
    BY <1>1, <1>4 DEF IInv, Turns, Responded, Requested
  <2> QED
    BY <1>1, <2>1, <2>2, RespondedOne, Fields
<1>5. Turns' /\ Requests'
  BY <1>1, <1>3, <1>4 DEF Turns, Requests, workerVars
<1>6. ResponsesAnswerTheirMessage'
  BY DEF IInv, ResponsesAnswerTheirMessage
<1>7. verdict # "Abandoned" /\ ~(offer.kind = "failed" /\ up)
  BY <1>1, <1>2 DEF IInv, Outcomes, Requested
<1> QED
  BY <1>1, <1>5, <1>6, <1>7, GreetdSaysInv DEF IInv, GreetdTakes

\* Only a session that was not scheduled is cancelled.
LEMMA GreetdCancelsInv == IInv /\ GreetdCancels => IInv'
<1> SUFFICES ASSUME IInv, GreetdCancels PROVE IInv'
  OBVIOUS
<1> USE DEF GreetdCancels
<1>1. Requested("cancel") /\ toGreetd' = <<>> /\ UNCHANGED <<bridgeVars, workerVars, up>>
  BY TakenOne DEF GreetdTakes
<1>2. ~Quiet /\ ~Requested("start") /\ ~Requested("create") /\ ~Requested("respond")
  BY <1>1 DEF Requested, Quiet
<1>3. wpc \in {"finishing", "returned"} /\ gsession # "scheduled"
  BY <1>1, <1>2, PromptFacts DEF IInv, WPcs, Turns, Requests, Quiet, AtMessage,
     Responded, Requested
<1>4. Turns' /\ Requests'
  BY <1>1, <1>3 DEF Turns, Requests, workerVars
<1>5. ResponsesAnswerTheirMessage'
  BY DEF IInv, ResponsesAnswerTheirMessage
<1> QED
  BY <1>1, <1>3, <1>4, <1>5, GreetdSaysInv DEF IInv

\* greetd goes on, or comes to its verdict, when it is its turn.
LEMMA GreetdDecidesInv == IInv /\ GreetdDecides => IInv'
<1> SUFFICES ASSUME IInv, GreetdDecides PROVE IInv'
  OBVIOUS
<1> USE DEF GreetdDecides
<1>1. /\ UNCHANGED <<bridgeVars, workerVars, toGreetd, up, heard>> /\ gsession = "checking"
      /\ gsession' \in {"asking", "ready", "failed"} /\ told' \in Nat
  BY DEF IInv
<1>2. /\ wpc \in {"recv", "finishing", "returned"}
      /\ wpc = "recv" => Quiet
      /\ toGreetd = <<>> \/ Requested("cancel")
  BY PromptFacts DEF IInv, WPcs, Turns, Requests, Quiet, AtMessage
<1>3. \/ /\ gsession' = "asking" /\ gasked'.kind \in MessageTypes /\ gasked'.id > 1
         /\ wpc = "recv" => toWorker' = <<gasked'>>
      \/ gsession' = "ready" /\ (wpc = "recv" => toWorker' = <<Response("success")>>)
      \/ gsession' = "failed" /\ (wpc = "recv" => toWorker' = <<Response("refusal")>>)
  <2>1. wpc = "recv" => \A m : Append(toWorker, m) = <<m>>
    BY <1>2, OneInFlight DEF Quiet
  <2>2. ASSUME NEW type \in MessageTypes, gasked' = [kind |-> type, id |-> told + 2]
        PROVE  gasked'.kind \in MessageTypes /\ gasked'.id > 1
    BY <2>2 DEF IInv
  <2> QED
    BY <2>1, <2>2
<1>4. Turns'
  BY <1>1, <1>2, <1>3, OneInFlight, Fields DEF Turns, Quiet, Responded, workerVars
<1>5. Requests'
  BY <1>1, <1>2 DEF Requests, Requested
<1>6. ResponsesAnswerTheirMessage'
  BY DEF IInv, ResponsesAnswerTheirMessage
<1>7. verdict # "Abandoned" /\ (offer.kind = "failed" /\ up => toGreetd # <<>>)
  BY <1>1 DEF IInv, Outcomes, Requested
<1> QED
  BY <1>1, <1>4, <1>5, <1>6, <1>7, GreetdSaysInv

\* A greetd that dies changes what nobody has read yet in nothing.
LEMMA GreetdDiesInv == IInv /\ GreetdDies => IInv'
BY DEF IInv, GreetdDies, bridgeVars, workerVars, greetdVars, faceVars, Turns, Requests,
   Offers, FaceFollows,
       FaceAtPrompt, Outcomes, ResponsesAnswerTheirMessage, Quiet, Requested, Responded,
       AtMessage, AtPrompt, Answers

\* Every step of the worker, the face, the person and greetd.
LEMMA NextInv == IInv /\ [Next]_vars => IInv'
<1> SUFFICES ASSUME IInv, [Next]_vars PROVE IInv'
  OBVIOUS
<1>1. CASE FaceActs(FaceStep) \/ FaceActs(Unowed)
  BY <1>1, FaceInv
<1>2. CASE WorkerStep
  BY <1>2, AskNameInv, IsHeardInv, ToldInv, AskFailsInv, TakesAnswerInv,
     ReadsMessageInv, ReadsSuccessInv,
     ReadsErrorInv, ReadsStartedInv, ExplainedInv, ReadsEofInv, ReturnsInv DEF WorkerStep
<1>3. CASE GreeterExits \/ GreeterKilled
  BY <1>3, GreeterEndsInv DEF GreeterExits, GreeterKilled
<1>4. CASE GreetdStep \/ GreetdDies
  BY <1>4, GreetdCreatesInv, GreetdHearsInv, GreetdStartsInv, GreetdCancelsInv,
     GreetdDecidesInv, GreetdDiesInv
     DEF GreetdStep
<1>5. CASE UNCHANGED vars
  BY <1>5 DEF vars, IInv, bridgeVars, socketVars, workerVars, greetdVars, faceVars,
     Turns, Requests, Offers, FaceFollows,
       FaceAtPrompt, Outcomes, ResponsesAnswerTheirMessage, Quiet, Requested, Responded,
       AtMessage, AtPrompt, Answers
<1> QED
  BY <1>1, <1>2, <1>3, <1>4, <1>5 DEF Next, Over

\* The invariant holds throughout.
LEMMA IInvAlways == Spec => []IInv
BY InitInv, NextInv, PTL DEF Spec

-------------------------------------------------------------------------------
(* What the run checks, for any number of prompts. *)

\* greetd hears the answer submitted at its own message, secret where it asked
\* for a secret, and null where it asked for nothing: what is in flight answers
\* what greetd asked last (Requests), because the worker's prompt does (Turns).
THEOREM ResponsesAnswerTheirMessageAlways == Spec => []ResponsesAnswerTheirMessage
<1>1. IInv => ResponsesAnswerTheirMessage
  BY DEF IInv
<1> QED
  BY <1>1, IInvAlways, PTL

\* Authenticated on the screen means that greetd has scheduled the session, and
\* Escape, pressed while the worker or greetd is at any step, that it never will,
\* with either process killed at any point.
THEOREM VerdictIsGreetdsAlways == Spec => []VerdictIsGreetds
<1>1. IInv => VerdictIsGreetds
  BY DEF IInv, Outcomes, VerdictIsGreetds
<1> QED
  BY <1>1, IInvAlways, PTL

\* The worker never waits for a greetd that waits for the worker.
THEOREM NobodyWaitsForBothAlways == Spec => []NobodyWaitsForBoth
<1>1. IInv => NobodyWaitsForBoth
  BY DEF IInv, Turns, Requested, Responded, NobodyWaitsForBoth
<1> QED
  BY <1>1, IInvAlways, PTL

\* The face hears of a failure with the cancel already on its way, or with
\* nothing left at greetd but a session that is ready.
THEOREM RefusalIsCancelledFirstAlways == Spec => []RefusalIsCancelledFirst
<1>1. ASSUME Requested("cancel")
      PROVE  \E i \in DOMAIN toGreetd : toGreetd[i].kind = "cancel"
  <2>1. toGreetd = <<Head(toGreetd)>> /\ Head(toGreetd).kind = "cancel"
    BY <1>1 DEF Requested
  <2>2. 1 \in DOMAIN toGreetd /\ toGreetd[1] = Head(toGreetd)
    BY <2>1
  <2> QED
    BY <2>1, <2>2
<1>2. IInv => RefusalIsCancelledFirst
  BY <1>1 DEF IInv, Outcomes, RefusalIsCancelledFirst
<1> QED
  BY <1>2, IInvAlways, PTL
===============================================================================
