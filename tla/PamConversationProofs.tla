-------------------------- MODULE PamConversationProofs --------------------------
(***************************************************************************)
(* What the run of PamConversation checks for three prompts in calls of    *)
(* two messages, proved for any number of prompts and calls of any length. *)
(***************************************************************************)
EXTENDS PamConversation, SequenceTheorems, TLAPS

Replies == [secret : BOOLEAN, typed : SUBSET Nat, for : Nat]
Slots == [id : Nat, reply : Replies]

WPcs == Serving \cup {"begin", "libpam", "ending", "finishing", "returned"}

TypeOK ==
  /\ reply \in Replies /\ shown \in Nat
  /\ awaiting \in Styles \cup {"none"} /\ focus \in {"user", "masked"}
  /\ fields \in [{"user", "masked"} -> SUBSET Nat]
  /\ wpc \in WPcs /\ told \in Nat
  /\ batch \in Seq(Messages) /\ filled \in Seq(Slots)

\* What the worker can be offering, by where it has got to.
Offers ==
  /\ wpc \in {"begin", "libpam", "ending", "message", "awaiting", "returned"} =>
       offer = NoStep
  /\ wpc = "asking" => offer \in {NoStep, wask}
  /\ wpc = "telling" => offer \in {NoStep, Plain("info")}
  /\ wpc = "finishing" => offer \in {NoStep, Plain("complete"), Plain("failed")}
  /\ gone <=> wpc = "returned"

\* A face with a prompt on screen, or an answer in hand, has the worker's prompt.
FaceAtPrompt ==
  /\ wpc \in {"asking", "awaiting"} /\ offer = NoStep
  /\ shown = wask.id /\ awaiting = wask.style

FaceFollows ==
  /\ fpc = "ui" => FaceAtPrompt /\ reply = NoReply
  /\ reply # NoReply =>
       /\ fpc = "answering" /\ FaceAtPrompt
       /\ reply.for = wask.id /\ reply.secret = (wask.style = "EchoOff")

\* Message i has the response it asked for.
Fits(i) ==
  /\ batch[i] # "null"
  /\ batch[i] = "info" => filled[i] = EmptySlot
  /\ batch[i] \in Styles =>
       /\ filled[i].id # 0 /\ filled[i].reply.for = filled[i].id
       /\ filled[i].reply.secret = (batch[i] = "EchoOff")

AllFit == \A i \in 1..Len(filled) : Fits(i)

\* A call being served has answered a prefix of its messages, and is at the next.
CallSoFar ==
  /\ wpc \in Serving => result = "none" /\ Len(filled) <= Len(batch) /\ AllFit
  /\ wpc \in {"asking", "awaiting"} =>
       /\ MoreMessages /\ Message \in Styles
       /\ wask = Prompt(Message, told) /\ told # 0
  /\ wpc = "telling" => MoreMessages /\ Message = "info"
  /\ result = "PAM_SUCCESS" => Len(filled) = Len(batch) /\ AllFit

\* Success is offered, or shown, of a transaction that libpam let pass and that
\* is over.
SuccessSoFar ==
  /\ offer.kind = "complete" \/ verdict = "Authenticated" =>
       wpc \in {"finishing", "returned"} /\ pamh = "ended" /\ rc = "success"

IInv ==
  /\ TypeOK /\ Offers /\ FaceFollows /\ CallSoFar /\ SuccessSoFar /\ ResponsesAreScrubbed

-------------------------------------------------------------------------------
(* The operators. *)

\* The fields of the records the worker and the face exchange.
LEMMA Fields ==
  /\ NoStep.kind = "none" /\ NoStep # Plain("info") /\ NoStep # Plain("complete")
  /\ NoStep # Plain("failed") /\ Plain("complete") # Plain("failed")
  /\ \A k : Plain(k).kind = k
  /\ \A s, i : /\ Prompt(s, i).kind = "prompt" /\ Prompt(s, i) # NoStep
               /\ Prompt(s, i).style = s /\ Prompt(s, i).id = i
  /\ NoReply \in Replies /\ NoReply.for = 0
BY DEF NoStep, Plain, Prompt, NoReply, Replies

\* The messages of a call are a sequence, whatever their number.
LEMMA BatchesAreSequences == ASSUME NEW b \in Batches PROVE b \in Seq(Messages)
<1>1. PICK n \in 1..MaxBatch : b \in [1..n -> Messages]
  BY DEF Batches
<1>2. n \in Nat
  BY <1>1, ConversationAssumption
<1> QED
  BY <1>1, <1>2, IsASeq

\* A response that fits the message it is for is one more that fits.
LEMMA AppendFits ==
  ASSUME TypeOK, AllFit, MoreMessages, Len(filled) <= Len(batch),
         NEW slot \in Slots, filled' = Append(filled, slot), batch' = batch,
         Message # "null", Message = "info" => slot = EmptySlot,
         Message \in Styles => /\ slot.id # 0 /\ slot.reply.for = slot.id
                               /\ slot.reply.secret = (Message = "EchoOff")
  PROVE  filled' \in Seq(Slots) /\ Len(filled') <= Len(batch') /\ AllFit'
<1>1. /\ filled \in Seq(Slots) /\ Len(filled) \in Nat /\ Len(batch) \in Nat
  BY DEF TypeOK
<1>2. /\ filled' \in Seq(Slots) /\ Len(filled') = Len(filled) + 1
      /\ filled'[Len(filled) + 1] = slot
      /\ \A i \in 1..Len(filled) : filled'[i] = filled[i]
  BY <1>1, AppendProperties
<1>3. Len(filled') <= Len(batch')
  BY <1>1, <1>2 DEF MoreMessages
<1>4. ASSUME NEW i \in 1..Len(filled') PROVE Fits(i)'
  <2>1. CASE i \in 1..Len(filled)
    BY <1>2, <2>1 DEF AllFit, Fits
  <2>2. CASE i = Len(filled) + 1
    BY <1>2, <2>2 DEF Fits, Message
  <2> QED
    BY <1>1, <1>2, <2>1, <2>2
<1> QED
  BY <1>2, <1>3, <1>4 DEF AllFit

-------------------------------------------------------------------------------
\* Before the transaction nothing was asked.
LEMMA InitInv == Init => IInv
<1> SUFFICES ASSUME Init PROVE IInv
  OBVIOUS
<1> USE DEF Init, BridgeInit
<1>1. TypeOK
  BY Fields, EmptySeq DEF TypeOK, WPcs
<1>2. Offers /\ FaceFollows /\ SuccessSoFar /\ ResponsesAreScrubbed
  BY Fields DEF Offers, FaceFollows, SuccessSoFar, ResponsesAreScrubbed
<1>3. CallSoFar
  BY DEF CallSoFar, Serving
<1> QED
  BY <1>1, <1>2, <1>3 DEF IInv

-------------------------------------------------------------------------------
(* The face and the person. *)

\* What is typed, or taken back, are prompts.
LEMMA TypingTypes ==
  ASSUME TypeOK, Type \/ Tab \/ Backspace
  PROVE  fields' \in [{"user", "masked"} -> SUBSET Nat]
<1> DEFINE F == [{"user", "masked"} -> SUBSET Nat]
<1>1. fields \in F /\ focus \in {"user", "masked"} /\ shown \in Nat
  BY DEF TypeOK
<1>2. fields[focus] \in SUBSET Nat
  BY <1>1
<1>3. \A held \in SUBSET Nat : [fields EXCEPT ![focus] = held] \in F
  BY <1>1
<1>4. CASE Type
  <2>1. fields[focus] \cup {shown} \in SUBSET Nat
    BY <1>1, <1>2
  <2> QED
    BY <1>3, <1>4, <2>1 DEF Type
<1>5. CASE Tab
  BY <1>1, <1>5 DEF Tab
<1>6. CASE Backspace
  <2>1. PICK left \in SUBSET fields[focus] : fields' = [fields EXCEPT ![focus] = left]
    BY <1>6 DEF Backspace
  <2>2. left \in SUBSET Nat
    BY <1>2, <2>1
  <2> QED
    BY <1>3, <2>1, <2>2
<1> QED
  BY <1>4, <1>5, <1>6

\* What the face does touches neither the call nor the transaction.
LEMMA FaceInv ==
  ASSUME IInv, FaceActs(FaceStep) \/ FaceActs(Unowed)
  PROVE  IInv'
<1> USE DEF FaceActs, workerVars, pamVars, callVars
<1>1. UNCHANGED <<workerVars, pamVars, callVars>>
  OBVIOUS
<1>2. CallSoFar' /\ ResponsesAreScrubbed'
  BY <1>1 DEF IInv, CallSoFar, AllFit, Fits, MoreMessages, Message, ResponsesAreScrubbed
<1>3. TypeOK' /\ Offers' /\ FaceFollows' /\ SuccessSoFar'
  <2> USE Fields DEF IInv, TypeOK, Offers, FaceFollows, FaceAtPrompt, SuccessSoFar, faceVars
  <2>1. CASE PumpPrompt
    <3>1. wpc = "asking" /\ offer = wask /\ wask.style \in Styles /\ wask.id \in Nat
      BY <2>1 DEF PumpPrompt, WPcs, Serving, CallSoFar
    <3> QED
      BY <2>1, <3>1 DEF PumpPrompt, FieldFor
  <2>2. CASE PumpInfo
    BY <2>2 DEF PumpInfo
  <2>3. CASE PumpOutcome
    BY <2>3 DEF PumpOutcome, Quit, WPcs, Serving, CallSoFar
  <2>4. CASE PumpGone \/ PumpTimesOut
    BY <2>4 DEF PumpGone, PumpTimesOut, PumpNothing, Quit
  <2>5. CASE AnswerTaken
    BY <2>5 DEF AnswerTaken, Cleared
  <2>6. CASE AnswerRefused
    BY <2>6 DEF AnswerRefused, Quit
  <2>7. CASE DropBridge
    BY <2>7 DEF DropBridge
  <2>8. CASE Type \/ Tab \/ Backspace
    <3>1. fields' \in [{"user", "masked"} -> SUBSET Nat]
      BY <2>8, TypingTypes
    <3>2. /\ focus' \in {"user", "masked"}
          /\ UNCHANGED <<offer, reply, gone, fpc, awaiting, verdict, shown>>
      BY <2>8 DEF Type, Tab, Backspace
    <3> QED
      BY <3>1, <3>2
  <2>9. CASE Submit
    BY <2>9 DEF Submit, FieldFor, Replies, CallSoFar
  <2>10. CASE Escape
    BY <2>10 DEF Escape
  <2> QED
    BY <2>1, <2>2, <2>3, <2>4, <2>5, <2>6, <2>7, <2>8, <2>9, <2>10 DEF FaceStep, Unowed
<1> QED
  BY <1>2, <1>3 DEF IInv

-------------------------------------------------------------------------------
(* The worker, outside a call. *)

\* The transaction begins, is over, or is reported, with no call in progress.
LEMMA OutsideInv ==
  IInv /\ (PamStart \/ PamAuthenticate \/ EndsThenReports \/ Returns) => IInv'
<1> SUFFICES ASSUME IInv, PamStart \/ PamAuthenticate \/ EndsThenReports \/ Returns
             PROVE  IInv'
  OBVIOUS
<1> USE DEF PamStart, PamAuthenticate, EndsThenReports, Returns, Finish, IInv,
            bridgeVars, faceVars, pamVars, callVars
<1>1. TypeOK'
  BY DEF TypeOK, WPcs
<1>2. Offers' /\ FaceFollows'
  BY Fields DEF Offers, FaceFollows, FaceAtPrompt
<1>3. CallSoFar' /\ ResponsesAreScrubbed'
  BY DEF CallSoFar, AllFit, Fits, Serving, ResponsesAreScrubbed
<1>4. SuccessSoFar'
  BY Fields DEF SuccessSoFar
<1> QED
  BY <1>1, <1>2, <1>3, <1>4

-------------------------------------------------------------------------------
(* bridging_conv. *)

\* A new call has answered nothing.
LEMMA CalledInv == IInv /\ Called => IInv'
<1> SUFFICES ASSUME IInv, Called PROVE IInv'
  OBVIOUS
<1> USE DEF Called, IInv, bridgeVars, faceVars, pamVars
<1>1. TypeOK'
  BY BatchesAreSequences, EmptySeq DEF TypeOK, WPcs, Serving
<1>2. Offers' /\ FaceFollows' /\ SuccessSoFar'
  BY Fields DEF Offers, FaceFollows, FaceAtPrompt, SuccessSoFar
<1>3. Len(filled') = 0 /\ Len(batch') \in Nat
  BY <1>1, EmptySeq DEF TypeOK
<1>4. CallSoFar' /\ ResponsesAreScrubbed'
  BY <1>3 DEF CallSoFar, AllFit, Serving, ResponsesAreScrubbed
<1> QED
  BY <1>1, <1>2, <1>4

\* A message is asked, or told, in its turn.
LEMMA MessageInv == IInv /\ (AsksMessage \/ TellsMessage \/ IsHeard) => IInv'
<1> SUFFICES ASSUME IInv, AsksMessage \/ TellsMessage \/ IsHeard PROVE IInv'
  OBVIOUS
<1> USE DEF AsksMessage, TellsMessage, IsHeard, IInv, bridgeVars, faceVars, pamVars,
            callVars
<1>1. TypeOK'
  BY DEF TypeOK, WPcs, Serving
<1>2. Offers' /\ FaceFollows'
  BY Fields DEF Offers, FaceFollows, FaceAtPrompt
<1>3. SuccessSoFar'
  BY Fields DEF SuccessSoFar
<1>4. CallSoFar'
  BY DEF CallSoFar, AllFit, Fits, Serving, MoreMessages, Message, TypeOK
<1>5. ResponsesAreScrubbed'
  BY DEF ResponsesAreScrubbed, Serving
<1> QED
  BY <1>1, <1>2, <1>3, <1>4, <1>5

\* Whatever a call failed at, nothing it was given is left.
LEMMA FreeResponsesInv ==
  ASSUME IInv, FreeResponses, offer' = NoStep, reply' = NoReply, fpc # "ui", wpc \in Serving,
         UNCHANGED <<gone, faceVars, wask, told, pamVars, batch>>
  PROVE  IInv'
<1> USE DEF FreeResponses, IInv, faceVars, pamVars
<1>1. TypeOK'
  BY Fields, EmptySeq DEF TypeOK, WPcs
<1>2. Offers' /\ FaceFollows' /\ SuccessSoFar'
  BY Fields DEF Offers, FaceFollows, Serving, SuccessSoFar
<1>3. CallSoFar' /\ ResponsesAreScrubbed'
  BY DEF CallSoFar, Serving, ResponsesAreScrubbed
<1> QED
  BY <1>1, <1>2, <1>3

\* A message with a null pointer fails the call.
LEMMA NullMessageInv == IInv /\ NullMessage => IInv'
<1> SUFFICES ASSUME IInv, NullMessage PROVE IInv'
  OBVIOUS
<1>1. offer = NoStep /\ reply = NoReply /\ fpc # "ui"
  BY DEF NullMessage, IInv, Offers, FaceFollows, FaceAtPrompt
<1> QED
  BY <1>1, FreeResponsesInv DEF NullMessage, bridgeVars, Serving

\* A face that has gone fails the call.
LEMMA AskFailsInv == IInv /\ AskFails => IInv'
<1> SUFFICES ASSUME IInv, AskFails PROVE IInv'
  OBVIOUS
<1>1. reply = NoReply /\ fpc # "ui" /\ wpc \in Serving
  BY DEF AskFails, FaceGone, IInv, FaceFollows, Serving
<1> QED
  BY <1>1, FreeResponsesInv DEF AskFails

\* A response was added that fits its message, and the call goes on.
LEMMA FilledInv ==
  ASSUME IInv, MoreMessages, wpc \in Serving, offer' = NoStep, reply' = NoReply, fpc # "ui",
         wpc' = "message", NEW slot \in Slots, filled' = Append(filled, slot),
         Message # "null", Message = "info" => slot = EmptySlot,
         Message \in Styles => /\ slot.id # 0 /\ slot.reply.for = slot.id
                               /\ slot.reply.secret = (Message = "EchoOff"),
         UNCHANGED <<gone, faceVars, wask, told, pamVars, batch, result>>
  PROVE  IInv'
<1> USE DEF IInv, faceVars, pamVars
<1>1. filled' \in Seq(Slots) /\ Len(filled') <= Len(batch') /\ AllFit'
  BY AppendFits DEF CallSoFar
<1>2. TypeOK'
  BY <1>1, Fields DEF TypeOK, WPcs, Serving
<1>3. Offers' /\ FaceFollows' /\ SuccessSoFar'
  BY Fields DEF Offers, FaceFollows, Serving, SuccessSoFar
<1>4. CallSoFar' /\ ResponsesAreScrubbed'
  BY <1>1 DEF CallSoFar, Serving, ResponsesAreScrubbed
<1> QED
  BY <1>2, <1>3, <1>4

\* What is told has an empty slot, heard or not.
LEMMA ToldInv == IInv /\ Told => IInv'
<1> SUFFICES ASSUME IInv, Told PROVE IInv'
  OBVIOUS
<1>1. reply = NoReply /\ fpc # "ui" /\ wpc \in Serving /\ MoreMessages /\ Message = "info"
  BY DEF Told, IInv, FaceFollows, FaceAtPrompt, Serving, CallSoFar
<1>2. EmptySlot \in Slots
  BY Fields DEF EmptySlot, Slot, Slots
<1> QED
  BY <1>1, <1>2, FilledInv DEF Told, Styles

\* What was answered has the answer of that very prompt.
LEMMA TakesAnswerInv == IInv /\ TakesAnswer => IInv'
<1> SUFFICES ASSUME IInv, TakesAnswer PROVE IInv'
  OBVIOUS
<1> DEFINE slot == Slot(wask.id, reply)
<1>1. /\ fpc # "ui" /\ wpc \in Serving /\ MoreMessages /\ Message \in Styles /\ offer = NoStep
      /\ wask.id \in Nat /\ wask.id # 0 /\ wask.style = Message
      /\ reply.for = wask.id /\ reply.secret = (Message = "EchoOff")
  BY Fields DEF TakesAnswer, IInv, TypeOK, FaceFollows, Offers, Serving, CallSoFar
<1>2. slot \in Slots /\ slot.id = wask.id /\ slot.reply = reply
  BY <1>1 DEF Slot, Slots, IInv, TypeOK
<1>3. CASE filled' = Append(filled, slot) /\ wpc' = "message" /\ UNCHANGED result
  <2> HIDE DEF slot
  <2> QED
    BY <1>1, <1>2, <1>3, FilledInv DEF TakesAnswer, Styles
<1>4. CASE FreeResponses
  BY <1>1, <1>4, FreeResponsesInv DEF TakesAnswer
<1> QED
  BY <1>3, <1>4 DEF TakesAnswer

\* A call that succeeds has answered every message.
LEMMA HandsOverInv == IInv /\ HandsOver => IInv'
<1> SUFFICES ASSUME IInv, HandsOver PROVE IInv'
  OBVIOUS
<1> USE DEF HandsOver, IInv, bridgeVars, faceVars, pamVars
<1>1. TypeOK'
  BY DEF TypeOK, WPcs
<1>2. Offers' /\ FaceFollows' /\ SuccessSoFar'
  BY Fields DEF Offers, FaceFollows, FaceAtPrompt, SuccessSoFar
<1>3. Len(filled) = Len(batch) /\ AllFit
  BY DEF CallSoFar, Serving, MoreMessages, TypeOK
<1>4. CallSoFar' /\ ResponsesAreScrubbed'
  BY <1>3 DEF CallSoFar, AllFit, Fits, Serving, ResponsesAreScrubbed
<1> QED
  BY <1>1, <1>2, <1>4

-------------------------------------------------------------------------------
\* A process that ends takes its memory with it.
LEMMA GreeterExitsInv == IInv /\ GreeterExits => IInv'
<1> SUFFICES ASSUME IInv, GreeterExits PROVE IInv'
  OBVIOUS
<1> USE DEF GreeterExits, GreeterEnds, IInv, pamVars
<1>1. TypeOK'
  BY Fields DEF TypeOK, WPcs
<1>2. Offers' /\ FaceFollows' /\ SuccessSoFar'
  BY Fields DEF Offers, FaceFollows, SuccessSoFar
<1>3. CallSoFar' /\ ResponsesAreScrubbed'
  BY DEF CallSoFar, AllFit, Fits, Serving, ResponsesAreScrubbed
<1> QED
  BY <1>1, <1>2, <1>3

\* Every step of the worker, the face and the person.
LEMMA NextInv == IInv /\ [Next]_vars => IInv'
<1> SUFFICES ASSUME IInv, [Next]_vars PROVE IInv'
  OBVIOUS
<1>1. CASE FaceActs(FaceStep) \/ FaceActs(Unowed)
  BY <1>1, FaceInv
<1>2. CASE WorkerStep
  BY <1>2, OutsideInv, CalledInv, MessageInv, NullMessageInv, ToldInv, AskFailsInv,
     TakesAnswerInv, HandsOverInv DEF WorkerStep
<1>3. CASE GreeterExits
  BY <1>3, GreeterExitsInv
<1>4. CASE UNCHANGED vars
  BY <1>4 DEF vars, bridgeVars, faceVars, workerVars, pamVars, callVars, IInv, TypeOK,
     Offers, FaceFollows, FaceAtPrompt, CallSoFar, AllFit, Fits, MoreMessages, Message,
     SuccessSoFar, ResponsesAreScrubbed
<1> QED
  BY <1>1, <1>2, <1>3, <1>4 DEF Next, Over

\* The invariant holds throughout.
LEMMA IInvAlways == Spec => []IInv
BY InitInv, NextInv, PTL DEF Spec

-------------------------------------------------------------------------------
(* What the run checks, for any number of prompts and calls of any length. *)

\* Every value stays in its type; what a field or an answer holds are prompts.
THEOREM TypeCorrect == Spec => []TypeOK
<1>1. IInv => TypeOK
  BY DEF IInv
<1> QED
  BY <1>1, IInvAlways, PTL

\* A call that libpam is told has succeeded carries one response for each of its
\* messages, in order, each the answer submitted at that prompt: CallSoFar holds
\* of a prefix while the call is being served.
THEOREM ResponsesFitTheirMessagesAlways == Spec => []ResponsesFitTheirMessages
<1>1. IInv => ResponsesFitTheirMessages
  <2> SUFFICES ASSUME IInv, result = "PAM_SUCCESS"
               PROVE  /\ Len(filled) = Len(batch)
                      /\ \A i \in DOMAIN batch : Fits(i)
    BY DEF ResponsesFitTheirMessages, Fits
  <2>1. Len(filled) = Len(batch) /\ AllFit /\ DOMAIN batch = 1..Len(batch)
    BY DEF IInv, CallSoFar, TypeOK
  <2> QED
    BY <2>1 DEF AllFit
<1> QED
  BY <1>1, IInvAlways, PTL

\* Nothing of the array libpam was to have is legible once the call is over, in
\* whichever way.  (The String each answer was copied from is another matter.)
THEOREM ResponsesAreScrubbedAlways == Spec => []ResponsesAreScrubbed
<1>1. IInv => ResponsesAreScrubbed
  BY DEF IInv
<1> QED
  BY <1>1, IInvAlways, PTL

\* A face that shows success learned it of a transaction that has ended, and
\* that libpam let pass.
THEOREM SuccessIsReportedLastAlways == Spec => []SuccessIsReportedLast
<1>1. IInv => SuccessIsReportedLast
  BY DEF IInv, SuccessSoFar, SuccessIsReportedLast
<1> QED
  BY <1>1, IInvAlways, PTL
===============================================================================
