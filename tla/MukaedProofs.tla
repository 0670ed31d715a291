----------------------------- MODULE MukaedProofs -----------------------------
(***************************************************************************)
(* What the run of Mukaed checks for two scripts, proved for every script: *)
(* the safety of the login over the socket (LoginWire), on its own and as  *)
(* part of the daemon, and that of the daemon's console, greeter and exit. *)
(***************************************************************************)
EXTENDS Mukaed, SequenceTheorems, FiniteSetTheorems, TLAPS

(* The invariant of the conversation. *)

\* The prompt serve_observed is at, and the answers that are for it.
Current == PromptFrame(script[at], PromptsUpTo(at))
Fits(r) ==
  /\ r.for = Current.id /\ r.secret = (Current.style = "EchoOff")
  /\ Current.style = "EchoOn" => r.typed \subseteq {Current.id}

Frames == [kind : {"prompt", "info", "ok", "no"}, style : Styles \cup {"none"}, id : Nat]

WPcs == {"recv", "asking", "telling", "awaiting", "finishing", "returned"}
Listening == {"recv", "telling", "returned"}

WireTypeOK ==
  /\ script \in Seq(Styles \cup {"info"}) /\ at \in Nat
  /\ toGreeter \in Seq(Frames)
  /\ shown \in Nat /\ focus \in {"user", "masked"}
  /\ fields \in [{"user", "masked"} -> SUBSET Nat]
  /\ wpc \in WPcs /\ dpc \in {"next", "recv", "returned", "dead"}
  /\ dpc = "returned" => result \in {"error", "none", "some"}
  /\ decided \in {"open", "Failed", "Complete"}

\* Each end of the socket is there as long as its process needs it.
SocketEnds ==
  /\ gOpen <=> wpc # "returned"
  /\ gone <=> wpc = "returned"
  /\ dpc \in {"next", "recv"} => dOpen

\* Whose turn it is: the daemon waits while the worker is at its prompt.
Turns ==
  /\ dpc = "next" => toDaemon = <<>> /\ wpc \in Listening
  /\ wpc \in {"asking", "awaiting"} =>
       /\ toGreeter = <<>> /\ toDaemon = <<>>
       /\ dpc \in {"recv", "dead"} /\ wask = Current
  /\ wpc = "finishing" => toGreeter = <<>> /\ dpc # "next"

\* What the worker has sent and the daemon has not read: one frame at most.
ToRead ==
  toDaemon # <<>> =>
    /\ toDaemon = <<Head(toDaemon)>> /\ dpc \in {"recv", "dead"}
    /\ wpc # "returned" => toGreeter = <<>>
    /\ \/ /\ Head(toDaemon).kind = "answer" /\ Fits(Head(toDaemon).reply)
          /\ dpc = "recv" => wpc \in {"recv", "returned"}
       \/ Head(toDaemon).kind = "cancel" /\ wpc \in {"finishing", "returned"}

\* What the daemon has sent and the worker has not read: messages, and after them
\* the prompt it waits at, or the outcome it left with.
LastFrame(f) ==
  \/ f.kind = "prompt" /\ f = Current /\ dpc \in {"recv", "dead"}
  \/ f.kind = "ok" /\ dpc = "returned" /\ decided = "Complete"
  \/ f.kind = "no" /\ dpc = "returned"

ToTell ==
  wpc # "returned" =>
    \A i \in 1..Len(toGreeter) :
      toGreeter[i].kind = "info" \/ (i = Len(toGreeter) /\ LastFrame(toGreeter[i]))

\* What the worker can be offering, by where it has got to.
Offers ==
  /\ wpc \in {"recv", "awaiting", "returned"} => offer = NoStep
  /\ wpc = "asking" => offer \in {NoStep, wask}
  /\ wpc = "telling" => offer \in {NoStep, Plain("info")}
  /\ wpc = "finishing" => offer \in {NoStep, Plain("complete"), Plain("failed")}

\* A face with a prompt on screen, or an answer in hand, has the worker's prompt,
\* and its visible field holds nothing typed at another.
FaceAtPrompt ==
  /\ wpc \in {"asking", "awaiting"} /\ offer = NoStep
  /\ shown = wask.id /\ awaiting = wask.style

FaceFollows ==
  /\ fpc = "ui" => FaceAtPrompt /\ reply = NoReply
  /\ reply # NoReply => fpc = "answering" /\ FaceAtPrompt /\ Fits(reply)

VisibleField ==
  /\ fpc = "pump" => fields["user"] = {}
  /\ fpc \in {"ui", "answering"} => fields["user"] \subseteq {shown}
  /\ fpc \in {"ui", "answering"} /\ awaiting = "EchoOff" =>
       fields["user"] = {} /\ focus = "masked"

\* A login is counted once, when it is over; one that was left is not.
Counted ==
  /\ <<failures, successes>> \in {<<0, 0>>, <<1, 0>>, <<0, 1>>}
  /\ decided = "Complete" <=> successes = 1
  /\ dpc # "returned" => failures = 0 /\ successes = 0
  /\ offer.kind = "complete" \/ verdict = "Authenticated" => decided = "Complete"
  /\ verdict = "Abandoned" =>
       /\ fpc \in {"quit", "dropped", "exited"} /\ failures = 0 /\ successes = 0
       /\ wpc \in {"asking", "awaiting", "finishing", "returned"} /\ dpc # "next"
       /\ toDaemon # <<>> => Head(toDaemon).kind = "cancel"

WireInv ==
  /\ WireTypeOK /\ SocketEnds /\ Turns /\ ToRead /\ ToTell
  /\ Offers /\ FaceFollows /\ VisibleField /\ Counted /\ AnswersReachTheirPrompt

-------------------------------------------------------------------------------
(* The operators. *)

\* The fields of the records the worker, the face and the daemon exchange.
LEMMA Fields ==
  /\ NoStep.kind = "none" /\ NoStep # Plain("info") /\ NoStep # Plain("complete")
  /\ NoStep # Plain("failed") /\ Plain("complete") # Plain("failed")
  /\ \A k : Plain(k).kind = k
  /\ \A s, i : /\ Prompt(s, i).kind = "prompt" /\ Prompt(s, i) # NoStep
               /\ Prompt(s, i).style = s /\ Prompt(s, i).id = i
               /\ PromptFrame(s, i) = Prompt(s, i)
  /\ \A r : Answer(r).kind = "answer" /\ Answer(r).reply = r
  /\ Cancel.kind = "cancel" /\ NoReply.for = 0
BY DEF NoStep, Plain, Prompt, PromptFrame, Answer, Cancel, NoReply

\* The frames of the daemon.
LEMMA FrameFacts ==
  /\ InfoFrame \in Frames /\ InfoFrame.kind = "info"
  /\ Outcome(TRUE) \in Frames /\ Outcome(TRUE).kind = "ok"
  /\ Outcome(FALSE) \in Frames /\ Outcome(FALSE).kind = "no"
  /\ \A s \in Styles, i \in Nat : PromptFrame(s, i) \in Frames
BY DEF InfoFrame, Outcome, PromptFrame, Frames, Styles

\* Prompts are counted, however many steps of the script have been taken.
LEMMA PromptsAreCounted ==
  ASSUME at \in Nat
  PROVE  PromptsUpTo(at) \in Nat
<1>1. IsFiniteSet(1..at)
  BY FS_Interval
<1>2. {i \in 1..at : script[i] \in Styles} \in SUBSET (1..at)
  OBVIOUS
<1>3. IsFiniteSet({i \in 1..at : script[i] \in Styles})
  BY <1>1, <1>2, FS_Subset
<1> QED
  BY <1>3, FS_CardinalityType DEF PromptsUpTo

\* The current prompt, and what is an answer to it, depend on the script alone.
LEMMA CurrentFacts ==
  /\ Current.kind = "prompt" /\ Current # NoStep
  /\ Current.style = script[at] /\ Current.id = PromptsUpTo(at)
  /\ at \in Nat => Current.id \in Nat
BY Fields, PromptsAreCounted DEF Current

\* And stay what they are while it does not go on.
LEMMA CurrentKept ==
  ASSUME UNCHANGED <<script, at>>
  PROVE  /\ Current' = Current /\ PromptsUpTo(at)' = PromptsUpTo(at)
         /\ \A r : Fits(r)' <=> Fits(r)
BY DEF Current, PromptsUpTo, PromptFrame, Fits

\* A queue of one is read and is empty again.
LEMMA OneInFlight ==
  \A m : /\ Append(<<>>, m) = <<m>> /\ <<m>> # <<>>
         /\ Head(<<m>>) = m /\ Tail(<<m>>) = <<>>
OBVIOUS

\* What the worker reads is a message, or the last frame there is.
LEMMA Reads ==
  ASSUME toGreeter \in Seq(Frames), toGreeter # <<>>, ToTell, wpc # "returned"
  PROVE  /\ Head(toGreeter) \in Frames /\ Tail(toGreeter) \in Seq(Frames)
         /\ \A i \in 1..Len(Tail(toGreeter)) :
              \/ Tail(toGreeter)[i].kind = "info"
              \/ i = Len(Tail(toGreeter)) /\ LastFrame(Tail(toGreeter)[i])
         /\ Head(toGreeter).kind # "info" =>
              LastFrame(Head(toGreeter)) /\ Tail(toGreeter) = <<>>
<1> DEFINE n == Len(toGreeter)
           rest == Tail(toGreeter)
<1>1. n \in Nat \ {0} /\ Head(toGreeter) = toGreeter[1]
  BY EmptySeq, LenProperties
<1>2. /\ Head(toGreeter) \in Frames /\ rest \in Seq(Frames) /\ Len(rest) = n - 1
      /\ \A i \in 1..Len(rest) : rest[i] = toGreeter[i + 1]
  BY HeadTailProperties
<1>3. \A i \in 1..n : \/ toGreeter[i].kind = "info"
                      \/ i = n /\ LastFrame(toGreeter[i])
  BY DEF ToTell
<1>4. ASSUME NEW i \in 1..Len(rest)
      PROVE  rest[i].kind = "info" \/ (i = Len(rest) /\ LastFrame(rest[i]))
  <2>1. i + 1 \in 1..n /\ (i + 1 = n <=> i = Len(rest)) /\ rest[i] = toGreeter[i + 1]
    BY <1>1, <1>2
  <2> QED
    BY <1>3, <2>1
<1>5. ASSUME Head(toGreeter).kind # "info"
      PROVE  LastFrame(Head(toGreeter)) /\ rest = <<>>
  <2>1. n = 1 /\ LastFrame(toGreeter[1])
    <3>1. 1 \in 1..n
      BY <1>1
    <3> QED
      BY <1>1, <1>3, <1>5, <3>1
  <2>2. Len(rest) = 0
    BY <1>2, <2>1
  <2> QED
    BY <1>1, <1>2, <2>1, <2>2, EmptySeq
<1> QED
  BY <1>2, <1>4, <1>5

\* What the daemon sends, it sends after messages alone.
LEMMA Sends ==
  ASSUME WireInv, dpc = "next", gOpen, NEW f \in Frames,
         toGreeter' = Append(toGreeter, f), wpc' = wpc,
         f.kind = "info" \/ LastFrame(f)'
  PROVE  toGreeter' \in Seq(Frames) /\ ToTell'
<1> DEFINE n == Len(toGreeter)
<1>1. toGreeter \in Seq(Frames) /\ n \in Nat /\ wpc # "returned"
  BY LenProperties DEF WireInv, WireTypeOK, SocketEnds
<1>2. /\ toGreeter' \in Seq(Frames) /\ Len(toGreeter') = n + 1 /\ toGreeter'[n + 1] = f
      /\ \A i \in 1..n : toGreeter'[i] = toGreeter[i]
  BY <1>1, AppendProperties
<1>3. \A i \in 1..n : toGreeter[i].kind = "info"
  BY <1>1, CurrentFacts DEF WireInv, ToTell, LastFrame
<1>4. ASSUME NEW i \in 1..Len(toGreeter')
      PROVE  toGreeter'[i].kind = "info" \/ (i = Len(toGreeter') /\ LastFrame(toGreeter[i])')
  <2>1. i \in 1..n \/ i = n + 1
    BY <1>1, <1>2
  <2>2. CASE i \in 1..n
    BY <1>2, <1>3, <2>2
  <2>3. CASE i = n + 1
    <3>1. toGreeter'[i] = f /\ i = Len(toGreeter')
      BY <1>2, <2>3
    <3> QED
      BY <3>1 DEF LastFrame
  <2> QED
    BY <2>1, <2>2, <2>3
<1> QED
  BY <1>2, <1>4 DEF ToTell

\* Of an empty queue there is nothing to say.
LEMMA NothingToTell == ASSUME toGreeter' = <<>> PROVE ToTell'
<1>1. Len(<<>>) = 0
  BY EmptySeq
<1>2. \A i \in 1..Len(toGreeter') : FALSE
  BY <1>1
<1> QED
  BY <1>2 DEF ToTell

\* What was in flight is as it was, if the daemon and the script are.
LEMMA TellKept ==
  ASSUME ToTell, UNCHANGED <<toGreeter, script, at, dpc, decided>>, wpc # "returned"
  PROVE  ToTell'
BY CurrentKept DEF ToTell, LastFrame

-------------------------------------------------------------------------------
\* The conversation begins with nothing said.
LEMMA WireInit == Init => WireInv
<1> SUFFICES ASSUME Init PROVE WireInv
  OBVIOUS
<1>1. /\ wpc = "recv" /\ toGreeter = <<>> /\ toDaemon = <<>> /\ gOpen /\ dOpen
      /\ dpc = "next" /\ script \in Scripts /\ at = 1 /\ decided = "open" /\ heard = {}
  BY DEF Init
<1>2. failures = 0 /\ successes = 0
  BY DEF Init
<1>3. /\ offer = NoStep /\ reply = NoReply /\ ~gone /\ fpc = "pump" /\ verdict = "none"
      /\ focus = "user" /\ fields = [f \in {"user", "masked"} |-> {}] /\ shown = 0
  BY DEF Init, BridgeInit
<1>4. WireTypeOK
  <2>1. script \in Seq(Styles \cup {"info"}) /\ toGreeter \in Seq(Frames)
    BY <1>1, WireAssumption, EmptySeq
  <2>2. at \in Nat /\ shown \in Nat
    BY <1>1, <1>3
  <2>3. fields \in [{"user", "masked"} -> SUBSET Nat] /\ focus \in {"user", "masked"}
    BY <1>3
  <2> QED
    BY <1>1, <2>1, <2>2, <2>3 DEF WireTypeOK, WPcs
<1>5. SocketEnds /\ Turns /\ ToRead /\ Offers /\ FaceFollows /\ VisibleField
  BY <1>1, <1>3 DEF SocketEnds, Turns, ToRead, Offers, FaceFollows, VisibleField, Listening
<1>6. ToTell
  <2>1. Len(toGreeter) = 0
    BY <1>1, EmptySeq
  <2>2. \A i \in 1..Len(toGreeter) : FALSE
    BY <2>1
  <2> QED
    BY <2>2 DEF ToTell
<1>7. Counted /\ AnswersReachTheirPrompt
  BY <1>1, <1>2, <1>3, Fields DEF Counted, AnswersReachTheirPrompt
<1> QED
  BY <1>4, <1>5, <1>6, <1>7 DEF WireInv

-------------------------------------------------------------------------------
(* The face and the person. *)

\* What the face does touches neither the worker nor the daemon.
LEMMA FaceInv ==
  ASSUME WireInv, FaceActs(FaceStep) \/ FaceActs(Unowed)
  PROVE  WireInv'
<1>1. UNCHANGED <<workerVars, wireVars, daemonVars>>
  BY DEF FaceActs
<1> USE <1>1 DEF workerVars, wireVars, daemonVars
<1>2. SocketEnds' /\ Turns' /\ ToRead' /\ ToTell' /\ AnswersReachTheirPrompt'
  <2>1. gone' = gone
    BY DEF FaceActs, FaceStep, Unowed, PumpPrompt, PumpInfo, PumpOutcome, PumpGone,
           PumpTimesOut, PumpNothing, AnswerTaken, AnswerRefused, DropBridge, Type, Tab, Backspace, Submit, Escape,
           Quit
  <2> QED
    BY <2>1, CurrentKept DEF WireInv, SocketEnds, Turns, ToRead, ToTell, LastFrame,
                             AnswersReachTheirPrompt
<1>3. /\ offer = wask /\ wpc = "asking" => offer.id \in Nat
      /\ wpc = "asking" => wask.id \in Nat
  BY CurrentFacts DEF WireInv, Turns, WireTypeOK
<1>4. WireTypeOK'
  <2> USE DEF WireInv, WireTypeOK
  <2>1. CASE PumpPrompt
    <3>1. shown' \in Nat
      BY <1>3, <2>1, Fields DEF PumpPrompt, Offers, WPcs
    <3> QED
      BY <2>1, <3>1 DEF PumpPrompt, FieldFor
  <2>2. CASE PumpInfo \/ PumpOutcome \/ PumpGone \/ PumpTimesOut
    BY <2>2 DEF PumpInfo, PumpOutcome, PumpGone, PumpTimesOut, PumpNothing, Quit, faceVars
  <2>3. CASE AnswerTaken
    BY <2>3 DEF AnswerTaken, Cleared
  <2>4. CASE AnswerRefused \/ DropBridge \/ Tab \/ Submit
    BY <2>4 DEF AnswerRefused, DropBridge, Tab, Submit, Quit
  <2>5. CASE Type
    BY <2>5 DEF Type
  <2>6. CASE Backspace
    BY <2>6 DEF Backspace
  <2>7. CASE Escape
    BY <2>7 DEF Escape
  <2> QED
    BY <2>1, <2>2, <2>3, <2>4, <2>5, <2>6, <2>7 DEF FaceActs, FaceStep, Unowed
<1>5. Offers' /\ FaceFollows' /\ VisibleField' /\ Counted'
  <2>1. fields \in [{"user", "masked"} -> SUBSET Nat] /\ focus \in {"user", "masked"}
    BY DEF WireInv, WireTypeOK
  <2>2. \A r : Fits(r)' <=> Fits(r)
    BY CurrentKept
  <2> USE Fields, <2>1, <2>2 DEF WireInv, Offers, FaceFollows, FaceAtPrompt, VisibleField,
                                 Counted, faceVars
  <2>3. CASE PumpPrompt
    BY <2>3 DEF PumpPrompt, WireTypeOK, WPcs, FieldFor
  <2>4. CASE PumpInfo
    BY <2>4 DEF PumpInfo
  <2>5. CASE PumpOutcome
    BY <2>5 DEF PumpOutcome, Quit
  <2>6. CASE PumpGone \/ PumpTimesOut
    BY <2>6 DEF PumpGone, PumpTimesOut, PumpNothing, Quit
  <2>7. CASE AnswerTaken
    BY <2>7 DEF AnswerTaken, Cleared, FieldFor
  <2>8. CASE AnswerRefused
    BY <2>8 DEF AnswerRefused, Quit
  <2>9. CASE DropBridge
    BY <2>9 DEF DropBridge
  <2>10. CASE Type
    BY <2>10 DEF Type
  <2>11. CASE Tab
    BY <2>11 DEF Tab
  <2>12. CASE Backspace
    <3>1. fields'["user"] \subseteq fields["user"]
      <4>1. PICK left \in SUBSET fields[focus] : fields' = [fields EXCEPT ![focus] = left]
        BY <2>12 DEF Backspace
      <4>2. CASE focus = "user"
        BY <2>1, <4>1, <4>2
      <4>3. CASE focus = "masked"
        BY <2>1, <4>1, <4>3
      <4> QED
        BY <2>1, <4>2, <4>3
    <3>2. UNCHANGED <<offer, reply, gone, fpc, awaiting, verdict, focus, shown>>
      BY <2>12 DEF Backspace
    <3> QED
      BY <3>1, <3>2
  <2>13. CASE Submit
    <3>1. Fits(reply')
      BY <2>13, CurrentFacts DEF Submit, Fits, Turns, FieldFor
    <3> QED
      BY <2>13, <3>1 DEF Submit
  <2>14. CASE Escape
    BY <2>14 DEF Escape, Turns
  <2> QED
    BY <2>3, <2>4, <2>5, <2>6, <2>7, <2>8, <2>9, <2>10, <2>11, <2>12, <2>13, <2>14
       DEF FaceActs, FaceStep, Unowed
<1> QED
  BY <1>2, <1>4, <1>5 DEF WireInv

-------------------------------------------------------------------------------
(* greeter_side. *)

\* What the worker leaves alone: the face, and all of the daemon.
LEMMA WorkerKeeps ==
  ASSUME WireInv, UNCHANGED <<faceVars, daemonVars>>
  PROVE  VisibleField' /\ AnswersReachTheirPrompt'
BY DEF WireInv, VisibleField, AnswersReachTheirPrompt, faceVars, daemonVars

\* The prompt that is read is the one the daemon waits at.
LEMMA ReadsPromptInv ==
  ASSUME WireInv, WorkerReadsPrompt
  PROVE  WireInv'
<1>1. /\ wpc = "recv" /\ toGreeter # <<>> /\ Head(toGreeter).kind = "prompt"
      /\ toGreeter' = Tail(toGreeter)
      /\ wask' = Prompt(Head(toGreeter).style, Head(toGreeter).id)
      /\ offer' = wask' /\ wpc' = "asking"
      /\ UNCHANGED <<reply, gone, faceVars, toDaemon, gOpen, dOpen, daemonVars>>
  BY DEF WorkerReadsPrompt
<1> USE <1>1 DEF faceVars, daemonVars
<1>2. LastFrame(Head(toGreeter)) /\ Tail(toGreeter) = <<>> /\ Tail(toGreeter) \in Seq(Frames)
  BY Reads DEF WireInv, WireTypeOK
<1>3. Head(toGreeter) = Current /\ dpc \in {"recv", "dead"}
  BY <1>2 DEF LastFrame
<1>4. wask' = Current /\ Current' = Current
  BY <1>3, CurrentKept, Fields DEF Current
<1>5. toDaemon = <<>>
  BY DEF WireInv, ToRead
<1>6. WireTypeOK' /\ SocketEnds'
  BY <1>2 DEF WireInv, WireTypeOK, SocketEnds, WPcs
<1>7. Turns' /\ ToRead'
  BY <1>2, <1>3, <1>4, <1>5 DEF WireInv, Turns, ToRead
<1>8. ToTell'
  BY <1>2, NothingToTell
<1>9. Offers' /\ FaceFollows'
  BY DEF WireInv, Offers, FaceFollows, FaceAtPrompt
<1>10. Counted'
  BY <1>4, CurrentFacts DEF WireInv, Counted
<1> QED
  BY <1>6, <1>7, <1>8, <1>9, <1>10, WorkerKeeps DEF WireInv

\* A message is told; nothing of the queue behind it changes.
LEMMA ReadsInfoInv ==
  ASSUME WireInv, WorkerReadsInfo
  PROVE  WireInv'
<1>1. /\ wpc = "recv" /\ toGreeter # <<>>
      /\ toGreeter' = Tail(toGreeter)
      /\ offer' = Plain("info") /\ wpc' = "telling"
      /\ UNCHANGED <<reply, gone, faceVars, wask, toDaemon, gOpen, dOpen, daemonVars>>
  BY DEF WorkerReadsInfo
<1> USE <1>1 DEF faceVars, daemonVars
<1>2. /\ Tail(toGreeter) \in Seq(Frames)
      /\ \A i \in 1..Len(Tail(toGreeter)) :
           \/ Tail(toGreeter)[i].kind = "info"
           \/ i = Len(Tail(toGreeter)) /\ LastFrame(Tail(toGreeter)[i])
  BY Reads DEF WireInv, WireTypeOK
<1>3. toDaemon = <<>>
  BY DEF WireInv, ToRead
<1>4. WireTypeOK' /\ SocketEnds'
  BY <1>2 DEF WireInv, WireTypeOK, SocketEnds, WPcs
<1>5. Turns' /\ ToRead'
  BY <1>3 DEF WireInv, Turns, ToRead, Listening
<1>6. ToTell'
  BY <1>2, CurrentKept DEF ToTell, LastFrame
<1>7. Offers' /\ FaceFollows'
  BY DEF WireInv, Offers, FaceFollows, FaceAtPrompt
<1>8. Counted'
  BY Fields DEF WireInv, Counted
<1> QED
  BY <1>4, <1>5, <1>6, <1>7, <1>8, WorkerKeeps DEF WireInv

\* An outcome is the last that is said, and the daemon's.
LEMMA ReadsOutcomeInv ==
  ASSUME WireInv, WorkerReadsOutcome
  PROVE  WireInv'
<1>1. /\ wpc = "recv" /\ toGreeter # <<>> /\ Head(toGreeter).kind \in {"ok", "no"}
      /\ toGreeter' = Tail(toGreeter)
      /\ offer' = Plain(OutcomeStep(Head(toGreeter).kind)) /\ wpc' = "finishing"
      /\ UNCHANGED <<reply, gone, faceVars, wask, toDaemon, gOpen, dOpen, daemonVars>>
  BY DEF WorkerReadsOutcome, Finish
<1> USE <1>1 DEF faceVars, daemonVars
<1>2. LastFrame(Head(toGreeter)) /\ Tail(toGreeter) = <<>> /\ Tail(toGreeter) \in Seq(Frames)
  BY Reads DEF WireInv, WireTypeOK
<1>3. dpc = "returned" /\ (Head(toGreeter).kind = "ok" => decided = "Complete")
  BY <1>2 DEF LastFrame
<1>4. /\ offer' \in {Plain("complete"), Plain("failed")}
      /\ offer'.kind = "complete" => decided = "Complete"
  BY <1>3, Fields DEF OutcomeStep
<1>5. WireTypeOK' /\ SocketEnds'
  BY <1>2 DEF WireInv, WireTypeOK, SocketEnds, WPcs
<1>6. Turns' /\ ToRead'
  BY <1>2, <1>3 DEF WireInv, Turns, ToRead
<1>7. ToTell'
  BY <1>2, NothingToTell
<1>8. Offers' /\ FaceFollows'
  BY <1>4 DEF WireInv, Offers, FaceFollows, FaceAtPrompt
<1>9. Counted'
  BY <1>4 DEF WireInv, Counted
<1> QED
  BY <1>5, <1>6, <1>7, <1>8, <1>9, WorkerKeeps DEF WireInv

\* A step that ends the conversation from the worker's side: a cancel, if it sends
\* one, is what the daemon has to read.
LEMMA FinishInv ==
  ASSUME WireInv, wpc \in {"recv", "asking", "awaiting"}, toGreeter = <<>>, dpc # "next",
         wpc = "recv" => ~dOpen, Finish("failed"),
         \/ UNCHANGED toDaemon
         \/ toDaemon = <<>> /\ dpc \in {"recv", "dead"} /\ toDaemon' = <<Cancel>>,
         reply' = NoReply,
         UNCHANGED <<gone, faceVars, wask, toGreeter, gOpen, dOpen, daemonVars>>,
         fpc # "ui"
  PROVE  WireInv'
<1> USE DEF Finish, faceVars, daemonVars
<1>1. WireTypeOK' /\ SocketEnds'
  BY DEF WireInv, WireTypeOK, SocketEnds, WPcs
<1>2. Turns'
  BY DEF WireInv, Turns
<1>3. ToRead'
  <2>1. CASE UNCHANGED toDaemon
    <3>1. wpc = "recv" => dpc # "recv"
      BY DEF WireInv, SocketEnds
    <3>2. toDaemon # <<>> => wpc = "recv"
      BY DEF WireInv, Turns
    <3> QED
      BY <2>1, <3>1, <3>2, CurrentKept DEF WireInv, ToRead
  <2>2. CASE toDaemon' = <<Cancel>> /\ dpc \in {"recv", "dead"}
    BY <2>2, OneInFlight, Fields DEF ToRead
  <2> QED
    BY <2>1, <2>2
<1>4. ToTell'
  BY NothingToTell
<1>5. Offers' /\ FaceFollows'
  BY DEF WireInv, Offers, FaceFollows, FaceAtPrompt
<1>6. Counted'
  <2>1. CASE UNCHANGED toDaemon
    BY <2>1, Fields DEF WireInv, Counted
  <2>2. CASE toDaemon' = <<Cancel>>
    BY <2>2, OneInFlight, Fields DEF WireInv, Counted
  <2> QED
    BY <2>1, <2>2
<1> QED
  BY <1>1, <1>2, <1>3, <1>4, <1>5, <1>6, WorkerKeeps DEF WireInv

\* The daemon went away.
LEMMA ReadsEofInv ==
  ASSUME WireInv, WorkerReadsEof
  PROVE  WireInv'
<1>1. /\ wpc = "recv" /\ toGreeter = <<>> /\ ~dOpen /\ Finish("failed")
      /\ UNCHANGED <<reply, gone, faceVars, wask, wireVars, daemonVars>>
  BY DEF WorkerReadsEof
<1>2. dpc # "next" /\ reply = NoReply /\ fpc # "ui"
  BY <1>1 DEF WireInv, SocketEnds, FaceFollows, FaceAtPrompt
<1> QED
  BY <1>1, <1>2, FinishInv DEF wireVars

\* Nobody is there to be asked.
LEMMA AskFailsInv ==
  ASSUME WireInv, WorkerAskFails
  PROVE  WireInv'
<1>1. /\ FaceGone /\ wpc \in {"asking", "awaiting"} /\ ToDaemon(Cancel) /\ Finish("failed")
      /\ UNCHANGED <<reply, gone, faceVars, wask, toGreeter, gOpen, dOpen, daemonVars>>
  BY DEF WorkerAskFails
<1>2. toGreeter = <<>> /\ toDaemon = <<>> /\ dpc \in {"recv", "dead"}
  BY <1>1 DEF WireInv, Turns
<1>3. toDaemon' = toDaemon \/ toDaemon' = <<Cancel>>
  BY <1>1, <1>2, OneInFlight DEF ToDaemon
<1>4. reply = NoReply /\ fpc # "ui"
  BY <1>1 DEF FaceGone, WireInv, FaceFollows
<1> QED
  BY <1>1, <1>2, <1>3, <1>4, FinishInv

\* The answer the face has handed over is for the prompt the worker asked.
LEMMA TakesAnswerInv ==
  ASSUME WireInv, WorkerTakesAnswer
  PROVE  WireInv'
<1>1. /\ wpc = "awaiting" /\ reply # NoReply /\ reply' = NoReply
      /\ UNCHANGED <<gone, faceVars, wask, toGreeter, gOpen, dOpen, daemonVars>>
  BY DEF WorkerTakesAnswer
<1>2. /\ toGreeter = <<>> /\ toDaemon = <<>> /\ dpc \in {"recv", "dead"} /\ wask = Current
  BY <1>1 DEF WireInv, Turns
<1>3. Fits(reply) /\ fpc = "answering" /\ offer = NoStep
  BY <1>1 DEF WireInv, FaceFollows, FaceAtPrompt
<1>4. reply.secret => wask.style = "EchoOff"
  BY <1>2, <1>3 DEF Fits
<1>5. /\ ToDaemon(Answer(reply))
      /\ IF dOpen THEN wpc' = "recv" /\ UNCHANGED offer ELSE Finish("failed")
  BY <1>4 DEF WorkerTakesAnswer
<1>6. CASE ~dOpen
  <2>1. UNCHANGED toDaemon /\ Finish("failed")
    BY <1>5, <1>6 DEF ToDaemon
  <2> QED
    BY <1>1, <1>2, <1>3, <2>1, FinishInv
<1>7. CASE dOpen
  <2>1. toDaemon' = <<Answer(reply)>> /\ wpc' = "recv" /\ offer' = NoStep
    BY <1>2, <1>3, <1>5, <1>7, OneInFlight DEF ToDaemon
  <2>2. /\ Head(toDaemon').kind = "answer" /\ Head(toDaemon').reply = reply
        /\ toDaemon' = <<Head(toDaemon')>>
    BY <2>1, OneInFlight, Fields
  <2> USE <1>1, <2>1 DEF faceVars, daemonVars
  <2>3. WireTypeOK' /\ SocketEnds'
    BY DEF WireInv, WireTypeOK, SocketEnds, WPcs
  <2>4. Turns'
    BY <1>2 DEF Turns
  <2>5. ToRead'
    BY <1>2, <1>3, <2>2, CurrentKept DEF ToRead
  <2>6. ToTell'
    BY <1>2, NothingToTell
  <2>7. Offers' /\ FaceFollows'
    BY <1>3 DEF Offers, FaceFollows
  <2>8. Counted'
    BY <1>3, Fields DEF WireInv, Counted
  <2> QED
    BY <2>3, <2>4, <2>5, <2>6, <2>7, <2>8, WorkerKeeps DEF WireInv
<1> QED
  BY <1>6, <1>7

\* A rendezvous that took place, or will not: the worker goes on.
LEMMA HeardInv ==
  ASSUME WireInv, WorkerIsHeard \/ WorkerTellFails
  PROVE  WireInv'
<1>1. /\ offer' = NoStep
      /\ \/ wpc = "asking" /\ wpc' = "awaiting" /\ UNCHANGED offer
         \/ wpc = "telling" /\ wpc' = "recv"
      /\ UNCHANGED <<reply, gone, faceVars, wask, wireVars, daemonVars>>
  BY DEF WorkerIsHeard, WorkerTellFails, bridgeVars
<1> USE <1>1 DEF faceVars, wireVars, daemonVars
<1>2. WireTypeOK' /\ SocketEnds'
  BY DEF WireInv, WireTypeOK, SocketEnds, WPcs
<1>3. Turns' /\ ToRead'
  BY CurrentKept DEF WireInv, Turns, ToRead, Listening
<1>4. ToTell'
  BY TellKept DEF WireInv
<1>5. Offers' /\ FaceFollows'
  BY CurrentKept DEF WireInv, Offers, FaceFollows, FaceAtPrompt
<1>6. Counted'
  BY Fields DEF WireInv, Counted
<1> QED
  BY <1>2, <1>3, <1>4, <1>5, <1>6, WorkerKeeps DEF WireInv

\* The worker, or all of the greeter, is gone, and its end of the socket with it.
LEMMA GreeterGoneInv ==
  ASSUME WireInv, WorkerReturns \/ GreeterExits \/ GreeterKilled
  PROVE  WireInv'
<1>1. /\ wpc' = "returned" /\ gone' = TRUE /\ gOpen' = FALSE /\ offer' = NoStep
      /\ UNCHANGED <<awaiting, verdict, focus, fields, shown, wask, toGreeter, toDaemon,
                     dOpen, daemonVars>>
      /\ \/ fpc' = "exited" /\ reply' = NoReply
         \/ wpc = "finishing" /\ UNCHANGED <<fpc, reply>>
  BY DEF WorkerReturns, GreeterExits, GreeterKilled, GreeterEnds, faceVars
<1> USE <1>1 DEF daemonVars
<1>2. WireTypeOK' /\ SocketEnds'
  BY DEF WireInv, WireTypeOK, SocketEnds, WPcs
<1>3. Turns' /\ ToRead' /\ ToTell'
  BY CurrentKept DEF WireInv, Turns, ToRead, ToTell, Listening
<1>4. Offers' /\ FaceFollows' /\ VisibleField'
  BY DEF WireInv, Offers, FaceFollows, FaceAtPrompt, VisibleField
<1>5. Counted' /\ AnswersReachTheirPrompt'
  BY Fields DEF WireInv, Counted, AnswersReachTheirPrompt
<1> QED
  BY <1>2, <1>3, <1>4, <1>5 DEF WireInv

-------------------------------------------------------------------------------
(* serve_observed. *)

\* What the daemon leaves alone: the worker and the face.
LEMMA DaemonKeeps ==
  ASSUME WireInv, UNCHANGED <<bridgeVars, workerVars>>
  PROVE  Offers' /\ VisibleField'
BY DEF WireInv, Offers, VisibleField, bridgeVars, faceVars, workerVars

\* A face that has a prompt, or an answer, has the worker's, and the daemon waits.
LEMMA WaitsAtPrompt ==
  ASSUME WireInv, wpc \notin {"asking", "awaiting"} \/ UNCHANGED <<script, at>>,
         UNCHANGED <<bridgeVars, workerVars>>
  PROVE  FaceFollows'
BY CurrentKept DEF WireInv, FaceFollows, FaceAtPrompt, bridgeVars, faceVars, workerVars

\* A daemon that is about to speak has heard everything.
LEMMA NextFacts ==
  ASSUME WireInv, dpc = "next"
  PROVE  /\ toDaemon = <<>> /\ wpc \in Listening /\ dOpen /\ decided # "Complete"
         /\ failures = 0 /\ successes = 0
         /\ verdict # "Abandoned" /\ verdict # "Authenticated" /\ offer.kind # "complete"
         /\ at \in Nat /\ (gOpen <=> wpc # "returned")
         /\ \A i \in 1..Len(toGreeter) : wpc # "returned" => toGreeter[i].kind = "info"
BY CurrentFacts DEF WireInv, Turns, SocketEnds, Counted, WireTypeOK, ToTell, LastFrame

\* The worker asks nothing while the daemon speaks.
LEMMA SpeakerIsAlone ==
  ASSUME WireInv, dpc = "next", UNCHANGED <<bridgeVars, workerVars>>
  PROVE  FaceFollows' /\ wpc' \notin {"asking", "awaiting", "finishing"}
BY NextFacts, WaitsAtPrompt DEF Listening, workerVars

\* A frame that cannot be written ends the login with an error.
LEMMA WriteFailsInv ==
  ASSUME WireInv, dpc = "next", ~gOpen, Return("error"), UNCHANGED toGreeter,
         UNCHANGED <<bridgeVars, workerVars, toDaemon, gOpen, script, heard>>,
         at' \in Nat, decided' \in {"open", "Failed", "Complete"},
         <<failures', successes'>> \in {<<0, 0>>, <<1, 0>>, <<0, 1>>},
         decided' = "Complete" <=> successes' = 1
  PROVE  WireInv'
<1> USE DEF Return
<1>1. wpc = "returned" /\ toDaemon = <<>> /\ verdict # "Abandoned"
  BY NextFacts
<1>2. FaceFollows' /\ wpc' = "returned" /\ toDaemon' = <<>>
  BY <1>1, SpeakerIsAlone DEF workerVars
<1>3. WireTypeOK' /\ SocketEnds'
  BY <1>1 DEF WireInv, WireTypeOK, SocketEnds, bridgeVars, faceVars, workerVars
<1>4. Turns' /\ ToRead' /\ ToTell'
  BY <1>2 DEF Turns, ToRead, ToTell
<1>5. Counted'
  <2>1. offer'.kind # "complete" /\ verdict' \notin {"Authenticated", "Abandoned"}
    BY NextFacts DEF bridgeVars, faceVars
  <2> QED
    BY <2>1 DEF Counted
<1>6. AnswersReachTheirPrompt'
  BY DEF WireInv, AnswersReachTheirPrompt
<1> QED
  BY <1>2, <1>3, <1>4, <1>5, <1>6, DaemonKeeps DEF WireInv

\* The daemon asks, and waits for the answer.
LEMMA PromptsInv ==
  ASSUME WireInv, DaemonPrompts
  PROVE  WireInv'
<1>1. /\ dpc = "next" /\ script[at] \in Styles
      /\ SendOr(Current, Goto("recv"))
      /\ UNCHANGED <<bridgeVars, workerVars, toDaemon, gOpen,
                     script, at, decided, failures, successes, heard>>
  BY DEF DaemonPrompts, Asks, Current
<1>2. at \in Nat /\ failures = 0 /\ successes = 0 /\ decided # "Complete"
  BY <1>1, NextFacts
<1>3. CASE ~gOpen
  <2>1. Return("error") /\ UNCHANGED toGreeter
    BY <1>1, <1>3 DEF SendOr
  <2>2. decided' \in {"open", "Failed", "Complete"}
    BY <1>1 DEF WireInv, WireTypeOK
  <2> QED
    BY <1>1, <1>2, <1>3, <2>1, <2>2, WriteFailsInv
<1>4. CASE gOpen
  <2>1. /\ toGreeter' = Append(toGreeter, Current) /\ dpc' = "recv"
        /\ UNCHANGED <<result, dOpen>>
    BY <1>1, <1>4 DEF SendOr, Goto
  <2>2. PICK f \in Frames : f = Current
    BY <1>1, <1>2, PromptsAreCounted, FrameFacts DEF Current
  <2>3. f = Current' /\ f.kind = "prompt"
    BY <1>1, <2>2, CurrentKept, CurrentFacts
  <2>4. LastFrame(f)'
    BY <2>1, <2>3 DEF LastFrame
  <2>5. toGreeter' \in Seq(Frames) /\ ToTell'
    BY <1>1, <1>4, <2>1, <2>2, <2>4, Sends DEF workerVars
  <2> USE <1>1, <1>2, <2>1 DEF bridgeVars, faceVars, workerVars
  <2>6. WireTypeOK' /\ SocketEnds'
    BY <2>5 DEF WireInv, WireTypeOK, SocketEnds
  <2>7. Turns' /\ ToRead'
    BY NextFacts DEF Turns, ToRead, Listening
  <2>8. FaceFollows' /\ Counted'
    BY NextFacts, SpeakerIsAlone DEF Counted
  <2>9. AnswersReachTheirPrompt'
    BY DEF WireInv, AnswersReachTheirPrompt
  <2> QED
    BY <2>5, <2>6, <2>7, <2>8, <2>9, DaemonKeeps DEF WireInv
<1> QED
  BY <1>3, <1>4

\* The daemon tells, and goes on at once.
LEMMA InformsInv ==
  ASSUME WireInv, DaemonInforms
  PROVE  WireInv'
<1>1. /\ dpc = "next" /\ at' = at + 1
      /\ SendOr(InfoFrame, Goto("next"))
      /\ UNCHANGED <<bridgeVars, workerVars, toDaemon, gOpen,
                     script, decided, failures, successes, heard>>
  BY DEF DaemonInforms, Asks
<1>2. /\ at \in Nat /\ at' \in Nat /\ failures = 0 /\ successes = 0
      /\ decided \in {"open", "Failed", "Complete"} /\ decided # "Complete"
  <2>1. at \in Nat
    BY <1>1, NextFacts
  <2> QED
    BY <1>1, <2>1, NextFacts DEF WireInv, WireTypeOK
<1>3. CASE ~gOpen
  <2>1. Return("error") /\ UNCHANGED toGreeter
    BY <1>1, <1>3 DEF SendOr
  <2> QED
    BY <1>1, <1>2, <1>3, <2>1, WriteFailsInv
<1>4. CASE gOpen
  <2>1. /\ toGreeter' = Append(toGreeter, InfoFrame) /\ dpc' = "next"
        /\ UNCHANGED <<result, dOpen>>
    BY <1>1, <1>4 DEF SendOr, Goto
  <2>2. toGreeter' \in Seq(Frames) /\ ToTell'
    BY <1>1, <1>4, <2>1, FrameFacts, Sends DEF workerVars
  <2> USE <1>1, <1>2, <2>1 DEF bridgeVars, faceVars, workerVars
  <2>3. WireTypeOK' /\ SocketEnds'
    BY <2>2 DEF WireInv, WireTypeOK, SocketEnds
  <2>4. Turns' /\ ToRead'
    BY NextFacts DEF Turns, ToRead, Listening
  <2>5. FaceFollows' /\ Counted'
    BY NextFacts, SpeakerIsAlone DEF Counted
  <2>6. AnswersReachTheirPrompt'
    BY DEF WireInv, AnswersReachTheirPrompt
  <2> QED
    BY <2>2, <2>3, <2>4, <2>5, <2>6, DaemonKeeps DEF WireInv
<1> QED
  BY <1>3, <1>4

\* The daemon counts, says how the login ended and is done.
LEMMA OutcomeInv ==
  ASSUME WireInv, DaemonAccepts \/ DaemonRefuses
  PROVE  WireInv'
<1>1. PICK ok \in BOOLEAN : /\ SendOr(Outcome(ok), Return(IF ok THEN "some" ELSE "none"))
                            /\ IF ok THEN /\ decided' = "Complete" /\ UNCHANGED failures
                                          /\ successes' = successes + 1
                                     ELSE /\ decided = "Failed" /\ UNCHANGED decided
                                          /\ UNCHANGED successes
                                          /\ failures' = failures + 1
  <2>1. CASE DaemonAccepts
    <3>1. SendOr(Outcome(TRUE), Return(IF TRUE THEN "some" ELSE "none"))
      BY <2>1 DEF DaemonAccepts, SendOr
    <3> QED
      BY <2>1, <3>1 DEF DaemonAccepts
  <2>2. CASE DaemonRefuses
    <3>1. SendOr(Outcome(FALSE), Return(IF FALSE THEN "some" ELSE "none"))
      BY <2>2 DEF DaemonRefuses, SendOr
    <3> QED
      BY <2>2, <3>1 DEF DaemonRefuses
  <2> QED
    BY <2>1, <2>2
<1>2. /\ dpc = "next"
      /\ UNCHANGED <<bridgeVars, workerVars, toDaemon, gOpen, script, at, heard>>
  BY DEF DaemonAccepts, DaemonRefuses
<1>3. /\ decided' \in {"Failed", "Complete"} /\ (decided' = "Complete" <=> ok)
      /\ <<failures', successes'>> = IF ok THEN <<0, 1>> ELSE <<1, 0>>
  BY <1>1, <1>2, NextFacts
<1>4. at' \in Nat
  BY <1>2, NextFacts
<1>5. CASE ~gOpen
  <2>1. Return("error") /\ UNCHANGED toGreeter
    BY <1>1, <1>5 DEF SendOr
  <2> QED
    BY <1>2, <1>3, <1>4, <1>5, <2>1, WriteFailsInv
<1>6. CASE gOpen
  <2>1. toGreeter' = Append(toGreeter, Outcome(ok)) /\ dpc' = "returned"
        /\ result' \in {"some", "none"} /\ dOpen'
    BY <1>1, <1>6 DEF SendOr, Return
  <2>2. Outcome(ok) \in Frames /\ Outcome(ok).kind = IF ok THEN "ok" ELSE "no"
    BY FrameFacts
  <2>3. LastFrame(Outcome(ok))'
    BY <1>3, <2>1, <2>2 DEF LastFrame, Outcome
  <2>4. toGreeter' \in Seq(Frames) /\ ToTell'
    BY <1>2, <1>6, <2>1, <2>2, <2>3, Sends DEF workerVars
  <2> USE <1>2, <1>3, <1>4, <2>1 DEF bridgeVars, faceVars, workerVars
  <2>5. WireTypeOK' /\ SocketEnds'
    BY <2>4 DEF WireInv, WireTypeOK, SocketEnds
  <2>6. Turns' /\ ToRead'
    BY NextFacts DEF Turns, ToRead, Listening
  <2>7. FaceFollows' /\ Counted'
    BY NextFacts, SpeakerIsAlone DEF Counted
  <2>8. AnswersReachTheirPrompt'
    BY DEF WireInv, AnswersReachTheirPrompt
  <2> QED
    BY <2>4, <2>5, <2>6, <2>7, <2>8, DaemonKeeps DEF WireInv
<1> QED
  BY <1>5, <1>6

\* The environment is given the answer, which was for its prompt.
LEMMA HearsInv ==
  ASSUME WireInv, DaemonHears
  PROVE  WireInv'
<1>1. /\ dpc = "recv" /\ toDaemon # <<>> /\ Head(toDaemon).kind = "answer"
      /\ toDaemon' = Tail(toDaemon) /\ at' = at + 1
      /\ heard' = heard \cup {[prompt |-> PromptsUpTo(at), style |-> script[at],
                               reply |-> Head(toDaemon).reply]}
      /\ UNCHANGED <<bridgeVars, workerVars, toGreeter, gOpen, script, failures, successes>>
  BY DEF DaemonHears
<1>2. /\ decided' \in {decided, "Failed"}
      /\ \/ dpc' = "next" /\ UNCHANGED <<result, dOpen>>
         \/ dpc' = "returned" /\ result' = "error" /\ ~dOpen'
  BY DEF DaemonHears, Goto, Return
<1>3. /\ toDaemon = <<Head(toDaemon)>> /\ Fits(Head(toDaemon).reply)
      /\ wpc \in {"recv", "returned"} /\ (wpc # "returned" => toGreeter = <<>>)
  BY <1>1 DEF WireInv, ToRead
<1>4. toDaemon' = <<>>
  BY <1>1, <1>3, OneInFlight
<1>5. /\ failures = 0 /\ successes = 0 /\ decided # "Complete" /\ verdict # "Abandoned"
      /\ verdict # "Authenticated" /\ offer.kind # "complete"
  BY <1>1 DEF WireInv, Counted
<1> USE <1>1, <1>2, <1>3, <1>4 DEF bridgeVars, faceVars, workerVars
<1>6. at' \in Nat
  BY DEF WireInv, WireTypeOK
<1>7. WireTypeOK' /\ SocketEnds'
  <2>1. decided' \in {"open", "Failed", "Complete"}
    BY DEF WireInv, WireTypeOK
  <2>2. CASE dpc' = "next"
    BY <1>6, <2>1, <2>2 DEF WireInv, WireTypeOK, SocketEnds
  <2>3. CASE dpc' = "returned"
    BY <1>6, <2>1, <2>3 DEF WireInv, WireTypeOK, SocketEnds
  <2> QED
    BY <2>2, <2>3
<1>8. Turns' /\ ToRead'
  BY DEF Turns, ToRead, Listening
<1>9. ToTell'
  <2>1. CASE wpc = "returned"
    BY <2>1 DEF ToTell
  <2>2. CASE toGreeter = <<>>
    BY <2>2, NothingToTell
  <2> QED
    BY <2>1, <2>2
<1>10. FaceFollows'
  BY WaitsAtPrompt
<1>11. Counted'
  BY <1>5 DEF Counted
<1>12. AnswersReachTheirPrompt'
  <2>1. LET x == [prompt |-> PromptsUpTo(at), style |-> script[at],
                  reply |-> Head(toDaemon).reply]
        IN  /\ x.reply.for = x.prompt /\ x.reply.secret = (x.style = "EchoOff")
            /\ x.style = "EchoOn" => x.reply.typed \subseteq {x.prompt}
    BY CurrentFacts DEF Fits
  <2> QED
    BY <2>1 DEF WireInv, AnswersReachTheirPrompt
<1> QED
  BY <1>7, <1>8, <1>9, <1>10, <1>11, <1>12, DaemonKeeps DEF WireInv

\* A login that was left, by the person or by the greeter, is over and counts for
\* nothing; so is one whose daemon was killed.
LEMMA DaemonGoneInv ==
  ASSUME WireInv, DaemonHearsCancel \/ DaemonReadsEof \/ DaemonKilled
  PROVE  WireInv'
<1>1. /\ UNCHANGED <<bridgeVars, workerVars, toGreeter, gOpen,
                     script, at, decided, failures, successes, heard>>
      /\ \/ /\ dpc = "recv" /\ dpc' = "returned" /\ toDaemon' = <<>>
            /\ result' \in {"none", "error"}
            /\ \/ toDaemon # <<>> /\ Head(toDaemon).kind = "cancel"
               \/ toDaemon = <<>> /\ ~gOpen
         \/ /\ dpc \in {"next", "recv"} /\ dpc' = "dead" /\ ~dOpen'
            /\ UNCHANGED <<toDaemon, result>>
  <2>1. toDaemon # <<>> => Tail(toDaemon) = <<>>
    BY OneInFlight DEF WireInv, ToRead
  <2> QED
    BY <2>1 DEF DaemonHearsCancel, DaemonReadsEof, DaemonKilled, PeerClosed, Return
<1> USE <1>1 DEF bridgeVars, faceVars, workerVars
<1>2. WireTypeOK' /\ SocketEnds'
  BY DEF WireInv, WireTypeOK, SocketEnds
<1>3. dpc' = "returned" => wpc \in {"finishing", "returned"}
  BY DEF WireInv, ToRead, SocketEnds
<1>4. Turns' /\ ToRead'
  BY <1>3, CurrentKept DEF WireInv, Turns, ToRead, Listening
<1>5. ToTell'
  <2>1. CASE dpc' = "dead"
    BY <2>1, CurrentKept DEF WireInv, ToTell, LastFrame, Counted
  <2>2. CASE dpc' = "returned"
    <3>1. wpc = "returned" \/ toGreeter = <<>>
      BY <1>3, <2>2 DEF WireInv, Turns
    <3> QED
      BY <3>1, NothingToTell DEF ToTell
  <2> QED
    BY <2>1, <2>2
<1>6. FaceFollows'
  BY WaitsAtPrompt
<1>7. Counted' /\ AnswersReachTheirPrompt'
  BY DEF WireInv, Counted, AnswersReachTheirPrompt
<1> QED
  BY <1>2, <1>4, <1>5, <1>6, <1>7, DaemonKeeps DEF WireInv

-------------------------------------------------------------------------------
(* The conversation. *)

\* Every step of the conversation preserves its invariant.
LEMMA WireNext == WireInv /\ [Next]_vars => WireInv'
<1> SUFFICES ASSUME WireInv, [Next]_vars PROVE WireInv'
  OBVIOUS
<1>1. CASE UNCHANGED vars
  <2>1. UNCHANGED <<toDaemon, heard>>
    BY <1>1 DEF vars, wireVars, daemonVars
  <2> QED
    BY <1>1, <2>1, CurrentKept
       DEF vars, bridgeVars, faceVars, workerVars, wireVars, daemonVars, WireInv,
           WireTypeOK, SocketEnds, Turns, ToRead, ToTell, LastFrame, Offers, FaceFollows,
           FaceAtPrompt, VisibleField, Counted, AnswersReachTheirPrompt
<1>2. CASE FaceActs(FaceStep) \/ FaceActs(Unowed)
  BY <1>2, FaceInv
<1>3. CASE WorkerStep
  BY <1>3, ReadsPromptInv, ReadsInfoInv, ReadsOutcomeInv, ReadsEofInv, HeardInv, AskFailsInv,
     TakesAnswerInv, GreeterGoneInv DEF WorkerStep
<1>4. CASE GreeterExits \/ GreeterKilled
  BY <1>4, GreeterGoneInv
<1>5. CASE DaemonStep \/ DaemonKilled
  BY <1>5, PromptsInv, InformsInv, OutcomeInv, HearsInv, DaemonGoneInv DEF DaemonStep
<1>6. CASE Over
  BY <1>1, <1>6 DEF Over
<1> QED
  BY <1>1, <1>2, <1>3, <1>4, <1>5, <1>6 DEF Next

\* And so it holds of every login, wherever either process is killed.
LEMMA WireInvAlways == Spec => []WireInv
<1>1. Init => WireInv
  BY WireInit
<1>2. WireInv /\ [Next]_vars => WireInv'
  BY WireNext
<1> QED
  BY <1>1, <1>2, PTL DEF Spec

\* The conversation's state keeps its types; a login of serve_observed that is over
\* has a result.
THEOREM WireTypeCorrect == Spec => []WireTypeOK
<1>1. WireInv => WireTypeOK
  BY DEF WireInv
<1> QED
  BY <1>1, WireInvAlways, PTL

\* An answer is used at the prompt it was submitted at, in its style, and a visible
\* one holds nothing typed before: Session::submit, greeter_side and serve_observed,
\* whatever the script.
THEOREM AnswersReachTheirPromptAlways == Spec => []AnswersReachTheirPrompt
<1>1. WireInv => AnswersReachTheirPrompt
  BY DEF WireInv
<1> QED
  BY <1>1, WireInvAlways, PTL

\* The invariant of the conversation settles how it ended.
LEMMA WireVerdicts == WireInv => VerdictsAgree
BY DEF WireInv, Counted, VerdictsAgree

\* The face and the daemon agree on how a login ended, and count it once at most:
\* serve_observed's counters against Session's verdict.
THEOREM VerdictsAgreeAlways == Spec => []VerdictsAgree
BY WireVerdicts, WireInvAlways, PTL

\* Before there is a greeter there is no conversation.
NoConversation ==
  /\ heard = {} /\ verdict = "none" /\ failures = 0 /\ successes = 0
  /\ mpc \in {"boot", "claimed"} => Init

Before == {"boot", "claimed", "serving", "mourning", "acct", "killing", "reaping",
           "starting"}

DaemonSoFar ==
  /\ mode \in {"greeter", "stdin"}
  /\ mpc \in Before \cup {"opened", "waiting", "closing", "leaving", "left", "exited", "dead"}
  /\ (mpc \in {"boot", "claimed"} => ~spawned) /\ (mpc = "serving" => spawned)
  /\ spawned => mode = "greeter"
  /\ spawned /\ mpc \notin {"serving", "dead"} => dpc = "returned"
  /\ mpc \in Before \cup {"opened"} => session = "none"
  /\ mpc = "waiting" => session \in {"running", "dead"}
  /\ mpc = "closing" => session = "reaped"
  /\ mpc \in {"leaving", "left", "exited"} =>
       <<exit, session>> \in {<<"success", "reaped">>, <<"failure", "none">>}
  /\ mpc \in {"opened", "waiting"} => registered
  /\ registered => mpc \in {"opened", "waiting", "closing", "leaving"}

\* The greeter is gone before there is a session.
GreeterFirst ==
  spawned /\ (mpc \in {"starting", "opened"} \/ session # "none") =>
    fpc = "exited" /\ reaped

\* The console is as it was found, or text, until a session draws on it.
ConsoleSoFar ==
  /\ found.kd \in {"text", "graphics"}
  /\ session = "none" => console.kd \in {"text", found.kd}

IInv ==
  /\ spawned => WireInv
  /\ ~spawned => NoConversation
  /\ DaemonSoFar /\ GreeterFirst /\ ConsoleSoFar /\ ConsoleGivenBack
-------------------------------------------------------------------------------
\* Of a conversation that stays as it is all that was said stays true.
LEMMA ConversationKept ==
  ASSUME UNCHANGED vars
  PROVE  /\ WireInv => WireInv'
         /\ NoConversation /\ (mpc' \in {"boot", "claimed"} => mpc \in {"boot", "claimed"}) =>
              NoConversation'
         /\ UNCHANGED <<fpc, dpc>>
<1>1. WireInv => WireInv'
  BY WireNext
<1>2. Init => Init'
  BY DEF vars, bridgeVars, faceVars, workerVars, wireVars, daemonVars, Init, BridgeInit
<1>3. UNCHANGED <<heard, verdict, failures, successes, fpc, dpc>>
  BY DEF vars, bridgeVars, faceVars, daemonVars
<1> QED
  BY <1>1, <1>2, <1>3 DEF NoConversation

\* A daemon that is done with the conversation closes its end of it.
LEMMA ConversationLeft ==
  ASSUME dOpen' = FALSE, UNCHANGED <<bridgeVars, workerVars, toGreeter, toDaemon, gOpen>>,
         UNCHANGED <<result, script, at, decided, failures, successes, heard>>
  PROVE  /\ WireInv /\ dpc = "returned" /\ dpc' = dpc => WireInv'
         /\ WireInv /\ dpc' = "dead" /\ dpc # "returned" => WireInv'
         /\ NoConversation /\ mpc' \notin {"boot", "claimed"} => NoConversation'
         /\ fpc' = fpc
<1>1. ASSUME WireInv, dpc = "returned", dpc' = dpc PROVE WireInv'
  <2> USE <1>1 DEF bridgeVars, faceVars, workerVars
  <2>1. WireTypeOK' /\ SocketEnds'
    BY DEF WireInv, WireTypeOK, SocketEnds
  <2>2. Turns' /\ ToRead' /\ ToTell'
    BY CurrentKept DEF WireInv, Turns, ToRead, ToTell, LastFrame
  <2>3. Offers' /\ FaceFollows' /\ VisibleField'
    BY CurrentKept DEF WireInv, Offers, FaceFollows, FaceAtPrompt, VisibleField
  <2>4. Counted' /\ AnswersReachTheirPrompt'
    BY DEF WireInv, Counted, AnswersReachTheirPrompt
  <2> QED
    BY <2>1, <2>2, <2>3, <2>4 DEF WireInv
<1>2. ASSUME WireInv, dpc' = "dead", dpc # "returned" PROVE WireInv'
  <2>1. CASE dpc = "dead"
    <3> USE <1>2, <2>1 DEF bridgeVars, faceVars, workerVars
    <3>1. WireTypeOK' /\ SocketEnds'
      BY DEF WireInv, WireTypeOK, SocketEnds
    <3>2. Turns' /\ ToRead' /\ ToTell'
      BY CurrentKept DEF WireInv, Turns, ToRead, ToTell, LastFrame
    <3>3. Offers' /\ FaceFollows' /\ VisibleField'
      BY CurrentKept DEF WireInv, Offers, FaceFollows, FaceAtPrompt, VisibleField
    <3>4. Counted' /\ AnswersReachTheirPrompt'
      BY DEF WireInv, Counted, AnswersReachTheirPrompt
    <3> QED
      BY <3>1, <3>2, <3>3, <3>4 DEF WireInv
  <2>2. CASE dpc # "dead"
    <3>1. DaemonKilled
      BY <1>2, <2>2 DEF WireInv, WireTypeOK, DaemonKilled
    <3> QED
      BY <1>2, <3>1, DaemonGoneInv
  <2> QED
    BY <2>1, <2>2
<1>3. UNCHANGED <<fpc, verdict>>
  BY DEF bridgeVars, faceVars
<1> QED
  BY <1>1, <1>2, <1>3 DEF NoConversation

\* A greeter that is gone stays gone, and serve_observed returns once.
LEMMA OverIsOver ==
  ASSUME Next
  PROVE  (fpc = "exited" => fpc' = "exited") /\ (dpc = "returned" => dpc' = "returned")
<1>1. CASE FaceActs(FaceStep) \/ FaceActs(Unowed)
  BY <1>1 DEF FaceActs, daemonVars, FaceStep, Unowed, PumpPrompt, PumpInfo, PumpOutcome,
     PumpGone, PumpTimesOut, PumpNothing, AnswerTaken, AnswerRefused, DropBridge, Type,
     Tab, Backspace, Submit, Escape, faceVars
<1>2. CASE WorkerStep
  BY <1>2 DEF WorkerStep, WorkerReadsPrompt, WorkerReadsInfo, WorkerReadsOutcome,
     WorkerReadsEof, WorkerIsHeard, WorkerAskFails, WorkerTellFails, WorkerTakesAnswer,
     WorkerReturns, bridgeVars, faceVars, daemonVars
<1>3. CASE GreeterExits \/ GreeterKilled
  BY <1>3 DEF GreeterExits, GreeterKilled, GreeterEnds, daemonVars
<1>4. CASE DaemonStep \/ DaemonKilled
  BY <1>4 DEF DaemonStep, DaemonPrompts, DaemonInforms, DaemonAccepts, DaemonRefuses,
     DaemonHears, DaemonHearsCancel, DaemonReadsEof, DaemonKilled, Asks, bridgeVars, faceVars
<1>5. CASE Over
  BY <1>5 DEF Over, vars, bridgeVars, faceVars, daemonVars
<1> QED
  BY <1>1, <1>2, <1>3, <1>4, <1>5 DEF Next

-------------------------------------------------------------------------------
\* The daemon starts on a console as it was found.
LEMMA MInitInv == MInit => IInv
<1> SUFFICES ASSUME MInit PROVE IInv
  OBVIOUS
<1>1. /\ Init /\ mpc = "boot" /\ mode \in {"greeter", "stdin"} /\ found \in Consoles
      /\ console = found /\ ~spawned /\ session = "none" /\ ~registered
  BY DEF MInit
<1>2. NoConversation
  BY <1>1 DEF NoConversation, Init, BridgeInit
<1>3. DaemonSoFar /\ GreeterFirst
  BY <1>1 DEF DaemonSoFar, Before, GreeterFirst
<1>4. ConsoleSoFar /\ ConsoleGivenBack
  BY <1>1 DEF ConsoleSoFar, Consoles, ConsoleGivenBack
<1> QED
  BY <1>1, <1>2, <1>3, <1>4 DEF IInv

\* The daemon goes on, with the conversation as it is.
LEMMA GoesOn ==
  ASSUME IInv, UNCHANGED <<vars, spawned>>,
         mpc' \in {"boot", "claimed"} => mpc \in {"boot", "claimed"},
         DaemonSoFar', GreeterFirst', ConsoleSoFar', ConsoleGivenBack'
  PROVE  IInv'
BY ConversationKept DEF IInv

\* The daemon leaves: with a failure there was no session, with a success it is over.
LEMMA LeavesInv ==
  ASSUME IInv, NEW code \in {"failure", "success"}, Leave(code),
         mpc \in Before \cup {"opened", "closing"}, spawned => dpc = "returned",
         session = IF code = "failure" THEN "none" ELSE "reaped",
         GreeterFirst',
         UNCHANGED <<spawned, mode, found, console, session>>
  PROVE  IInv'
<1>1. mpc' = "leaving" /\ exit' = code /\ UNCHANGED vars
  BY DEF Leave
<1> USE DEF IInv
<1>2. (spawned => WireInv') /\ (~spawned => NoConversation') /\ UNCHANGED <<fpc, dpc>>
  BY <1>1, ConversationKept
<1>3. DaemonSoFar'
  BY <1>1, <1>2 DEF DaemonSoFar, Before
<1>4. ConsoleSoFar' /\ ConsoleGivenBack'
  BY <1>1 DEF ConsoleSoFar, ConsoleGivenBack
<1> QED
  BY <1>2, <1>3, <1>4

\* What has been so far of the steps that concern neither console nor session.
LEMMA SameConsole ==
  ASSUME IInv, UNCHANGED <<found, console, session>>, mpc' # "exited"
  PROVE  ConsoleSoFar' /\ ConsoleGivenBack'
BY DEF IInv, ConsoleSoFar, ConsoleGivenBack

\* The daemon claims its console, or fails to.
LEMMA ClaimsInv == IInv /\ ClaimConsole => IInv'
<1> SUFFICES ASSUME IInv, ClaimConsole PROVE IInv'
  OBVIOUS
<1>1. /\ mpc = "boot"
      /\ UNCHANGED <<mode, found, console, failed, greeterVars, session, sessionOpen>>
      /\ \/ To("claimed") /\ UNCHANGED registered
         \/ Leave("failure")
  BY DEF ClaimConsole, sessionVars
<1> USE DEF IInv, greeterVars
<1>2. ~spawned /\ session = "none" /\ ~registered
  BY <1>1 DEF DaemonSoFar, Before
<1>3. CASE To("claimed") /\ UNCHANGED registered
  <2>1. mpc' = "claimed" /\ UNCHANGED <<exit, vars>>
    BY <1>3 DEF To
  <2>2. DaemonSoFar' /\ GreeterFirst'
    BY <1>1, <1>2, <1>3, <2>1 DEF DaemonSoFar, GreeterFirst, Before
  <2> QED
    BY <1>1, <2>1, <2>2, GoesOn, SameConsole
<1>4. CASE Leave("failure")
  <2>1. GreeterFirst'
    BY <1>1, <1>2 DEF GreeterFirst
  <2> QED
    BY <1>1, <1>2, <1>4, <2>1, LeavesInv DEF Before
<1> QED
  BY <1>1, <1>3, <1>4

\* The conversation begins with the greeter.
LEMMA SpawnsInv == IInv /\ SpawnGreeter => IInv'
<1> SUFFICES ASSUME IInv, SpawnGreeter PROVE IInv'
  OBVIOUS
<1>1. /\ mpc = "claimed" /\ mode = "greeter"
      /\ UNCHANGED <<mode, consoleVars, signalled, reaped, session, sessionOpen>>
      /\ \/ spawned' = TRUE /\ To("serving") /\ UNCHANGED registered
         \/ UNCHANGED spawned /\ Leave("failure")
  BY DEF SpawnGreeter, sessionVars
<1> USE DEF IInv, consoleVars
<1>2. ~spawned /\ session = "none" /\ ~registered /\ Init
  BY <1>1 DEF DaemonSoFar, Before, NoConversation
<1>3. CASE spawned' = TRUE /\ To("serving") /\ UNCHANGED registered
  <2>1. mpc' = "serving" /\ UNCHANGED <<exit, vars>>
    BY <1>3 DEF To
  <2>2. WireInv'
    BY <1>2, <2>1, WireInit, ConversationKept
  <2>3. DaemonSoFar' /\ GreeterFirst'
    BY <1>1, <1>2, <1>3, <2>1 DEF DaemonSoFar, GreeterFirst, Before
  <2> QED
    BY <1>1, <1>3, <2>1, <2>2, <2>3, SameConsole
<1>4. CASE UNCHANGED spawned /\ Leave("failure")
  <2>1. GreeterFirst'
    BY <1>1, <1>2, <1>4 DEF GreeterFirst
  <2> QED
    BY <1>1, <1>2, <1>4, <2>1, LeavesInv DEF Before
<1> QED
  BY <1>1, <1>3, <1>4

\* Steps from serve_observed, or the terminal, to the session: the daemon goes on, or
\* fails with no session started.
LEMMA GoesOnOrFails ==
  ASSUME IInv, mpc \in Before \ {"boot"}, spawned => dpc = "returned",
         \/ /\ UNCHANGED registered
            /\ \/ To("acct")
               \/ To("mourning")
               \/ To("killing")
               \/ To("starting") /\ (spawned => fpc = "exited" /\ reaped')
         \/ Leave("failure"),
         reaped' \in {reaped, TRUE},
         UNCHANGED <<mode, spawned, consoleVars, session>>
  PROVE  IInv'
<1> USE DEF IInv, consoleVars
<1>1. session = "none" /\ ~registered
  BY DEF DaemonSoFar, Before
<1>2. CASE Leave("failure")
  <2>1. GreeterFirst'
    BY <1>1, <1>2 DEF GreeterFirst, Leave
  <2> QED
    BY <1>1, <1>2, <2>1, LeavesInv
<1>3. ASSUME NEW pc \in {"acct", "mourning", "killing", "starting"}, To(pc),
             UNCHANGED registered, pc = "starting" /\ spawned => fpc = "exited" /\ reaped'
      PROVE  IInv'
  <2>1. mpc' = pc /\ UNCHANGED <<exit, vars, fpc, dpc>>
    BY <1>3, ConversationKept DEF To
  <2>2. DaemonSoFar'
    BY <1>1, <1>3, <2>1 DEF DaemonSoFar, Before
  <2>3. GreeterFirst'
    BY <1>1, <1>3, <2>1 DEF GreeterFirst
  <2>4. ConsoleSoFar' /\ ConsoleGivenBack'
    BY <1>3, <2>1, SameConsole
  <2> QED
    BY <1>3, <2>1, <2>2, <2>3, <2>4, GoesOn
<1> QED
  BY <1>2, <1>3

\* Reading the terminal, the return of serve_observed, the wait for a greeter that
\* was refused, and the account.
LEMMA ConversesInv ==
  IInv /\ (ReadStdin \/ ServeReturned \/ ReapTheRefused \/ AskAccount) => IInv'
<1> SUFFICES ASSUME IInv, ReadStdin \/ ServeReturned \/ ReapTheRefused \/ AskAccount
             PROVE  IInv'
  OBVIOUS
<1> USE DEF IInv
<1>1. CASE ReadStdin
  <2>1. mpc \in Before \ {"boot"} /\ ~spawned
    BY <1>1 DEF ReadStdin, DaemonSoFar, Before
  <2> QED
    BY <1>1, <2>1, GoesOnOrFails DEF ReadStdin, greeterVars, sessionVars
<1>2. CASE ServeReturned
  <2>1. mpc \in Before \ {"boot"} /\ dpc = "returned"
    BY <1>2 DEF ServeReturned, Before
  <2>2. spawned => result \in {"error", "none", "some"}
    BY <2>1 DEF WireInv, WireTypeOK
  <2>3. CASE spawned
    <3>1. \/ Leave("failure")
          \/ To("mourning") /\ UNCHANGED registered
          \/ To("acct") /\ UNCHANGED registered
      BY <1>2, <2>2, <2>3 DEF ServeReturned, sessionVars
    <3> QED
      BY <1>2, <2>1, <3>1, GoesOnOrFails DEF ServeReturned, greeterVars, sessionVars
  <2> QED
    BY <1>2, <2>3 DEF ServeReturned, DaemonSoFar
<1>3. CASE ReapTheRefused
  <2>1. mpc \in Before \ {"boot"} /\ (spawned => dpc = "returned")
    BY <1>3 DEF ReapTheRefused, DaemonSoFar, Before
  <2> QED
    BY <1>3, <2>1, GoesOnOrFails DEF ReapTheRefused, sessionVars
<1>4. CASE AskAccount
  <2>1. mpc \in Before \ {"boot"} /\ (spawned => dpc = "returned" /\ mode = "greeter")
    BY <1>4 DEF AskAccount, DaemonSoFar, Before
  <2>2. \/ Leave("failure")
        \/ To("killing") /\ UNCHANGED registered
        \/ To("starting") /\ ~spawned /\ UNCHANGED registered
    BY <1>4, <2>1 DEF AskAccount, sessionVars
  <2> QED
    BY <1>4, <2>1, <2>2, GoesOnOrFails DEF AskAccount, greeterVars, sessionVars
<1> QED
  BY <1>1, <1>2, <1>3, <1>4

\* The greeter is told to go, and waited for.
LEMMA TakesDownInv == IInv /\ (KillGreeter \/ ReapGreeter) => IInv'
<1> SUFFICES ASSUME IInv, KillGreeter \/ ReapGreeter PROVE IInv'
  OBVIOUS
<1> USE DEF IInv
<1>1. /\ UNCHANGED <<mode, consoleVars, spawned, session, registered, exit, vars>>
      /\ \/ mpc = "killing" /\ mpc' = "reaping" /\ reaped' = reaped
         \/ mpc = "reaping" /\ mpc' = "starting" /\ fpc = "exited" /\ reaped' = TRUE
  BY DEF KillGreeter, ReapGreeter, To, sessionVars
<1>2. session = "none" /\ ~registered /\ UNCHANGED <<fpc, dpc>>
  BY <1>1, ConversationKept DEF DaemonSoFar, Before
<1>3. DaemonSoFar' /\ GreeterFirst'
  BY <1>1, <1>2 DEF DaemonSoFar, GreeterFirst, Before
<1>4. ConsoleSoFar' /\ ConsoleGivenBack'
  BY <1>1, SameConsole DEF consoleVars
<1> QED
  BY <1>1, <1>3, <1>4, GoesOn

\* logind opens a session, or the daemon leaves without one.
LEMMA OpensInv == IInv /\ OpenSession => IInv'
<1> SUFFICES ASSUME IInv, OpenSession PROVE IInv'
  OBVIOUS
<1> USE DEF IInv
<1>1. /\ mpc = "starting" /\ UNCHANGED <<mode, consoleVars, greeterVars, session>>
      /\ \/ registered' = TRUE /\ To("opened")
         \/ UNCHANGED registered /\ Leave("failure")
  BY DEF OpenSession
<1>2. session = "none" /\ (spawned => dpc = "returned" /\ fpc = "exited" /\ reaped)
  BY <1>1 DEF DaemonSoFar, Before, GreeterFirst
<1>3. CASE UNCHANGED registered /\ Leave("failure")
  <2>1. GreeterFirst'
    BY <1>1, <1>2, <1>3 DEF GreeterFirst, Leave, greeterVars
  <2> QED
    BY <1>1, <1>2, <1>3, <2>1, LeavesInv DEF Before, consoleVars, greeterVars
<1>4. CASE registered' = TRUE /\ To("opened")
  <2>1. mpc' = "opened" /\ UNCHANGED <<exit, vars, fpc, dpc, spawned, reaped>>
    BY <1>1, <1>4, ConversationKept DEF To, greeterVars
  <2>2. DaemonSoFar' /\ GreeterFirst'
    BY <1>1, <1>2, <1>4, <2>1 DEF DaemonSoFar, GreeterFirst, Before
  <2>3. ConsoleSoFar' /\ ConsoleGivenBack'
    BY <1>1, <2>1, SameConsole DEF consoleVars
  <2> QED
    BY <2>1, <2>2, <2>3, GoesOn
<1> QED
  BY <1>1, <1>3, <1>4

\* The program runs, or its child dies on the way, or the fork fails and the daemon
\* leaves with logind's session still open.
LEMMA SpawnsSessionInv == IInv /\ SpawnSession => IInv'
<1> SUFFICES ASSUME IInv, SpawnSession PROVE IInv'
  OBVIOUS
<1> USE DEF IInv
<1>1. /\ mpc = "opened" /\ UNCHANGED <<mode, consoleVars, greeterVars, registered>>
      /\ \/ Leave("failure") /\ UNCHANGED session
         \/ session' \in {"running", "dead"} /\ To("waiting")
  BY DEF SpawnSession
<1>2. session = "none" /\ (spawned => dpc = "returned" /\ fpc = "exited" /\ reaped)
  BY <1>1 DEF DaemonSoFar, Before, GreeterFirst
<1>3. CASE Leave("failure") /\ UNCHANGED session
  <2>1. GreeterFirst'
    BY <1>1, <1>2, <1>3 DEF GreeterFirst, Leave, greeterVars
  <2> QED
    BY <1>1, <1>2, <1>3, <2>1, LeavesInv DEF Before, consoleVars, greeterVars
<1>4. CASE session' \in {"running", "dead"} /\ To("waiting")
  <2>1. mpc' = "waiting" /\ UNCHANGED <<exit, vars, fpc, dpc, spawned, reaped>>
    BY <1>1, <1>4, ConversationKept DEF To, greeterVars
  <2>2. DaemonSoFar' /\ GreeterFirst'
    BY <1>1, <1>2, <1>4, <2>1 DEF DaemonSoFar, GreeterFirst, Before
  <2>3. ConsoleSoFar' /\ ConsoleGivenBack'
    BY <1>1, <1>2, <1>4, <2>1 DEF ConsoleSoFar, ConsoleGivenBack, consoleVars
  <2> QED
    BY <2>1, <2>2, <2>3, GoesOn
<1> QED
  BY <1>1, <1>3, <1>4

\* The session is waited for and closed, and that is a success.
LEMMA ClosesInv == IInv /\ (ReapSession \/ CloseSession) => IInv'
<1> SUFFICES ASSUME IInv, ReapSession \/ CloseSession PROVE IInv'
  OBVIOUS
<1> USE DEF IInv
<1>1. CASE ReapSession
  <2>1. /\ mpc = "waiting" /\ session = "dead" /\ session' = "reaped" /\ mpc' = "closing"
        /\ UNCHANGED <<mode, consoleVars, greeterVars, registered, exit, vars>>
    BY <1>1 DEF ReapSession, To
  <2>2. UNCHANGED <<fpc, dpc>>
    BY <2>1, ConversationKept
  <2>3. DaemonSoFar' /\ GreeterFirst'
    BY <2>1, <2>2 DEF DaemonSoFar, GreeterFirst, Before, greeterVars
  <2>4. ConsoleSoFar' /\ ConsoleGivenBack'
    BY <2>1 DEF ConsoleSoFar, ConsoleGivenBack, consoleVars
  <2> QED
    BY <2>1, <2>3, <2>4, GoesOn DEF greeterVars
<1>2. CASE CloseSession
  <2>1. /\ mpc = "closing" /\ Leave("success")
        /\ UNCHANGED <<mode, consoleVars, greeterVars, session>>
    BY <1>2 DEF CloseSession
  <2>2. session = "reaped" /\ (spawned => dpc = "returned")
    BY <2>1 DEF DaemonSoFar
  <2>3. GreeterFirst'
    BY <2>1, <2>2, ConversationKept DEF GreeterFirst, Leave, greeterVars
  <2> QED
    BY <2>1, <2>2, <2>3, LeavesInv DEF consoleVars, greeterVars
<1> QED
  BY <1>1, <1>2

\* The environment goes, and the logind session with it, and the socket.
LEMMA DropsInv == IInv /\ DropLocals => IInv'
<1> SUFFICES ASSUME IInv, DropLocals PROVE IInv'
  OBVIOUS
<1> USE DEF IInv
<1>1. /\ mpc = "leaving" /\ mpc' = "left" /\ ~registered' /\ dOpen' = FALSE
      /\ UNCHANGED <<exit, bridgeVars, workerVars, toGreeter, toDaemon, gOpen, daemonVars>>
      /\ UNCHANGED <<mode, consoleVars, greeterVars, session>>
  BY DEF DropLocals
<1>2. /\ spawned' = spawned /\ reaped' = reaped /\ fpc' = fpc /\ dpc' = dpc
      /\ (spawned => dpc = "returned")
  BY <1>1 DEF greeterVars, bridgeVars, faceVars, daemonVars, DaemonSoFar
<1>3. (spawned => WireInv') /\ (~spawned => NoConversation')
  BY <1>1, <1>2, ConversationLeft DEF daemonVars
<1>4. DaemonSoFar' /\ GreeterFirst'
  BY <1>1, <1>2 DEF DaemonSoFar, GreeterFirst, Before
<1>5. ConsoleSoFar' /\ ConsoleGivenBack'
  BY <1>1, SameConsole DEF consoleVars
<1> QED
  BY <1>2, <1>3, <1>4, <1>5

\* The end of run: the console is given back, as far as its ioctls allow.
LEMMA ExitInv == IInv /\ Exit => IInv'
<1> SUFFICES ASSUME IInv, Exit PROVE IInv'
  OBVIOUS
<1> USE DEF IInv
<1>1. /\ mpc = "left" /\ mpc' = "exited"
      /\ UNCHANGED <<vars, exit, mode, found, claimed, greeterVars, session, registered>>
  BY DEF Exit, sessionVars
<1>2. UNCHANGED <<fpc, dpc>>
  BY <1>1, ConversationKept
<1>3. DaemonSoFar' /\ GreeterFirst'
  BY <1>1, <1>2 DEF DaemonSoFar, GreeterFirst, Before, greeterVars
<1>4. ConsoleSoFar' /\ ConsoleGivenBack'
  <2>1. CASE claimed
    <3>1. PICK bad \in SUBSET {"kbd", "kd"} : console' = Restored(bad) /\ failed' = bad
      BY <2>1 DEF Exit
    <3>2. /\ console'.kd = IF "kd" \in bad THEN console.kd ELSE "text"
          /\ console'.kbd = IF "kbd" \in bad THEN console.kbd ELSE found.kbd
      BY <3>1 DEF Restored
    <3> QED
      BY <1>1, <3>1, <3>2 DEF ConsoleSoFar, ConsoleGivenBack
  <2>2. CASE ~claimed
    BY <1>1, <2>2 DEF Exit, ConsoleSoFar, ConsoleGivenBack
  <2> QED
    BY <2>1, <2>2
<1> QED
  BY <1>1, <1>3, <1>4, GoesOn DEF greeterVars

-------------------------------------------------------------------------------
(* The rest of the machine. *)

\* The session draws as it likes, and ends.
LEMMA SessionInv == IInv /\ (SessionDraws \/ SessionEnds) => IInv'
<1> SUFFICES ASSUME IInv, SessionDraws \/ SessionEnds PROVE IInv'
  OBVIOUS
<1> USE DEF IInv
<1>1. /\ session = "running" /\ session' \in {"running", "dead"}
      /\ UNCHANGED <<vars, mpc, mode, exit, found, greeterVars, registered>>
  BY DEF SessionDraws, SessionEnds, sessionVars, consoleVars
<1>2. UNCHANGED <<fpc, dpc>>
  BY <1>1, ConversationKept
<1>3. DaemonSoFar' /\ GreeterFirst'
  BY <1>1, <1>2 DEF DaemonSoFar, GreeterFirst, Before, greeterVars
<1>4. mpc # "exited"
  BY <1>1 DEF DaemonSoFar
<1>5. ConsoleSoFar' /\ ConsoleGivenBack'
  BY <1>1, <1>4 DEF ConsoleSoFar, ConsoleGivenBack
<1> QED
  BY <1>1, <1>3, <1>5, GoesOn DEF greeterVars

\* The daemon is killed wherever it is.
LEMMA KilledInv == IInv /\ MukaedKilled => IInv'
<1> SUFFICES ASSUME IInv, MukaedKilled PROVE IInv'
  OBVIOUS
<1> USE DEF IInv
<1>1. /\ mpc' = "dead" /\ dOpen' = FALSE /\ ~registered'
      /\ dpc' = IF spawned /\ dpc # "returned" THEN "dead" ELSE dpc
      /\ UNCHANGED <<bridgeVars, workerVars, toGreeter, toDaemon, gOpen, result, script, at,
                     decided, failures, successes, heard>>
      /\ UNCHANGED <<mode, exit, consoleVars, greeterVars, session>>
  BY DEF MukaedKilled
<1>2. /\ spawned' = spawned /\ fpc' = fpc
      /\ (spawned => WireInv') /\ (~spawned => NoConversation')
  BY <1>1, ConversationLeft DEF greeterVars
<1>3. DaemonSoFar' /\ GreeterFirst'
  BY <1>1, <1>2 DEF DaemonSoFar, GreeterFirst, Before, greeterVars
<1>4. ConsoleSoFar' /\ ConsoleGivenBack'
  BY <1>1 DEF ConsoleSoFar, ConsoleGivenBack, consoleVars
<1> QED
  BY <1>2, <1>3, <1>4

\* The conversation goes on, beside whatever the daemon is doing.
LEMMA WireStepInv == ASSUME IInv, spawned, Next, UNCHANGED mukaedVars PROVE IInv'
<1> USE DEF IInv
<1>1. WireInv'
  BY WireNext
<1>2. (fpc = "exited" => fpc' = "exited") /\ (dpc = "returned" => dpc' = "returned")
  BY OverIsOver
<1> USE DEF mukaedVars, consoleVars, greeterVars, sessionVars
<1>3. DaemonSoFar' /\ GreeterFirst'
  BY <1>2 DEF DaemonSoFar, GreeterFirst, Before
<1>4. ConsoleSoFar' /\ ConsoleGivenBack'
  BY DEF ConsoleSoFar, ConsoleGivenBack
<1> QED
  BY <1>1, <1>3, <1>4

-------------------------------------------------------------------------------
(* The daemon. *)

\* Every step preserves the invariant.
LEMMA MNextInv == IInv /\ [MNext]_allVars => IInv'
<1> SUFFICES ASSUME IInv, [MNext]_allVars PROVE IInv'
  OBVIOUS
<1>1. CASE UNCHANGED allVars
  <2>1. /\ UNCHANGED <<vars, mpc, mode, exit, found, console, claimed, failed, spawned,
                       reaped, session, registered>>
    BY <1>1 DEF allVars, mukaedVars, consoleVars, greeterVars, sessionVars
  <2>2. UNCHANGED <<fpc, dpc>>
    BY <2>1, ConversationKept
  <2>3. DaemonSoFar' /\ GreeterFirst' /\ ConsoleSoFar' /\ ConsoleGivenBack'
    BY <2>1, <2>2 DEF IInv, DaemonSoFar, GreeterFirst, Before, ConsoleSoFar,
                      ConsoleGivenBack
  <2> QED
    BY <2>1, <2>3, GoesOn
<1>2. CASE DaemonGoesOn
  BY <1>2, ClaimsInv, SpawnsInv, ConversesInv, TakesDownInv, OpensInv, SpawnsSessionInv,
     ClosesInv, DropsInv, ExitInv
     DEF DaemonGoesOn
<1>3. CASE Wire(FaceActs(FaceStep)) \/ Wire(FaceActs(Unowed)) \/ Wire(WorkerStep)
           \/ Wire(GreeterExits) \/ Wire(GreeterKilled) \/ Wire(DaemonStep)
  BY <1>3, WireStepInv DEF Wire, Next
<1>4. CASE SessionDraws \/ SessionEnds \/ MukaedKilled
  BY <1>4, SessionInv, KilledInv
<1>5. CASE AllOver
  BY <1>1, <1>5 DEF AllOver
<1> QED
  BY <1>1, <1>2, <1>3, <1>4, <1>5 DEF MNext

\* The invariant of the daemon, its greeter and its session.
LEMMA IInvAlways == MSpec => []IInv
<1>1. MInit => IInv
  BY MInitInv
<1>2. IInv /\ [MNext]_allVars => IInv'
  BY MNextInv
<1> QED
  BY <1>1, <1>2, PTL DEF MSpec

\* No greeter draws once there is a session: greeter_login's kill and waitpid before
\* start_session, in every interleaving with the greeter and for every script.
THEOREM OneDrawerAlways == MSpec => []OneDrawer
<1>1. IInv => OneDrawer
  BY DEF IInv, GreeterFirst, OneDrawer
<1> QED
  BY <1>1, IInvAlways, PTL

\* mukaed's exit code: a failure left no session child, a success waited for one,
\* whether or not it got as far as its exec, and the logind session is over in both,
\* the one that was open when the fork failed too.
THEOREM ExitTellsTheTruthAlways == MSpec => []ExitTellsTheTruth
<1>1. IInv => ExitTellsTheTruth
  BY DEF IInv, DaemonSoFar, ExitTellsTheTruth
<1> QED
  BY <1>1, IInvAlways, PTL

\* Console::claim(vt, Mode::Text) darkens no console a greeter is on.
THEOREM GreeterIsVisibleAlways == MSpec => []GreeterIsVisible
<1>1. IInv => GreeterIsVisible
  BY DEF IInv, GreeterFirst, ConsoleSoFar, GreeterIsVisible
<1> QED
  BY <1>1, IInvAlways, PTL

\* Console::restore gives back what it can, whichever way run ends.
THEOREM ConsoleGivenBackAlways == MSpec => []ConsoleGivenBack
<1>1. IInv => ConsoleGivenBack
  BY DEF IInv
<1> QED
  BY <1>1, IInvAlways, PTL

\* What was proved of the conversation holds of the one the daemon has, which it may
\* leave or be killed in: the answers, and the verdict.
THEOREM LoginIsSafeInMukaed == MSpec => [](AnswersReachTheirPrompt /\ VerdictsAgree)
<1>1. IInv => AnswersReachTheirPrompt /\ VerdictsAgree
  BY WireVerdicts DEF IInv, WireInv, NoConversation, AnswersReachTheirPrompt, VerdictsAgree
<1> QED
  BY <1>1, IInvAlways, PTL
===============================================================================
