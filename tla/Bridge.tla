-------------------------------- MODULE Bridge --------------------------------
(***************************************************************************)
(* The face side of a login conversation: the rendezvous Bridge of         *)
(* mukae-spec/src/bridge.rs and the Session that pumps it                  *)
(* (mukae-greeter/src/session.rs) with the two fields of its Face          *)
(* (mukae-face).  The other side of the channels, the worker that holds    *)
(* the ConvSide, is added by the modules that extend this one: LoginWire   *)
(* (mukaed), Greetd (greetd) and PamConversation (libpam).                 *)
(*                                                                         *)
(* A channel of capacity 0 is the value its blocked sender offers: NoStep, *)
(* or NoReply, when nobody is blocked.  Text typed is the set of prompts   *)
(* that were on screen while it was typed.                                 *)
(***************************************************************************)
EXTENDS Naturals, Sequences, FiniteSets

CONSTANT MaxPrompts      \* bound: prompts of one conversation

ASSUME BridgeAssumption == MaxPrompts \in Nat

VARIABLES
  offer,      \* steps: the PamStep the worker is blocked sending
  reply,      \* answers: the PamAnswer the face is blocked sending
  gone,       \* the worker has dropped its ConvSide
  fpc,        \* the face thread: pump, ui, answering, quit, dropped, exited
  awaiting, verdict,          \* Session
  focus, fields, shown        \* Face: focus, what each field holds, the prompt

faceVars == <<fpc, awaiting, verdict, focus, fields, shown>>
bridgeVars == <<offer, reply, gone, faceVars>>

Styles == {"EchoOn", "EchoOff"}

NoStep == [kind |-> "none", style |-> "none", id |-> 0]
Prompt(style, i) == [kind |-> "prompt", style |-> style, id |-> i]
Plain(kind) == [kind |-> kind, style |-> "none", id |-> 0]

NoReply == [secret |-> FALSE, typed |-> {}, for |-> 0]

FieldFor(style) == IF style = "EchoOff" THEN "masked" ELSE "user"

BridgeInit ==
  /\ offer = NoStep /\ reply = NoReply /\ gone = FALSE
  /\ fpc = "pump" /\ awaiting = "none" /\ verdict = "none"
  /\ focus = "user" /\ fields = [f \in {"user", "masked"} |-> {}] /\ shown = 0

-------------------------------------------------------------------------------
(* Session::pump, blocked in Bridge::next. *)

PumpPrompt ==
  /\ fpc = "pump" /\ offer.kind = "prompt"
  /\ offer' = NoStep
  /\ shown' = offer.id /\ awaiting' = offer.style /\ focus' = FieldFor(offer.style)
  /\ fpc' = "ui"
  /\ UNCHANGED <<reply, gone, verdict, fields>>

PumpInfo ==
  /\ fpc = "pump" /\ offer.kind = "info"
  /\ offer' = NoStep
  /\ UNCHANGED <<reply, gone, faceVars>>

QuitIsForgotten(v) ==
  /\ verdict' = v /\ awaiting' = "none" /\ fpc' = "ui"
  /\ UNCHANGED <<gone, focus, fields, shown>>

\* The end of the conversation, in whichever way: no prompt is awaited and the
\* face quits.
Quit(v) ==
  /\ verdict' = v /\ awaiting' = "none" /\ fpc' = "quit"
  /\ UNCHANGED <<gone, focus, fields, shown>>

PumpOutcome ==
  /\ fpc = "pump" /\ offer.kind \in {"complete", "failed"}
  /\ offer' = NoStep
  /\ Quit(IF offer.kind = "complete" THEN "Authenticated" ELSE "Refused")
  /\ UNCHANGED reply

\* No step came: the worker is gone, or is there and STEP_TIMEOUT has passed.
PumpNothing ==
  /\ fpc = "pump" /\ offer = NoStep
  /\ Quit("Refused")
  /\ UNCHANGED <<offer, reply>>

PumpGone == gone /\ PumpNothing
PumpTimesOut == ~gone /\ PumpNothing

-------------------------------------------------------------------------------
(* The event loop, and the person in front of it. *)

Type ==
  /\ fpc = "ui"
  /\ fields' = [fields EXCEPT ![focus] = @ \cup {shown}]
  /\ UNCHANGED <<offer, reply, gone, fpc, awaiting, verdict, focus, shown>>

\* Tab is bound to Focus(Secret), and nothing is bound to Focus(User).
Tab ==
  /\ fpc = "ui" /\ focus' = "masked"
  /\ UNCHANGED <<offer, reply, gone, fpc, awaiting, verdict, fields, shown>>

\* Backspace as often as the person likes.
Backspace ==
  /\ fpc = "ui"
  /\ \E left \in SUBSET fields[focus] : fields' = [fields EXCEPT ![focus] = left]
  /\ UNCHANGED <<offer, reply, gone, fpc, awaiting, verdict, focus, shown>>

\* Session::submit routes by the prompt's style and blocks in Bridge::answer.
Submit ==
  /\ fpc = "ui" /\ awaiting # "none"
  /\ reply' = [secret |-> awaiting = "EchoOff",
               typed |-> fields[FieldFor(awaiting)], for |-> shown]
  /\ fpc' = "answering"
  /\ UNCHANGED <<offer, gone, awaiting, verdict, focus, fields, shown>>

Escape ==
  /\ fpc = "ui"
  /\ verdict' = "Abandoned" /\ fpc' = "quit"
  /\ fields' = [f \in DOMAIN fields |-> {}] /\ focus' = "user"
  /\ UNCHANGED <<offer, reply, gone, awaiting, shown>>

ClearMaskedOnly(style) == [fields EXCEPT !["masked"] = {}]

\* The answered field is cleared the instant its answer was handed over.
Cleared(style) == [fields EXCEPT ![FieldFor(style)] = {}]

AnswerTaken ==
  /\ fpc = "answering" /\ reply = NoReply
  /\ fields' = Cleared(awaiting) /\ fpc' = "pump"
  /\ UNCHANGED <<offer, reply, gone, awaiting, verdict, focus, shown>>

AnswerRefused ==
  /\ fpc = "answering" /\ reply # NoReply /\ gone
  /\ reply' = NoReply
  /\ Quit("Refused")
  /\ UNCHANGED offer

-------------------------------------------------------------------------------
(* The end of the process: Session, and the Bridge in it, are dropped before  *)
(* main returns and takes the worker thread down.                             *)

DropBridge ==
  /\ fpc = "quit" /\ fpc' = "dropped"
  /\ UNCHANGED <<offer, reply, gone, awaiting, verdict, focus, fields, shown>>

FaceGone == fpc \in {"dropped", "exited"}

\* The person acts when they like, and STEP_TIMEOUT passes after two minutes of
\* silence: nothing here counts on either.  The rest of the face goes on by itself.
Unowed == Type \/ Tab \/ Backspace \/ Submit \/ Escape \/ PumpTimesOut
FaceStep ==
  PumpPrompt \/ PumpInfo \/ PumpOutcome \/ PumpGone
    \/ AnswerTaken \/ AnswerRefused \/ DropBridge

===============================================================================
