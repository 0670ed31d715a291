---------------------------- MODULE PamConversation ----------------------------
(***************************************************************************)
(* Authentication by libpam (mukae-host): the worker of authenticate.rs    *)
(* that runs pam_authenticate, and bridging_conv, the callback libpam      *)
(* calls on it with a batch of messages and the face of Bridge answers.    *)
(*                                                                         *)
(* libpam is external: it calls the conversation as often and with as many *)
(* messages as its modules like, and decides as they like.  heap holds the *)
(* prompts whose answer is legible in the response array: the strings the  *)
(* callback duplicated for libpam and that libpam does not own yet.  The   *)
(* plain String each is copied from is freed unscrubbed: it is left out,   *)
(* and nothing is claimed of it.                                           *)
(***************************************************************************)
EXTENDS Bridge

CONSTANT MaxBatch      \* bound: messages of one call of the conversation

ASSUME ConversationAssumption == MaxBatch \in Nat

VARIABLES
  wpc, wask, told,        \* the worker: where, the prompt it asks, prompts so far
  pamh, rc,               \* the PAM handle; what pam_authenticate returned
  batch, filled, heap,    \* the call being served: messages, responses, plaintext
  result                  \* what the call returned last

workerVars == <<wpc, wask, told>>
pamVars == <<pamh, rc>>
callVars == <<batch, filled, heap, result>>
vars == <<bridgeVars, workerVars, pamVars, callVars>>

\* Message styles; an error or information wants no answer, and libpam may
\* pass a null pointer for a message.
Messages == {"EchoOff", "EchoOn", "info", "null"}
Batches == UNION {[1..n -> Messages] : n \in 1..MaxBatch}

Slot(id, r) == [id |-> id, reply |-> r]
EmptySlot == Slot(0, NoReply)

Init ==
  /\ BridgeInit
  /\ wpc = "begin" /\ wask = NoStep /\ told = 0
  /\ pamh = "none" /\ rc = "none"
  /\ batch = <<>> /\ filled = <<>> /\ heap = {} /\ result = "none"

-------------------------------------------------------------------------------
(* The worker thread. *)

Finish(kind) == offer' = Plain(kind) /\ wpc' = "finishing"

PamStart ==
  /\ wpc = "begin"
  /\ \/ pamh' = "open" /\ wpc' = "libpam" /\ UNCHANGED offer
     \/ UNCHANGED pamh /\ Finish("failed")
  /\ UNCHANGED <<reply, gone, faceVars, wask, told, rc, callVars>>

\* pam_authenticate returns, whatever its modules made of the conversation.
PamAuthenticate ==
  /\ wpc = "libpam"
  /\ rc' \in {"success", "failure"} /\ wpc' = "ending"
  /\ UNCHANGED <<bridgeVars, wask, told, pamh, callVars>>

ReportsWithoutEnding ==
  /\ wpc = "ending" /\ wpc' = "finishing"
  /\ offer' = Plain(IF rc = "success" THEN "complete" ELSE "failed")
  /\ UNCHANGED <<reply, gone, faceVars, wask, told, pamVars, callVars>>

\* pam_end, before anything is reported.
EndsThenReports ==
  /\ wpc = "ending" /\ pamh' = "ended"
  /\ Finish(IF rc = "success" THEN "complete" ELSE "failed")
  /\ UNCHANGED <<reply, gone, faceVars, wask, told, rc, callVars>>

\* The last step was taken, or there is nobody to take it.
Returns ==
  /\ wpc = "finishing" /\ (offer = NoStep \/ FaceGone)
  /\ offer' = NoStep /\ wpc' = "returned" /\ gone' = TRUE
  /\ UNCHANGED <<reply, faceVars, wask, told, pamVars, callVars>>

-------------------------------------------------------------------------------
(* bridging_conv, on the worker's stack. *)

\* libpam calls: an array of one slot for each message, or no memory for it.
Called ==
  /\ wpc = "libpam"
  /\ \E b \in Batches :
       /\ told + Cardinality({i \in DOMAIN b : b[i] \in Styles}) <= MaxPrompts
       /\ batch' = b /\ filled' = <<>>
       /\ \/ wpc' = "message" /\ result' = "none"
          \/ wpc' = "libpam" /\ result' = "PAM_CONV_ERR"
  /\ UNCHANGED <<bridgeVars, wask, told, pamVars, heap>>

ArrayIsFreedAlone ==
  heap' = heap /\ filled' = <<>> /\ wpc' = "libpam" /\ result' = "PAM_CONV_ERR"

\* free_responses, and PAM_CONV_ERR with *resp null: every answer already
\* written is scrubbed with its slot.
FreeResponses ==
  heap' = {} /\ filled' = <<>> /\ wpc' = "libpam" /\ result' = "PAM_CONV_ERR"

Message == batch[Len(filled) + 1]
MoreMessages == Len(filled) < Len(batch)

AsksMessage ==
  /\ wpc = "message" /\ MoreMessages /\ Message \in Styles
  /\ told' = told + 1 /\ wask' = Prompt(Message, told')
  /\ offer' = wask' /\ wpc' = "asking"
  /\ UNCHANGED <<reply, gone, faceVars, pamVars, callVars>>

TellsMessage ==
  /\ wpc = "message" /\ MoreMessages /\ Message = "info"
  /\ offer' = Plain("info") /\ wpc' = "telling"
  /\ UNCHANGED <<reply, gone, faceVars, wask, told, pamVars, callVars>>

NullMessage ==
  /\ wpc = "message" /\ MoreMessages /\ Message = "null"
  /\ FreeResponses
  /\ UNCHANGED <<bridgeVars, wask, told, pamVars, batch>>

IsHeard ==
  /\ wpc = "asking" /\ offer = NoStep
  /\ wpc' = "awaiting"
  /\ UNCHANGED <<bridgeVars, wask, told, pamVars, callVars>>

\* Told, or nobody to tell: its slot stays empty, and counts.
Told ==
  /\ wpc = "telling" /\ (offer = NoStep \/ FaceGone)
  /\ offer' = NoStep /\ wpc' = "message" /\ filled' = Append(filled, EmptySlot)
  /\ UNCHANGED <<reply, gone, faceVars, wask, told, pamVars, batch, heap, result>>

VanishedFaceAnswersEmpty ==
  /\ FaceGone
  /\ \/ wpc = "asking" /\ offer # NoStep
     \/ wpc = "awaiting" /\ reply = NoReply
  /\ offer' = NoStep /\ wpc' = "message" /\ filled' = Append(filled, Slot(wask.id, NoReply))
  /\ UNCHANGED <<reply, gone, faceVars, wask, told, pamVars, batch, heap, result>>

\* ask fails once the face has dropped its ends.
AskFails ==
  /\ FaceGone
  /\ \/ wpc = "asking" /\ offer # NoStep
     \/ wpc = "awaiting" /\ reply = NoReply
  /\ offer' = NoStep
  /\ FreeResponses
  /\ UNCHANGED <<reply, gone, faceVars, wask, told, pamVars, batch>>

\* The answer becomes a plain String, is copied into memory libpam can free unless
\* it holds a NUL or there is no memory, and the String is dropped either way.
TakesAnswer ==
  /\ wpc = "awaiting" /\ reply # NoReply
  /\ reply' = NoReply
  /\ \/ /\ filled' = Append(filled, Slot(wask.id, reply))
        /\ heap' = heap \cup {wask.id} /\ wpc' = "message" /\ UNCHANGED result
     \/ FreeResponses
  /\ UNCHANGED <<offer, gone, faceVars, wask, told, pamVars, batch>>

\* PAM_SUCCESS: the array and the answers in it are libpam's.
HandsOver ==
  /\ wpc = "message" /\ ~MoreMessages
  /\ result' = "PAM_SUCCESS"
  /\ heap' = {} /\ wpc' = "libpam"
  /\ UNCHANGED <<bridgeVars, wask, told, pamVars, batch, filled>>

WorkerStep ==
  \/ PamStart \/ PamAuthenticate \/ EndsThenReports \/ Returns
  \/ Called \/ AsksMessage \/ TellsMessage \/ NullMessage \/ IsHeard \/ Told
  \/ AskFails \/ TakesAnswer \/ HandsOver

\* The process ends: the worker, detached, goes with it, and its memory.
GreeterEnds ==
  /\ fpc' = "exited" /\ wpc' = "returned" /\ gone' = TRUE
  /\ offer' = NoStep /\ reply' = NoReply /\ heap' = {}
  /\ UNCHANGED <<awaiting, verdict, focus, fields, shown, wask, told, pamVars,
                 batch, filled, result>>

GreeterExits == fpc = "dropped" /\ GreeterEnds

-------------------------------------------------------------------------------
FaceActs(action) == action /\ UNCHANGED <<workerVars, pamVars, callVars>>

Over == fpc = "exited" /\ UNCHANGED vars

Next ==
  \/ FaceActs(FaceStep) \/ FaceActs(Unowed)
  \/ WorkerStep \/ GreeterExits
  \/ Over

Spec == Init /\ [][Next]_vars

-------------------------------------------------------------------------------
(* Properties. *)

\* Exactly one response for each message, in order: the answer the person
\* submitted at that very prompt, and secret where the message hides its
\* echo.  Never fewer (libpam would read past the array), never one made up
\* for a face that is gone.
ResponsesFitTheirMessages ==
  result = "PAM_SUCCESS" =>
     /\ Len(filled) = Len(batch)
     /\ \A i \in DOMAIN batch :
          /\ batch[i] # "null"
          /\ batch[i] = "info" => filled[i] = EmptySlot
          /\ batch[i] \in Styles =>
               /\ filled[i].id # 0 /\ filled[i].reply.for = filled[i].id
               /\ filled[i].reply.secret = (batch[i] = "EchoOff")

Serving == {"message", "asking", "awaiting", "telling"}

\* "On any failure, free everything already allocated", and scrub it: of the array
\* made for libpam no answer is left when a call is over, however it ended.  (Of
\* the String each was copied from nothing is said.)
ResponsesAreScrubbed == wpc \notin Serving => heap = {}

\* "End the transaction BEFORE reporting": a face that learned of success
\* cannot race a handle that is still open, and it learned it from libpam.
SuccessIsReportedLast ==
  verdict = "Authenticated" => pamh = "ended" /\ rc = "success"
===============================================================================
