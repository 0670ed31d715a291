-------------------------------- MODULE SeatEnv --------------------------------
(***************************************************************************)
(* NativeSeatEnv (mukae-seat/src/lib.rs): the transactions of one process, *)
(* the capabilities its callers hold (mukae-spec/src/capability.rs), and   *)
(* start_session (mukae-spec/src/session.rs), over a host whose shadow     *)
(* file, passwd entries and logind change underneath.  Callers call in any *)
(* order the types allow, except that a proof is asked for, as all of them *)
(* ask, with the uid of its own transaction; a call the code answers with  *)
(* an error and no change is a stuttering step.                            *)
(*                                                                         *)
(* A passphrase is a member of Secrets; a shadow entry is the one secret   *)
(* it accepts (None: absent, locked, no usable hash, unknown scheme) and   *)
(* what its ageing fields say today.  Of a session's environment only      *)
(* XDG_SESSION_ID is kept, of a capability its uid and its handle.         *)
(***************************************************************************)
EXTENDS Naturals, FiniteSets

CONSTANTS Users, Uids, Secrets,
          Root,         \* the user /etc/nologin does not stop
          None,         \* Rust's Option::None
          Shadow0,      \* /etc/shadow when the process starts
          Passwd0,      \* what NSS resolves when the process starts
          MaxTxn,       \* bound: transactions of the process
          MaxSession,   \* bound: sessions logind creates
          MaxEdits      \* bound: changes of the host's files

ShadowEntry == [pass : Secrets \cup {None},
                account : {"Ok", "MustChangePassword", "AccountExpired"}]

ASSUME SeatAssumption ==
  /\ Root \in Users
  /\ None \notin Uids /\ None \notin Users /\ None \notin Secrets
  /\ Shadow0 \in [Users -> ShadowEntry]
  /\ Passwd0 \in [Users -> Uids \cup {None}]
  /\ MaxTxn \in Nat /\ MaxSession \in Nat /\ MaxEdits \in Nat

VARIABLES
  open, txns, next,                        \* NativeSeatEnv: live handles, their Txn
  shadow, readable, nologin, passwd, edits,   \* the host
  registered, owner, created, alive, ambient, \* logind
  verdict, caps, children                  \* what callers hold, and what they started

envVars == <<open, txns, next>>
hostVars == <<shadow, readable, nologin, passwd, edits>>
logindVars == <<registered, owner, created, alive, ambient>>
callerVars == <<verdict, caps, children>>
vars == <<envVars, hostVars, logindVars, callerVars>>

Handles == 1..MaxTxn
NoSession == 0
Sessions == 1..MaxSession
SessionOpt == Sessions \cup {NoSession}

Txn == [user : Users \cup {None}, uid : Uids \cup {None},
        awaiting : {"EchoOn", "EchoOff", "Nothing"},
        authenticated : BOOLEAN, refused : BOOLEAN, authtok : BOOLEAN,
        xdg : SessionOpt, session : SessionOpt]

NewTxn(u) == [user |-> u, uid |-> None,
              awaiting |-> IF u = None THEN "EchoOn" ELSE "EchoOff",
              authenticated |-> FALSE, refused |-> FALSE, authtok |-> FALSE,
              xdg |-> NoSession, session |-> NoSession]

-------------------------------------------------------------------------------
\* Initially the process has asked nothing; it may have been run from inside
\* a session of some operator, which logind then has registered for its pid.
Init ==
  /\ open = {} /\ next = 1 /\ txns = [h \in Handles |-> NewTxn(None)]
  /\ shadow = Shadow0 /\ passwd = Passwd0 /\ readable = TRUE /\ nologin = FALSE
  /\ edits = 0
  /\ ambient \in {0, 1} /\ ambient <= MaxSession
  /\ created = ambient /\ registered = ambient /\ alive = {ambient} \ {NoSession}
  /\ \E op \in Uids : owner = [s \in Sessions |-> IF s = ambient THEN op ELSE None]
  /\ verdict = [h \in Handles |-> "unasked"]
  /\ caps = [h \in Handles |-> None]
  /\ children = {}

-------------------------------------------------------------------------------
(* The conversation. *)

\* pam_next: what the transaction reports, without changing it.
Step(t) == IF t.authenticated THEN "Complete"
           ELSE IF t.refused \/ t.awaiting = "Nothing" THEN "Failed"
           ELSE "Prompt"

PamStart(u) ==
  /\ next <= MaxTxn
  /\ next' = next + 1
  /\ open' = open \cup {next}
  /\ txns' = [txns EXCEPT ![next] = NewTxn(u)]
  /\ UNCHANGED <<hostVars, logindVars, callerVars>>

PamAnswerVisible(h, name) ==
  /\ h \in open /\ txns[h].awaiting = "EchoOn"
  /\ txns' = [txns EXCEPT ![h].user = name, ![h].awaiting = "EchoOff"]
  /\ UNCHANGED <<open, next, hostVars, logindVars, callerVars>>

\* The uid a passphrase proves, if it proves one: the hash must match and NSS
\* must know the user.
Resolved(u, p) == IF shadow[u].pass = p THEN passwd[u] ELSE None

DecidedButStillAsking(t, uid) ==
  IF uid = None THEN [t EXCEPT !.refused = TRUE]
                ELSE [t EXCEPT !.uid = uid, !.authenticated = TRUE, !.authtok = TRUE]

Decided(t, uid) ==
  IF uid = None
  THEN [t EXCEPT !.awaiting = "Nothing", !.refused = TRUE]
  ELSE [t EXCEPT !.awaiting = "Nothing", !.uid = uid,
                 !.authenticated = TRUE, !.authtok = TRUE]

UnreadableIsRefused(h, p) ==
  /\ h \in open /\ txns[h].awaiting = "EchoOff" /\ txns[h].user # None
  /\ txns' = [txns EXCEPT ![h] =
                Decided(@, IF readable THEN Resolved(@.user, p) ELSE None)]
  /\ UNCHANGED <<open, next, hostVars, logindVars, callerVars>>

\* An unreadable shadow file is an error that leaves the prompt open.
PamAnswerSecret(h, p) ==
  /\ h \in open /\ txns[h].awaiting = "EchoOff" /\ txns[h].user # None
  /\ readable
  /\ txns' = [txns EXCEPT ![h] = Decided(@, Resolved(@.user, p))]
  /\ UNCHANGED <<open, next, hostVars, logindVars, callerVars>>

BlockedByNologin(u) == nologin /\ u # Root

\* What the account's ageing says, once it may be asked.
AccountOf(u) == IF ~readable THEN "error"
                ELSE CASE shadow[u].account = "Ok" -> "Ok"
                       [] shadow[u].account = "MustChangePassword" -> "NewAuthTokRequired"
                       [] shadow[u].account = "AccountExpired" -> "AcctExpired"

AcctVerdictOfAnyone(t) ==
  IF t.user = None \/ BlockedByNologin(t.user) THEN "PermDenied" ELSE AccountOf(t.user)

AcctVerdict(t) ==
  IF ~t.authenticated \/ t.user = None \/ BlockedByNologin(t.user)
  THEN "PermDenied" ELSE AccountOf(t.user)

PamAcctMgmt(h) ==
  /\ h \in open
  /\ verdict' = [verdict EXCEPT ![h] = AcctVerdict(txns[h])]
  /\ UNCHANGED <<envVars, hostVars, logindVars, caps, children>>

-------------------------------------------------------------------------------
(* Proofs, capabilities and sessions. *)

MintProofOfAClonedToken(h, uid) ==
  /\ h \in open /\ txns[h].authenticated /\ txns[h].authtok
  /\ caps' = [caps EXCEPT ![h] = uid]
  /\ UNCHANGED <<envVars, hostVars, logindVars, verdict, children>>

\* mint_proof spends the passphrase of a transaction that succeeded, and believes
\* its caller about the uid; SeatCapability::mint takes the proof by value.
MintProof(h, uid) ==
  /\ h \in open /\ txns[h].authenticated /\ txns[h].authtok
  /\ txns' = [txns EXCEPT ![h].authtok = FALSE]
  /\ caps' = [caps EXCEPT ![h] = uid]
  /\ UNCHANGED <<open, next, hostVars, logindVars, verdict, children>>

\* mukaed's two logins and Conversation::run: the uid is what uid_for_handle says,
\* moments before.  (That they ask the account first is Conversation's subject.)
MintsForItsOwn(h) == txns[h].uid # None /\ MintProof(h, txns[h].uid)

DropCapability(h) ==
  /\ caps[h] # None
  /\ caps' = [caps EXCEPT ![h] = None]
  /\ UNCHANGED <<envVars, hostVars, logindVars, verdict, children>>

\* logind's answer to CreateSession for this pid, apart from a refusal: a
\* session it already has for the pid, or a fresh one.
Fresh == registered = NoSession /\ created < MaxSession

WithSessionUnlessPlanned(t, s) ==
  [t EXCEPT !.session = s, !.xdg = IF @ = NoSession THEN s ELSE @]

\* pam_open_session took a session: it replaces one the transaction held, and
\* what logind reported replaces what the plan put in the environment.
WithSession(t, s) == [t EXCEPT !.session = s, !.xdg = s]

\* pam_putenv for each pair of the plan's environment.
PutEnv(t, plan) == [t EXCEPT !.xdg = IF plan = NoSession THEN @ ELSE plan]

OpenSessionAdopting(h, plan) ==
  LET s == IF registered = NoSession THEN created + 1 ELSE registered IN
  /\ txns[h].authenticated /\ txns[h].uid # None
  /\ s \in Sessions
  /\ txns' = [txns EXCEPT ![h] = WithSession(PutEnv(@, plan), s)]
  /\ created' = IF s > created THEN s ELSE created
  /\ registered' = s
  /\ owner' = IF s > created THEN [owner EXCEPT ![s] = txns[h].uid] ELSE owner
  /\ alive' = (alive \ {txns[h].session}) \cup {s}
  /\ UNCHANGED <<open, next, ambient>>

OpenSession(h, plan) ==
  LET s == created + 1 IN
  /\ txns[h].authenticated /\ txns[h].uid # None
  /\ Fresh
  /\ txns' = [txns EXCEPT ![h] = WithSession(PutEnv(@, plan), s)]
  /\ created' = s /\ registered' = s
  /\ owner' = [owner EXCEPT ![s] = txns[h].uid]
  /\ alive' = (alive \ {txns[h].session}) \cup {s}
  /\ UNCHANGED <<open, next, ambient>>

\* logind refuses, or its session is one that already exists: pam_putenv has
\* happened, nothing else has.
OpenFails(h, plan) ==
  /\ txns' = [txns EXCEPT ![h] = PutEnv(@, plan)]
  /\ UNCHANGED <<open, next, logindVars>>

StartSessionLendingTheCapability(h, plan) ==
  /\ caps[h] # None /\ h \in open
  /\ OpenSession(h, plan)
  /\ children' = children \cup {[txn |-> h, uid |-> caps[h], sid |-> txns'[h].xdg]}
  /\ UNCHANGED <<hostVars, verdict, caps>>

\* start_session consumes the capability whatever happens.  plan is the
\* XDG_SESSION_ID the plan's environment carries, if any.
StartSession(h, plan) ==
  /\ caps[h] # None
  /\ caps' = [caps EXCEPT ![h] = None]
  /\ \/ /\ h \notin open
        /\ UNCHANGED <<envVars, logindVars, children>>
     \/ /\ h \in open
        /\ OpenFails(h, plan)
        /\ UNCHANGED children
     \/ /\ h \in open
        /\ OpenSession(h, plan)
        /\ \/ UNCHANGED children
           \/ children' = children \cup
                {[txn |-> h, uid |-> caps[h], sid |-> txns'[h].xdg]}
  /\ UNCHANGED <<hostVars, verdict>>

PamCloseSession(h) ==
  /\ h \in open
  /\ txns' = [txns EXCEPT ![h].session = NoSession]
  /\ alive' = alive \ {txns[h].session}
  /\ UNCHANGED <<open, next, hostVars, registered, owner, created, ambient, callerVars>>

PamEndLeakingTheSession(h) ==
  /\ h \in open
  /\ open' = open \ {h}
  /\ txns' = [txns EXCEPT ![h] = NewTxn(None)]
  /\ UNCHANGED <<next, hostVars, logindVars, callerVars>>

\* Removing the transaction drops the session it holds.
PamEnd(h) ==
  /\ h \in open
  /\ open' = open \ {h}
  /\ txns' = [txns EXCEPT ![h] = NewTxn(None)]
  /\ alive' = alive \ {txns[h].session}
  /\ UNCHANGED <<next, hostVars, registered, owner, created, ambient, callerVars>>

-------------------------------------------------------------------------------
(* The host: logind, and an administrator. *)

\* logind lets go of a session some time after its descriptor closed.
LogindForgets ==
  /\ registered # NoSession /\ registered \notin alive
  /\ registered' = NoSession
  /\ UNCHANGED <<envVars, hostVars, owner, created, alive, ambient, callerVars>>

Edit ==
  /\ edits < MaxEdits
  /\ edits' = edits + 1
  /\ \/ \E u \in Users, e \in ShadowEntry :
          shadow' = [shadow EXCEPT ![u] = e] /\ UNCHANGED <<readable, nologin, passwd>>
     \/ \E u \in Users, x \in Uids \cup {None} :
          passwd' = [passwd EXCEPT ![u] = x] /\ UNCHANGED <<readable, nologin, shadow>>
     \/ readable' = ~readable /\ UNCHANGED <<nologin, passwd, shadow>>
     \/ nologin' = ~nologin /\ UNCHANGED <<readable, passwd, shadow>>
  /\ UNCHANGED <<envVars, logindVars, callerVars>>

Next ==
  \/ \E u \in Users \cup {None} : PamStart(u)
  \/ \E h \in Handles :
       \/ \E u \in Users : PamAnswerVisible(h, u)
       \/ \E p \in Secrets : PamAnswerSecret(h, p)
       \/ PamAcctMgmt(h) \/ MintsForItsOwn(h) \/ DropCapability(h)
       \/ \E plan \in SessionOpt : StartSession(h, plan)
       \/ PamCloseSession(h) \/ PamEnd(h)
  \/ LogindForgets \/ Edit

Spec == Init /\ [][Next]_vars

-------------------------------------------------------------------------------
(* Properties. *)

Child == [txn : Handles, uid : Uids, sid : Sessions]

\* Every variable has its type; handles are dense below next, an ended one is
\* blank, and logind's sessions are dense below created.
TypeOK ==
  /\ next \in 1..(MaxTxn + 1) /\ open \subseteq 1..(next - 1)
  /\ txns \in [Handles -> Txn]
  /\ shadow \in [Users -> ShadowEntry] /\ passwd \in [Users -> Uids \cup {None}]
  /\ readable \in BOOLEAN /\ nologin \in BOOLEAN /\ edits \in 0..MaxEdits
  /\ created \in 0..MaxSession /\ registered \in 0..created /\ ambient \in 0..created
  /\ alive \subseteq 1..created
  /\ owner \in [Sessions -> Uids \cup {None}]
  /\ verdict \in [Handles -> {"unasked", "Ok", "NewAuthTokRequired", "AcctExpired",
                             "PermDenied", "error"}]
  /\ caps \in [Handles -> Uids \cup {None}]
  /\ children \subseteq Child

\* A transaction that holds a logind session holds one created for the very
\* principal its passphrase proved (never the operator's, never another's).
SessionIsThePrincipals ==
  \A h \in open : txns[h].session # NoSession =>
     /\ txns[h].authenticated
     /\ owner[txns[h].session] = txns[h].uid
     /\ txns[h].session # ambient

\* The sessions this process keeps alive are exactly those its transactions
\* hold: none outlives pam_close_session or pam_end, none is lost under one.
SessionsAreHeld ==
  alive \ {ambient} = {txns[h].session : h \in open} \ {NoSession}

\* A session child runs as the owner of the session its environment names,
\* whatever the plan's environment said and however stale the capability was.
ChildRunsInItsOwnSession ==
  \A c \in children : owner[c.sid] = c.uid

\* "One authentication must not start two sessions" (capability.rs): two
\* children never come from the same transaction.
OneSessionPerLogin ==
  \A c, d \in children : c.txn = d.txn => c = d

\* An account is found good, and a capability held, only for a transaction
\* whose passphrase was accepted; the capability is for the uid it proved.
CapabilityIsBacked ==
  \A h \in open : verdict[h] = "Ok" \/ caps[h] # None =>
     /\ txns[h].authenticated
     /\ caps[h] # None => caps[h] = txns[h].uid

\* "One attempt per transaction" (pam_next): once a transaction reports
\* Complete or Failed it reports that, of that user and uid, until it ends.
VerdictIsFinal ==
  [][\A h \in open \cap open' :
       Step(txns[h]) # "Prompt" =>
          /\ Step(txns'[h]) = Step(txns[h])
          /\ txns'[h].user = txns[h].user
          /\ txns'[h].uid = txns[h].uid]_vars

\* An unreadable shadow file is neither a refusal nor a pass: while it cannot
\* be read no live transaction is decided.
UnreadableDecidesNothing ==
  [][\A h \in open \cap open' :
       ~readable => Step(txns'[h]) = Step(txns[h])]_vars

\* The detailed environment implements the right each attempt is promised.
RightOf(h) ==
  IF h >= next THEN "unused"
  ELSE IF h \notin open THEN "over"
  ELSE IF Step(txns[h]) = "Prompt" THEN "asking"
  ELSE IF Step(txns[h]) = "Failed" THEN "denied"
  ELSE IF txns[h].authtok \/ caps[h] # None THEN "granted" ELSE "over"

Right == INSTANCE LoginRight WITH
  Attempts <- Handles,
  right <- [h \in Handles |-> RightOf(h)],
  principal <- [h \in Handles |-> IF RightOf(h) = "granted" THEN txns[h].uid ELSE None],
  started <- {[attempt |-> c.txn, uid |-> c.uid] : c \in children}

ImplementsLoginRight == Right!Spec
===============================================================================
