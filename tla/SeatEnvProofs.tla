----------------------------- MODULE SeatEnvProofs -----------------------------
(***************************************************************************)
(* What SeatEnv's runs check on two users and two transactions, proved for *)
(* every value of the constants: the type invariant, and through the       *)
(* inductive invariant IInv the safety invariants of transactions,         *)
(* capabilities and sessions.                                              *)
(***************************************************************************)
EXTENDS SeatEnv, TLAPS

\* What a transaction's flags say of each other, and that an ended one is blank.
TxnsAreCoherent ==
  \A h \in Handles :
     /\ txns[h].authenticated => txns[h].uid # None
     /\ txns[h].authenticated \/ txns[h].refused => txns[h].awaiting = "Nothing"
     /\ ~txns[h].authenticated => ~txns[h].authtok /\ txns[h].session = NoSession
     /\ h \notin open => txns[h] = NewTxn(None)

\* No two transactions hold the same session.
SessionsAreExclusive ==
  \A g, h \in open :
     txns[g].session = txns[h].session /\ txns[h].session # NoSession => g = h

\* A handle pam_start has not issued has been neither judged nor paid for.
NothingBeforeStart ==
  \A h \in Handles : h >= next => verdict[h] = "unasked" /\ caps[h] = None

\* A capability, and a child, used up the token of the transaction it came from.
PaidOnce ==
  /\ \A h \in open : caps[h] # None => ~txns[h].authtok
  /\ \A c \in children :
        /\ c.txn < next /\ c.sid <= created /\ caps[c.txn] = None
        /\ c.txn \in open => txns[c.txn].authenticated /\ ~txns[c.txn].authtok

IInv ==
  /\ TypeOK
  /\ TxnsAreCoherent /\ SessionsAreExclusive /\ NothingBeforeStart /\ PaidOnce
  /\ SessionIsThePrincipals /\ SessionsAreHeld /\ ChildRunsInItsOwnSession
  /\ OneSessionPerLogin /\ CapabilityIsBacked

-------------------------------------------------------------------------------
(* What the helpers on a transaction return. *)

\* A transaction just started is well typed.
LEMMA NewTxnType ==
  \A u \in Users \cup {None} : NewTxn(u) \in Txn
BY DEF NewTxn, Txn, SessionOpt, NoSession

\* So is one whose passphrase was judged.
LEMMA DecidedType ==
  ASSUME NEW t \in Txn, NEW uid \in Uids \cup {None}
  PROVE  Decided(t, uid) \in Txn
BY DEF Decided, Txn

\* So is one whose environment was planned, and one that took a session.
LEMMA SessionType ==
  ASSUME NEW t \in Txn, NEW plan \in SessionOpt, NEW s \in Sessions
  PROVE  /\ PutEnv(t, plan) \in Txn
         /\ WithSession(PutEnv(t, plan), s) \in Txn
BY DEF PutEnv, WithSession, Txn, SessionOpt

\* A passphrase proves a uid of a known user or nothing.
LEMMA ResolvedType ==
  ASSUME TypeOK, NEW u \in Users, NEW p \in Secrets
  PROVE  Resolved(u, p) \in Uids \cup {None}
BY DEF Resolved, TypeOK

-------------------------------------------------------------------------------
(* Types. *)

\* Every variable of the environment has its type, in the initial states...
LEMMA InitTypeOK == Init => TypeOK
<1>1. SUFFICES ASSUME Init PROVE TypeOK
  OBVIOUS
<1>2. txns \in [Handles -> Txn]
  BY <1>1, NewTxnType DEF Init
<1>3. ambient \in 0..created /\ created \in 0..MaxSession /\ alive \subseteq 1..created
  BY <1>1, SeatAssumption DEF Init, NoSession
<1>4. owner \in [Sessions -> Uids \cup {None}]
  BY <1>1 DEF Init
<1>5. shadow \in [Users -> ShadowEntry] /\ passwd \in [Users -> Uids \cup {None}]
  BY <1>1, SeatAssumption DEF Init
<1>6. next \in 1..(MaxTxn + 1) /\ open \subseteq 1..(next - 1) /\ edits \in 0..MaxEdits
  BY <1>1, SeatAssumption DEF Init
<1>7. registered \in 0..created /\ readable \in BOOLEAN /\ nologin \in BOOLEAN
  BY <1>1, <1>3 DEF Init
<1>8. /\ verdict \in [Handles -> {"unasked", "Ok", "NewAuthTokRequired", "AcctExpired",
                                "PermDenied", "error"}]
      /\ caps \in [Handles -> Uids \cup {None}] /\ children \subseteq Child
  BY <1>1 DEF Init
<1> QED
  BY <1>2, <1>3, <1>4, <1>5, <1>6, <1>7, <1>8 DEF TypeOK

\* ... and after every step.
LEMMA NextTypeOK == TypeOK /\ [Next]_vars => TypeOK'
<1> USE DEF hostVars, envVars, logindVars, callerVars
<1>1. SUFFICES ASSUME TypeOK, [Next]_vars PROVE TypeOK'
  OBVIOUS
<1>2. ASSUME NEW u \in Users \cup {None}, PamStart(u) PROVE TypeOK'
  BY <1>1, <1>2, NewTxnType, SeatAssumption DEF TypeOK, PamStart, Handles
<1>3. ASSUME NEW h \in Handles, NEW u \in Users, PamAnswerVisible(h, u) PROVE TypeOK'
  <2> DEFINE t == txns[h]
  <2>0. t \in Txn
    BY <1>1 DEF TypeOK
  <2> HIDE DEF t
  <2>1. [t EXCEPT !.user = u, !.awaiting = "EchoOff"] \in Txn
    BY <2>0 DEF Txn
  <2>2. txns' = [txns EXCEPT ![h] = [t EXCEPT !.user = u, !.awaiting = "EchoOff"]]
    BY <1>1, <1>3 DEF PamAnswerVisible, TypeOK, Txn, t
  <2> QED
    BY <1>1, <1>3, <2>1, <2>2 DEF TypeOK, PamAnswerVisible
<1>4. ASSUME NEW h \in Handles, NEW p \in Secrets, PamAnswerSecret(h, p) PROVE TypeOK'
  <2>1. txns[h] \in Txn /\ txns[h].user \in Users
    BY <1>1, <1>4 DEF TypeOK, Txn, PamAnswerSecret
  <2>2. Decided(txns[h], Resolved(txns[h].user, p)) \in Txn
    BY <1>1, <2>1, ResolvedType, DecidedType
  <2> QED
    BY <1>1, <1>4, <2>2 DEF TypeOK, PamAnswerSecret
<1>5. ASSUME NEW h \in Handles, PamAcctMgmt(h) PROVE TypeOK'
  <2>1. txns[h].user \in Users \cup {None}
    BY <1>1 DEF TypeOK, Txn
  <2>2. \A u \in Users : shadow[u].account \in {"Ok", "MustChangePassword", "AccountExpired"}
    BY <1>1 DEF TypeOK, ShadowEntry
  <2>3. AcctVerdict(txns[h]) \in {"Ok", "NewAuthTokRequired", "AcctExpired",
                                "PermDenied", "error"}
    BY <2>1, <2>2 DEF AcctVerdict, AccountOf
  <2> QED
    BY <1>1, <1>5, <2>3 DEF TypeOK, PamAcctMgmt
<1>6. ASSUME NEW h \in Handles, MintsForItsOwn(h) PROVE TypeOK'
  <2>1. txns[h] \in Txn
    BY <1>1 DEF TypeOK
  <2>2. [txns[h] EXCEPT !.authtok = FALSE] \in Txn
    BY <2>1 DEF Txn
  <2>3. txns[h].uid \in Uids \cup {None}
    BY <2>1 DEF Txn
  <2> QED
    BY <1>1, <1>6, <2>2, <2>3 DEF TypeOK, MintsForItsOwn, MintProof
<1>7. ASSUME NEW h \in Handles, DropCapability(h) PROVE TypeOK'
  BY <1>1, <1>7 DEF TypeOK, DropCapability
<1>8. ASSUME NEW h \in Handles, NEW plan \in SessionOpt, StartSession(h, plan)
      PROVE  TypeOK'
  <2>1. txns[h] \in Txn /\ caps[h] \in Uids
    BY <1>1, <1>8 DEF TypeOK, StartSession
  <2>2. caps' \in [Handles -> Uids \cup {None}]
    BY <1>1, <1>8 DEF TypeOK, StartSession
  <2>3. CASE h \notin open /\ UNCHANGED <<envVars, logindVars, children>>
    BY <1>1, <1>8, <2>2, <2>3 DEF TypeOK, StartSession
  <2>4. CASE OpenFails(h, plan) /\ UNCHANGED children
    <3>1. PutEnv(txns[h], plan) \in Txn
      BY <2>1, SeatAssumption DEF PutEnv, Txn, SessionOpt
    <3> QED
      BY <1>1, <1>8, <2>2, <2>4, <3>1 DEF TypeOK, StartSession, OpenFails
  <2>5. CASE /\ OpenSession(h, plan)
             /\ \/ UNCHANGED children
                \/ children' = children \cup
                     {[txn |-> h, uid |-> caps[h], sid |-> txns'[h].xdg]}
    <3> DEFINE s == created + 1
    <3>1. s \in Sessions /\ s \in Nat
      BY <1>1, <2>5, SeatAssumption DEF TypeOK, OpenSession, Fresh, Sessions
    <3>2. WithSession(PutEnv(txns[h], plan), s) \in Txn
      BY <2>1, <3>1, SessionType
    <3>3. txns' \in [Handles -> Txn] /\ txns'[h].xdg = s
      BY <1>1, <2>1, <2>5, <3>1, <3>2 DEF TypeOK, OpenSession, WithSession, PutEnv, Txn
    <3>4. children' \subseteq Child
      BY <1>1, <2>1, <2>5, <3>1, <3>3 DEF TypeOK, Child
    <3>5. owner' \in [Sessions -> Uids \cup {None}]
      BY <1>1, <2>1, <2>5, <3>1 DEF TypeOK, OpenSession, Txn
    <3>6. /\ created' \in 0..MaxSession /\ registered' \in 0..created'
          /\ ambient' \in 0..created' /\ alive' \subseteq 1..created'
      <4>1. created' = s /\ registered' = s /\ ambient' = ambient /\ s <= MaxSession
        BY <2>5, <3>1 DEF OpenSession, Sessions
      <4>2. alive' \subseteq alive \cup {s}
        BY <2>5 DEF OpenSession
      <4> QED
        BY <1>1, <3>1, <4>1, <4>2, SeatAssumption DEF TypeOK
    <3> QED
      BY <1>1, <1>8, <2>2, <2>5, <3>3, <3>4, <3>5, <3>6 DEF TypeOK, StartSession, OpenSession
  <2> QED
    BY <1>8, <2>3, <2>4, <2>5 DEF StartSession
<1>9. ASSUME NEW h \in Handles, PamCloseSession(h) PROVE TypeOK'
  <2>1. [txns[h] EXCEPT !.session = NoSession] \in Txn
    BY <1>1 DEF TypeOK, Txn, SessionOpt, NoSession
  <2> QED
    BY <1>1, <1>9, <2>1 DEF TypeOK, PamCloseSession
<1>10. ASSUME NEW h \in Handles, PamEnd(h) PROVE TypeOK'
  BY <1>1, <1>10, NewTxnType DEF TypeOK, PamEnd
<1>11. CASE LogindForgets
  BY <1>1, <1>11 DEF TypeOK, LogindForgets, NoSession
<1>12. CASE Edit
  <2>1. edits' \in 0..MaxEdits
    BY <1>1, <1>12, SeatAssumption DEF TypeOK, Edit
  <2>2. shadow' \in [Users -> ShadowEntry]
    BY <1>1, <1>12 DEF TypeOK, Edit
  <2>3. passwd' \in [Users -> Uids \cup {None}]
    BY <1>1, <1>12 DEF TypeOK, Edit
  <2>4. readable' \in BOOLEAN /\ nologin' \in BOOLEAN
    BY <1>1, <1>12 DEF TypeOK, Edit
  <2> QED
    BY <1>1, <1>12, <2>1, <2>2, <2>3, <2>4 DEF TypeOK, Edit
<1>13. CASE UNCHANGED vars
  BY <1>1, <1>13 DEF TypeOK, vars
<1> QED
  BY <1>1, <1>2, <1>3, <1>4, <1>5, <1>6, <1>7, <1>8, <1>9, <1>10, <1>11, <1>12, <1>13
  DEF Next

\* Handles, sessions, transactions and capabilities keep their types.
THEOREM TypeCorrect == Spec => []TypeOK
BY InitTypeOK, NextTypeOK, PTL DEF Spec

-------------------------------------------------------------------------------
(* The inductive invariant. *)

\* It holds before anything was asked: there are no transactions, and only
\* the operator's own session is alive.
LEMMA InitIInv == Init => IInv
<1>1. SUFFICES ASSUME Init PROVE IInv
  OBVIOUS
<1>2. TypeOK
  BY <1>1, InitTypeOK
<1>3. TxnsAreCoherent
  BY <1>1 DEF Init, TxnsAreCoherent, NewTxn
<1>4. NothingBeforeStart
  BY <1>1 DEF Init, NothingBeforeStart
<1>5. SessionsAreHeld
  BY <1>1 DEF Init, SessionsAreHeld
<1>6. SessionsAreExclusive /\ PaidOnce /\ SessionIsThePrincipals
      /\ ChildRunsInItsOwnSession /\ OneSessionPerLogin /\ CapabilityIsBacked
  BY <1>1 DEF Init, SessionsAreExclusive, PaidOnce, SessionIsThePrincipals,
     ChildRunsInItsOwnSession, OneSessionPerLogin, CapabilityIsBacked
<1> QED
  BY <1>2, <1>3, <1>4, <1>5, <1>6 DEF IInv

\* A step that leaves every session, child and capability alone, and changes
\* no transaction but one, which stays coherent and keeps or only now gains
\* its authentication, keeps the invariant.
LEMMA TxnStep ==
  ASSUME IInv, TypeOK', NEW h \in open,
         UNCHANGED <<open, next, logindVars, callerVars>>,
         \A g \in Handles \ {h} : txns'[g] = txns[g],
         txns'[h].session = txns[h].session,
         txns'[h].authenticated => txns'[h].uid # None,
         txns'[h].authenticated \/ txns'[h].refused => txns'[h].awaiting = "Nothing",
         ~txns'[h].authenticated => ~txns'[h].authtok /\ txns[h].session = NoSession,
         txns[h].authenticated =>
            /\ txns'[h].authenticated /\ txns'[h].uid = txns[h].uid
            /\ txns'[h].authtok => txns[h].authtok
  PROVE  IInv'
<1> USE DEF IInv, logindVars, callerVars
<1>1. h \in Handles /\ open \subseteq Handles
  BY SeatAssumption DEF TypeOK, Handles
<1>2. TxnsAreCoherent'
  BY <1>1 DEF TxnsAreCoherent
<1>3. \A g \in Handles : txns'[g].session = txns[g].session
  BY <1>1
<1>4. SessionsAreExclusive' /\ SessionsAreHeld'
  BY <1>1, <1>3 DEF SessionsAreExclusive, SessionsAreHeld
<1>5. NothingBeforeStart'
  BY DEF NothingBeforeStart
<1>6. \A c \in children : c.txn \in Handles
  BY DEF TypeOK, Child
<1>7. PaidOnce'
  BY <1>1, <1>6 DEF PaidOnce, CapabilityIsBacked
<1>8. SessionIsThePrincipals'
  BY <1>1 DEF SessionIsThePrincipals
<1>9. CapabilityIsBacked'
  BY <1>1 DEF CapabilityIsBacked
<1> QED
  BY <1>2, <1>4, <1>5, <1>7, <1>8, <1>9 DEF ChildRunsInItsOwnSession, OneSessionPerLogin

\* pam_start: a fresh handle has no history.
LEMMA PamStartIInv ==
  ASSUME IInv, TypeOK', NEW u \in Users \cup {None}, PamStart(u)
  PROVE  IInv'
<1> USE DEF IInv, PamStart, hostVars, logindVars, callerVars
<1>1. /\ next \in Handles /\ next \notin open /\ open \subseteq Handles
      /\ open' = open \cup {next}
      /\ \A g \in Handles \ {next} : txns'[g] = txns[g]
      /\ txns[next].session = NoSession /\ txns[next].authtok = FALSE
      /\ txns'[next] = NewTxn(u)
  BY SeatAssumption DEF TypeOK, Handles, TxnsAreCoherent, NewTxn
<1>2. /\ txns'[next].authenticated = FALSE /\ txns'[next].authtok = FALSE
      /\ txns'[next].refused = FALSE
      /\ txns'[next].session = NoSession
  BY <1>1 DEF NewTxn
<1>3. TxnsAreCoherent'
  BY <1>1, <1>2 DEF TxnsAreCoherent
<1>4. SessionsAreExclusive' /\ SessionsAreHeld'
  BY <1>1, <1>2 DEF SessionsAreExclusive, SessionsAreHeld
<1>5. NothingBeforeStart'
  BY <1>1 DEF NothingBeforeStart, TypeOK, Handles
<1>6. \A c \in children : c.txn \in Handles /\ c.txn # next
  BY DEF TypeOK, Child, PaidOnce, Handles
<1>7. PaidOnce'
  BY <1>1, <1>2, <1>6 DEF PaidOnce, TypeOK, Handles
<1>8. SessionIsThePrincipals'
  BY <1>1, <1>2 DEF SessionIsThePrincipals
<1>9. CapabilityIsBacked'
  BY <1>1, <1>2 DEF CapabilityIsBacked, NothingBeforeStart, TypeOK
<1> QED
  BY <1>3, <1>4, <1>5, <1>7, <1>8, <1>9 DEF ChildRunsInItsOwnSession, OneSessionPerLogin

\* pam_answer decides a transaction at most once, and pam_answer of a visible
\* prompt decides nothing.
LEMMA PamAnswerIInv ==
  ASSUME IInv, TypeOK', NEW h \in Handles,
         \/ \E u \in Users : PamAnswerVisible(h, u)
         \/ \E p \in Secrets : PamAnswerSecret(h, p)
  PROVE  IInv'
<1> USE DEF IInv, logindVars, callerVars, hostVars
<1>1. /\ h \in open /\ ~txns[h].authenticated /\ ~txns[h].refused
      /\ txns[h].session = NoSession /\ ~txns[h].authtok
  BY DEF PamAnswerVisible, PamAnswerSecret, TxnsAreCoherent
<1>2. txns[h] \in Txn /\ txns \in [Handles -> Txn]
  BY DEF TypeOK
<1>3. CASE \E u \in Users : PamAnswerVisible(h, u)
  <2>0. PICK u \in Users : PamAnswerVisible(h, u)
    BY <1>3
  <2>1. /\ \A g \in Handles \ {h} : txns'[g] = txns[g]
        /\ txns'[h].session = txns[h].session
        /\ txns'[h].authenticated = FALSE /\ txns'[h].refused = txns[h].refused
        /\ txns'[h].authtok = txns[h].authtok
    <3>1. txns' = [txns EXCEPT ![h] = [txns[h] EXCEPT !.user = u, !.awaiting = "EchoOff"]]
      BY <1>2, <2>0 DEF PamAnswerVisible
    <3> QED
      BY <1>1, <1>2, <3>1 DEF Txn
  <2>2. UNCHANGED <<open, next, logindVars, callerVars>>
    BY <2>0 DEF PamAnswerVisible
  <2> QED
    BY <1>1, <2>1, <2>2, TxnStep
<1>4. CASE \E p \in Secrets : PamAnswerSecret(h, p)
  <2>1. PICK p \in Secrets : PamAnswerSecret(h, p)
    BY <1>4
  <2> DEFINE r == Resolved(txns[h].user, p)
  <2>2. txns' = [txns EXCEPT ![h] = Decided(txns[h], r)]
    BY <2>1 DEF PamAnswerSecret
  <2>3. /\ \A g \in Handles \ {h} : txns'[g] = txns[g]
        /\ txns'[h].session = txns[h].session
        /\ r = None => txns'[h].authenticated = FALSE /\ txns'[h].authtok = txns[h].authtok
        /\ r # None => txns'[h].uid = r /\ txns'[h].authenticated = TRUE
        /\ txns'[h].awaiting = "Nothing"
    BY <1>1, <1>2, <2>2 DEF Decided, Txn
  <2>4. UNCHANGED <<open, next, logindVars, callerVars>>
    BY <2>1 DEF PamAnswerSecret
  <2> QED
    BY <1>1, <2>3, <2>4, TxnStep
<1> QED
  BY <1>3, <1>4

\* pam_acct_mgmt finds good only the account of an authenticated transaction.
LEMMA PamAcctMgmtIInv ==
  ASSUME IInv, TypeOK', NEW h \in Handles, PamAcctMgmt(h)
  PROVE  IInv'
<1> USE DEF IInv, PamAcctMgmt, envVars, hostVars, logindVars
<1>1. /\ \A g \in Handles \ {h} : verdict'[g] = verdict[g]
      /\ verdict'[h] = "Ok" => txns[h].authenticated
      /\ h < next
  <2>1. AcctVerdict(txns[h]) = "Ok" => txns[h].authenticated
    BY DEF AcctVerdict
  <2>2. verdict' = [verdict EXCEPT ![h] = AcctVerdict(txns[h])]
        /\ verdict \in [Handles -> {"unasked", "Ok", "NewAuthTokRequired", "AcctExpired",
                                  "PermDenied", "error"}]
    BY DEF TypeOK
  <2>3. h < next
    BY SeatAssumption DEF TypeOK, Handles
  <2> QED
    BY <2>1, <2>2, <2>3
<1>2. CapabilityIsBacked'
  BY <1>1 DEF CapabilityIsBacked
<1>3. NothingBeforeStart'
  BY <1>1 DEF NothingBeforeStart, TypeOK, Handles
<1> QED
  BY <1>2, <1>3 DEF TxnsAreCoherent, SessionsAreExclusive, SessionsAreHeld, PaidOnce,
     SessionIsThePrincipals, ChildRunsInItsOwnSession, OneSessionPerLogin

\* Minting takes the token out of the transaction, into the capability.
LEMMA MintProofIInv ==
  ASSUME IInv, TypeOK', NEW h \in Handles, MintsForItsOwn(h)
  PROVE  IInv'
<1> USE DEF IInv, MintsForItsOwn, MintProof, hostVars, logindVars
<1>1. /\ h \in open /\ h < next /\ open \subseteq Handles
      /\ txns[h] \in Txn /\ txns \in [Handles -> Txn]
  BY SeatAssumption DEF TypeOK, Handles
<1>2. /\ \A g \in Handles \ {h} : txns'[g] = txns[g] /\ caps'[g] = caps[g]
      /\ txns'[h].session = txns[h].session /\ txns'[h].uid = txns[h].uid
      /\ txns'[h].authenticated /\ ~txns'[h].authtok
      /\ txns'[h].refused = txns[h].refused
      /\ txns'[h].awaiting = txns[h].awaiting /\ caps'[h] = txns[h].uid
  BY <1>1 DEF Txn, TypeOK
<1>3. TxnsAreCoherent'
  BY <1>1, <1>2 DEF TxnsAreCoherent
<1>4. \A g \in Handles : txns'[g].session = txns[g].session
  BY <1>2
<1>5. SessionsAreExclusive' /\ SessionsAreHeld'
  BY <1>1, <1>4 DEF SessionsAreExclusive, SessionsAreHeld
<1>6. NothingBeforeStart'
  BY <1>1, <1>2 DEF NothingBeforeStart, TypeOK, Handles
<1>7. \A c \in children : c.txn \in Handles /\ c.txn # h
  BY <1>1 DEF TypeOK, Child, PaidOnce
<1>8. PaidOnce'
  BY <1>1, <1>2, <1>7 DEF PaidOnce
<1>9. SessionIsThePrincipals'
  BY <1>1, <1>2 DEF SessionIsThePrincipals
<1>10. CapabilityIsBacked'
  BY <1>1, <1>2 DEF CapabilityIsBacked
<1> QED
  BY <1>3, <1>5, <1>6, <1>8, <1>9, <1>10 DEF ChildRunsInItsOwnSession, OneSessionPerLogin

\* Dropping a capability, and starting a session with one whose transaction
\* is over, forfeit it.
LEMMA ForfeitIInv ==
  ASSUME IInv, TypeOK', NEW h \in Handles,
         caps' = [caps EXCEPT ![h] = None],
         UNCHANGED <<envVars, logindVars, verdict, children>>
  PROVE  IInv'
<1> USE DEF IInv, envVars, logindVars
<1>1. \A g \in Handles : caps'[g] # None => caps'[g] = caps[g]
  BY DEF TypeOK
<1>2. \A g \in Handles : caps[g] = None => caps'[g] = None
  BY DEF TypeOK
<1>3. open \subseteq Handles /\ \A c \in children : c.txn \in Handles
  BY SeatAssumption DEF TypeOK, Handles, Child
<1>4. PaidOnce' /\ NothingBeforeStart' /\ CapabilityIsBacked'
  BY <1>1, <1>2, <1>3 DEF PaidOnce, NothingBeforeStart, CapabilityIsBacked
<1> QED
  BY <1>4 DEF TxnsAreCoherent, SessionsAreExclusive, SessionsAreHeld,
     SessionIsThePrincipals, ChildRunsInItsOwnSession, OneSessionPerLogin

\* Planned variables change nothing the invariant speaks of; the capability
\* is gone.
LEMMA OpenFailsIInv ==
  ASSUME IInv, TypeOK', NEW h \in Handles, NEW plan \in SessionOpt,
         h \in open, OpenFails(h, plan),
         caps' = [caps EXCEPT ![h] = None], UNCHANGED <<verdict, children>>
  PROVE  IInv'
<1> USE DEF IInv, OpenFails, logindVars
<1>1. /\ open \subseteq Handles /\ txns[h] \in Txn /\ txns \in [Handles -> Txn]
      /\ \A c \in children : c.txn \in Handles
  BY SeatAssumption DEF TypeOK, Handles, Child
<1>2. \A g \in Handles : caps'[g] # None => caps'[g] = caps[g] /\ g # h
  BY DEF TypeOK
<1>3. \A g \in Handles : caps[g] = None => caps'[g] = None
  BY DEF TypeOK
<1>4. \A g \in Handles :
        /\ txns'[g].session = txns[g].session /\ txns'[g].uid = txns[g].uid
        /\ txns'[g].authenticated = txns[g].authenticated /\ txns'[g].refused = txns[g].refused
        /\ txns'[g].awaiting = txns[g].awaiting /\ txns'[g].authtok = txns[g].authtok
        /\ g # h => txns'[g] = txns[g]
  BY <1>1 DEF PutEnv, Txn
<1>5. TxnsAreCoherent'
  BY <1>4 DEF TxnsAreCoherent
<1>6. SessionsAreExclusive' /\ SessionsAreHeld'
  BY <1>1, <1>4 DEF SessionsAreExclusive, SessionsAreHeld
<1>7. PaidOnce' /\ NothingBeforeStart' /\ CapabilityIsBacked'
  BY <1>1, <1>2, <1>3, <1>4 DEF PaidOnce, NothingBeforeStart, CapabilityIsBacked
<1>8. SessionIsThePrincipals'
  BY <1>1, <1>4 DEF SessionIsThePrincipals
<1> QED
  BY <1>5, <1>6, <1>7, <1>8 DEF ChildRunsInItsOwnSession, OneSessionPerLogin

\* A session that opens is fresh, and of the uid the capability stands for.
LEMMA OpenSessionIInv ==
  ASSUME IInv, TypeOK', NEW h \in Handles, NEW plan \in SessionOpt,
         h \in open, OpenSession(h, plan), caps[h] # None,
         caps' = [caps EXCEPT ![h] = None], UNCHANGED verdict,
         \/ UNCHANGED children
         \/ children' = children \cup
              {[txn |-> h, uid |-> caps[h], sid |-> txns'[h].xdg]}
  PROVE  IInv'
<1> DEFINE s == created + 1
<1> USE DEF IInv, OpenSession
<1>1. /\ open \subseteq Handles /\ txns[h] \in Txn /\ txns \in [Handles -> Txn]
      /\ \A c \in children : c.txn \in Handles /\ c.sid \in Sessions
      /\ h < next
  BY SeatAssumption DEF TypeOK, Handles, Child
<1>2. \A g \in Handles : caps'[g] # None => caps'[g] = caps[g] /\ g # h
  BY DEF TypeOK
<1>3. caps'[h] = None /\ \A g \in Handles : caps[g] = None => caps'[g] = None
  BY DEF TypeOK
<1>4. /\ s \in Sessions /\ s # NoSession /\ s # ambient
      /\ s \notin alive /\ created' = s /\ open' = open /\ ambient' = ambient
      /\ next' = next /\ \A x \in alive : x <= created
  BY SeatAssumption DEF TypeOK, Fresh, Sessions, NoSession
<1>5. /\ txns'[h].session = s /\ txns'[h].xdg = s
      /\ \A g \in Handles \ {h} : txns'[g] = txns[g]
      /\ \A g \in Handles :
            /\ txns'[g].uid = txns[g].uid
            /\ txns'[g].authenticated = txns[g].authenticated /\ txns'[g].refused = txns[g].refused
            /\ txns'[g].awaiting = txns[g].awaiting /\ txns'[g].authtok = txns[g].authtok
  BY <1>1 DEF WithSession, PutEnv, Txn
<1>6. /\ owner'[s] = txns[h].uid
      /\ \A x \in Sessions \ {s} : owner'[x] = owner[x]
  BY <1>4 DEF TypeOK
<1>7. \A g \in open : txns[g].session # NoSession =>
         /\ txns[g].session \in alive /\ txns[g].session \in Sessions
         /\ txns[g].session # s
  BY <1>1, <1>4 DEF SessionsAreHeld, TypeOK, Txn, SessionOpt
<1>8. TxnsAreCoherent'
  BY <1>1, <1>4, <1>5 DEF TxnsAreCoherent
<1>9. SessionsAreExclusive'
  BY <1>1, <1>4, <1>5, <1>7 DEF SessionsAreExclusive
<1>10. SessionsAreHeld'
  <2> DEFINE others == {txns[g].session : g \in open \ {h}}
             old == txns[h].session
  <2>1. alive' = (alive \ {old}) \cup {s} /\ alive \ {ambient} = (others \cup {old}) \ {NoSession}
    <3>1. {txns[g].session : g \in open} = others \cup {old}
      OBVIOUS
    <3> QED
      BY <3>1 DEF SessionsAreHeld
  <2>2. old # NoSession => old \notin others
    BY DEF SessionsAreExclusive
  <2>3. {txns'[g].session : g \in open'} = others \cup {s}
    BY <1>1, <1>4, <1>5
  <2>4. NoSession \notin alive
    BY DEF TypeOK, NoSession
  <2> HIDE DEF others, old
  <2>5. alive' \ {ambient} = (others \cup {s}) \ {NoSession}
    BY <1>4, <2>1, <2>2, <2>4
  <2> QED
    BY <1>4, <2>3, <2>5 DEF SessionsAreHeld
<1>11. SessionIsThePrincipals'
  BY <1>1, <1>4, <1>5, <1>6, <1>7 DEF SessionIsThePrincipals
<1>12. NothingBeforeStart' /\ CapabilityIsBacked'
  BY <1>1, <1>2, <1>4, <1>5 DEF NothingBeforeStart, CapabilityIsBacked
<1>13. txns[h].authenticated /\ ~txns[h].authtok /\ caps[h] = txns[h].uid
  BY DEF CapabilityIsBacked, PaidOnce
<1>14. \A c \in children : c.txn # h /\ c.sid # s
  BY <1>4, <1>1 DEF PaidOnce, TypeOK, Sessions
<1>15. \A c \in children' : c \in children \/ c = [txn |-> h, uid |-> caps[h], sid |-> s]
  BY <1>5
<1>16. PaidOnce'
  <2>1. \A g \in open : caps'[g] # None => ~txns'[g].authtok
    BY <1>1, <1>2, <1>5 DEF PaidOnce
  <2>2. ASSUME NEW c \in children
        PROVE  /\ c.txn < next /\ c.sid <= s /\ caps'[c.txn] = None
               /\ c.txn \in open => txns'[c.txn].authenticated /\ ~txns'[c.txn].authtok
    BY <1>1, <1>3, <1>5 DEF PaidOnce, TypeOK, Sessions
  <2> QED
    BY <1>1, <1>3, <1>4, <1>5, <1>13, <1>15, <2>1, <2>2 DEF PaidOnce, Sessions
<1>17. ChildRunsInItsOwnSession'
  BY <1>1, <1>6, <1>13, <1>14, <1>15 DEF ChildRunsInItsOwnSession
<1>18. OneSessionPerLogin'
  BY <1>14, <1>15 DEF OneSessionPerLogin
<1> QED
  BY <1>8, <1>9, <1>10, <1>11, <1>12, <1>16, <1>17, <1>18

\* A transaction that gives up its session, and may end, takes that session
\* and no other down with it.
LEMMA LetGoIInv ==
  ASSUME IInv, TypeOK', NEW h \in open, open' \in {open, open \ {h}},
         \A g \in Handles \ {h} : txns'[g] = txns[g],
         txns'[h].session = NoSession,
         \/ open' = open \ {h} /\ txns'[h] = NewTxn(None)
         \/ /\ open' = open
            /\ txns'[h].authenticated = txns[h].authenticated /\ txns'[h].refused = txns[h].refused
            /\ txns'[h].awaiting = txns[h].awaiting
            /\ txns'[h].uid = txns[h].uid /\ txns'[h].authtok = txns[h].authtok,
         alive' = alive \ {txns[h].session},
         UNCHANGED <<next, registered, owner, created, ambient, callerVars>>
  PROVE  IInv'
<1> USE DEF IInv, callerVars
<1>1. /\ open \subseteq Handles /\ open' \subseteq open /\ h \in Handles
      /\ \A c \in children : c.txn \in Handles
  BY SeatAssumption DEF TypeOK, Handles, Child
<1>2. TxnsAreCoherent'
  <2>1. ASSUME NEW g \in Handles \ {h}
        PROVE  TxnsAreCoherent!(g)'
    BY <1>1 DEF TxnsAreCoherent
  <2>2. TxnsAreCoherent!(h)'
    BY <1>1 DEF TxnsAreCoherent, NewTxn
  <2> QED
    BY <2>1, <2>2 DEF TxnsAreCoherent
<1>3. SessionsAreExclusive'
  BY <1>1 DEF SessionsAreExclusive
<1>4. SessionsAreHeld'
  <2> DEFINE others == {txns[g].session : g \in open \ {h}}
             old == txns[h].session
  <2>1. alive' = alive \ {old} /\ alive \ {ambient} = (others \cup {old}) \ {NoSession}
    <3>1. {txns[g].session : g \in open} = others \cup {old}
      OBVIOUS
    <3> QED
      BY <3>1 DEF SessionsAreHeld
  <2>2. old # NoSession => old \notin others
    BY DEF SessionsAreExclusive
  <2>3. {txns'[g].session : g \in open'} \ {NoSession} = others \ {NoSession}
    BY <1>1
  <2> HIDE DEF others, old
  <2>4. alive' \ {ambient} = others \ {NoSession}
    BY <2>1, <2>2
  <2> QED
    BY <2>3, <2>4 DEF SessionsAreHeld
<1>5. SessionIsThePrincipals'
  BY <1>1 DEF SessionIsThePrincipals
<1>6. PaidOnce' /\ NothingBeforeStart' /\ CapabilityIsBacked'
  BY <1>1 DEF PaidOnce, NothingBeforeStart, CapabilityIsBacked
<1> QED
  BY <1>2, <1>3, <1>4, <1>5, <1>6 DEF ChildRunsInItsOwnSession, OneSessionPerLogin

\* logind and the administrator change nothing the invariant speaks of but
\* which session logind remembers.
LEMMA HostIInv ==
  ASSUME IInv, TypeOK',
         UNCHANGED <<envVars, owner, created, alive, ambient, callerVars>>
  PROVE  IInv'
BY DEF IInv, envVars, callerVars, TxnsAreCoherent, SessionsAreExclusive, SessionsAreHeld,
   NothingBeforeStart, PaidOnce, SessionIsThePrincipals, ChildRunsInItsOwnSession,
   OneSessionPerLogin, CapabilityIsBacked

\* Every step keeps the invariant.
LEMMA NextIInv == IInv /\ [Next]_vars => IInv'
<1>1. SUFFICES ASSUME IInv, [Next]_vars PROVE IInv'
  OBVIOUS
<1>2. TypeOK /\ TypeOK'
  BY <1>1, NextTypeOK DEF IInv
<1>3. ASSUME NEW u \in Users \cup {None}, PamStart(u) PROVE IInv'
  BY <1>1, <1>2, <1>3, PamStartIInv
<1>4. ASSUME NEW h \in Handles, NEW u \in Users, PamAnswerVisible(h, u) PROVE IInv'
  BY <1>1, <1>2, <1>4, PamAnswerIInv
<1>5. ASSUME NEW h \in Handles, NEW p \in Secrets, PamAnswerSecret(h, p) PROVE IInv'
  BY <1>1, <1>2, <1>5, PamAnswerIInv
<1>6. ASSUME NEW h \in Handles, PamAcctMgmt(h) PROVE IInv'
  BY <1>1, <1>2, <1>6, PamAcctMgmtIInv
<1>7. ASSUME NEW h \in Handles, MintsForItsOwn(h) PROVE IInv'
  BY <1>1, <1>2, <1>7, MintProofIInv
<1>8. ASSUME NEW h \in Handles, DropCapability(h) PROVE IInv'
  BY <1>1, <1>2, <1>8, ForfeitIInv DEF DropCapability
<1>9. ASSUME NEW h \in Handles, NEW plan \in SessionOpt, StartSession(h, plan)
      PROVE  IInv'
  <2>1. caps[h] # None /\ caps' = [caps EXCEPT ![h] = None] /\ UNCHANGED verdict
    BY <1>9 DEF StartSession
  <2>2. CASE h \notin open /\ UNCHANGED <<envVars, logindVars, children>>
    BY <1>1, <1>2, <2>1, <2>2, ForfeitIInv
  <2>3. CASE h \in open /\ OpenFails(h, plan) /\ UNCHANGED children
    BY <1>1, <1>2, <2>1, <2>3, OpenFailsIInv
  <2>4. CASE /\ h \in open /\ OpenSession(h, plan)
             /\ \/ UNCHANGED children
                \/ children' = children \cup
                     {[txn |-> h, uid |-> caps[h], sid |-> txns'[h].xdg]}
    BY <1>1, <1>2, <2>1, <2>4, OpenSessionIInv
  <2> QED
    BY <1>9, <2>2, <2>3, <2>4 DEF StartSession
<1>10. ASSUME NEW h \in Handles, PamCloseSession(h) PROVE IInv'
  <2>1. txns[h] \in Txn /\ txns \in [Handles -> Txn] /\ h \in open
    BY <1>2, <1>10 DEF TypeOK, PamCloseSession
  <2>2. /\ \A g \in Handles \ {h} : txns'[g] = txns[g]
        /\ txns'[h].session = NoSession
        /\ txns'[h].authenticated = txns[h].authenticated /\ txns'[h].refused = txns[h].refused
        /\ txns'[h].awaiting = txns[h].awaiting
        /\ txns'[h].uid = txns[h].uid /\ txns'[h].authtok = txns[h].authtok
    BY <1>10, <2>1 DEF PamCloseSession, Txn
  <2> QED
    BY <1>1, <1>2, <1>10, <2>1, <2>2, LetGoIInv DEF PamCloseSession
<1>11. ASSUME NEW h \in Handles, PamEnd(h) PROVE IInv'
  <2>1. txns \in [Handles -> Txn] /\ h \in open
    BY <1>2, <1>11 DEF TypeOK, PamEnd
  <2>2. /\ \A g \in Handles \ {h} : txns'[g] = txns[g]
        /\ txns'[h] = NewTxn(None) /\ txns'[h].session = NoSession
    BY <1>11, <2>1 DEF PamEnd, NewTxn
  <2> QED
    BY <1>1, <1>2, <1>11, <2>1, <2>2, LetGoIInv DEF PamEnd
<1>12. CASE LogindForgets
  BY <1>1, <1>2, <1>12, HostIInv DEF LogindForgets
<1>13. CASE Edit
  BY <1>1, <1>2, <1>13, HostIInv DEF Edit, logindVars
<1>14. CASE UNCHANGED vars
  BY <1>1, <1>2, <1>14, HostIInv DEF vars, logindVars
<1> QED
  BY <1>1, <1>3, <1>4, <1>5, <1>6, <1>7, <1>8, <1>9, <1>10, <1>11, <1>12, <1>13, <1>14
  DEF Next

\* The inductive invariant holds of every behaviour.
THEOREM Inductive == Spec => []IInv
BY InitIInv, NextIInv, PTL DEF Spec

\* A login never holds the operator's session, nor another principal's.
THEOREM SessionIsThePrincipalsAlways == Spec => []SessionIsThePrincipals
BY Inductive, PTL DEF IInv

\* The sessions alive are those the live transactions hold: pam_close_session
\* and pam_end lose none and leave none behind.
THEOREM SessionsAreHeldAlways == Spec => []SessionsAreHeld
BY Inductive, PTL DEF IInv

\* Whatever the plan's environment says, a child runs as the owner of the
\* session its environment names.
THEOREM ChildRunsInItsOwnSessionAlways == Spec => []ChildRunsInItsOwnSession
BY Inductive, PTL DEF IInv

\* One authentication starts at most one session.
THEOREM OneSessionPerLoginAlways == Spec => []OneSessionPerLogin
BY Inductive, PTL DEF IInv

\* Capabilities and good accounts are those of authenticated transactions.
THEOREM CapabilityIsBackedAlways == Spec => []CapabilityIsBacked
BY Inductive, PTL DEF IInv

-------------------------------------------------------------------------------
(* What a step may never do to a decided transaction. *)

SameVerdict(t, s) ==
  /\ s.user = t.user /\ s.uid = t.uid /\ s.awaiting = t.awaiting
  /\ s.authenticated = t.authenticated /\ s.refused = t.refused

\* A step decides only a transaction that was still asking, and only while
\* the shadow file can be read.
LEMMA DecidedOnce ==
  ASSUME IInv, Next, NEW h \in open \cap open'
  PROVE  \/ SameVerdict(txns[h], txns'[h])
         \/ /\ Step(txns[h]) = "Prompt"
            /\ Step(txns'[h]) = "Prompt" \/ readable
<1> USE DEF IInv
<1>1. h \in Handles /\ txns \in [Handles -> Txn] /\ txns[h] \in Txn /\ next \notin open
  BY SeatAssumption DEF TypeOK, Handles
<1>2. ASSUME txns'[h] = txns[h] PROVE SameVerdict(txns[h], txns'[h])
  BY <1>2 DEF SameVerdict
<1>3. ASSUME NEW u \in Users \cup {None}, PamStart(u) PROVE txns'[h] = txns[h]
  BY <1>1, <1>3 DEF PamStart
<1>4. ASSUME NEW g \in Handles, NEW u \in Users, PamAnswerVisible(g, u)
      PROVE  \/ txns'[h] = txns[h]
             \/ Step(txns[h]) = "Prompt" /\ Step(txns'[h]) = "Prompt"
  <2>1. txns' = [txns EXCEPT ![g] = [txns[g] EXCEPT !.user = u, !.awaiting = "EchoOff"]]
    BY <1>1, <1>4 DEF PamAnswerVisible
  <2>2. CASE g = h
    <3>1. ~txns[h].authenticated /\ ~txns[h].refused /\ txns[h].awaiting = "EchoOn"
      BY <1>1, <1>4, <2>2 DEF PamAnswerVisible, TxnsAreCoherent
    <3>2. /\ txns'[h].authenticated = txns[h].authenticated
          /\ txns'[h].refused = txns[h].refused /\ txns'[h].awaiting = "EchoOff"
      BY <1>1, <2>1, <2>2 DEF Txn
    <3> QED
      BY <3>1, <3>2 DEF Step
  <2> QED
    BY <1>1, <2>1, <2>2
<1>5. ASSUME NEW g \in Handles, NEW p \in Secrets, PamAnswerSecret(g, p)
      PROVE  txns'[h] = txns[h] \/ (Step(txns[h]) = "Prompt" /\ readable)
  BY <1>1, <1>5 DEF PamAnswerSecret, TxnsAreCoherent, Step
<1>6. ASSUME NEW g \in Handles, MintsForItsOwn(g) PROVE SameVerdict(txns[h], txns'[h])
  BY <1>1, <1>6 DEF MintsForItsOwn, MintProof, SameVerdict, Txn
<1>7. ASSUME NEW g \in Handles, NEW plan \in SessionOpt, StartSession(g, plan)
      PROVE  SameVerdict(txns[h], txns'[h])
  <2>1. CASE UNCHANGED envVars
    BY <2>1 DEF envVars, SameVerdict
  <2>2. CASE OpenFails(g, plan)
    BY <1>1, <2>2 DEF OpenFails, PutEnv, SameVerdict, Txn
  <2>3. CASE OpenSession(g, plan)
    BY <1>1, <2>3 DEF OpenSession, WithSession, PutEnv, SameVerdict, Txn
  <2> QED
    BY <1>7, <2>1, <2>2, <2>3 DEF StartSession
<1>8. ASSUME NEW g \in Handles, PamCloseSession(g) PROVE SameVerdict(txns[h], txns'[h])
  BY <1>1, <1>8 DEF PamCloseSession, SameVerdict, Txn
<1>9. ASSUME NEW g \in Handles, PamEnd(g) PROVE txns'[h] = txns[h]
  BY <1>1, <1>9 DEF PamEnd
<1>10. ASSUME \/ \E g \in Handles : PamAcctMgmt(g) \/ DropCapability(g)
              \/ LogindForgets \/ Edit
       PROVE  txns'[h] = txns[h]
  BY <1>10 DEF PamAcctMgmt, DropCapability, LogindForgets, Edit, envVars
<1> QED
  BY <1>2, <1>3, <1>4, <1>5, <1>6, <1>7, <1>8, <1>9, <1>10 DEF Next

\* A transaction that reported Complete or Failed keeps to it, and to the user
\* and the uid it reported it of.
THEOREM VerdictIsFinalAlways == Spec => VerdictIsFinal
<1>1. IInv /\ [Next]_vars =>
        [\A h \in open \cap open' : Step(txns[h]) # "Prompt" =>
           /\ Step(txns'[h]) = Step(txns[h])
           /\ txns'[h].user = txns[h].user
           /\ txns'[h].uid = txns[h].uid]_vars
  BY DecidedOnce DEF SameVerdict, Step
<1> QED
  BY <1>1, Inductive, PTL DEF Spec, VerdictIsFinal

\* Nothing is decided while the shadow file cannot be read.
THEOREM UnreadableDecidesNothingAlways == Spec => UnreadableDecidesNothing
<1>1. IInv /\ [Next]_vars =>
        [\A h \in open \cap open' :
           ~readable => Step(txns'[h]) = Step(txns[h])]_vars
  BY DecidedOnce DEF SameVerdict, Step
<1> QED
  BY <1>1, Inductive, PTL DEF Spec, UnreadableDecidesNothing

-------------------------------------------------------------------------------
(* SeatEnv implements LoginRight. *)

Rights == [h \in Handles |-> RightOf(h)]
Principals == [h \in Handles |-> IF RightOf(h) = "granted" THEN txns[h].uid ELSE None]
Started == {[attempt |-> c.txn, uid |-> c.uid] : c \in children}

\* How far an attempt may get in one step without starting anything.
MovesOn(h) ==
  \/ RightOf(h)' = RightOf(h) /\ (RightOf(h) = "granted" => txns'[h].uid = txns[h].uid)
  \/ RightOf(h) = "unused" /\ RightOf(h)' = "asking"
  \/ RightOf(h) = "asking" /\ RightOf(h)' = "denied"
  \/ RightOf(h) = "asking" /\ RightOf(h)' = "granted" /\ txns'[h].uid \in Uids
  \/ RightOf(h) \in {"asking", "granted", "denied"} /\ RightOf(h)' = "over"

StaysPut(h) ==
  RightOf(h)' = RightOf(h) /\ (RightOf(h) = "granted" => txns'[h].uid = txns[h].uid)

\* One attempt that moves on, the others staying put, is a step of LoginRight.
LEMMA MoveIsAStep ==
  ASSUME NEW h \in Handles, MovesOn(h), \A g \in Handles \ {h} : StaysPut(g),
         UNCHANGED children
  PROVE  [Right!Next]_(Right!rightVars)
<1> DEFINE P == Principals
           R == Rights
<1>1. Started' = Started
  BY DEF Started
<1>2. /\ R' = [R EXCEPT ![h] = RightOf(h)']
      /\ P' = [P EXCEPT ![h] = IF RightOf(h)' = "granted" THEN txns'[h].uid ELSE None]
      /\ R[h] = RightOf(h)
      /\ P[h] = IF RightOf(h) = "granted" THEN txns[h].uid ELSE None
      /\ R = [R EXCEPT ![h] = R[h]] /\ P = [P EXCEPT ![h] = P[h]]
  BY DEF StaysPut, Rights, Principals
<1>3. CASE StaysPut(h)
  BY <1>1, <1>2, <1>3 DEF StaysPut, Right!rightVars, Rights, Principals, Started
<1>4. CASE RightOf(h) = "unused" /\ RightOf(h)' = "asking"
  <2>1. Right!Begin(h)
    BY <1>1, <1>2, <1>4 DEF Right!Begin, Rights, Principals, Started
  <2> QED
    BY <2>1 DEF Right!Next
<1>5. CASE RightOf(h) = "asking" /\ RightOf(h)' = "denied"
  <2>1. Right!Deny(h)
    BY <1>1, <1>2, <1>5 DEF Right!Deny, Rights, Principals, Started
  <2> QED
    BY <2>1 DEF Right!Next
<1>6. CASE RightOf(h) = "asking" /\ RightOf(h)' = "granted" /\ txns'[h].uid \in Uids
  <2>1. PICK u \in Uids : u = txns'[h].uid
    BY <1>6
  <2>2. Right!Grant(h, u)
    BY <1>1, <1>2, <1>6, <2>1 DEF Right!Grant, Rights, Principals, Started
  <2> QED
    BY <2>2 DEF Right!Next
<1>7. CASE RightOf(h) \in {"asking", "granted", "denied"} /\ RightOf(h)' = "over"
  <2>1. Right!Lose(h)
    BY <1>1, <1>2, <1>7 DEF Right!Lose, Rights, Principals, Started
  <2> QED
    BY <2>1 DEF Right!Next
<1> QED
  BY <1>3, <1>4, <1>5, <1>6, <1>7 DEF MovesOn, StaysPut

\* An attempt's right depends on whether it is live, on its transaction, and on
\* its capability.
LEMMA SameAttemptStaysPut ==
  ASSUME NEW h \in Handles,
         h \in open <=> h \in open', h >= next <=> h >= next',
         SameVerdict(txns[h], txns'[h]),
         txns'[h].authtok \/ caps'[h] # None <=> txns[h].authtok \/ caps[h] # None
  PROVE  StaysPut(h)
BY DEF StaysPut, SameVerdict, RightOf, Step

\* Each step of the environment is one of LoginRight, or a stuttering step.
LEMMA NextRefines == IInv /\ [Next]_vars => [Right!Next]_(Right!rightVars)
<1>1. SUFFICES ASSUME IInv, [Next]_vars PROVE [Right!Next]_(Right!rightVars)
  OBVIOUS
<1> DEFINE Goal == [Right!Next]_(Right!rightVars)
<1>2. /\ TypeOK /\ txns \in [Handles -> Txn] /\ caps \in [Handles -> Uids \cup {None}]
      /\ open \subseteq Handles /\ \A h \in open : h < next
      /\ \A h \in Handles : h >= next => h \notin open
      /\ \A h \in Handles : txns[h] \in Txn
  BY <1>1, SeatAssumption DEF IInv, TypeOK, Handles
<1>3. ASSUME NEW h \in Handles, UNCHANGED <<open, next>>, txns'[h] = txns[h],
             caps'[h] = caps[h]
      PROVE  StaysPut(h)
  BY <1>3, SameAttemptStaysPut DEF SameVerdict
<1>4. ASSUME UNCHANGED <<open, next, txns, caps, children>> PROVE Goal
  <2>1. \A h \in Handles : StaysPut(h)
    BY <1>3, <1>4
  <2> QED
    BY <1>4, <2>1 DEF StaysPut, Right!rightVars
<1>5. ASSUME NEW u \in Users \cup {None}, PamStart(u) PROVE Goal
  <2>1. PICK h \in Handles : h = next
    BY <1>2, <1>5 DEF PamStart, TypeOK, Handles
  <2>2. /\ next' = h + 1 /\ open' = open \cup {h} /\ h \in Nat
        /\ UNCHANGED <<caps, children>> /\ txns'[h] = NewTxn(u)
        /\ \A g \in Handles \ {h} : txns'[g] = txns[g]
    BY <1>2, <1>5, <2>1 DEF PamStart, Handles, callerVars
  <2>3. RightOf(h) = "unused"
    BY <2>1, <2>2 DEF RightOf
  <2>4. RightOf(h)' = "asking"
    BY <2>2 DEF RightOf, Step, NewTxn
  <2>5. ASSUME NEW g \in Handles \ {h} PROVE StaysPut(g)
    BY <1>2, <2>1, <2>2, SameAttemptStaysPut DEF SameVerdict, Handles
  <2> QED
    BY <2>2, <2>3, <2>4, <2>5, MoveIsAStep DEF MovesOn
<1>6. ASSUME NEW h \in Handles, NEW u \in Users, PamAnswerVisible(h, u) PROVE Goal
  <2>1. /\ h \in open /\ \A g \in Handles \ {h} : txns'[g] = txns[g]
        /\ UNCHANGED <<open, next, caps, children>>
        /\ txns' = [txns EXCEPT ![h] = [txns[h] EXCEPT !.user = u, !.awaiting = "EchoOff"]]
    BY <1>2, <1>6 DEF PamAnswerVisible, callerVars
  <2>2. /\ ~txns[h].authenticated /\ ~txns[h].refused /\ txns[h].awaiting = "EchoOn"
        /\ ~txns'[h].authenticated /\ ~txns'[h].refused /\ txns'[h].awaiting = "EchoOff"
    <3>1. ~txns[h].authenticated /\ ~txns[h].refused /\ txns[h].awaiting = "EchoOn"
      BY <1>1, <1>6 DEF IInv, TxnsAreCoherent, PamAnswerVisible
    <3> QED
      BY <1>2, <2>1, <3>1 DEF Txn
  <2>3. RightOf(h) = "asking" /\ RightOf(h)' = "asking"
    BY <1>2, <2>1, <2>2 DEF RightOf, Step
  <2>4. ASSUME NEW g \in Handles \ {h} PROVE StaysPut(g)
    BY <1>3, <2>1
  <2> QED
    BY <2>1, <2>3, <2>4, MoveIsAStep DEF MovesOn
<1>7. ASSUME NEW h \in Handles, NEW p \in Secrets, PamAnswerSecret(h, p) PROVE Goal
  <2> DEFINE r == Resolved(txns[h].user, p)
  <2>1. /\ h \in open /\ \A g \in Handles \ {h} : txns'[g] = txns[g]
        /\ UNCHANGED <<open, next, caps, children>>
        /\ txns'[h] = Decided(txns[h], r) /\ txns[h].user \in Users
    BY <1>2, <1>7 DEF PamAnswerSecret, callerVars, Txn
  <2>2. r \in Uids \cup {None}
    BY <1>2, <2>1, ResolvedType
  <2>3. ~txns[h].authenticated /\ ~txns[h].refused /\ txns[h].awaiting = "EchoOff"
    BY <1>1, <1>7 DEF IInv, TxnsAreCoherent, PamAnswerSecret
  <2>4. RightOf(h) = "asking"
    BY <1>2, <2>1, <2>3 DEF RightOf, Step
  <2>5. ASSUME r = None PROVE MovesOn(h)
    <3>1. ~txns'[h].authenticated /\ txns'[h].refused
      BY <1>2, <2>1, <2>3, <2>5 DEF Decided, Txn
    <3>2. RightOf(h)' = "denied"
      BY <1>2, <2>1, <3>1 DEF RightOf, Step
    <3> QED
      BY <2>4, <3>2 DEF MovesOn
  <2>6. ASSUME r # None PROVE MovesOn(h)
    <3>1. txns'[h].authenticated /\ txns'[h].authtok /\ txns'[h].uid = r
      BY <1>2, <2>1, <2>6 DEF Decided, Txn
    <3>2. RightOf(h)' = "granted"
      BY <1>2, <2>1, <3>1 DEF RightOf, Step
    <3> QED
      BY <2>2, <2>4, <2>6, <3>1, <3>2 DEF MovesOn
  <2>7. ASSUME NEW g \in Handles \ {h} PROVE StaysPut(g)
    BY <1>3, <2>1
  <2>8. MovesOn(h)
    BY <2>5, <2>6
  <2> QED
    BY <2>1, <2>7, <2>8, MoveIsAStep
<1>8. ASSUME NEW h \in Handles, MintsForItsOwn(h) PROVE Goal
  <2>1. /\ txns[h].authtok /\ txns[h].uid # None /\ h \in open
        /\ txns[h].uid \in Uids \cup {None}
    BY <1>1, <1>2, <1>8 DEF IInv, TxnsAreCoherent, MintsForItsOwn, MintProof, Txn
  <2>2. /\ UNCHANGED <<open, next, children>> /\ caps'[h] # None
        /\ SameVerdict(txns[h], txns'[h])
        /\ \A g \in Handles \ {h} : txns'[g] = txns[g] /\ caps'[g] = caps[g]
    BY <1>2, <1>8, <2>1 DEF MintsForItsOwn, MintProof, SameVerdict, Txn
  <2>3. StaysPut(h)
    BY <2>1, <2>2, SameAttemptStaysPut
  <2>4. ASSUME NEW g \in Handles \ {h} PROVE StaysPut(g)
    BY <1>3, <2>2
  <2> QED
    BY <2>2, <2>3, <2>4, MoveIsAStep DEF MovesOn, StaysPut
<1>9. ASSUME NEW h \in Handles, caps[h] # None, caps' = [caps EXCEPT ![h] = None],
             UNCHANGED <<open, next>>,
             h \notin open => UNCHANGED <<txns, children>>,
             SameVerdict(txns[h], txns'[h]), txns'[h].authtok = txns[h].authtok,
             \A g \in Handles \ {h} : txns'[g] = txns[g],
             \/ UNCHANGED children
             \/ \E x : children' = children \cup {[txn |-> h, uid |-> caps[h], sid |-> x]}
      PROVE  Goal
  <2>1. ASSUME NEW g \in Handles \ {h} PROVE StaysPut(g)
    BY <1>2, <1>3, <1>9
  <2>2. CASE h \notin open
    <3>1. RightOf(h)' = RightOf(h) /\ RightOf(h) # "granted"
      BY <1>9, <2>2 DEF RightOf
    <3> QED
      BY <1>9, <2>1, <2>2, <3>1, MoveIsAStep DEF MovesOn
  <2>3. CASE h \in open
    <3>1. txns[h].authenticated /\ ~txns[h].authtok /\ caps[h] = txns[h].uid
      BY <1>1, <1>9, <2>3 DEF IInv, CapabilityIsBacked, PaidOnce
    <3>2. RightOf(h) = "granted"
      BY <1>2, <1>9, <2>3, <3>1 DEF RightOf, Step
    <3>3. caps'[h] = None
      BY <1>2, <1>9
    <3>4. RightOf(h)' = "over"
      BY <1>2, <1>9, <2>3, <3>1, <3>3 DEF RightOf, Step, SameVerdict
    <3>5. CASE UNCHANGED children
      BY <2>1, <3>2, <3>4, <3>5, MoveIsAStep DEF MovesOn
    <3>6. ASSUME NEW x, children' = children \cup {[txn |-> h, uid |-> caps[h], sid |-> x]}
          PROVE  Goal
      <4>1. Started' = Started \cup {[attempt |-> h, uid |-> caps[h]]}
        <5>1. Started' = {[attempt |-> c.txn, uid |-> c.uid] : c \in children'}
          BY DEF Started
        <5>2. \A c \in children' : c \in children \/
                (c.txn = h /\ c.uid = caps[h])
          BY <3>6
        <5>3. \E c \in children' : c.txn = h /\ c.uid = caps[h]
          <6> DEFINE new == [txn |-> h, uid |-> caps[h], sid |-> x]
          <6>1. new \in children'
            BY <3>6
          <6>2. new.txn = h /\ new.uid = caps[h]
            OBVIOUS
          <6> QED
            BY <6>1, <6>2
        <5>4. children \subseteq children'
          BY <3>6
        <5> QED
          BY <5>1, <5>2, <5>3, <5>4 DEF Started
      <4>2. Rights' = [Rights EXCEPT ![h] = "over"] /\ Rights[h] = "granted"
        BY <2>1, <3>2, <3>4 DEF Rights, StaysPut
      <4>3. Principals' = [Principals EXCEPT ![h] = None] /\ Principals[h] = caps[h]
        BY <2>1, <3>1, <3>2, <3>4 DEF Principals, StaysPut
      <4>4. Right!Spend(h)
        BY <4>1, <4>2, <4>3 DEF Right!Spend, Rights, Principals, Started
      <4> QED
        BY <4>4 DEF Right!Next
    <3> QED
      BY <1>9, <3>5, <3>6
  <2> QED
    BY <2>2, <2>3
<1>10. ASSUME NEW h \in Handles, DropCapability(h) PROVE Goal
  BY <1>9, <1>10 DEF DropCapability, envVars, SameVerdict
<1>11. ASSUME NEW h \in Handles, NEW plan \in SessionOpt, StartSession(h, plan) PROVE Goal
  <2>1. caps[h] # None /\ caps' = [caps EXCEPT ![h] = None]
    BY <1>11 DEF StartSession
  <2>2. CASE h \notin open /\ UNCHANGED <<envVars, children>>
    BY <1>9, <2>1, <2>2 DEF envVars, SameVerdict
  <2>3. CASE h \in open /\ OpenFails(h, plan) /\ UNCHANGED children
    <3>1. /\ UNCHANGED <<open, next>> /\ SameVerdict(txns[h], txns'[h])
          /\ txns'[h].authtok = txns[h].authtok
          /\ \A g \in Handles \ {h} : txns'[g] = txns[g]
      BY <1>2, <2>3 DEF OpenFails, PutEnv, SameVerdict, Txn
    <3> QED
      BY <1>9, <2>1, <2>3, <3>1
  <2>4. CASE /\ h \in open /\ OpenSession(h, plan)
             /\ \/ UNCHANGED children
                \/ children' = children \cup
                     {[txn |-> h, uid |-> caps[h], sid |-> txns'[h].xdg]}
    <3>1. /\ UNCHANGED <<open, next>> /\ SameVerdict(txns[h], txns'[h])
          /\ txns'[h].authtok = txns[h].authtok
          /\ \A g \in Handles \ {h} : txns'[g] = txns[g]
      BY <1>2, <2>4 DEF OpenSession, WithSession, PutEnv, SameVerdict, Txn
    <3> QED
      BY <1>9, <2>1, <2>4, <3>1
  <2> QED
    BY <1>11, <2>2, <2>3, <2>4 DEF StartSession
<1>12. ASSUME NEW h \in Handles, PamCloseSession(h) PROVE Goal
  <2>1. /\ UNCHANGED <<open, next, caps, children>> /\ SameVerdict(txns[h], txns'[h])
        /\ txns'[h].authtok = txns[h].authtok
        /\ \A g \in Handles \ {h} : txns'[g] = txns[g]
    BY <1>2, <1>12 DEF PamCloseSession, SameVerdict, Txn, callerVars
  <2>2. StaysPut(h)
    BY <2>1, SameAttemptStaysPut
  <2>3. ASSUME NEW g \in Handles \ {h} PROVE StaysPut(g)
    BY <1>3, <2>1
  <2> QED
    BY <2>1, <2>2, <2>3, MoveIsAStep DEF MovesOn, StaysPut
<1>13. ASSUME NEW h \in Handles, PamEnd(h) PROVE Goal
  <2>1. /\ UNCHANGED <<next, caps, children>> /\ h \in open /\ open' = open \ {h}
        /\ \A g \in Handles \ {h} : txns'[g] = txns[g]
    BY <1>2, <1>13 DEF PamEnd, callerVars
  <2>2. RightOf(h)' = "over"
    BY <1>2, <2>1 DEF RightOf
  <2>3. RightOf(h) \in {"asking", "denied", "granted", "over"} /\
        (RightOf(h) = "over" => StaysPut(h))
    BY <1>2, <2>1, <2>2 DEF RightOf, StaysPut
  <2>4. ASSUME NEW g \in Handles \ {h} PROVE StaysPut(g)
    BY <2>1, SameAttemptStaysPut DEF SameVerdict
  <2> QED
    BY <2>1, <2>2, <2>3, <2>4, MoveIsAStep DEF MovesOn, StaysPut
<1>14. CASE \/ \E h \in Handles : PamAcctMgmt(h)
            \/ LogindForgets \/ Edit \/ UNCHANGED vars
  BY <1>4, <1>14 DEF PamAcctMgmt, LogindForgets, Edit, vars, envVars, callerVars
<1> QED
  BY <1>1, <1>5, <1>6, <1>7, <1>8, <1>10, <1>11, <1>12, <1>13, <1>14 DEF Next

\* The initial states map to initial states.
LEMMA InitRefines == Init => Right!Init
<1>1. SUFFICES ASSUME Init PROVE Right!Init
  OBVIOUS
<1>2. \A h \in Handles : RightOf(h) = "unused"
  BY <1>1, SeatAssumption DEF Init, RightOf, Handles
<1>3. Started = {}
  BY <1>1 DEF Init, Started
<1> QED
  BY <1>2, <1>3 DEF Right!Init, Started

\* The environment implements LoginRight: an attempt is granted to one
\* principal or denied, and a grant starts one session, as that principal.
THEOREM Refinement == Spec => ImplementsLoginRight
BY InitRefines, NextRefines, Inductive, PTL DEF Spec, ImplementsLoginRight, Right!Spec
===============================================================================
