--------------------------------- MODULE Shadow ---------------------------------
(***************************************************************************)
(* What mukae-native makes of one account's line of /etc/shadow: whether a *)
(* passphrase verifies (verify.rs, shadow.rs) and whether the account may  *)
(* log in today (ShadowEntry::validity, account_validity), while days pass *)
(* and an administrator uses passwd, chage, usermod and userdel on it.     *)
(*                                                                         *)
(* The numbers of a line are i64 and their sums wrap at Half; a field left *)
(* empty, or unparseable, is Unset.  A hash is the one passphrase it       *)
(* accepts, or one of the fields that are no usable hash.                  *)
(***************************************************************************)
EXTENDS Integers

CONSTANTS Secrets,            \* passphrases
          Numbers,            \* the i64 values a field may hold
          Unset,              \* a field left empty: Option::None
          Absent,             \* no such line
          Half,               \* 2^63
          NeverAges,          \* 99_999
          FirstDay, LastDay   \* bound: the days of the model, since the epoch

Oddities == {"empty", "star", "foreign"}   \* "", "*", an unknown scheme
Nobody == "nobody"                         \* no passphrase was chosen
Days == FirstDay..LastDay
Fields == Numbers \cup {Unset}

ASSUME ShadowAssumption ==
  /\ Half \in Nat /\ NeverAges \in Nat /\ FirstDay \in Nat /\ LastDay \in Nat
  /\ 0 < FirstDay /\ FirstDay <= LastDay /\ LastDay + NeverAges < Half
  /\ Days \subseteq Numbers /\ 0 \in Numbers
  /\ Numbers \subseteq (-Half)..(Half - 1) /\ Unset \notin Numbers
  /\ Nobody \notin Secrets /\ Secrets \cap Oddities = {}

Entry == [lock : BOOLEAN, hash : Secrets \cup Oddities,
          changed : Fields, max : Fields, inactive : Fields, expires : Fields]

ASSUME AbsentAssumption == Absent \notin Entry

VARIABLES
  today, entry,       \* the clock's day, the account's line
  chosen,             \* the passphrase last chosen for the account
  fresh, good, asked  \* since it was chosen: no chage, days it was good, days asked

termVars == <<fresh, good, asked>>
vars == <<today, entry, chosen, termVars>>

-------------------------------------------------------------------------------
(* The hash. *)

UsableIgnoringTheBang(e) == e.hash \notin {"empty", "star"}

\* usable_hash: a `!` in front locks the account, whatever is behind it.
Usable(e) == ~e.lock /\ e.hash \notin {"empty", "star"}

\* verify_user, when a line is there and when there is none.
Verdict(e, p) ==
  IF e = Absent THEN "Refused"
  ELSE IF ~Usable(e) THEN "Cannot"
  ELSE IF e.hash = "foreign" THEN "UnknownScheme"
  ELSE IF e.hash = p THEN "Accepted" ELSE "Refused"

-------------------------------------------------------------------------------
(* The ageing fields. *)

\* i64 addition of two i64 values, as a release build does it.
Add(a, b) == LET s == a + b IN
  IF s >= Half THEN s - 2 * Half ELSE IF s < -Half THEN s + 2 * Half ELSE s

ExpiredUnlessDaysCame(e, d) == e.expires # Unset /\ e.expires >= 0 /\ d = e.expires
Expired(e, d) == e.expires # Unset /\ e.expires >= 0 /\ d >= e.expires

AgesWhateverTheMax(e) == e.changed # Unset /\ e.max # Unset /\ e.max < NeverAges

\* Ageing is off without both numbers, or with a term that is negative or absurd.
Ages(e) == e.changed # Unset /\ e.max # Unset /\ 0 <= e.max /\ e.max < NeverAges
Due(e) == Add(e.changed, e.max)

GraceOverOnItsLastDay(e, d) ==
  e.inactive # Unset /\ e.inactive >= 0 /\ d >= Add(Due(e), e.inactive)
GraceOver(e, d) ==
  e.inactive # Unset /\ e.inactive >= 0 /\ d > Add(Due(e), e.inactive)

Validity(e, d) ==
  IF Expired(e, d) THEN "AccountExpired"
  ELSE IF e.changed = 0 THEN "MustChangePassword"
  ELSE IF ~Ages(e) \/ d <= Due(e) THEN "Ok"
  ELSE IF GraceOver(e, d) THEN "InactiveElapsed" ELSE "MustChangePassword"

\* account_validity: no line is an account that is gone.
AccountValidity(e, d) == IF e = Absent THEN "AccountExpired" ELSE Validity(e, d)

-------------------------------------------------------------------------------
Init ==
  /\ today = FirstDay
  /\ entry \in {Absent} \cup
       [lock : {FALSE}, hash : Oddities, changed : {FirstDay},
        max : {Unset}, inactive : {Unset}, expires : {Unset}]
  /\ chosen = Nobody
  /\ fresh = FALSE /\ good = 0 /\ asked = 0

Count(verdict) ==
  /\ good' = good + (IF verdict = "Ok" THEN 1 ELSE 0)
  /\ asked' = asked + (IF verdict = "MustChangePassword" THEN 1 ELSE 0)

\* today_days reads the next day.
NextDay ==
  /\ today < LastDay /\ today' = today + 1
  /\ Count(AccountValidity(entry, today'))
  /\ UNCHANGED <<entry, chosen, fresh>>

\* passwd: a new hash without a lock, changed today.  The terms of the new
\* passphrase begin with today.
ChangePassword(p) ==
  /\ entry # Absent
  /\ entry' = [entry EXCEPT !.hash = p, !.lock = FALSE, !.changed = today]
  /\ chosen' = p /\ fresh' = TRUE
  /\ good' = (IF AccountValidity(entry', today) = "Ok" THEN 1 ELSE 0) /\ asked' = 0
  /\ UNCHANGED today

\* usermod -L and -U.
Lock(on) ==
  /\ entry # Absent
  /\ entry' = [entry EXCEPT !.lock = on]
  /\ UNCHANGED <<today, chosen, termVars>>

\* chage -d, -M, -I and -E.
Chage(field, x) ==
  /\ entry # Absent
  /\ entry' = [entry EXCEPT ![field] = x]
  /\ fresh' = FALSE
  /\ UNCHANGED <<today, chosen, good, asked>>

\* passwd -d, or a line written with a hash that is none of ours.
SpoilHash(odd) ==
  /\ entry # Absent
  /\ entry' = [entry EXCEPT !.hash = odd] /\ chosen' = Nobody
  /\ UNCHANGED <<today, termVars>>

Userdel ==
  /\ entry # Absent
  /\ entry' = Absent /\ chosen' = Nobody /\ fresh' = FALSE
  /\ UNCHANGED <<today, good, asked>>

Next ==
  \/ NextDay
  \/ \E p \in Secrets : ChangePassword(p)
  \/ \E on \in BOOLEAN : Lock(on)
  \/ \E field \in {"changed", "max", "inactive", "expires"}, x \in Fields : Chage(field, x)
  \/ \E odd \in Oddities : SpoilHash(odd)
  \/ Userdel

Spec == Init /\ [][Next]_vars

-------------------------------------------------------------------------------
(* Properties. *)

\* Every variable has its type.
TypeOK ==
  /\ today \in Days
  /\ entry \in Entry \cup {Absent}
  /\ chosen \in Secrets \cup {Nobody}
  /\ fresh \in BOOLEAN /\ good \in Nat /\ asked \in Nat

\* How far an account is from a login.
Distance == [Ok |-> 0, MustChangePassword |-> 1, InactiveElapsed |-> 2, AccountExpired |-> 3]

\* Waiting never helps: on a line nobody touches the verdict only gets worse
\* as days pass (the arms of validity, in pam_unix's order, never cross).
NeverBetterByWaiting ==
  [][entry' = entry =>
       Distance[AccountValidity(entry', today')] >= Distance[AccountValidity(entry, today)]]_vars

\* "No password change recovers" an expired account, and it recovers every
\* other, the 0 sentinel, an elapsed grace and absurd fields included: a
\* person sent to change their password is not sent there again that day.
ChangeRecovers ==
  [][(\E p \in Secrets : ChangePassword(p)) =>
       Validity(entry', today') =
         IF Expired(entry, today) THEN "AccountExpired" ELSE "Ok"]_vars

\* A passphrase is accepted only if it is the one last chosen for the account,
\* and never while the account is locked, though its hash is still there.
OnlyTheChosenOpens ==
  \A p \in Secrets : Verdict(entry, p) = "Accepted" => p = chosen /\ ~entry.lock

\* A new passphrase serves its full term: it is good on max_age days after the
\* one it was chosen on, and only then asked to be changed; for `inactive`
\* days more it may be (unless that many days leave the word).
TermsAreServed ==
  fresh /\ AccountValidity(entry, today) \in {"MustChangePassword", "InactiveElapsed"} =>
    /\ good = entry.max + 1
    /\ AccountValidity(entry, today) = "InactiveElapsed"
         /\ entry.changed + entry.max + entry.inactive < Half => asked = entry.inactive
===============================================================================
