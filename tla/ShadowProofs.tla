------------------------------ MODULE ShadowProofs ------------------------------
(***************************************************************************)
(* What the run of Shadow checks on three days and nine field values,      *)
(* proved for every i64 a field may hold and every span of days.           *)
(***************************************************************************)
EXTENDS Shadow, TLAPS

\* A hash that can be matched is the one last chosen.
HashIsChosen == entry # Absent /\ entry.hash \in Secrets => entry.hash = chosen

\* How far the term of a new passphrase has got, on a line that has not
\* expired: good so far, or good for its term and then asked.
TermSoFar ==
  fresh =>
    /\ entry # Absent /\ entry.changed \in Days /\ entry.changed <= today
    /\ ~Expired(entry, today) /\ Ages(entry) =>
         IF today <= Due(entry)
         THEN good = today - entry.changed + 1 /\ asked = 0
         ELSE /\ good = entry.max + 1
              /\ IF GraceOver(entry, today)
                 THEN Due(entry) + entry.inactive < Half => asked = entry.inactive
                 ELSE asked = today - Due(entry)

IInv == TypeOK /\ HashIsChosen /\ TermSoFar

-------------------------------------------------------------------------------
(* What validity returns. *)

\* The days of the model are i64 values, above the sentinel.
LEMMA DayType == \A d \in Days : d \in Int /\ 0 < d /\ d <= LastDay /\ d < Half
BY ShadowAssumption DEF Days

\* A field is Unset or an i64.
LEMMA FieldType ==
  \A x \in Fields : x # Unset => x \in Int /\ -Half <= x /\ x < Half
BY ShadowAssumption DEF Fields

\* The sum of two i64 values is an i64, and their sum where that is one.
LEMMA AddType ==
  ASSUME NEW a \in (-Half)..(Half - 1), NEW b \in (-Half)..(Half - 1)
  PROVE  /\ Add(a, b) \in (-Half)..(Half - 1)
         /\ a + b \in (-Half)..(Half - 1) => Add(a, b) = a + b
BY ShadowAssumption DEF Add

\* The day a passphrase chosen on a day of the model is due does not wrap.
LEMMA DueOfADay ==
  ASSUME NEW e \in Entry, e.changed \in Days, Ages(e)
  PROVE  Due(e) = e.changed + e.max /\ Due(e) \in 1..(Half - 1) /\ e.max \in Nat
<1>1. e.max \in Fields /\ e.max # Unset
  BY DEF Entry, Ages
<1>2. e.max \in Int /\ e.changed \in Int /\ 0 < e.changed /\ e.changed <= LastDay
  BY <1>1, FieldType, DayType
<1>3. 0 <= e.max /\ e.max < NeverAges
  BY DEF Ages
<1> QED
  BY <1>2, <1>3, ShadowAssumption DEF Due, Add

\* The verdict of a line depends on its ageing fields alone.
LEMMA SameAgeing ==
  ASSUME NEW e, NEW f, NEW d,
         e.changed = f.changed, e.max = f.max,
         e.inactive = f.inactive, e.expires = f.expires
  PROVE  /\ Expired(e, d) = Expired(f, d) /\ Ages(e) = Ages(f)
         /\ Due(e) = Due(f) /\ GraceOver(e, d) = GraceOver(f, d)
         /\ Validity(e, d) = Validity(f, d)
BY DEF Expired, Ages, Due, GraceOver, Validity

\* On one line, later days are never better ones.
LEMMA LaterIsNoBetter ==
  ASSUME NEW e \in Entry, NEW d \in Days, NEW d2 \in Days, d <= d2
  PROVE  Distance[Validity(e, d2)] >= Distance[Validity(e, d)]
<1>1. d \in Int /\ d2 \in Int
  BY DayType
<1>2. Expired(e, d) => Expired(e, d2)
  <2>1. e.expires \in Fields
    BY DEF Entry
  <2> QED
    BY <1>1, <2>1, FieldType DEF Expired
<1>3. Ages(e) => Due(e) \in Int
  <2>1. e.changed \in Fields /\ e.max \in Fields
    BY DEF Entry
  <2>2. Ages(e) => e.changed \in Int /\ e.max \in Int
    BY <2>1, FieldType DEF Ages
  <2> QED
    BY <2>2, ShadowAssumption DEF Due, Add
<1>4. Ages(e) /\ d2 <= Due(e) => d <= Due(e)
  BY <1>1, <1>3
<1>5. Ages(e) /\ GraceOver(e, d) => GraceOver(e, d2)
  <2>1. e.inactive \in Fields
    BY DEF Entry
  <2> SUFFICES ASSUME Ages(e), GraceOver(e, d) PROVE GraceOver(e, d2)
    OBVIOUS
  <2>2. Add(Due(e), e.inactive) \in Int
    BY <2>1, <1>3, FieldType, ShadowAssumption DEF GraceOver, Add
  <2> QED
    BY <2>2, <1>1 DEF GraceOver
<1> QED
  BY <1>2, <1>4, <1>5 DEF Validity, Distance

\* A passphrase chosen today is good today, on any line that has not expired.
LEMMA ChangedTodayIsGood ==
  ASSUME NEW e \in Entry, NEW d \in Days, e.changed = d
  PROVE  Validity(e, d) = IF Expired(e, d) THEN "AccountExpired" ELSE "Ok"
<1>1. d \in Int /\ d # 0
  BY DayType
<1>2. Ages(e) => d <= Due(e)
  BY DueOfADay, DayType
<1> QED
  BY <1>1, <1>2 DEF Validity

-------------------------------------------------------------------------------
(* Types. *)

\* Every variable has its type, in the initial states and after every step.
LEMMA InitTypeOK == Init => TypeOK
<1> SUFFICES ASSUME Init PROVE TypeOK
  OBVIOUS
<1>1. FirstDay \in Days
  BY ShadowAssumption DEF Days
<1>2. FirstDay \in Fields /\ Unset \in Fields
  BY <1>1, ShadowAssumption DEF Fields
<1>3. entry \in Entry \cup {Absent}
  BY <1>2 DEF Init, Entry
<1> QED
  BY <1>1, <1>3 DEF Init, TypeOK

LEMMA NextTypeOK == TypeOK /\ [Next]_vars => TypeOK'
<1> SUFFICES ASSUME TypeOK, [Next]_vars PROVE TypeOK'
  OBVIOUS
<1> USE DEF TypeOK
<1>1. CASE NextDay
  <2>1. today' \in Days
    BY <1>1, ShadowAssumption DEF NextDay, Days
  <2>2. good' \in Nat /\ asked' \in Nat
    BY <1>1 DEF NextDay, Count
  <2> QED
    BY <1>1, <2>1, <2>2 DEF NextDay
<1>2. ASSUME NEW p \in Secrets, ChangePassword(p) PROVE TypeOK'
  <2>1. today \in Fields
    BY ShadowAssumption DEF Fields
  <2>2. entry' \in Entry
    BY <1>2, <2>1 DEF ChangePassword, Entry
  <2>3. good' \in Nat /\ asked' \in Nat
    BY <1>2 DEF ChangePassword
  <2> QED
    BY <1>2, <2>2, <2>3 DEF ChangePassword
<1>3. ASSUME NEW on \in BOOLEAN, Lock(on) PROVE TypeOK'
  <2>1. entry' \in Entry
    BY <1>3 DEF Lock, Entry
  <2> QED
    BY <1>3, <2>1 DEF Lock, termVars
<1>4. ASSUME NEW field \in {"changed", "max", "inactive", "expires"}, NEW x \in Fields,
             Chage(field, x)
      PROVE  TypeOK'
  <2>1. entry' \in Entry
    BY <1>4 DEF Chage, Entry
  <2> QED
    BY <1>4, <2>1 DEF Chage
<1>5. ASSUME NEW odd \in Oddities, SpoilHash(odd) PROVE TypeOK'
  <2>1. entry' \in Entry
    BY <1>5 DEF SpoilHash, Entry
  <2> QED
    BY <1>5, <2>1 DEF SpoilHash, termVars
<1>6. CASE Userdel
  BY <1>6 DEF Userdel
<1>7. CASE UNCHANGED vars
  BY <1>7 DEF vars, termVars
<1> QED
  BY <1>1, <1>2, <1>3, <1>4, <1>5, <1>6, <1>7 DEF Next

\* The types, for every value of the constants.
THEOREM TypeCorrect == Spec => []TypeOK
BY InitTypeOK, NextTypeOK, PTL DEF Spec

-------------------------------------------------------------------------------
(* The account from one day to the next. *)

\* Waiting never helps, whatever the fields of the line and however their sums
\* wrap (ShadowEntry::validity).
THEOREM NeverBetterByWaitingAlways == Spec => NeverBetterByWaiting
<1>1. TypeOK /\ TypeOK' /\ [Next]_vars =>
        [entry' = entry =>
           Distance[AccountValidity(entry', today')]
             >= Distance[AccountValidity(entry, today)]]_vars
  <2> SUFFICES ASSUME TypeOK, TypeOK', [Next]_vars, entry' = entry
               PROVE  Distance[AccountValidity(entry', today')]
                        >= Distance[AccountValidity(entry, today)]
    OBVIOUS
  <2>1. today' \in Days /\ today \in Days /\ today <= today'
    <3>1. today' = today \/ today' = today + 1
      BY DEF Next, vars, NextDay, ChangePassword, Lock, Chage, SpoilHash, Userdel
    <3> QED
      BY <3>1, DayType DEF TypeOK
  <2>2. CASE entry = Absent
    BY <2>2 DEF AccountValidity, Distance
  <2>3. CASE entry # Absent
    BY <2>1, <2>3, LaterIsNoBetter DEF AccountValidity, TypeOK
  <2> QED
    BY <2>2, <2>3
<1> QED
  BY <1>1, TypeCorrect, PTL DEF Spec, NeverBetterByWaiting

\* A password changed today opens every account that has not itself expired.
THEOREM ChangeRecoversAlways == Spec => ChangeRecovers
<1>1. TypeOK /\ TypeOK' /\ [Next]_vars =>
        [(\E p \in Secrets : ChangePassword(p)) =>
           Validity(entry', today') =
             IF Expired(entry, today) THEN "AccountExpired" ELSE "Ok"]_vars
  <2> SUFFICES ASSUME TypeOK, TypeOK', NEW p \in Secrets, ChangePassword(p)
               PROVE  Validity(entry', today') =
                        IF Expired(entry, today) THEN "AccountExpired" ELSE "Ok"
    OBVIOUS
  <2>1. entry \in Entry /\ entry' = [entry EXCEPT !.hash = p, !.lock = FALSE, !.changed = today]
    BY DEF ChangePassword, TypeOK
  <2>2. entry' \in Entry /\ entry'.changed = today /\ entry'.expires = entry.expires
    <3>1. today \in Fields
      BY ShadowAssumption DEF TypeOK, Fields
    <3> QED
      BY <2>1, <3>1 DEF Entry
  <2>3. today' = today /\ today \in Days
    BY DEF ChangePassword, TypeOK
  <2>4. Expired(entry', today) = Expired(entry, today)
    BY <2>2 DEF Expired
  <2> QED
    BY <2>2, <2>3, <2>4, ChangedTodayIsGood
<1> QED
  BY <1>1, TypeCorrect, PTL DEF Spec, ChangeRecovers

-------------------------------------------------------------------------------
(* The inductive invariant. *)

LEMMA InitIInv == Init => IInv
<1> SUFFICES ASSUME Init PROVE IInv
  OBVIOUS
<1>1. HashIsChosen
  <2>1. entry # Absent => entry.hash \in Oddities
    BY DEF Init
  <2> QED
    BY <2>1, ShadowAssumption DEF HashIsChosen
<1>2. TermSoFar
  BY DEF Init, TermSoFar
<1> QED
  BY <1>1, <1>2, InitTypeOK DEF IInv

\* The next day finds the term one day further.
LEMMA NextDayTerm == IInv /\ NextDay => TermSoFar'
<1> SUFFICES ASSUME IInv, NextDay, fresh PROVE TermSoFar'
  BY DEF NextDay, TermSoFar
<1>1. /\ entry' = entry /\ fresh' = fresh /\ today' = today + 1
      /\ today \in Days /\ today' \in Days
      /\ entry # Absent /\ entry \in Entry /\ entry.changed \in Days /\ entry.changed <= today
  BY ShadowAssumption DEF NextDay, IInv, TypeOK, TermSoFar, Days
<1>2. /\ today \in Int /\ today' \in Int /\ entry.changed \in Int
      /\ 0 < entry.changed /\ 0 < today
  BY <1>1, DayType
<1>3. SUFFICES ASSUME ~Expired(entry, today'), Ages(entry)
               PROVE  IF today' <= Due(entry)
                      THEN good' = today' - entry.changed + 1 /\ asked' = 0
                      ELSE /\ good' = entry.max + 1
                           /\ IF GraceOver(entry, today')
                              THEN Due(entry) + entry.inactive < Half => asked' = entry.inactive
                              ELSE asked' = today' - Due(entry)
  <2>1. entry.changed <= today'
    BY <1>1, <1>2
  <2>2. /\ Expired(entry, today)' = Expired(entry, today') /\ Ages(entry)' = Ages(entry)
        /\ GraceOver(entry, today)' = GraceOver(entry, today') /\ Due(entry)' = Due(entry)
    BY <1>1 DEF Expired, Ages, GraceOver, Due
  <2> QED
    BY <1>1, <2>1, <2>2 DEF TermSoFar
<1>4. ~Expired(entry, today)
  <2>1. entry.expires \in Fields
    BY <1>1 DEF Entry
  <2> QED
    BY <1>1, <1>2, <1>3, <2>1, FieldType DEF Expired
<1>5. /\ Due(entry) = entry.changed + entry.max
      /\ Due(entry) \in 1..(Half - 1) /\ Half \in Nat
  BY <1>1, <1>3, DueOfADay, ShadowAssumption
<1>6. /\ Due(entry) \in Int /\ entry.max \in Nat /\ good \in Nat /\ asked \in Nat
  BY <1>1, <1>3, <1>5, DueOfADay DEF IInv, TypeOK
<1>7. entry.changed # 0 /\ AccountValidity(entry', today') = Validity(entry, today')
  BY <1>1, <1>2 DEF AccountValidity, IInv, TermSoFar
<1>8. CASE today' <= Due(entry)
  <2>1. Validity(entry, today') = "Ok"
    BY <1>3, <1>7, <1>8 DEF Validity
  <2>2. good = today - entry.changed + 1 /\ asked = 0
    BY <1>1, <1>2, <1>3, <1>4, <1>6, <1>8 DEF IInv, TermSoFar
  <2> QED
    BY <1>1, <1>2, <1>6, <1>7, <1>8, <2>1, <2>2 DEF NextDay, Count
<1>9. CASE ~(today' <= Due(entry)) /\ ~GraceOver(entry, today')
  <2>1. Validity(entry, today') = "MustChangePassword"
    BY <1>3, <1>7, <1>9 DEF Validity
  <2>2. ~GraceOver(entry, today)
    <3>1. entry.inactive \in Fields
      BY <1>1 DEF Entry
    <3>2. entry.inactive # Unset /\ entry.inactive >= 0 => Add(Due(entry), entry.inactive) \in Int
      BY <3>1, <1>5, FieldType, ShadowAssumption DEF Add
    <3> QED
      BY <3>2, <1>1, <1>2, <1>9 DEF GraceOver
  <2>3. good = entry.max + 1 /\ asked = today - Due(entry)
    <3>1. CASE today <= Due(entry)
      BY <3>1, <1>1, <1>2, <1>3, <1>4, <1>5, <1>6, <1>9 DEF IInv, TermSoFar
    <3>2. CASE ~(today <= Due(entry))
      BY <3>2, <2>2, <1>3, <1>4 DEF IInv, TermSoFar
    <3> QED
      BY <3>1, <3>2
  <2>4. good' = good /\ asked' = asked + 1
    BY <1>6, <1>7, <2>1 DEF NextDay, Count
  <2> QED
    BY <1>1, <1>2, <1>6, <1>9, <2>3, <2>4
<1>10. CASE ~(today' <= Due(entry)) /\ GraceOver(entry, today')
  <2>1. Validity(entry, today') = "InactiveElapsed"
    BY <1>3, <1>7, <1>10 DEF Validity
  <2>2. good' = good /\ asked' = asked
    BY <1>6, <1>7, <2>1 DEF NextDay, Count
  <2>3. entry.inactive \in Int /\ 0 <= entry.inactive /\ entry.inactive < Half
    BY <1>1, <1>10, FieldType DEF GraceOver, Entry
  <2>4. Due(entry) + entry.inactive < Half =>
          Add(Due(entry), entry.inactive) = Due(entry) + entry.inactive
    BY <2>3, <1>5 DEF Add
  <2>5. CASE today <= Due(entry)
    <3>1. good = entry.max + 1 /\ asked = 0
      BY <2>5, <1>1, <1>2, <1>3, <1>4, <1>5, <1>6, <1>10 DEF IInv, TermSoFar
    <3>2. Due(entry) + entry.inactive < Half => entry.inactive = 0
      BY <2>3, <2>4, <2>5, <1>1, <1>2, <1>6, <1>10 DEF GraceOver
    <3> QED
      BY <2>2, <3>1, <3>2, <1>10
  <2>6. CASE ~(today <= Due(entry)) /\ GraceOver(entry, today)
    BY <2>2, <2>6, <1>3, <1>4, <1>10 DEF IInv, TermSoFar
  <2>7. CASE ~(today <= Due(entry)) /\ ~GraceOver(entry, today)
    <3>1. good = entry.max + 1 /\ asked = today - Due(entry)
      BY <2>7, <1>3, <1>4 DEF IInv, TermSoFar
    <3>2. Due(entry) + entry.inactive < Half => today = Due(entry) + entry.inactive
      BY <2>3, <2>4, <2>7, <1>1, <1>2, <1>6, <1>10 DEF GraceOver
    <3>3. Due(entry) + entry.inactive < Half => asked = entry.inactive
      BY <3>1, <3>2, <2>3, <1>6
    <3> QED
      BY <2>2, <3>1, <3>3, <1>10
  <2> QED
    BY <2>5, <2>6, <2>7
<1> QED
  BY <1>8, <1>9, <1>10

\* An edit of the lock or of the hash leaves the term as it was.
LEMMA SameTerm ==
  ASSUME TermSoFar, entry' # Absent,
         entry'.changed = entry.changed, entry'.max = entry.max,
         entry'.inactive = entry.inactive, entry'.expires = entry.expires,
         UNCHANGED <<today, fresh, good, asked>>
  PROVE  TermSoFar'
BY DEF TermSoFar, Expired, Ages, Due, GraceOver

LEMMA NextIInv == IInv /\ [Next]_vars => IInv'
<1> SUFFICES ASSUME IInv, [Next]_vars PROVE HashIsChosen' /\ TermSoFar'
  BY NextTypeOK DEF IInv
<1> USE DEF IInv
<1>1. CASE NextDay
  BY <1>1, NextDayTerm DEF NextDay, HashIsChosen
<1>2. ASSUME NEW p \in Secrets, ChangePassword(p) PROVE HashIsChosen' /\ TermSoFar'
  <2>1. entry \in Entry /\ entry' = [entry EXCEPT !.hash = p, !.lock = FALSE, !.changed = today]
    BY <1>2 DEF ChangePassword, TypeOK
  <2>2. /\ entry' \in Entry /\ entry'.changed = today /\ entry'.hash = p
        /\ entry' # Absent
    <3>1. today \in Fields
      BY ShadowAssumption DEF TypeOK, Fields
    <3> QED
      BY <2>1, <3>1, AbsentAssumption DEF Entry
  <2>3. today' = today /\ today \in Days /\ today \in Int /\ today # 0
    BY <1>2, DayType DEF ChangePassword, TypeOK
  <2>4. HashIsChosen'
    BY <1>2, <2>2 DEF ChangePassword, HashIsChosen
  <2>5. Ages(entry') => today <= Due(entry')
    BY <2>2, <2>3, DueOfADay
  <2>6. ~Expired(entry', today) /\ Ages(entry') => good' = 1 /\ asked' = 0
    BY <1>2, <2>2, <2>3, <2>5 DEF ChangePassword, AccountValidity, Validity
  <2>7. TermSoFar'
    BY <2>2, <2>3, <2>5, <2>6 DEF TermSoFar, Expired, Ages, Due
  <2> QED
    BY <2>4, <2>7
<1>3. ASSUME NEW on \in BOOLEAN, Lock(on) PROVE HashIsChosen' /\ TermSoFar'
  <2>1. entry \in Entry /\ entry' = [entry EXCEPT !.lock = on]
    BY <1>3 DEF Lock, TypeOK
  <2>2. /\ entry' \in Entry /\ entry'.hash = entry.hash
        /\ entry'.changed = entry.changed /\ entry'.max = entry.max
        /\ entry'.inactive = entry.inactive /\ entry'.expires = entry.expires
    BY <2>1 DEF Entry
  <2> QED
    BY <1>3, <2>2, SameTerm, AbsentAssumption DEF Lock, termVars, HashIsChosen
<1>4. ASSUME NEW field \in {"changed", "max", "inactive", "expires"}, NEW x \in Fields,
             Chage(field, x)
      PROVE  HashIsChosen' /\ TermSoFar'
  <2>1. entry \in Entry /\ entry # Absent /\ entry' = [entry EXCEPT ![field] = x]
    BY <1>4 DEF Chage, TypeOK
  <2>2. entry'.hash = entry.hash
    BY <2>1 DEF Entry
  <2> QED
    BY <1>4, <2>1, <2>2 DEF Chage, HashIsChosen, TermSoFar
<1>5. ASSUME NEW odd \in Oddities, SpoilHash(odd) PROVE HashIsChosen' /\ TermSoFar'
  <2>1. entry \in Entry /\ entry' = [entry EXCEPT !.hash = odd]
    BY <1>5 DEF SpoilHash, TypeOK
  <2>2. /\ entry' \in Entry /\ entry'.hash = odd
        /\ entry'.changed = entry.changed /\ entry'.max = entry.max
        /\ entry'.inactive = entry.inactive /\ entry'.expires = entry.expires
    BY <2>1 DEF Entry
  <2>3. odd \notin Secrets
    BY ShadowAssumption
  <2> QED
    BY <1>5, <2>2, <2>3, SameTerm, AbsentAssumption DEF SpoilHash, termVars, HashIsChosen
<1>6. CASE Userdel
  BY <1>6 DEF Userdel, HashIsChosen, TermSoFar
<1>7. CASE UNCHANGED vars
  <2>1. entry' = entry /\ chosen' = chosen /\ UNCHANGED <<today, fresh, good, asked>>
    BY <1>7 DEF vars, termVars
  <2> QED
    BY <2>1 DEF HashIsChosen, TermSoFar, Expired, Ages, Due, GraceOver
<1> QED
  BY <1>1, <1>2, <1>3, <1>4, <1>5, <1>6, <1>7 DEF Next

THEOREM Inductive == Spec => []IInv
BY InitIInv, NextIInv, PTL DEF Spec

-------------------------------------------------------------------------------
\* No passphrase but the one last chosen verifies, and none while the account
\* is locked (usable_hash and verify).
THEOREM OnlyTheChosenOpensAlways == Spec => []OnlyTheChosenOpens
<1>1. IInv => OnlyTheChosenOpens
  BY DEF IInv, HashIsChosen, OnlyTheChosenOpens, Verdict, Usable
<1> QED
  BY <1>1, Inductive, PTL

\* A new passphrase is good for its term to the day, and is asked to be
\* changed for its grace to the day (validity's two comparisons).
THEOREM TermsAreServedAlways == Spec => []TermsAreServed
<1>1. IInv => TermsAreServed
  <2> SUFFICES ASSUME IInv, fresh,
                      AccountValidity(entry, today) \in {"MustChangePassword", "InactiveElapsed"}
               PROVE  /\ good = entry.max + 1
                      /\ AccountValidity(entry, today) = "InactiveElapsed"
                           /\ entry.changed + entry.max + entry.inactive < Half
                         => asked = entry.inactive
    BY DEF TermsAreServed
  <2>1. entry # Absent /\ entry \in Entry /\ entry.changed \in Days /\ entry.changed # 0
    BY DayType DEF IInv, TypeOK, TermSoFar
  <2>2. AccountValidity(entry, today) = Validity(entry, today)
    BY <2>1 DEF AccountValidity
  <2>3. ~Expired(entry, today) /\ Ages(entry) /\ ~(today <= Due(entry))
    BY <2>1, <2>2 DEF Validity
  <2>4. Due(entry) = entry.changed + entry.max
    BY <2>1, <2>3, DueOfADay
  <2>5. Validity(entry, today) = "InactiveElapsed" => GraceOver(entry, today)
    BY <2>1, <2>3 DEF Validity
  <2> QED
    BY <2>2, <2>3, <2>4, <2>5 DEF IInv, TermSoFar
<1> QED
  BY <1>1, Inductive, PTL
===============================================================================
