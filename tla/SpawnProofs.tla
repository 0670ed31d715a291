------------------------------ MODULE SpawnProofs ------------------------------
(***************************************************************************)
(* What the run of Spawn checks for two targets and nine layouts, proved   *)
(* for every target, every layout and every set of open descriptors.       *)
(***************************************************************************)
EXTENDS Spawn, TLAPS

\* What the child gave up by the step it has got to.  Only the ids need to be
\* looked at again: every other call did all it was asked or was the last one.
DropSoFar ==
  /\ pc \in {"setgid", "setuid", "verify", "regain", "dup2", "exec", "program"} =>
       groups = target.groups
  /\ pc \in {"setuid", "verify", "regain", "dup2", "exec", "program"} => gid = target.gid
  /\ pc \in {"regain", "dup2", "exec", "program"} =>
       ids.real = target.uid /\ ids.effective = target.uid
  /\ pc \in {"dup2", "exec", "program"} => ids.saved = target.uid

\* A child that wrote why it failed is gone, and is what an error reports.
LastWords ==
  /\ message # "none" => pc = "gone"
  /\ answer \in Failures => message = answer

\* Before the exec: a number no mapping has filled is as it was at the fork, one
\* that was filled has what some source was then, and the standard ones are kept.
Placed(n) == \E i \in DOMAIN layout : i < next /\ layout[i][2] = n

LaidOut ==
  /\ \A n \in Numbers :
       fds[n] \in IF Placed(n) THEN {AtFork(m) : m \in Sources(layout)} ELSE {AtFork(n)}
  /\ Stdio \subseteq kept /\ \A n \in kept : n \in Stdio \/ Placed(n)

\* Of an orderly layout the mappings done stay done, and their numbers are kept.
LaidOutInOrder ==
  Orderly(layout) =>
    \A i \in DOMAIN layout :
      i < next => fds[layout[i][2]] = AtFork(layout[i][1]) /\ layout[i][2] \in kept

DescriptorsSoFar ==
  /\ pc # "program" => LaidOut /\ LaidOutInOrder
  /\ pc \in {"exec", "program"} => next = Len(layout) + 1

IInv == TypeOK /\ DropSoFar /\ LastWords /\ DescriptorsSoFar /\ ProgramHoldsItsOwn

-------------------------------------------------------------------------------
\* A layout is a sequence of pairs of numbers the child's table has, neither the
\* source of a mapping the pipe.
LEMMA LayoutType ==
  ASSUME NEW l \in Layouts
  PROVE  /\ Len(l) \in Nat /\ DOMAIN l = 1..Len(l)
         /\ \A i \in DOMAIN l : /\ l[i][1] \in Numbers /\ l[i][1] \in Sources(l)
                                /\ l[i][2] \in Numbers /\ l[i][2] \in Mapped(l)
<1>1. l \in Seq((Nat \ {Wr}) \X Nat)
  BY SpawnAssumption
<1>2. Len(l) \in Nat /\ DOMAIN l = 1..Len(l)
  BY <1>1
<1>3. \A i \in DOMAIN l : l[i][1] \in Sources(l) /\ l[i][2] \in Mapped(l)
  BY DEF Sources, Mapped
<1> QED
  BY <1>2, <1>3 DEF Numbers

\* The child's descriptors at the fork satisfy the invariant.
LEMMA InitInv == Init => IInv
<1> SUFFICES ASSUME Init PROVE IInv
  OBVIOUS
<1>1. TypeOK
  <2>1. Stdio \subseteq Numbers
    BY SpawnAssumption DEF Numbers
  <2>2. Len(layout) \in Nat
    BY LayoutType DEF Init
  <2>3. next \in 1..(Len(layout) + 1)
    BY <2>2 DEF Init
  <2>4. ids \in [{"real", "effective", "saved"} -> {RootUid, target.uid}]
    BY DEF Init
  <2> QED
    BY <2>1, <2>3, <2>4 DEF Init, TypeOK, After
<1>2. DropSoFar /\ LastWords /\ ProgramHoldsItsOwn
  BY DEF Init, DropSoFar, LastWords, Failures, ProgramHoldsItsOwn
<1>3. ~\E i \in DOMAIN layout : i < next
  BY LayoutType DEF Init
<1>4. DescriptorsSoFar
  BY <1>3 DEF Init, DescriptorsSoFar, LaidOut, LaidOutInOrder, Placed
<1> QED
  BY <1>1, <1>2, <1>4 DEF IInv

-------------------------------------------------------------------------------
\* A child that dies, at whichever step, leaves the invariant true.
LEMMA DieInv ==
  ASSUME IInv, NEW why \in Failures, Die(why), UNCHANGED <<prepared, parentVars>>,
         pc \notin {"program", "gone"}
  PROVE  IInv'
<1> USE DEF prepared, parentVars, identity, descriptors
<1>1. message = "none" /\ answer \notin Failures
  BY DEF IInv, LastWords, Failures
<1>2. TypeOK'
  BY DEF IInv, TypeOK, Die
<1>3. DropSoFar' /\ LastWords' /\ ProgramHoldsItsOwn'
  BY <1>1 DEF DropSoFar, LastWords, ProgramHoldsItsOwn, Die
<1>4. DescriptorsSoFar'
  BY DEF IInv, DescriptorsSoFar, LaidOut, LaidOutInOrder, Placed, Die
<1> QED
  BY <1>2, <1>3, <1>4 DEF IInv

\* A step that succeeds and only changes who the child is leaves the
\* descriptors and the pipe as the invariant has them.
LEMMA GoOnInv ==
  ASSUME IInv, GoOn, UNCHANGED <<prepared, parentVars, descriptors>>,
         pc \in {"setsid", "setgroups", "setgid", "setuid", "verify", "regain"}
  PROVE  LastWords' /\ DescriptorsSoFar' /\ ProgramHoldsItsOwn'
<1> USE DEF prepared, parentVars, descriptors
<1>1. pc' \in {"setgroups", "setgid", "setuid", "verify", "regain", "dup2"}
  BY DEF GoOn, After
<1>2. LastWords'
  BY DEF IInv, LastWords, GoOn, Failures
<1>3. DescriptorsSoFar'
  BY <1>1 DEF IInv, DescriptorsSoFar, LaidOut, LaidOutInOrder, Placed
<1> QED
  BY <1>1, <1>2, <1>3 DEF ProgramHoldsItsOwn

\* dup2 number next puts at its target what is at its source, which is what some
\* source was at the fork, and disturbs nothing else.
LEMMA DupInv ==
  ASSUME IInv, pc = "dup2", next \in DOMAIN layout,
         Dup(layout[next][1], layout[next][2]), next' = next + 1, UNCHANGED layout
  PROVE  LaidOut' /\ DOMAIN fds' = Numbers /\ kept' \subseteq Numbers
         /\ next' \in 1..(Len(layout) + 1)
<1> DEFINE from == layout[next][1]
           to == layout[next][2]
<1>1. /\ layout \in Layouts /\ DOMAIN fds = Numbers /\ next \in Nat
      /\ kept \subseteq Numbers /\ next \in 1..(Len(layout) + 1)
  BY LayoutType DEF IInv, TypeOK
<1>2. /\ DOMAIN layout = 1..Len(layout) /\ Len(layout) \in Nat
      /\ from \in Numbers /\ from \in Sources(layout) /\ to \in Numbers
  BY <1>1, LayoutType
<1>3. LaidOut
  BY DEF IInv, DescriptorsSoFar
<1>4. fds[from] \in {AtFork(m) : m \in Sources(layout)}
  BY <1>2, <1>3 DEF LaidOut
<1>5. /\ fds' = [fds EXCEPT ![to] = fds[from]] /\ kept' \in {kept, kept \cup {to}}
  BY DEF Dup
<1>6. \A n \in Numbers : Placed(n)' <=> Placed(n) \/ n = to
  BY <1>1, <1>2 DEF Placed
<1>7. ASSUME NEW n \in Numbers
      PROVE  fds'[n] \in IF Placed(n)' THEN {AtFork(m) : m \in Sources(layout)}
                                       ELSE {AtFork(n)}
  BY <1>1, <1>2, <1>3, <1>4, <1>5, <1>6 DEF LaidOut
<1>8. Stdio \subseteq kept' /\ \A n \in kept' : n \in Stdio \/ Placed(n)'
  BY <1>1, <1>2, <1>3, <1>5, <1>6 DEF LaidOut
<1>9. next' \in 1..(Len(layout) + 1)
  BY <1>1, <1>2
<1>10. LaidOut'
  BY <1>7, <1>8 DEF LaidOut
<1> HIDE DEF from, to
<1> QED
  BY <1>1, <1>2, <1>5, <1>9, <1>10

\* And in an orderly layout the source is still what it was, and no earlier mapping
\* is undone.
LEMMA DupInOrder ==
  ASSUME IInv, pc = "dup2", next \in DOMAIN layout,
         Dup(layout[next][1], layout[next][2]), next' = next + 1, UNCHANGED layout
  PROVE  LaidOutInOrder'
<1> DEFINE from == layout[next][1]
           to == layout[next][2]
<1> SUFFICES ASSUME Orderly(layout), NEW i \in DOMAIN layout, i < next'
             PROVE  fds'[layout[i][2]] = AtFork(layout[i][1]) /\ layout[i][2] \in kept'
  BY DEF LaidOutInOrder
<1>1. /\ layout \in Layouts /\ DOMAIN fds = Numbers /\ next \in Nat /\ i \in Nat
      /\ LaidOut /\ LaidOutInOrder
  BY LayoutType DEF IInv, TypeOK, DescriptorsSoFar
<1>2. /\ from \in Numbers /\ to \in Numbers /\ layout[i][2] \in Numbers
      /\ layout[i][1] \in Numbers
  BY <1>1, LayoutType
<1>3. from # to /\ \A j \in DOMAIN layout : j < next => layout[j][2] \notin {from, to}
  BY DEF Orderly
<1>4. fds' = [fds EXCEPT ![to] = fds[from]] /\ kept' = kept \cup {to}
  BY <1>3 DEF Dup
<1>5. CASE i = next
  <2>1. fds[from] = AtFork(from)
    BY <1>1, <1>2, <1>3 DEF LaidOut, Placed
  <2> QED
    BY <1>1, <1>2, <1>4, <1>5, <2>1
<1>6. CASE i # next
  <2>1. i < next
    BY <1>1, <1>6
  <2>2. fds[layout[i][2]] = AtFork(layout[i][1]) /\ layout[i][2] \in kept
    BY <1>1, <2>1 DEF LaidOutInOrder
  <2> QED
    BY <1>1, <1>2, <1>3, <1>4, <2>1, <2>2
<1> QED
  BY <1>5, <1>6

\* What is left of a laid out table by execve is what ProgramHoldsItsOwn says.
LEMMA ExecLeaves ==
  ASSUME IInv, pc = "exec", UNCHANGED layout,
         fds' = [n \in Numbers |-> IF n \in kept THEN fds[n] ELSE Closed]
  PROVE  ProgramHoldsItsOwn'
<1>1. LaidOut /\ LaidOutInOrder /\ next = Len(layout) + 1 /\ layout \in Layouts
  BY DEF IInv, DescriptorsSoFar, TypeOK
<1>2. \A i \in DOMAIN layout : i < next
  BY <1>1, LayoutType
<1>3. \A n \in Numbers : Placed(n) <=> n \in Mapped(layout)
  BY <1>2 DEF Placed, Mapped
<1>4. \A n \in Numbers \ Mapped(layout) :
         fds'[n] = IF n \in Stdio THEN Open0[n] ELSE Closed
  <2> SUFFICES ASSUME NEW n \in Numbers, n \notin Mapped(layout)
               PROVE  fds'[n] = IF n \in Stdio THEN Open0[n] ELSE Closed
    OBVIOUS
  <2>1. n \in kept <=> n \in Stdio
    BY <1>1, <1>3 DEF LaidOut
  <2>2. n \in Stdio => fds[n] = Open0[n]
    BY <1>1, <1>3, SpawnAssumption DEF LaidOut, AtFork
  <2> QED
    BY <2>1, <2>2
<1>5. ASSUME NEW n \in Mapped(layout)
      PROVE  fds'[n] \in {Closed} \cup {AtFork(m) : m \in Sources(layout)}
  <2>1. n \in Numbers
    BY <1>1 DEF Numbers
  <2>2. fds[n] \in {AtFork(m) : m \in Sources(layout)}
    BY <1>1, <1>3, <2>1 DEF LaidOut
  <2> QED
    BY <2>1, <2>2
<1>6. ASSUME Orderly(layout), NEW i \in DOMAIN layout
      PROVE  fds'[layout[i][2]] = AtFork(layout[i][1])
  <2>1. layout[i][2] \in Numbers
    BY <1>1, LayoutType
  <2> QED
    BY <1>1, <1>2, <1>6, <2>1 DEF LaidOutInOrder
<1> QED
  BY <1>4, <1>5, <1>6 DEF ProgramHoldsItsOwn

-------------------------------------------------------------------------------
\* Every step of the child and of its parent keeps the invariant.
LEMMA NextInv == IInv /\ [Next]_vars => IInv'
<1> USE DEF prepared, parentVars, identity, descriptors
<1> SUFFICES ASSUME IInv, [Next]_vars PROVE IInv'
  OBVIOUS
<1>0. /\ target \in Targets /\ layout \in Layouts
      /\ ids \in [{"real", "effective", "saved"} -> {RootUid, target.uid}]
  BY DEF IInv, TypeOK
<1>1. CASE Setsid /\ UNCHANGED <<prepared, parentVars>>
  <2>1. CASE Die("Setsid")
    BY <1>1, <2>1, DieInv DEF Setsid, Failures
  <2>2. CASE GoOn /\ UNCHANGED <<identity, descriptors>>
    <3>1. LastWords' /\ DescriptorsSoFar' /\ ProgramHoldsItsOwn'
      BY <1>1, <2>2, GoOnInv DEF Setsid
    <3>2. TypeOK' /\ DropSoFar'
      BY <1>1, <2>2 DEF IInv, TypeOK, DropSoFar, Setsid, GoOn, After
    <3> QED
      BY <3>1, <3>2 DEF IInv
  <2> QED
    BY <1>1, <2>1, <2>2 DEF Setsid
<1>2. CASE SetGroups /\ UNCHANGED <<prepared, parentVars>>
  <2>1. CASE Die("InitGroups")
    BY <1>2, <2>1, DieInv DEF SetGroups, Failures
  <2>2. CASE GoOn /\ groups' = target.groups /\ UNCHANGED <<ids, gid, descriptors>>
    <3>1. LastWords' /\ DescriptorsSoFar' /\ ProgramHoldsItsOwn'
      BY <1>2, <2>2, GoOnInv DEF SetGroups
    <3>2. TypeOK' /\ DropSoFar'
      BY <1>2, <2>2 DEF IInv, TypeOK, DropSoFar, SetGroups, GoOn, After
    <3> QED
      BY <3>1, <3>2 DEF IInv
  <2> QED
    BY <1>2, <2>1, <2>2 DEF SetGroups
<1>3. CASE Setgid /\ UNCHANGED <<prepared, parentVars>>
  <2>1. CASE Die("Setgid")
    BY <1>3, <2>1, DieInv DEF Setgid, Failures
  <2>2. CASE GoOn /\ gid' = target.gid /\ UNCHANGED <<ids, groups, descriptors>>
    <3>1. LastWords' /\ DescriptorsSoFar' /\ ProgramHoldsItsOwn'
      BY <1>3, <2>2, GoOnInv DEF Setgid
    <3>2. TypeOK' /\ DropSoFar'
      BY <1>3, <2>2 DEF IInv, TypeOK, DropSoFar, Setgid, GoOn, After
    <3> QED
      BY <3>1, <3>2 DEF IInv
  <2> QED
    BY <1>3, <2>1, <2>2 DEF Setgid
<1>4. CASE Setuid /\ UNCHANGED <<prepared, parentVars>>
  <2>1. CASE Die("Setuid")
    BY <1>4, <2>1, DieInv DEF Setuid, Failures
  <2>2. CASE ~Die("Setuid")
    <3>1. PICK changed \in SUBSET {"real", "effective", "saved"} :
            ids' = [id \in DOMAIN ids |-> IF id \in changed THEN target.uid ELSE ids[id]]
      BY <1>4, <2>2 DEF Setuid
    <3>2. GoOn /\ UNCHANGED <<gid, groups, descriptors>>
      BY <1>4, <2>2 DEF Setuid
    <3>3. ids' \in [{"real", "effective", "saved"} -> {RootUid, target.uid}]
      BY <1>0, <3>1
    <3>4. LastWords' /\ DescriptorsSoFar' /\ ProgramHoldsItsOwn'
      BY <1>4, <3>2, GoOnInv DEF Setuid
    <3>5. TypeOK'
      BY <1>4, <3>2, <3>3 DEF IInv, TypeOK, Setuid, GoOn, After
    <3>6. DropSoFar'
      BY <1>4, <3>2 DEF IInv, DropSoFar, Setuid, GoOn, After
    <3> QED
      BY <3>4, <3>5, <3>6 DEF IInv
  <2> QED
    BY <2>1, <2>2
<1>5. CASE Verify /\ UNCHANGED <<prepared, parentVars>>
  <2>1. CASE ids.real # target.uid \/ ids.effective # target.uid
    BY <1>5, <2>1, DieInv DEF Verify, Failures
  <2>2. CASE ids.real = target.uid /\ ids.effective = target.uid
    <3>1. GoOn /\ UNCHANGED <<identity, descriptors>>
      BY <1>5, <2>2 DEF Verify
    <3>2. LastWords' /\ DescriptorsSoFar' /\ ProgramHoldsItsOwn'
      BY <1>5, <3>1, GoOnInv DEF Verify
    <3>3. TypeOK' /\ DropSoFar'
      BY <1>5, <2>2, <3>1 DEF IInv, TypeOK, DropSoFar, Verify, GoOn, After
    <3> QED
      BY <3>2, <3>3 DEF IInv
  <2> QED
    BY <2>1, <2>2
<1>6. CASE Regain /\ UNCHANGED <<prepared, parentVars>>
  <2>1. CASE target.uid # RootUid /\ RootUid \in {ids[id] : id \in DOMAIN ids}
    BY <1>6, <2>1, DieInv DEF Regain, Failures
  <2>2. CASE target.uid = RootUid \/ RootUid \notin {ids[id] : id \in DOMAIN ids}
    <3>1. GoOn /\ UNCHANGED <<identity, descriptors>>
      BY <1>6, <2>2 DEF Regain
    <3>2. ids.saved = target.uid
      BY <1>0, <2>2
    <3>3. LastWords' /\ DescriptorsSoFar' /\ ProgramHoldsItsOwn'
      BY <1>6, <3>1, GoOnInv DEF Regain
    <3>4. TypeOK' /\ DropSoFar'
      BY <1>6, <3>1, <3>2 DEF IInv, TypeOK, DropSoFar, Regain, GoOn, After
    <3> QED
      BY <3>3, <3>4 DEF IInv
  <2> QED
    BY <2>1, <2>2
<1>7. CASE Dup2 /\ UNCHANGED <<prepared, parentVars>>
  <2>1. CASE Die("Exec")
    BY <1>7, <2>1, DieInv DEF Dup2, Failures
  <2>2. CASE ~Die("Exec")
    <3>1. /\ pc = "dup2" /\ next \in DOMAIN layout /\ next' = next + 1
          /\ Dup(layout[next][1], layout[next][2])
          /\ UNCHANGED <<pc, identity, message>>
      BY <1>7, <2>2 DEF Dup2
    <3>2. /\ LaidOut' /\ DOMAIN fds' = Numbers /\ kept' \subseteq Numbers
          /\ next' \in 1..(Len(layout) + 1)
      BY <1>7, <3>1, DupInv
    <3>5. LaidOutInOrder'
      BY <1>7, <3>1, DupInOrder
    <3>3. TypeOK'
      BY <1>7, <3>1, <3>2 DEF IInv, TypeOK
    <3>4. DropSoFar' /\ LastWords'
      BY <1>7, <3>1 DEF IInv, DropSoFar, LastWords
    <3> QED
      BY <3>1, <3>2, <3>3, <3>4, <3>5 DEF IInv, DescriptorsSoFar, ProgramHoldsItsOwn
  <2> QED
    BY <2>1, <2>2
<1>8. CASE Dup2Done /\ UNCHANGED <<prepared, parentVars>>
  <2>1. pc = "dup2" /\ pc' = "exec" /\ next = Len(layout) + 1
    BY <1>0, <1>8, LayoutType DEF IInv, TypeOK, Dup2Done, GoOn, After
  <2>2. TypeOK' /\ DropSoFar' /\ LastWords'
    BY <1>8, <2>1 DEF IInv, TypeOK, DropSoFar, LastWords, Dup2Done, GoOn, After, Failures
  <2>3. DescriptorsSoFar' /\ ProgramHoldsItsOwn'
    BY <1>8, <2>1 DEF IInv, DescriptorsSoFar, LaidOut, LaidOutInOrder, Placed, ProgramHoldsItsOwn,
                      Dup2Done
  <2> QED
    BY <2>2, <2>3 DEF IInv
<1>9. CASE Exec /\ UNCHANGED <<prepared, parentVars>>
  <2>1. CASE Die("Exec")
    BY <1>9, <2>1, DieInv DEF Exec, Failures
  <2>2. CASE ~Die("Exec")
    <3>1. /\ pc = "exec" /\ pc' = "program"
          /\ fds' = [n \in Numbers |-> IF n \in kept THEN fds[n] ELSE Closed]
          /\ UNCHANGED <<identity, kept, next, message>>
      BY <1>9, <2>2 DEF Exec
    <3>2. ProgramHoldsItsOwn'
      BY <1>9, <3>1, ExecLeaves
    <3>3. TypeOK'
      BY <1>9, <3>1 DEF IInv, TypeOK
    <3>4. DropSoFar' /\ LastWords' /\ DescriptorsSoFar'
      BY <1>9, <3>1 DEF IInv, DropSoFar, LastWords, DescriptorsSoFar, Failures
    <3> QED
      BY <3>2, <3>3, <3>4 DEF IInv
  <2> QED
    BY <2>1, <2>2
<1>10. CASE ChildKilled
  <2>1. TypeOK' /\ DropSoFar' /\ LastWords' /\ ProgramHoldsItsOwn'
    BY <1>10 DEF IInv, TypeOK, DropSoFar, LastWords, ProgramHoldsItsOwn, ChildKilled
  <2>2. DescriptorsSoFar'
    BY <1>10 DEF IInv, DescriptorsSoFar, LaidOut, LaidOutInOrder, Placed, ChildKilled
  <2> QED
    BY <2>1, <2>2 DEF IInv
<1>11. CASE ParentCloses
  <2>1. TypeOK' /\ DropSoFar' /\ LastWords' /\ ProgramHoldsItsOwn'
    BY <1>11 DEF IInv, TypeOK, DropSoFar, LastWords, ProgramHoldsItsOwn, ParentCloses
  <2>2. DescriptorsSoFar'
    BY <1>11 DEF IInv, DescriptorsSoFar, LaidOut, LaidOutInOrder, Placed, ParentCloses
  <2> QED
    BY <2>1, <2>2 DEF IInv
<1>12. CASE ParentReads
  <2>1. TypeOK' /\ DropSoFar' /\ LastWords' /\ ProgramHoldsItsOwn'
    BY <1>12 DEF IInv, TypeOK, DropSoFar, LastWords, ProgramHoldsItsOwn, ParentReads,
                 Failures
  <2>2. DescriptorsSoFar'
    BY <1>12 DEF IInv, DescriptorsSoFar, LaidOut, LaidOutInOrder, Placed, ParentReads
  <2> QED
    BY <2>1, <2>2 DEF IInv
<1>13. CASE UNCHANGED vars
  <2>1. TypeOK' /\ DropSoFar' /\ LastWords' /\ ProgramHoldsItsOwn'
    BY <1>13 DEF IInv, TypeOK, DropSoFar, LastWords, ProgramHoldsItsOwn, vars
  <2>2. DescriptorsSoFar'
    BY <1>13 DEF IInv, DescriptorsSoFar, LaidOut, LaidOutInOrder, Placed, vars
  <2> QED
    BY <2>1, <2>2 DEF IInv
<1> QED
  BY <1>1, <1>2, <1>3, <1>4, <1>5, <1>6, <1>7, <1>8, <1>9, <1>10, <1>11, <1>12, <1>13
     DEF Next, ChildStep, Done

\* Every reachable state of a spawn satisfies the inductive invariant.
THEOREM Inductive == Spec => []IInv
<1>1. Init => IInv
  BY InitInv
<1>2. IInv /\ [Next]_vars => IInv'
  BY NextInv
<1> QED
  BY <1>1, <1>2, PTL DEF Spec

-------------------------------------------------------------------------------
\* Every variable of a spawn keeps its type.
THEOREM TypeCorrect == Spec => []TypeOK
<1>1. IInv => TypeOK
  BY DEF IInv
<1> QED
  BY <1>1, Inductive, PTL

\* Whatever setuid pretends to have done, a program only ever runs with all
\* three uids, the gid and the groups of its principal.
THEOREM ProgramIsDroppedAlways == Spec => []ProgramIsDropped
<1>1. IInv => ProgramIsDropped
  <2> SUFFICES ASSUME IInv, pc = "program"
               PROVE  /\ \A id \in DOMAIN ids : ids[id] = target.uid
                      /\ gid = target.gid /\ groups = target.groups
    BY DEF ProgramIsDropped
  <2>1. DOMAIN ids = {"real", "effective", "saved"}
    BY DEF IInv, TypeOK
  <2> QED
    BY <2>1 DEF IInv, DropSoFar
<1> QED
  BY <1>1, Inductive, PTL

\* When spawn reports a failure no program was started.
THEOREM ErrorMeansNoProgramAlways == Spec => []ErrorMeansNoProgram
<1>1. IInv => ErrorMeansNoProgram
  BY DEF IInv, LastWords, ErrorMeansNoProgram, Failures
<1> QED
  BY <1>1, Inductive, PTL

\* Whatever its caller listed, a program holds its standard descriptors and at the
\* numbers of the list nothing but what was listed; and all of it, each at its
\* number, if no mapping took what a later one needed.
THEOREM ProgramHoldsItsOwnAlways == Spec => []ProgramHoldsItsOwn
<1>1. IInv => ProgramHoldsItsOwn
  BY DEF IInv
<1> QED
  BY <1>1, Inductive, PTL
===============================================================================
