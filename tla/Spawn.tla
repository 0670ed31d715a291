---------------------------------- MODULE Spawn ----------------------------------
(***************************************************************************)
(* spawn (mukae-seat/src/spawn.rs): the forked child that drops root,      *)
(* checks that it did, keeps the descriptors it was told to and execs, and *)
(* the parent that learns from a close-on-exec pipe how that went.         *)
(*                                                                         *)
(* The kernel's half is external: setuid may fail, and may report success  *)
(* having changed less than was asked; the child may be killed.            *)
(***************************************************************************)
EXTENDS Naturals, Sequences, FiniteSets

CONSTANTS Targets,   \* what prepare resolved: uid, gid and groups of a principal
          Layouts,   \* Prepared.inherit: sequences of <<descriptor, number>>
          Open0,     \* the daemon's descriptors at the fork, and what each is
          Wr         \* the number pipe2 gave the end the child reports on

RootUid == 0
Stdio == 0..2
Closed == "closed"
Status == "status pipe"

\* Any numbers, in any order: spawn does not look at what the caller lists.  The
\* pipe is made after the list, which names descriptors its caller has.
ASSUME SpawnAssumption ==
  /\ \A t \in Targets : t.uid \in Nat /\ t.gid \in Nat
  /\ Stdio \subseteq DOMAIN Open0 /\ Wr \in Nat \ DOMAIN Open0
  /\ \A n \in DOMAIN Open0 : Open0[n] \notin {Closed, Status}
  /\ \A l \in Layouts : l \in Seq((Nat \ {Wr}) \X Nat)

VARIABLES
  target, layout,                         \* Prepared
  pc, ids, gid, groups, fds, kept, next,  \* the child: where, who, its descriptors
  message,                                \* what was written on the pipe
  reading, parentEnd, answer              \* the parent: reading, its own end to write
                                          \* on, what spawn returns

prepared == <<target, layout>>
identity == <<ids, gid, groups>>
descriptors == <<fds, kept, next>>
parentVars == <<reading, parentEnd, answer>>
vars == <<prepared, pc, identity, descriptors, message, parentVars>>

Sources(l) == {l[i][1] : i \in DOMAIN l}
Mapped(l) == {l[i][2] : i \in DOMAIN l}
Numbers == DOMAIN Open0 \cup {Wr} \cup UNION {Sources(l) \cup Mapped(l) : l \in Layouts}
AtFork(n) == IF n \in DOMAIN Open0 THEN Open0[n] ELSE IF n = Wr THEN Status ELSE Closed

\* prepare and fork: the child starts as the daemon.  What it must not keep is
\* close-on-exec; the rest, its standard descriptors, is in kept.
Init ==
  /\ target \in Targets /\ layout \in Layouts
  /\ pc = "setsid"
  /\ ids = [real |-> RootUid, effective |-> RootUid, saved |-> RootUid]
  /\ gid = 0 /\ groups = {0}
  /\ fds = [n \in Numbers |-> AtFork(n)]
  /\ kept = Stdio /\ next = 1
  /\ message = "none" /\ parentEnd = TRUE /\ reading = FALSE /\ answer = "none"

-------------------------------------------------------------------------------
(* The child. *)

After == [setsid |-> "setgroups", setgroups |-> "setgid", setgid |-> "setuid",
          setuid |-> "verify", verify |-> "regain", regain |-> "dup2", dup2 |-> "exec"]

GoOn == pc' = After[pc] /\ UNCHANGED message

\* The child has the pipe until it is gone or execs, or a mapping takes its number.
CanReport == pc \notin {"program", "gone"} /\ fds[Wr] = Status

DieWithoutExit(why) ==
  /\ message' = why /\ pc' = IF pc \in DOMAIN After THEN After[pc] ELSE "gone"
  /\ UNCHANGED <<identity, descriptors>>

\* One write, to what is at that number, then _exit.
Die(why) ==
  /\ message' = IF CanReport THEN why ELSE message
  /\ pc' = "gone"
  /\ UNCHANGED <<identity, descriptors>>

Setsid ==
  /\ pc = "setsid"
  /\ \/ GoOn /\ UNCHANGED <<identity, descriptors>>
     \/ Die("Setsid")

SetGroups ==
  /\ pc = "setgroups"
  /\ \/ GoOn /\ groups' = target.groups /\ UNCHANGED <<ids, gid, descriptors>>
     \/ Die("InitGroups")

Setgid ==
  /\ pc = "setgid"
  /\ \/ GoOn /\ gid' = target.gid /\ UNCHANGED <<ids, groups, descriptors>>
     \/ Die("Setgid")

\* setuid, done wholly, in part, or not at all.
Setuid ==
  /\ pc = "setuid"
  /\ \/ /\ \E changed \in SUBSET {"real", "effective", "saved"} :
             ids' = [id \in DOMAIN ids |-> IF id \in changed THEN target.uid ELSE ids[id]]
        /\ GoOn /\ UNCHANGED <<gid, groups, descriptors>>
     \/ Die("Setuid")

Verify ==
  /\ pc = "verify"
  /\ IF ids.real # target.uid \/ ids.effective # target.uid
     THEN Die("NotDropped")
     ELSE GoOn /\ UNCHANGED <<identity, descriptors>>

RegainUnchecked ==
  pc = "regain" /\ GoOn /\ UNCHANGED <<identity, descriptors>>

\* setuid(0) succeeds for a process one of whose ids is still root's.
Regain ==
  /\ pc = "regain"
  /\ IF target.uid # RootUid /\ RootUid \in {ids[id] : id \in DOMAIN ids}
     THEN Die("RootRegainable")
     ELSE GoOn /\ UNCHANGED <<identity, descriptors>>

DupKeepingCloexec(from, to) ==
  /\ fds' = [fds EXCEPT ![to] = fds[from]]
  /\ UNCHANGED kept

\* dup2 clears close-on-exec on the number it fills; onto itself it does nothing.
Dup(from, to) ==
  /\ fds' = [fds EXCEPT ![to] = fds[from]]
  /\ kept' = IF from = to THEN kept ELSE kept \cup {to}

\* The layout's dup2 calls, one after another; of a closed descriptor it fails.
Dup2 ==
  /\ pc = "dup2" /\ next \in DOMAIN layout
  /\ \/ /\ fds[layout[next][1]] # Closed
        /\ Dup(layout[next][1], layout[next][2])
        /\ next' = next + 1
        /\ UNCHANGED <<pc, identity, message>>
     \/ Die("Exec")

Dup2Done ==
  pc = "dup2" /\ next \notin DOMAIN layout /\ GoOn /\ UNCHANGED <<identity, descriptors>>

\* execve closes what is close-on-exec, the pipe with it.
Exec ==
  /\ pc = "exec"
  /\ \/ /\ pc' = "program"
        /\ fds' = [n \in Numbers |-> IF n \in kept THEN fds[n] ELSE Closed]
        /\ UNCHANGED <<identity, kept, next, message>>
     \/ Die("Exec")

ChildStep ==
  /\ \/ Setsid \/ SetGroups \/ Setgid \/ Setuid \/ Verify \/ Regain
     \/ Dup2 \/ Dup2Done \/ Exec
  /\ UNCHANGED <<prepared, parentVars>>

\* SIGKILL, the OOM killer.
ChildKilled ==
  /\ pc \notin {"program", "gone"}
  /\ pc' = "gone"
  /\ UNCHANGED <<prepared, identity, descriptors, message, parentVars>>

-------------------------------------------------------------------------------
(* The parent. *)

ParentKeepsItsEnd ==
  /\ ~reading /\ reading' = TRUE
  /\ UNCHANGED <<prepared, pc, identity, descriptors, message, parentEnd, answer>>

ParentCloses ==
  /\ ~reading /\ reading' = TRUE /\ parentEnd' = FALSE
  /\ UNCHANGED <<prepared, pc, identity, descriptors, message, answer>>

\* One blocking read: a message, or end of file once nobody can write.
ParentReads ==
  /\ reading /\ answer = "none"
  /\ \/ message # "none" /\ answer' = message
     \/ message = "none" /\ ~parentEnd /\ ~CanReport /\ answer' = "Ok"
  /\ UNCHANGED <<prepared, pc, identity, descriptors, message, reading, parentEnd>>

Done == answer # "none" /\ pc \in {"program", "gone"} /\ UNCHANGED vars

Next == ChildStep \/ ChildKilled \/ ParentCloses \/ ParentReads \/ Done

Spec == Init /\ [][Next]_vars /\ WF_vars(ChildStep) /\ WF_vars(ParentCloses \/ ParentReads)

-------------------------------------------------------------------------------
(* Properties. *)

Failures == {"Setsid", "InitGroups", "Setgid", "Setuid", "NotDropped", "RootRegainable",
             "Exec"}

\* Every variable has its type.
TypeOK ==
  /\ target \in Targets /\ layout \in Layouts
  /\ pc \in DOMAIN After \cup {"exec", "program", "gone"}
  /\ ids \in [{"real", "effective", "saved"} -> {RootUid, target.uid}]
  /\ DOMAIN fds = Numbers /\ kept \subseteq Numbers /\ next \in 1..(Len(layout) + 1)
  /\ reading \in BOOLEAN /\ parentEnd \in BOOLEAN
  /\ message \in Failures \cup {"none"} /\ answer \in Failures \cup {"none", "Ok"}

\* A program never runs with more than its principal's rights: every uid is
\* the target's, the saved one included, and group and groups are its own.
ProgramIsDropped ==
  pc = "program" =>
    /\ \A id \in DOMAIN ids : ids[id] = target.uid
    /\ gid = target.gid /\ groups = target.groups

\* A spawn that returns an error left no program running.
ErrorMeansNoProgram == answer \in Failures => pc = "gone"

\* "dup2 onto a number that is still the source of a later mapping would clobber
\* it": what a caller's order has to avoid, a second mapping onto a number and one
\* of a descriptor onto itself, which keeps its close-on-exec flag, with it.
Orderly(l) ==
  \A i, j \in DOMAIN l :
    /\ l[i][1] # l[i][2]
    /\ i < j => l[i][2] \notin {l[j][1], l[j][2]}

\* Whatever the layout, a program holds nothing of the daemon's that was not
\* mapped: no number outside the layout and the standard ones, these as they were,
\* and at a mapped number only what the layout names.  Of an orderly layout it
\* holds every descriptor, each at its number.
ProgramHoldsItsOwn ==
  pc = "program" =>
    /\ \A n \in Numbers \ Mapped(layout) :
         fds[n] = IF n \in Stdio THEN Open0[n] ELSE Closed
    /\ \A n \in Mapped(layout) :
         fds[n] \in {Closed} \cup {AtFork(m) : m \in Sources(layout)}
    /\ Orderly(layout) =>
         \A i \in DOMAIN layout : fds[layout[i][2]] = AtFork(layout[i][1])

\* Whatever becomes of the child, spawn returns.
SpawnReturns == <>(answer # "none")

===============================================================================
