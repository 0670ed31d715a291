---------------------------- MODULE SessionEnvProofs ----------------------------
(***************************************************************************)
(* Proofs that the four invariants of SessionEnv hold for all config files *)
(* within SessionEnvAssumption, all accounts, consoles and edits.          *)
(***************************************************************************)
EXTENDS SessionEnv, FiniteSetTheorems, TLAPS

\* The config in force is one the loader let through, the prescribed one if not.
Sound(c) ==
  /\ c.facts \subseteq TypedVars
  /\ \A k \in c.session_env : Parses(k)
  /\ \A i \in DOMAIN c.session_data_dirs :
        c.session_data_dirs[i].of \subseteq Placeholders

ConfigIsSound == Sound(cfg)

\* Who may write a variable.
WriterOf(v) ==
  IF v \in {"PATH", "XDG_DATA_DIRS", "XDG_SESSION_CLASS"} THEN "mukaed"
  ELSE IF v \in TypedVars THEN "typed"
  ELSE IF v \in LogindVars THEN "logind"
  ELSE IF v \in IdentityVars THEN "passwd"
  ELSE "session_env"

WritersKeepToTheirOwn ==
  /\ env = [v \in Vars |-> env[v]]
  /\ \A v \in Vars : env[v] \subseteq {WriterOf(v)}

Before == {"load", "args", "claim", "begin", "conversation", "contribute"}

\* Nothing is in the environment, and no data dirs published, before the login.
NothingYet == pc \in Before => env = Unset /\ facts.dirs = {}

FactsAreFour ==
  facts = [path |-> facts.path, source |-> facts.source, vt |-> facts.vt,
           dirs |-> facts.dirs]

\* What is known of the console as run goes on.
ConsoleSoFar ==
  /\ pc \notin {"load", "args", "ended"} => vt # 0
  /\ pc \notin {"load", "args", "claim", "ended"} => facts.vt = {vt}
  /\ pc \in {"conversation", "contribute", "open", "fork", "running"} =>
       attach = ConsoleFor(vt)
  /\ pc \in {"fork", "running"} => reply = attach

IdentitySet == pc = "running" => \A v \in IdentityVars : env[v] = {"passwd"}

DirsArePublished ==
  HasPaths /\ UsesGreeter =>
    facts.dirs = IF IsSet(env, "XDG_DATA_DIRS") THEN {dirs} ELSE {}

IInv ==
  /\ passwd \in Records
  /\ ConfigIsSound /\ WritersKeepToTheirOwn /\ NothingYet /\ FactsAreFour
  /\ ConsoleSoFar /\ IdentitySet /\ DirsArePublished /\ SearchPathsNameOneAccount

-------------------------------------------------------------------------------
(* The operators. *)

\* A file that is accepted makes a sound config.
LEMMA LoadedIsSound ==
  ASSUME NEW f \in Files, Accepted(f)
  PROVE  Sound(Loaded(f))
<1> DEFINE c == Loaded(f)
<1>1. \A k \in Fields : c[k] = IF k \in DOMAIN f THEN f[k] ELSE Prescribed[k]
  BY DEF Loaded
<1>2. {"facts", "session_env", "session_data_dirs"} \subseteq Fields
  BY DEF Fields, Prescribed
<1>3. c.facts \subseteq TypedVars
  BY <1>1, <1>2, SessionEnvAssumption DEF Prescribed
<1>4. \A k \in c.session_env : Parses(k)
  BY DEF Accepted
<1>5. \A i \in DOMAIN Prescribed.session_data_dirs :
        Prescribed.session_data_dirs[i].of \subseteq Placeholders
  BY DEF Prescribed, Entry, Placeholders
<1> HIDE DEF c
<1>6. \A i \in DOMAIN c.session_data_dirs :
        c.session_data_dirs[i].of \subseteq Placeholders
  BY <1>1, <1>2, <1>5, SessionEnvAssumption
<1> QED
  BY <1>3, <1>4, <1>6 DEF Sound, c

\* The prescribed config is sound.
LEMMA PrescribedIsSound == Sound(Prescribed)
<1>1. \A i \in DOMAIN Prescribed.session_data_dirs :
        Prescribed.session_data_dirs[i].of \subseteq Placeholders
  BY DEF Prescribed, Entry, Placeholders
<1> QED
  BY <1>1 DEF Sound, Prescribed

\* Insert adds one writer to the variables it is given, and to no other.
LEMMA InsertKeeps ==
  ASSUME NEW e, NEW vs, NEW w,
         \A v \in Vars : e[v] \subseteq {WriterOf(v)},
         \A v \in Vars \cap vs : w = WriterOf(v)
  PROVE  /\ Insert(e, vs, w) = [v \in Vars |-> Insert(e, vs, w)[v]]
         /\ \A v \in Vars : Insert(e, vs, w)[v] \subseteq {WriterOf(v)}
         /\ \A v \in Vars \cap vs : Insert(e, vs, w)[v] = {w}
         /\ \A v \in Vars \ vs : Insert(e, vs, w)[v] = e[v]
BY DEF Insert

\* What the two search paths hold of an account.
LEMMA PathsNameTheAccount ==
  ASSUME NEW who, NEW c,
         \A i \in DOMAIN c.session_data_dirs :
            c.session_data_dirs[i].of \subseteq Placeholders
  PROVE  LET p == SessionPathFor(c, who.name)
             d == SessionDataDirsFor(c, who.name, who.home)
         IN  /\ \A i \in DOMAIN p : /\ p[i].user \in {None, who.name}
                                    /\ p[i].home \in {None, who.home}
                                    /\ "user" \notin p[i].left
             /\ \A i \in DOMAIN d : /\ d[i].user \in {None, who.name}
                                    /\ d[i].home \in {None, who.home}
                                    /\ d[i].left = {}
<1> DEFINE p == SessionPathFor(c, who.name)
           d == SessionDataDirsFor(c, who.name, who.home)
<1>1. ASSUME NEW i \in DOMAIN p
      PROVE  /\ p[i].user \in {None, who.name} /\ p[i].home \in {None, who.home}
             /\ "user" \notin p[i].left
  <2>1. /\ i \in DOMAIN c.session_path
        /\ "user" \in c.session_path[i].of => who.name # None
        /\ p[i] = Rendered(c.session_path[i], who.name, None)
    BY <1>1 DEF SessionPathFor
  <2> QED
    BY <2>1 DEF Rendered
<1>2. ASSUME NEW i \in DOMAIN d
      PROVE  /\ d[i].user \in {None, who.name} /\ d[i].home \in {None, who.home}
             /\ d[i].left = {}
  <2>1. /\ i \in Kept(c, who.name, who.home)
        /\ d[i] = Rendered(c.session_data_dirs[i], who.name, who.home)
    BY <1>2 DEF SessionDataDirsFor
  <2>2. /\ i \in DOMAIN c.session_data_dirs
        /\ "user" \in c.session_data_dirs[i].of => who.name # None
        /\ "home" \in c.session_data_dirs[i].of => who.home # None
    BY <2>1 DEF Kept
  <2>3. c.session_data_dirs[i].of \subseteq {"user", "home"}
    BY <2>2 DEF Placeholders
  <2> QED
    BY <2>1, <2>2, <2>3 DEF Rendered
<1> QED
  BY <1>1, <1>2

-------------------------------------------------------------------------------
(* IInv is inductive. *)

\* What is proved of a step that leaves the config, the environment and its
\* values, the facts and the console alone.
LEMMA SessionStays ==
  ASSUME IInv, UNCHANGED <<cfg, flags, session, facts>>,
         pc' \in Before => pc \in Before,
         HasPaths' => HasPaths, pc' # "running" \/ pc = "running",
         passwd' \in Records
  PROVE  /\ passwd' \in Records
         /\ ConfigIsSound' /\ WritersKeepToTheirOwn' /\ NothingYet' /\ FactsAreFour'
         /\ IdentitySet' /\ DirsArePublished' /\ SearchPathsNameOneAccount'
<1> USE DEF session
<1>1. ConfigIsSound'
  BY DEF IInv, ConfigIsSound
<1>2. WritersKeepToTheirOwn'
  BY DEF IInv, WritersKeepToTheirOwn
<1>3. NothingYet' /\ FactsAreFour'
  BY DEF IInv, NothingYet, FactsAreFour
<1>4. IdentitySet'
  BY DEF IInv, IdentitySet
<1>5. DirsArePublished'
  BY DEF IInv, DirsArePublished, UsesGreeter, IsSet
<1>6. SearchPathsNameOneAccount'
  BY DEF IInv, SearchPathsNameOneAccount
<1> QED
  BY <1>1, <1>2, <1>3, <1>4, <1>5, <1>6

LEMMA InitIInv == Init => IInv
<1> SUFFICES ASSUME Init PROVE IInv
  OBVIOUS
<1>1. ConfigIsSound
  BY PrescribedIsSound DEF Init, ConfigIsSound
<1>2. WritersKeepToTheirOwn
  BY DEF Init, WritersKeepToTheirOwn, Unset
<1>3. NothingYet /\ FactsAreFour
  BY DEF Init, NothingYet, FactsAreFour
<1>4. ConsoleSoFar /\ IdentitySet /\ DirsArePublished /\ SearchPathsNameOneAccount
  BY DEF Init, ConsoleSoFar, IdentitySet, DirsArePublished, SearchPathsNameOneAccount,
     HasPaths
<1> QED
  BY <1>1, <1>2, <1>3, <1>4 DEF Init, IInv, Records

\* load_with_source and the flags.
LEMMA SettingsIInv ==
  ASSUME IInv, file \in Files \cup {NoFile}, Load \/ ParseArgs
  PROVE  IInv'
<1>1. CASE Load
  <2>1. \/ cfg' = Prescribed
        \/ file \in Files /\ Accepted(file) /\ cfg' = Loaded(file)
    BY <1>1 DEF Load
  <2>2. ConfigIsSound'
    BY <2>1, LoadedIsSound, PrescribedIsSound DEF ConfigIsSound
  <2> QED
    BY <1>1, <2>2 DEF Load, Goto, IInv, inputs, nss, session, WritersKeepToTheirOwn,
       NothingYet, FactsAreFour, ConsoleSoFar, IdentitySet, DirsArePublished,
       SearchPathsNameOneAccount, HasPaths, Before
<1>2. CASE ParseArgs
  <2>1. pc = "args" /\ pc' \in {"claim", "ended"} /\ (pc' = "claim" => vt' # 0)
    BY <1>2 DEF ParseArgs, Goto, Leave
  <2>2. UNCHANGED <<cfg, flags, passwd, session, facts>>
    BY <1>2 DEF ParseArgs, inputs, nss
  <2>3. ConsoleSoFar'
    BY <2>1 DEF ConsoleSoFar
  <2> QED
    BY <2>1, <2>2, <2>3, SessionStays DEF IInv, HasPaths, Before
<1> QED
  BY <1>1, <1>2

\* The console, and what begins the login.
LEMMA BeginIInv ==
  ASSUME IInv, ClaimConsole \/ BeginGreeter \/ BeginStdin
  PROVE  IInv'
<1>1. CASE ClaimConsole
  <2>1. pc = "claim" /\ pc' \in {"begin", "ended"}
    BY <1>1 DEF ClaimConsole, Goto, Leave
  <2>2. UNCHANGED <<inputs, settings, nss, session>>
    BY <1>1 DEF ClaimConsole
  <2>3. FactsAreFour' /\ facts'.dirs = facts.dirs /\ (pc' = "begin" => facts'.vt = {vt})
    BY <1>1 DEF ClaimConsole, IInv, FactsAreFour, Goto, Leave
  <2>4. ConsoleSoFar'
    BY <2>1, <2>2, <2>3 DEF ConsoleSoFar, IInv, settings
  <2>5. ConfigIsSound' /\ WritersKeepToTheirOwn' /\ NothingYet' /\ passwd' \in Records
    BY <2>1, <2>2, <2>3 DEF IInv, ConfigIsSound, WritersKeepToTheirOwn, NothingYet, Before,
       settings, session, nss
  <2>6. IdentitySet' /\ DirsArePublished' /\ SearchPathsNameOneAccount'
    BY <2>1 DEF IdentitySet, DirsArePublished, SearchPathsNameOneAccount, HasPaths
  <2> QED
    BY <2>3, <2>4, <2>5, <2>6 DEF IInv
<1>2. CASE BeginGreeter \/ BeginStdin
  <2>1. /\ pc = "begin" /\ pc' \in {"conversation", "ended"}
        /\ pc' = "conversation" => attach' = ConsoleFor(vt)
    BY <1>2 DEF BeginGreeter, BeginStdin, Goto, Leave
  <2>2. UNCHANGED <<inputs, settings, nss, env, path, dirs, reply, facts>>
    BY <1>2 DEF BeginGreeter, BeginStdin
  <2>3. ConsoleSoFar'
    BY <2>1, <2>2 DEF ConsoleSoFar, IInv, settings, ConsoleFor
  <2>4. ConfigIsSound' /\ WritersKeepToTheirOwn' /\ passwd' \in Records
    BY <2>2 DEF IInv, ConfigIsSound, WritersKeepToTheirOwn, settings, nss
  <2>5. NothingYet' /\ FactsAreFour'
    BY <2>1, <2>2 DEF IInv, NothingYet, FactsAreFour, Before
  <2>6. IdentitySet' /\ DirsArePublished' /\ SearchPathsNameOneAccount'
    BY <2>1 DEF IdentitySet, DirsArePublished, SearchPathsNameOneAccount, HasPaths
  <2> QED
    BY <2>3, <2>4, <2>5, <2>6 DEF IInv
<1> QED
  BY <1>1, <1>2

\* session_env_for, and the publication of the data dirs.
LEMMA ContributeIInv ==
  ASSUME IInv, Contribute
  PROVE  IInv'
<1>1. PICK who \in Found : ContributeFor(who, who)
  BY DEF Contribute
<1> DEFINE derived == {"PATH", "XDG_SESSION_CLASS"}
                        \cup (IF DOMAIN dirs' = {} THEN {} ELSE {"XDG_DATA_DIRS"})
           one == Insert(env, derived, "mukaed")
           two == Insert(one, cfg.facts, "typed")
<1>2. pc = "contribute" /\ pc' = "open" /\ UNCHANGED <<inputs, settings, nss, attach, reply>>
  BY <1>1 DEF ContributeFor, Goto
<1>3. who \in Records
  BY <1>1 DEF Found, IInv, Records
<1>4. \A v \in Vars : one[v] \subseteq {WriterOf(v)}
  <2>1. \A v \in Vars : env[v] \subseteq {WriterOf(v)}
    BY DEF IInv, WritersKeepToTheirOwn
  <2>2. \A v \in Vars \cap derived : "mukaed" = WriterOf(v)
    BY DEF WriterOf
  <2> HIDE DEF derived
  <2> QED
    BY <2>1, <2>2, InsertKeeps
<1>5. \A v \in Vars : two[v] \subseteq {WriterOf(v)}
  <2>1. \A v \in Vars \cap cfg.facts : "typed" = WriterOf(v)
    BY DEF IInv, ConfigIsSound, Sound, WriterOf, TypedVars
  <2> HIDE DEF one
  <2> QED
    BY <1>4, <2>1, InsertKeeps
<1>6. WritersKeepToTheirOwn'
  <2>1. env' = Insert(two, cfg.session_env, "session_env")
    BY <1>1 DEF ContributeFor, Contribution
  <2>2. \A v \in cfg.session_env : v \notin RESERVED_SESSION_VARS
    BY DEF IInv, ConfigIsSound, Sound, Parses
  <2>3. \A v \in Vars \cap cfg.session_env : "session_env" = WriterOf(v)
    BY <2>2 DEF WriterOf, RESERVED_SESSION_VARS, TypedVars, LogindVars, IdentityVars
  <2> HIDE DEF two
  <2> QED
    BY <1>5, <2>1, <2>3, InsertKeeps DEF WritersKeepToTheirOwn
<1>7. FactsAreFour' /\ facts'.vt = facts.vt
  BY <1>1 DEF ContributeFor, Published, IInv, FactsAreFour
<1>8. DirsArePublished'
  <2>1. facts.dirs = {}
    BY <1>2 DEF IInv, NothingYet, Before
  <2>2. facts' = Published(env', dirs')
    BY <1>1 DEF ContributeFor
  <2>3. UsesGreeter' = UsesGreeter
    BY <1>2 DEF UsesGreeter, inputs, settings
  <2> QED
    BY <2>1, <2>2, <2>3 DEF DirsArePublished, Published, IsSet, IInv, FactsAreFour
<1>9. SearchPathsNameOneAccount'
  <2>1. path' = SessionPathFor(cfg, who.name)
        /\ dirs' = SessionDataDirsFor(cfg, who.name, who.home)
    BY <1>1 DEF ContributeFor
  <2>2. \A i \in DOMAIN cfg.session_data_dirs :
           cfg.session_data_dirs[i].of \subseteq Placeholders
    BY DEF IInv, ConfigIsSound, Sound
  <2>3. /\ \A i \in DOMAIN path' : /\ path'[i].user \in {None, who.name}
                                   /\ path'[i].home \in {None, who.home}
                                   /\ "user" \notin path'[i].left
        /\ \A i \in DOMAIN dirs' : /\ dirs'[i].user \in {None, who.name}
                                   /\ dirs'[i].home \in {None, who.home}
                                   /\ dirs'[i].left = {}
    BY <2>1, <2>2, PathsNameTheAccount
  <2> QED
    BY <1>3, <2>3 DEF SearchPathsNameOneAccount
<1>10. ConsoleSoFar'
  BY <1>2, <1>7 DEF IInv, ConsoleSoFar, settings, ConsoleFor
<1>11. ConfigIsSound' /\ passwd' \in Records /\ NothingYet' /\ IdentitySet'
  BY <1>2 DEF IInv, ConfigIsSound, NothingYet, IdentitySet, Before, settings, nss
<1> QED
  BY <1>6, <1>7, <1>8, <1>9, <1>10, <1>11 DEF IInv

\* logind's reply.
LEMMA OpenSessionIInv ==
  ASSUME IInv, OpenSession
  PROVE  IInv'
<1>1. CASE UNCHANGED <<env, reply>> /\ Leave("logind")
  <2>1. pc' = "ended" /\ UNCHANGED <<cfg, flags, passwd, session, facts>>
    BY <1>1 DEF OpenSession, Leave, inputs, settings, nss, session
  <2>2. ConsoleSoFar'
    BY <2>1 DEF ConsoleSoFar
  <2> QED
    BY <2>1, <2>2, SessionStays DEF IInv, HasPaths, Before
<1>2. CASE ~(UNCHANGED <<env, reply>> /\ Leave("logind"))
  <2>1. PICK vs \in SUBSET LogindVars : env' = Insert(env, vs, "logind")
    BY <1>2 DEF OpenSession
  <2>2. /\ pc = "open" /\ pc' = "fork" /\ reply' = attach
        /\ UNCHANGED <<inputs, settings, nss, path, dirs, attach, facts>>
    BY <1>2 DEF OpenSession, Goto
  <2>3. /\ \A v \in Vars : env[v] \subseteq {WriterOf(v)}
        /\ \A v \in Vars \cap vs : "logind" = WriterOf(v)
    BY <2>1 DEF IInv, WritersKeepToTheirOwn, WriterOf, LogindVars, TypedVars
  <2>4. WritersKeepToTheirOwn'
    BY <2>1, <2>3, InsertKeeps DEF WritersKeepToTheirOwn
  <2>5. env'["XDG_DATA_DIRS"] = env["XDG_DATA_DIRS"]
    BY <2>1, <2>3, InsertKeeps DEF Vars, LogindVars
  <2>6. DirsArePublished' /\ SearchPathsNameOneAccount'
    BY <2>2, <2>5 DEF IInv, DirsArePublished, SearchPathsNameOneAccount, HasPaths, IsSet,
       UsesGreeter, inputs, settings
  <2>7. ConsoleSoFar' /\ FactsAreFour' /\ NothingYet' /\ IdentitySet'
    BY <2>2 DEF IInv, ConsoleSoFar, FactsAreFour, NothingYet, IdentitySet, Before, settings
  <2> QED
    BY <2>2, <2>4, <2>6, <2>7 DEF IInv, ConfigIsSound, settings, nss
<1> QED
  BY <1>1, <1>2

\* The second lookup, at the exec.
LEMMA ForkIInv ==
  ASSUME IInv, Fork
  PROVE  IInv'
<1>1. CASE UNCHANGED env /\ Leave("spawn")
  <2>1. pc' = "ended" /\ UNCHANGED <<cfg, flags, passwd, session, facts>>
    BY <1>1 DEF Fork, Leave, inputs, settings, nss, session
  <2>2. ConsoleSoFar'
    BY <2>1 DEF ConsoleSoFar
  <2> QED
    BY <2>1, <2>2, SessionStays DEF IInv, HasPaths, Before
<1>2. CASE env' = Insert(env, IdentityVars, "passwd") /\ pc' = "running"
  <2>1. pc = "fork" /\ UNCHANGED <<inputs, settings, nss, path, dirs, attach, reply, facts>>
    BY DEF Fork
  <2>2. /\ \A v \in Vars : env[v] \subseteq {WriterOf(v)}
        /\ \A v \in Vars \cap IdentityVars : "passwd" = WriterOf(v)
    BY DEF IInv, WritersKeepToTheirOwn, WriterOf, IdentityVars, LogindVars, TypedVars
  <2>3. WritersKeepToTheirOwn'
    BY <1>2, <2>2, InsertKeeps DEF WritersKeepToTheirOwn
  <2>4. IdentitySet'
    BY <1>2, <2>2, InsertKeeps DEF IdentitySet, Vars
  <2>5. env'["XDG_DATA_DIRS"] = env["XDG_DATA_DIRS"]
    BY <1>2, <2>2, InsertKeeps DEF Vars, IdentityVars
  <2>6. DirsArePublished' /\ SearchPathsNameOneAccount'
    BY <1>2, <2>1, <2>5 DEF IInv, DirsArePublished, SearchPathsNameOneAccount, HasPaths, IsSet,
       UsesGreeter, inputs, settings
  <2>7. ConsoleSoFar' /\ FactsAreFour' /\ NothingYet'
    BY <1>2, <2>1 DEF IInv, ConsoleSoFar, FactsAreFour, NothingYet, Before, settings
  <2> QED
    BY <2>1, <2>3, <2>4, <2>6, <2>7 DEF IInv, ConfigIsSound, settings, nss
<1> QED
  BY <1>1, <1>2 DEF Fork, Goto

\* The conversation, the end of the session, an edit, the end.
LEMMA OtherIInv ==
  ASSUME IInv, Converse \/ SessionOver \/ Edit \/ UNCHANGED vars
  PROVE  IInv'
<1>1. /\ UNCHANGED <<cfg, vt, flags, session, facts>> /\ passwd' \in Records
      /\ \/ UNCHANGED pc
         \/ pc' = "ended"
         \/ pc = "conversation" /\ pc' = "contribute"
  BY DEF Converse, SessionOver, Edit, Leave, Goto, IInv, vars, inputs, settings, nss, session
<1>2. ConsoleSoFar'
  BY <1>1 DEF IInv, ConsoleSoFar, session
<1> QED
  BY <1>1, <1>2, SessionStays DEF IInv, HasPaths, Before

\* The file is one of those there may be, and stays it.
LEMMA FileIsGiven == Spec => [](file \in Files \cup {NoFile})
<1>1. Init => file \in Files \cup {NoFile}
  BY DEF Init
<1>2. file \in Files \cup {NoFile} /\ [Next]_vars => (file \in Files \cup {NoFile})'
  BY DEF Next, vars, inputs, Load, ParseArgs, ClaimConsole, BeginGreeter, BeginStdin,
     Converse, Contribute, ContributeFor, OpenSession, Fork, SessionOver, Edit, Over
<1> QED
  BY <1>1, <1>2, PTL DEF Spec

LEMMA NextIInv ==
  ASSUME IInv, file \in Files \cup {NoFile}, [Next]_vars PROVE IInv'
BY SettingsIInv, BeginIInv, ContributeIInv, OpenSessionIInv, ForkIInv, OtherIInv
   DEF Next, Over

LEMMA SpecIInv == Spec => []IInv
BY InitIInv, NextIInv, FileIsGiven, PTL DEF Spec

-------------------------------------------------------------------------------
(* The invariants. *)

\* No variable has two writers, and the identity is the passwd record's.
THEOREM OneWriterPerVariableAlways == Spec => []OneWriterPerVariable
<1>1. IInv => OneWriterPerVariable
  <2> SUFFICES ASSUME IInv PROVE OneWriterPerVariable
    OBVIOUS
  <2>1. ASSUME NEW v \in Vars PROVE Cardinality(env[v]) <= 1
    <3>1. IsFiniteSet({WriterOf(v)}) /\ Cardinality({WriterOf(v)}) = 1
      BY FS_Singleton
    <3>2. env[v] \subseteq {WriterOf(v)}
      BY DEF IInv, WritersKeepToTheirOwn
    <3> QED
      BY <3>1, <3>2, FS_Subset
  <2> QED
    BY <2>1 DEF OneWriterPerVariable, IInv, IdentitySet
<1> QED
  BY <1>1, SpecIInv, PTL

\* The session's search paths are those of one account.
THEOREM SearchPathsNameOneAccountAlways == Spec => []SearchPathsNameOneAccount
<1>1. IInv => SearchPathsNameOneAccount
  BY DEF IInv
<1> QED
  BY <1>1, SpecIInv, PTL

\* The VT claimed, published and registered with logind is one.
THEOREM ConsoleIsOneFactAlways == Spec => []ConsoleIsOneFact
<1>1. IInv => ConsoleIsOneFact
  <2> SUFFICES ASSUME IInv, pc = "running"
               PROVE  /\ facts.vt = {vt} /\ vt # 0
                      /\ (reply.seat = "") <=> (vt = NoVt)
                      /\ (reply.vtnr = 0) <=> (vt = NoVt)
                      /\ vt # NoVt => reply.vtnr = vt
    BY DEF ConsoleIsOneFact
  <2>1. facts.vt = {vt} /\ vt # 0 /\ reply = ConsoleFor(vt)
    BY DEF IInv, ConsoleSoFar
  <2>2. CASE vt = NoVt
    BY <2>1, <2>2 DEF ConsoleFor, NoSeat
  <2>3. CASE vt # NoVt
    BY <2>1, <2>3 DEF ConsoleFor
  <2> QED
    BY <2>2, <2>3, <2>1
<1> QED
  BY <1>1, SpecIInv, PTL

\* The data dirs published are the session's.
THEOREM DataDirsPublishedAlways == Spec => []DataDirsPublishedAreTheSessions
<1>1. IInv => DataDirsPublishedAreTheSessions
  BY DEF IInv, DirsArePublished, DataDirsPublishedAreTheSessions, HasPaths
<1> QED
  BY <1>1, SpecIInv, PTL
===============================================================================
