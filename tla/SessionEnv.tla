------------------------------- MODULE SessionEnv -------------------------------
(***************************************************************************)
(* The environment a session is started with, from the config file to the  *)
(* exec: mukae-seat/src/config.rs, run and session_env_for of bin/mukaed.rs, *)
(* start_session, pam_open_session and prepare_inheriting of spawn.rs.     *)
(*                                                                         *)
(* Four parties write variables (mukaed, the config, logind's reply, the   *)
(* passwd record at the exec), each over what is there, and NSS is asked   *)
(* twice, about an account an administrator may edit meanwhile.  Of a      *)
(* variable env keeps who wrote it; the values the properties tell apart   *)
(* are in path, dirs and reply.                                            *)
(***************************************************************************)
EXTENDS Naturals, Sequences, FiniteSets

CONSTANTS
  Files,      \* config files an operator may have written: fields to values
  NoFile,     \* none was discovered
  VTs,        \* VT numbers somebody may write down, 0 among them
  NoVt,       \* no vt key, no --vt
  FreeNames,  \* names of variables nobody but the config sets
  Malformed,  \* names that are empty or hold '=' or NUL
  Accounts,   \* passwd records the principal's uid may have over time
  None,       \* a lookup that found nothing, a home that is empty
  MaxEdits    \* how often the administrator edits that record

VARIABLES
  file, flags,           \* the config file, the command line
  cfg, source, vt,       \* load_with_source; the VT once argv was folded in
  passwd, edits,         \* NSS: the principal's record, and the edits so far
  pc, why,               \* where the daemon is; for what reason it ended
  env,                   \* who wrote each variable of the session's environment
  path, dirs,            \* the values of PATH and XDG_DATA_DIRS
  attach,                \* NativeSeatEnv.console
  reply,                 \* the seat and vtnr of logind's reply
  facts                  \* what the introspection publishes; {} until it does

inputs == <<file, flags>>
settings == <<cfg, source, vt>>
nss == <<passwd, edits>>
session == <<env, path, dirs, attach, reply>>
vars == <<inputs, settings, nss, pc, why, session, facts>>

-------------------------------------------------------------------------------
(* Variables and their names. *)

TypedVars == {"XDG_SESSION_TYPE", "XDG_CURRENT_DESKTOP"}
LogindVars == {"XDG_RUNTIME_DIR", "DBUS_SESSION_BUS_ADDRESS", "XDG_SESSION_ID",
               "XDG_SEAT", "XDG_VTNR"}
IdentityVars == {"HOME", "USER", "LOGNAME", "SHELL"}
Vars == {"PATH", "XDG_DATA_DIRS", "XDG_SESSION_CLASS"}
        \cup TypedVars \cup LogindVars \cup IdentityVars \cup FreeNames

Writers == {"mukaed", "typed", "session_env", "logind", "passwd"}

ReservedButTheBus ==
  {"PATH", "XDG_DATA_DIRS", "XDG_SESSION_CLASS", "XDG_SESSION_TYPE",
   "XDG_CURRENT_DESKTOP", "XDG_RUNTIME_DIR", "XDG_SEAT", "XDG_VTNR",
   "XDG_SESSION_ID", "HOME", "USER", "LOGNAME", "SHELL"}

RESERVED_SESSION_VARS ==
  {"PATH", "XDG_DATA_DIRS", "XDG_SESSION_CLASS", "XDG_SESSION_TYPE",
   "XDG_CURRENT_DESKTOP", "XDG_RUNTIME_DIR", "XDG_SEAT", "XDG_VTNR",
   "XDG_SESSION_ID", "DBUS_SESSION_BUS_ADDRESS", "HOME", "USER", "LOGNAME", "SHELL"}

\* SessionVar::parse.
Parses(name) == name \notin Malformed \cup RESERVED_SESSION_VARS

\* Insert the variables vs over what e holds.
Insert(e, vs, writer) == [v \in Vars |-> IF v \in vs THEN e[v] \cup {writer} ELSE e[v]]
Unset == [v \in Vars |-> {}]
IsSet(e, v) == e[v] # {}

-------------------------------------------------------------------------------
(* MukaeConfig. *)

\* An entry of a search path: a directory, and the placeholders in it.
Entry(base, of) == [base |-> base, of |-> of]

Prescribed ==
  [greeter |-> FALSE, greeter_user |-> FALSE, vt |-> NoVt,
   session_path |-> <<Entry("wrappers", {}), Entry("per-user", {"user"}),
                      Entry("system", {}), Entry("usr", {}), Entry("bin", {})>>,
   session_data_dirs |-> <<Entry("nix-profile", {"home"}), Entry("state", {"home"}),
                           Entry("per-user", {"user"}), Entry("default", {}),
                           Entry("system", {})>>,
   facts |-> {}, session_env |-> {}, nul |-> FALSE]

Fields == DOMAIN Prescribed

Placeholders == {"user", "home"}

\* What a file can hold that the loader lets through unread: two typed
\* settings, and search paths whose placeholders are the two there are.
ASSUME SessionEnvAssumption ==
  \A f \in Files :
     /\ "facts" \in DOMAIN f => f.facts \subseteq TypedVars
     /\ "session_data_dirs" \in DOMAIN f =>
          \A i \in DOMAIN f.session_data_dirs :
             f.session_data_dirs[i].of \subseteq Placeholders

\* A field the file leaves out takes the default's value (serde(default)).
Loaded(f) == [k \in Fields |-> IF k \in DOMAIN f THEN f[k] ELSE Prescribed[k]]

\* deny_unknown_fields, and SessionVar for every key of session_env.
Accepted(f) == DOMAIN f \subseteq Fields /\ \A k \in Loaded(f).session_env : Parses(k)

\* An entry with an account's name and home put in: whose they are, and the
\* placeholders that are still there.
Rendered(e, user, home) ==
  [base |-> e.base,
   user |-> IF "user" \in e.of THEN user ELSE None,
   home |-> IF "home" \in e.of THEN home ELSE None,
   left |-> {p \in e.of : None = IF p = "user" THEN user ELSE home}]

\* The two search paths, by the positions their entries have in the config: an
\* entry that needs what was not found is dropped.  session_path_for knows no
\* {home}.
SessionPathFor(c, user) ==
  [i \in {i \in DOMAIN c.session_path : "user" \in c.session_path[i].of => user # None}
     |-> Rendered(c.session_path[i], user, None)]

Kept(c, user, home) ==
  {i \in DOMAIN c.session_data_dirs :
     /\ "user" \in c.session_data_dirs[i].of => user # None
     /\ "home" \in c.session_data_dirs[i].of => home # None}

SessionDataDirsFor(c, user, home) ==
  [i \in Kept(c, user, home) |-> Rendered(c.session_data_dirs[i], user, home)]

-------------------------------------------------------------------------------
(* run, up to the conversation. *)

NoRecord == [name |-> None, home |-> None]
Records == Accounts \cup {NoRecord}
NoSeat == [seat |-> "", vtnr |-> 0]
Flags == [greeter : BOOLEAN, greeter_user : BOOLEAN, user : BOOLEAN, cmd : BOOLEAN,
          vt : VTs \cup {NoVt}]

Init ==
  /\ file \in Files \cup {NoFile} /\ flags \in Flags
  /\ cfg = Prescribed /\ source = "not yet" /\ vt = NoVt
  /\ passwd \in Accounts /\ edits = 0
  /\ pc = "load" /\ why = "none"
  /\ env = Unset /\ path = <<>> /\ dirs = <<>>
  /\ attach = NoSeat /\ reply = NoSeat
  /\ facts = [path |-> {}, source |-> {}, vt |-> {}, dirs |-> {}]

Leave(reason) == pc' = "ended" /\ why' = reason
Goto(next) == pc' = next /\ UNCHANGED why

\* load_with_source never fails: a file it cannot use is as good as none.
Load ==
  /\ pc = "load"
  /\ IF file = NoFile THEN cfg' = Prescribed /\ source' = "prescribed"
     ELSE IF Accepted(file) THEN cfg' = Loaded(file) /\ source' = "file"
     ELSE cfg' = Prescribed /\ source' = "file-rejected"
  /\ Goto("args")
  /\ UNCHANGED <<inputs, vt, nss, session, facts>>

\* The config's vt, and then the flags over it.
ParseArgs ==
  /\ pc = "args"
  /\ IF cfg.vt = 0 \/ flags.vt = 0
     THEN Leave("vt 0") /\ UNCHANGED vt
     ELSE vt' = (IF flags.vt = NoVt THEN cfg.vt ELSE flags.vt) /\ Goto("claim")
  /\ UNCHANGED <<inputs, cfg, source, nss, session, facts>>

\* Console::claim, console_claimed, session_path_resolved.
ClaimConsole ==
  /\ pc = "claim"
  /\ \/ vt # NoVt /\ Leave("console") /\ UNCHANGED facts
     \/ /\ facts' = [facts EXCEPT !.path = {SessionPathFor(cfg, None)},
                                  !.source = {source}, !.vt = {vt}]
        /\ Goto("begin")
  /\ UNCHANGED <<inputs, settings, nss, session>>

ConsoleFor(v) == IF v = NoVt THEN NoSeat ELSE [seat |-> "seat0", vtnr |-> v]

UsesGreeter == flags.greeter \/ cfg.greeter

BeginGreeterSeatless ==
  /\ pc = "begin" /\ UsesGreeter
  /\ \/ /\ flags.greeter_user \/ cfg.greeter_user
        /\ flags.cmd
        /\ attach' = NoSeat /\ Goto("conversation")
     \/ Leave("greeter") /\ UNCHANGED attach
  /\ UNCHANGED <<inputs, settings, nss, env, path, dirs, reply, facts>>

\* greeter_login: a greeter user that is known and not root, a greeter spawned.
BeginGreeter ==
  /\ pc = "begin" /\ UsesGreeter
  /\ \/ /\ flags.greeter_user \/ cfg.greeter_user
        /\ flags.cmd
        /\ attach' = ConsoleFor(vt) /\ Goto("conversation")
     \/ Leave("greeter") /\ UNCHANGED attach
  /\ UNCHANGED <<inputs, settings, nss, env, path, dirs, reply, facts>>

BeginStdin ==
  /\ pc = "begin" /\ ~UsesGreeter
  /\ \/ flags.user /\ flags.cmd /\ attach' = ConsoleFor(vt) /\ Goto("conversation")
     \/ Leave("usage") /\ UNCHANGED attach
  /\ UNCHANGED <<inputs, settings, nss, env, path, dirs, reply, facts>>

\* The conversation and the account check, which are other modules' subject.
Converse ==
  /\ pc = "conversation"
  /\ Goto("contribute") \/ Leave("login")
  /\ UNCHANGED <<inputs, settings, nss, session, facts>>

-------------------------------------------------------------------------------
(* The session's environment. *)

\* getpwuid_r: the record there is, or a failure of NSS.
Found == {passwd, NoRecord}

\* What session_env_for inserts: what it derives, then the config's facts.
Contribution(d) ==
  LET derived == {"PATH", "XDG_SESSION_CLASS"}
                   \cup (IF DOMAIN d = {} THEN {} ELSE {"XDG_DATA_DIRS"})
  IN Insert(Insert(Insert(env, derived, "mukaed"), cfg.facts, "typed"),
            cfg.session_env, "session_env")

PublishedAnew(e, d) ==
  IF UsesGreeter
  THEN [facts EXCEPT !.dirs = {SessionDataDirsFor(cfg, passwd.name, passwd.home)}]
  ELSE facts

\* greeter_login publishes the data dirs it finds in what session_env_for built.
Published(e, d) ==
  IF UsesGreeter /\ IsSet(e, "XDG_DATA_DIRS") THEN [facts EXCEPT !.dirs = {d}] ELSE facts

\* start_session puts all of it in the transaction, whose environment is empty.
ContributeFor(pathOwner, dirsOwner) ==
  /\ pc = "contribute"
  /\ path' = SessionPathFor(cfg, pathOwner.name)
  /\ dirs' = SessionDataDirsFor(cfg, dirsOwner.name, dirsOwner.home)
  /\ env' = Contribution(dirs')
  /\ facts' = Published(env', dirs')
  /\ Goto("open")
  /\ UNCHANGED <<inputs, settings, nss, attach, reply>>

\* A second lookup is a later one, of what the administrator made of the record.
ContributeAskingTwice == \E who \in Found, again \in Records : ContributeFor(who, again)

\* session_env_for: one lookup for both search paths.
Contribute == \E who \in Found : ContributeFor(who, who)

\* pam_open_session: logind registers the session where it was asked to; the
\* bus is told of only if its socket is there.
OpenSession ==
  /\ pc = "open"
  /\ \/ Leave("logind") /\ UNCHANGED <<env, reply>>
     \/ /\ reply' = attach
        /\ \E bus \in BOOLEAN :
             env' = Insert(env, IF bus THEN LogindVars
                                ELSE LogindVars \ {"DBUS_SESSION_BUS_ADDRESS"}, "logind")
        /\ Goto("fork")
  /\ UNCHANGED <<inputs, settings, nss, path, dirs, attach, facts>>

\* prepare_inheriting: the record is looked up again and wins over the caller;
\* no record is UnknownPrincipal, a value that holds NUL is Refused.
Fork ==
  /\ pc = "fork"
  /\ \/ Leave("spawn") /\ UNCHANGED <<env>>
     \/ /\ passwd # NoRecord /\ ~cfg.nul
        /\ env' = Insert(env, IdentityVars, "passwd")
        /\ Goto("running")
  /\ UNCHANGED <<inputs, settings, nss, path, dirs, attach, reply, facts>>

\* waitpid, pam_close_session, pam_end.
SessionOver ==
  /\ pc = "running" /\ Leave("none")
  /\ UNCHANGED <<inputs, settings, nss, session, facts>>

\* usermod, userdel, or a directory service.
Edit ==
  /\ edits < MaxEdits /\ edits' = edits + 1
  /\ passwd' \in Records
  /\ UNCHANGED <<inputs, settings, pc, why, session, facts>>

Over == pc = "ended" /\ UNCHANGED vars

Next ==
  \/ Load \/ ParseArgs \/ ClaimConsole \/ BeginGreeter \/ BeginStdin \/ Converse
  \/ Contribute \/ OpenSession \/ Fork \/ SessionOver
  \/ Edit \/ Over

Spec == Init /\ [][Next]_vars

-------------------------------------------------------------------------------
(* Properties. *)

\* The session has its search paths.
HasPaths == pc \in {"open", "fork", "running"}

\* "Two sources can never disagree about one variable": no variable of the
\* session, its XDG_* from logind and its HOME included, is written over, and
\* HOME, USER, LOGNAME and SHELL are those of the passwd record.
OneWriterPerVariable ==
  /\ \A v \in Vars : Cardinality(env[v]) <= 1
  /\ pc = "running" => \A v \in IdentityVars : env[v] = {"passwd"}

\* "PATH and XDG_DATA_DIRS cannot end up describing different accounts",
\* whatever becomes of the account meanwhile, and what a lookup did not find
\* is left out of them, never searched for by its placeholder.
SearchPathsNameOneAccount ==
  HasPaths =>
    /\ \E who \in Records :
         \A p \in {path, dirs} : \A i \in DOMAIN p :
            p[i].user \in {None, who.name} /\ p[i].home \in {None, who.home}
    /\ \A i \in DOMAIN path : "user" \notin path[i].left
    /\ \A i \in DOMAIN dirs : dirs[i].left = {}

\* "The console and the logind attachment are ONE fact": the VT claimed, the one
\* published and XDG_SEAT with XDG_VTNR agree on either path, and are never 0.
ConsoleIsOneFact ==
  pc = "running" =>
    /\ facts.vt = {vt} /\ vt # 0
    /\ reply.seat = "" <=> vt = NoVt
    /\ reply.vtnr = 0 <=> vt = NoVt
    /\ vt # NoVt => reply.vtnr = vt

\* "Published by reading back what the session actually got, never by
\* re-deriving it": the data dirs an operator can query are the session's.
DataDirsPublishedAreTheSessions ==
  pc = "running" /\ UsesGreeter =>
    facts.dirs = IF IsSet(env, "XDG_DATA_DIRS") THEN {dirs} ELSE {}
===============================================================================
