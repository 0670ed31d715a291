--------------------------------- MODULE Mukaed ---------------------------------
(***************************************************************************)
(* One run of the daemon (mukae-seat/src/bin/mukaed.rs): the console it    *)
(* claims (vt.rs), the greeter it spawns and talks to (LoginWire) or the   *)
(* terminal it reads instead, the session it starts and waits for, what    *)
(* its introspection says meanwhile (introspect.rs), and its exit code.    *)
(*                                                                         *)
(* mpc is where greeter_login, or the second half of run, has got to.      *)
(* What the environment does between the conversation and the spawn is     *)
(* SeatEnv's subject and is a choice of outcome here.                      *)
(***************************************************************************)
EXTENDS LoginWire

VARIABLES
  mpc, mode, exit,              \* the daemon: where, --greeter or not, exit code
  found, console, claimed,      \* the VT: as found, as it is, the guard in run
  failed,                       \* which of restore's two ioctls failed
  spawned, signalled, reaped,   \* the greeter process, as its parent sees it
  session, registered,          \* the session child, the logind session
  execed,                       \* whether the session's program ever ran
  sessionOpen                   \* Facts.session_open

consoleVars == <<found, console, claimed, failed>>
greeterVars == <<spawned, signalled, reaped>>
sessionVars == <<session, registered, execed>>
mukaedVars == <<mpc, mode, exit, consoleVars, greeterVars, sessionVars, sessionOpen>>
allVars == <<vars, mukaedVars>>

Consoles == [kd : {"text", "graphics"}, kbd : {"unicode", "off"}]

MInit ==
  /\ Init
  /\ mpc = "boot" /\ mode \in {"greeter", "stdin"} /\ exit = "none"
  /\ found \in Consoles /\ console = found /\ claimed = FALSE /\ failed = {}
  /\ spawned = FALSE /\ signalled = FALSE /\ reaped = FALSE
  /\ session = "none" /\ registered = FALSE /\ execed = FALSE
  /\ sessionOpen = FALSE

-------------------------------------------------------------------------------
(* run, up to the conversation. *)

\* greeter_login, or run, returns; what they hold is yet to be dropped.
Leave(code) == mpc' = "leaving" /\ exit' = code /\ UNCHANGED vars

\* Go on, with the conversation left alone.
To(pc) == mpc' = pc /\ UNCHANGED <<exit, vars>>

ClaimConsoleForGraphics ==
  /\ mpc = "boot"
  /\ \/ /\ claimed' = TRUE /\ console' = [console EXCEPT !.kd = "graphics"]
        /\ To("claimed")
     \/ UNCHANGED <<claimed, console>> /\ Leave("failure")
  /\ UNCHANGED <<mode, found, failed, greeterVars, sessionVars, sessionOpen>>

\* Console::claim(vt, Mode::Text) reads the keyboard mode and changes nothing.
\* Without --vt there is no console to claim.
ClaimConsole ==
  /\ mpc = "boot"
  /\ \/ claimed' = TRUE /\ To("claimed")
     \/ UNCHANGED claimed /\ To("claimed")
     \/ UNCHANGED claimed /\ Leave("failure")
  /\ UNCHANGED <<mode, found, console, failed, greeterVars, sessionVars, sessionOpen>>

SpawnGreeter ==
  /\ mpc = "claimed" /\ mode = "greeter"
  /\ \/ spawned' = TRUE /\ To("serving")
     \/ UNCHANGED spawned /\ Leave("failure")
  /\ UNCHANGED <<mode, consoleVars, signalled, reaped, sessionVars, sessionOpen>>

\* The conversation on stdin: pam_next and pam_answer until Complete, Failed
\* or an error.
ReadStdin ==
  /\ mpc = "claimed" /\ mode = "stdin"
  /\ \/ To("acct")
     \/ Leave("failure")
  /\ UNCHANGED <<mode, consoleVars, greeterVars, sessionVars, sessionOpen>>

-------------------------------------------------------------------------------
(* greeter_login, from serve_observed on. *)

\* The three ways serve_observed returns: `?`, None, Some.
ServeReturned ==
  /\ mpc = "serving" /\ dpc = "returned"
  /\ CASE result = "error" -> Leave("failure")
       [] result = "none" -> To("mourning")
       [] result = "some" -> To("acct")
  /\ UNCHANGED <<mode, consoleVars, greeterVars, sessionVars, sessionOpen>>

\* "login incorrect": waitpid without a kill.
ReapTheRefused ==
  /\ mpc = "mourning" /\ fpc = "exited"
  /\ reaped' = TRUE
  /\ Leave("failure")
  /\ UNCHANGED <<mode, consoleVars, spawned, signalled, sessionVars, sessionOpen>>

\* pam_acct_mgmt: only AcctVerdict::Ok goes on; the greeter is left alone.
AskAccount ==
  /\ mpc = "acct"
  /\ \/ To(IF mode = "greeter" THEN "killing" ELSE "starting")
     \/ Leave("failure")
  /\ UNCHANGED <<mode, consoleVars, greeterVars, sessionVars, sessionOpen>>

KillGreeter ==
  /\ mpc = "killing"
  /\ signalled' = TRUE /\ To("reaping")
  /\ UNCHANGED <<mode, consoleVars, spawned, reaped, sessionVars, sessionOpen>>

NoReap ==
  /\ mpc = "reaping"
  /\ reaped' = (fpc = "exited") /\ To("starting")
  /\ UNCHANGED <<mode, consoleVars, spawned, signalled, sessionVars, sessionOpen>>

\* waitpid, and the console is wiped of what the killed face left on it.
ReapGreeter ==
  /\ mpc = "reaping" /\ fpc = "exited"
  /\ reaped' = TRUE /\ To("starting")
  /\ UNCHANGED <<mode, consoleVars, spawned, signalled, sessionVars, sessionOpen>>

\* mint_proof, and start_session up to the fork: it fails, at logind or before,
\* or there is a logind session, held by the daemon's environment.
OpenSession ==
  /\ mpc = "starting"
  /\ \/ registered' = TRUE /\ To("opened")
     \/ UNCHANGED registered /\ Leave("failure")
  /\ UNCHANGED <<mode, consoleVars, greeterVars, session, execed, sessionOpen>>

SpawnUnlessNameless ==
  /\ mpc = "opened"
  /\ \/ Leave("failure") /\ UNCHANGED <<session, execed, sessionOpen>>
     \/ /\ session' = "running" /\ execed' = TRUE
        /\ \/ sessionOpen' = (mode = "greeter") /\ To("waiting")
           \/ UNCHANGED sessionOpen /\ Leave("failure")
  /\ UNCHANGED <<mode, consoleVars, greeterVars, registered>>

\* fork_session: it fails, and the session logind opened is left to the drop of
\* the environment; or the program runs, or its child died before the exec and
\* the end of file on the status pipe passes for a success.  Only greeter_login
\* tells DaemonState, and only of a uid that has a name.
SpawnSession ==
  /\ mpc = "opened"
  /\ \/ Leave("failure") /\ UNCHANGED <<session, execed, sessionOpen>>
     \/ /\ execed' \in BOOLEAN /\ session' = IF execed' THEN "running" ELSE "dead"
        /\ sessionOpen' \in {mode = "greeter", FALSE}
        /\ To("waiting")
  /\ UNCHANGED <<mode, consoleVars, greeterVars, registered>>

ClosesWithoutWaiting ==
  /\ mpc = "waiting"
  /\ session' = (IF session = "dead" THEN "reaped" ELSE session) /\ To("closing")
  /\ UNCHANGED <<mode, consoleVars, greeterVars, registered, execed, sessionOpen>>

\* waitpid on the session child.
ReapSession ==
  /\ mpc = "waiting" /\ session = "dead"
  /\ session' = "reaped" /\ To("closing")
  /\ UNCHANGED <<mode, consoleVars, greeterVars, registered, execed, sessionOpen>>

\* pam_close_session and pam_end.
CloseSession ==
  /\ mpc = "closing"
  /\ registered' = FALSE /\ Leave("success")
  /\ UNCHANGED <<mode, consoleVars, greeterVars, session, execed, sessionOpen>>

\* The locals of greeter_login and run go: the socket, and the environment with
\* the logind session in it.
DropLocals ==
  /\ mpc = "leaving"
  /\ mpc' = "left" /\ registered' = FALSE /\ dOpen' = FALSE
  /\ UNCHANGED <<exit, bridgeVars, workerVars, toGreeter, toDaemon, gOpen, daemonVars>>
  /\ UNCHANGED <<mode, consoleVars, greeterVars, session, execed, sessionOpen>>

TextUnlessKeyboardFailed(bad) ==
  IF "kbd" \in bad THEN console
  ELSE [kbd |-> found.kbd, kd |-> IF "kd" \in bad THEN console.kd ELSE "text"]

\* Console::restore, from Drop: the keyboard as it was read, then KD_TEXT;
\* both are attempted whatever the other did.
Restored(bad) ==
  [kbd |-> IF "kbd" \in bad THEN console.kbd ELSE found.kbd,
   kd |-> IF "kd" \in bad THEN console.kd ELSE "text"]

\* The end of run drops _console; main exits with the code.
Exit ==
  /\ mpc = "left"
  /\ IF claimed THEN \E bad \in SUBSET {"kbd", "kd"} :
                        console' = Restored(bad) /\ failed' = bad
                ELSE UNCHANGED <<console, failed>>
  /\ mpc' = "exited" /\ UNCHANGED <<vars, exit>>
  /\ UNCHANGED <<mode, found, claimed, greeterVars, sessionVars, sessionOpen>>

DaemonGoesOn ==
  \/ ClaimConsole \/ SpawnGreeter \/ ReadStdin \/ ServeReturned \/ ReapTheRefused
  \/ AskAccount \/ KillGreeter \/ ReapGreeter \/ OpenSession \/ SpawnSession
  \/ ReapSession \/ CloseSession \/ DropLocals \/ Exit

-------------------------------------------------------------------------------
(* The rest of the machine. *)

\* The conversation, once there is a greeter to have it with.
Wire(action) == spawned /\ action /\ UNCHANGED mukaedVars

SigtermTakesGreeter == signalled /\ GreeterKilled

\* What runs on the console as the session draws, and takes the keyboard.
SessionDraws ==
  /\ session = "running"
  /\ console' \in Consoles
  /\ UNCHANGED <<vars, mpc, mode, exit, found, claimed, failed, greeterVars,
                 sessionVars, sessionOpen>>

SessionEnds ==
  /\ session = "running" /\ session' = "dead"
  /\ UNCHANGED <<vars, mpc, mode, exit, consoleVars, greeterVars, registered, execed,
                 sessionOpen>>

\* SIGKILL: every descriptor closes, nothing is dropped.
MukaedKilled ==
  /\ mpc \notin {"exited", "dead"}
  /\ mpc' = "dead" /\ dOpen' = FALSE /\ registered' = FALSE
  /\ dpc' = IF spawned /\ dpc # "returned" THEN "dead" ELSE dpc
  /\ UNCHANGED <<bridgeVars, workerVars, toGreeter, toDaemon, gOpen, result, script, at,
                 decided, failures, successes, heard>>
  /\ UNCHANGED <<mode, exit, consoleVars, greeterVars, session, execed, sessionOpen>>

\* The daemon, the greeter and the session are all over.
AllOver ==
  /\ mpc \in {"exited", "dead"} /\ (spawned => fpc = "exited") /\ session # "running"
  /\ UNCHANGED allVars

MNext ==
  \/ DaemonGoesOn
  \/ Wire(FaceActs(FaceStep)) \/ Wire(FaceActs(Unowed)) \/ Wire(WorkerStep)
  \/ Wire(GreeterExits) \/ Wire(GreeterKilled) \/ Wire(DaemonStep)
  \/ SessionDraws \/ SessionEnds \/ MukaedKilled
  \/ AllOver

\* Processes are scheduled and SIGTERM is delivered; nobody owes a keystroke,
\* a SIGKILL or the end of a session.
MFairness ==
  /\ WF_allVars(DaemonGoesOn)
  /\ WF_allVars(Wire(FaceActs(FaceStep))) /\ WF_allVars(Wire(WorkerStep))
  /\ WF_allVars(Wire(GreeterExits)) /\ WF_allVars(Wire(DaemonStep))
  /\ WF_allVars(Wire(SigtermTakesGreeter))

MSpec == MInit /\ [][MNext]_allVars /\ MFairness

-------------------------------------------------------------------------------
(* Properties. *)

\* "The greeter goes before the session comes up": no two processes draw to
\* one console, however the greeter and the daemon were scheduled.
OneDrawer == session # "none" /\ spawned => fpc = "exited" /\ reaped

\* "The close is paired": logind has the session for as long as its child is not
\* reaped and there is a daemon to wait for it.  "Anything else means no session
\* exists": a daemon that fails has no child and leaves nothing at logind, which may
\* have opened a session before the fork failed; one that succeeds waited for its
\* child and closed the session.
ExitTellsTheTruth ==
  /\ session \in {"running", "dead"} => registered \/ mpc = "dead"
  /\ mpc \in {"left", "exited"} =>
       /\ ~registered
       /\ session = IF exit = "success" THEN "reaped" ELSE "none"

\* "Exit 0 means a session was opened AND the child exec'd" (mukaed --help).
SuccessMeansExecd == mpc = "exited" /\ exit = "success" => execed

\* "The greeter is a TUI and the kernel console must keep drawing for it": no
\* greeter is on a console that went dark, unless it was found dark.
GreeterIsVisible ==
  spawned /\ fpc # "exited" => console.kd = "text" \/ found.kd = "graphics"

\* However run ends, a claimed console comes back as text with the keyboard it
\* was found with, each unless its own ioctl failed.
ConsoleGivenBack ==
  mpc = "exited" /\ claimed =>
    /\ "kd" \in failed \/ console.kd = "text"
    /\ "kbd" \in failed \/ console.kbd = found.kbd

\* "Reap the greeter so it cannot outlive the attempt": a greeter waited for,
\* killed first or not, is reaped; one left behind on an error finds out and goes.
GreeterDoesNotOutlive ==
  spawned /\ mpc \in {"mourning", "reaping", "exited"} ~>
    mpc = "dead" \/ (fpc = "exited" /\ (reaped \/ mpc = "exited"))

\* "Set when the session is started, cleared when it is reaped" (the doc of
\* Facts.session_owner and session_open).
SessionOpenIsTrue == session = "reaped" => ~sessionOpen
===============================================================================
