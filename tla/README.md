# A verification of mukae

mukae is a login manager in Rust: a daemon (`mukaed`) that owns the console and the
privileged half of a login, a greeter that shows a face to a person, three ways for the
two to talk, and a PAM-less environment (`NativeSeatEnv`) that reads the shadow file,
opens logind sessions and starts the session's program. This directory holds TLA+ models
of that code, the TLC configurations that check them, and TLAPS proofs.

Paths below are relative to `src/`. Modules keep the code's names (`pam_answer` is
`PamAnswer...`, `mint_proof` is `MintProof`); a call that the code answers with an error
and no change of state is a stuttering step, so it has no action.

## 1. The system

| Component | Code | State | Operations |
|---|---|---|---|
| NativeSeatEnv | `mukae-seat/src/lib.rs`, `mukae-spec/src/{capability,session,env}.rs`, `mukae-native/src/{lib,verify,logind}.rs` | live transactions by handle, the next handle; in each: user, uid, what is awaited, decision, authtok, environment, logind session | `pam_start`, `pam_next`, `pam_answer`, `pam_acct_mgmt`, `mint_proof`, `SeatCapability::mint`/drop, `start_session` (`pam_putenv`, `pam_open_session`, spawn), `pam_close_session`, `pam_end` |
| Bridge and face session | `mukae-spec/src/bridge.rs`, `mukae-greeter/src/{session,main}.rs`, `mukae-face/src/lib.rs` | two rendezvous channels, the prompt awaited, the verdict, focus, two text fields | `Session::pump`, `submit`, `handle`; `ConvSide::{ask,tell,finish}` |
| mukaed/greeter wire | `mukae-seat/src/ipc.rs` | a socket pair, one position on each side | `serve_observed` (daemon), `greeter_side` (worker thread of the greeter) |
| mukaed | `mukae-seat/src/bin/mukaed.rs` | where `run`/`greeter_login` has got to, the two children, the logind session, the exit code | claim, spawn the greeter, serve, ask the account, kill and reap, start, wait, close |
| Console claim | `mukae-seat/src/vt.rs` | keyboard and display mode, as found and as they are | `Console::claim`, `restore`, `Drop` |
| Privilege drop | `mukae-seat/src/spawn.rs` | the child's ids, groups, descriptors; a close-on-exec pipe | `prepare`, `spawn`, `drop_and_exec` |
| Introspection | `mukae/src/introspect.rs`, `mukae-seat/src/introspect.rs` | failures, successes, `session_open`/`session_owner` | `observe`, `session_started`, `session_ended` |
| greetd transport | `mukae-greetd/src/lib.rs`, `mukae-greeter/src/main.rs` | the worker's position, the prompt it asks, a half-made response | `converse`: CreateSession, PostAuthMessageResponse, StartSession, CancelSession |
| libpam authentication | `mukae-host/src/{authenticate,bridging_conv}.rs` | a PAM handle, an array of responses | `authenticate`, `bridging_conv` |
| HostSeatEnv | `mukae-host/src/{lib,conv,ffi}.rs` | PAM handles | one libpam call per `SeatEnv` method |
| Conversation driver, mock | `mukae-spec/src/{conversation,mock,session}.rs` | a step counter; the mock's transactions, its record of calls, the call told to fail | `Conversation::run`, `capability_from`, `start_session`, the `SeatEnv` methods of `MockSeatEnv` |
| Shadow entries | `mukae-native/src/{shadow,verify,lib}.rs` | one account's line of /etc/shadow, the day | `parse_line`, `usable_hash`, `verify`, `validity`, `account_validity`, `today_days` |
| Configuration | `mukae-seat/src/config.rs` | the config and where it came from | `load_with_source`, `SessionVar::parse`, `session_path_for`, `session_data_dirs_for`, `session_facts` |
| Surface | `mukae-spec/src/surface.rs` | none | `diff`, `is_converged`, `actionable`, `observe`, `Key::drivable` |
| Ids, coverage, Lisp authoring, queries | `mukae-spec/src/{ids,coverage}.rs`, `mukae-lisp/`, `mukae/src/lib.rs`, `mukae-greeter/src/mcp.rs` | none, or read-only | see PROJECT.json |

How they interact: `mukaed` claims a console, forks the greeter through `spawn` with one
end of a socket pair, and runs `serve_observed` over its `SeatEnv` and the other end. In
the greeter the main thread pumps a `Session` over a `Bridge`; a detached worker thread
holds the `ConvSide` and speaks one of three protocols outwards: to `mukaed` (`ipc.rs`), to
greetd, or to libpam in its own process. After the conversation `mukaed` asks the account,
kills and reaps the greeter, mints a proof, turns it into a `SeatCapability`, and
`start_session` opens a logind session and spawns the program; then it waits for it.

What is hard here, and what would make each component correct:

- **NativeSeatEnv** - callers may call in any order the types allow, over several
  transactions, while an administrator edits the files underneath and logind may still have
  a session for the pid. One authentication must buy at most one session, of the principal
  it proved, in the logind session created for it; sessions must neither leak nor be closed
  under another transaction; a decision must be final; an unreadable file must decide
  nothing.
- **Bridge and the transports** - four activities (person, face thread, worker thread, the
  other process) over two rendezvous channels and a socket; either process may die, the
  worker is detached and dies with its process, a timeout may race the late answer. Answers
  must reach the prompt they were submitted at, the verdict shown must be the verdict
  reached, leaving must not be counted as failing, and nobody may wait for ever.
- **mukaed** - two children that draw on the same console, early returns at every step.
  Never two drawers, truthful exit codes, a console handed back, no child waited for in vain.
- **Privilege drop** - a kernel that says yes and does less, a child that dies anywhere.
- **Shadow entries** - boundaries a day apart, sentinels, sums of numbers read from a file,
  a lock in front of a hash that stays. Only the last passphrase chosen may open an account
  and never a locked one, a term and its grace are served to the day, waiting never helps.

- **Configuration and the session's environment** - four writers over one map, two search
  paths and two lookups of an account that may be edited between them, two login paths that
  derive the console. A variable must have one writer, the paths must name one account, the
  VT must be one fact, and what is published must be what the session got.
- **Conversation driver** - a loop that returns from a dozen places with a transaction in
  hand. A session is earned once, walking away is neither a denial nor a leak, and the bound
  stops only what came to no verdict.
- **Surface** - a loop must never be told to open a session.

Every hazard, at its line, is in `PROJECT.json` with the properties that cover it.

## 2. Modules

```
LoginRight  <--refines--  SeatEnv  <--  SeatEnvProofs
            <--refines--  Conversation
Bridge  <--extends--  LoginWire  <--extends--  Mukaed  <--  MukaedProofs
        <--extends--  Greetd  <--  GreetdProofs
        <--extends--  PamConversation  <--  PamConversationProofs
Spawn   <--  SpawnProofs
Shadow  <--  ShadowProofs
SessionEnv  <--  SessionEnvProofs
Conversation, Surface (operators)  <--  SpecProofs
MC<module>: the instance TLC checks
```

**LoginRight** is the abstract promise: an attempt asks, is granted to one principal or
denied; a grant starts at most one session, as that principal, and is then over. No
prompts, no passphrases, no logind. Both environments of the repository are held to it: the native
one, and the mock under the driver, which the tests of everything else rely on.

**SeatEnv** is `NativeSeatEnv` with its callers. `txns`, `open`, `next` are its map and
counter; `shadow`, `passwd`, `readable`, `nologin` are the host's files (`Edit` is the
administrator); `registered`, `alive`, `owner`, `created` are logind's view, `ambient` the
session the daemon may itself have been run from; `verdict`, `caps`, `children` are what
callers hold and have started. A passphrase is a member of `Secrets`, and a shadow entry is
the one secret it accepts and what its ageing fields say today. Of an environment only
`XDG_SESSION_ID` is kept. `pam_putenv` happens before `pam_open_session` fails, as in the
code (`OpenFails`). `StartSession` consumes the capability on every path. `MintProof` takes the
uid its caller names and asks nothing else of the transaction than that it succeeded and still
holds its passphrase, as `mint_proof` does; that callers name the transaction's own
(`uid_for_handle`, a line above, in both logins and in `Conversation::run`) is a step of theirs,
`MintsForItsOwn`, and what `CapabilityIsBacked` says of a capability's uid holds for such
callers. That they ask the account first is Conversation's subject.

**Bridge** is the face: the rendezvous channels as the value a blocked sender offers, the
`Session`, the two fields. A field holds the set of prompts that were on screen while its
text was typed, which is all the properties need of a text. Tab focuses the masked field
and nothing focuses the visible one, as bound in the code. When no step comes it is because the
worker is gone (`PumpGone`) or `STEP_TIMEOUT` has passed (`PumpTimesOut`).

**LoginWire** adds the worker (`greeter_side`), the socket and the daemon
(`serve_observed`). The environment served is a script of what `pam_next` asks. Closing or
killing a process closes its end; a frame arrives whole or not at all (the encoding and the
64 KiB limit are left out). `PeerClosed` is the fact that `greeter_login` drops its copy of
the greeter's end before it serves.

**Mukaed** puts a `LoginWire` conversation inside one run of the daemon: the console, the
greeter process, the account check, SIGTERM and `waitpid`, the session child, the exit
code, and `MukaedKilled` (SIGKILL: descriptors close, nothing is dropped). The start of the
session is two steps, as it can fail between them: `OpenSession` leaves a session at logind,
`SpawnSession` forks, or fails with that session open, or has a child that died before its exec
and said nothing (`execed`). `DropLocals` is where a failure's session goes: the environment is
dropped. What the environment decides before that is a choice of outcome here; it is SeatEnv's
subject.

**Greetd** is the worker that speaks greetd's protocol. greetd is external: it answers any
request with what its protocol allows, refuses anywhere, or dies.

**PamConversation** is the worker that runs `pam_authenticate`, and the callback libpam
calls on it with a batch of messages. libpam is external: any batches, any outcome. `heap`
is the set of answers legible in the response array. Each is copied there from a plain `String`
(`into_wire`; a `Passphrase` has no `Drop`) that is freed as it is, unscrubbed. Those `String`s are
left out, and nothing is claimed of them.

**Spawn** is the forked child, syscall by syscall, with the kernel's half external:
a call may fail, `setuid` may report success having changed only some of the three ids, the
child may be killed at any point. `fds` and `kept` are the descriptor table and what is not
close-on-exec. The layout is any sequence of mappings, in any order: `dup2` clobbers, does
nothing from a number to itself (close-on-exec stays), and fails from a closed one. The status
pipe is one of the descriptors (`Wr`), so a mapping onto its number takes the child's way to
report, and `CanReport` is what the parent's end of file depends on. The one thing assumed is
that no mapping's source is the pipe, which is made after the list.

**Shadow** is one account's line, and the day. `Verdict` and `AccountValidity` are the code's
functions; `passwd`, `chage`, `usermod` and `userdel` are external and write the line as they
do on a real host. A field is an i64 or unset (an unparseable one is unset, as `parse_line`
has it), and sums wrap as in a release build (`Add`). `chosen` is the passphrase last chosen;
`good` and `asked` count, since then, the days the account was good and the days it was asked
to change; `fresh` says nobody has used `chage` since. SeatEnv takes the two verdicts of a
line as its input; Shadow is where they come from.

**SessionEnv** follows the environment of a session from the config file to the exec: the
layered settings, the console on both login paths, `session_env_for`, what
`pam_open_session` adds, and the passwd record that `prepare_inheriting` writes over it.
`env` maps each variable to the set of those who wrote it, so an overwrite is visible;
`path` and `dirs` keep their entries by position, with whose name and home were put in.
`passwd` is the account's record, `Edit` the administrator, and each lookup may also fail.
`facts` is what the introspection publishes. The conversation is one step here.

**Conversation** is `Conversation::run`, `capability_from` and `start_session` over the mock
environment, one action per call, `CallFails` being the call the test told to fail (the mock's
record of calls is left out). A run borrows the environment, so runs and starts follow one another;
a `SeatCapability` borrows nothing, so the caller may hold those of several conversations
(`caps`), run another meanwhile, and begin a session with any of them, in any order, or with one
whose transaction it has ended (`TransactionIsGone`). `h` is the handle being driven: the next
one for `run`, the capability's own for `start_session`.

**Surface** has no state of its own: a declaration is a function on the keys it names, and
`diff` is an operator on two of them. It has no run; `SpecProofs` proves theorems about it.

In each module the operators placed before a definition and named for a plausible slip
(`OpenSessionAdopting`, `CancelIsAFailure`, ...) are not used by the specification: they are
the mutants that `PROJECT.json` pairs with properties, each of which makes its property fail.

## 3. What TLC checks

| Run | Bounds | What it shows |
|---|---|---|
| `seat_env` | 2 users, 2 uids, 2 secrets, 2 transactions, 3 sessions, 1 edit | the transaction, capability and session invariants, finality, and that SeatEnv implements LoginRight |
| `mukaed` | scripts name/passphrase and name/message/code/passphrase, both modes, every console found, every process killed at any step | one drawer, exit codes, nothing left at logind by a failure, a visible greeter, the console given back, orphans; answers, verdicts, counters; neither side waits for one that is over |
| `spawn` | a user and root; nine descriptor layouts, clobbering and self-mapping ones among them | no program undropped, holding what nobody mapped, mis-wired in an orderly layout, or running after an error; `spawn` returns |
| `greetd` | 3 prompts | responses, only a scheduled session is a login, no mutual wait |
| `pam_conversation` | 3 prompts, batches of 2 | all responses or none, the array scrubbed, success reported last |
| `shadow` | days 4 to 6, fields -1, 0, 1, 127 or a day, an 8-bit word, ageing off from 3 | who opens an account, terms served to the day, waiting, changing |
| `session_env` | 11 config files, 4 records of the account, VTs 0, 1, 7 or none, 2 edits | one writer per variable, one account in both paths, one console, data dirs published as they are |
| `conversation` | 35 scripts, each call failing or none, 3 steps, 3 conversations | a session earned once, nothing left behind, the bound, and that it implements LoginRight |

Why these are enough: two transactions are what the interference properties are about (a
handle, a session or a capability of the one used by the other); three sessions leave room
for one the process was started in and two of its own; one edit at any point is what stale
state needs, because every property compares at most two reads. Four prompts let a visible
answer follow a visible one, which is what `AnswersReachTheirPrompt` needs of what was
typed, and a message come between. A batch of two lets one message fail after another was answered. Three days hold a passphrase's term of
a day, a grace of a day and the day after; the fields take each sentinel, both sides of each
comparison, and 127, which leaves the 8-bit word when added to a day; its proofs drop all of
these bounds. The config files of `session_env` are one for each thing a file can get right or wrong (a VT, VT 0,
a greeter, each placeholder, no data dirs, a free name, a NUL, a reserved, malformed or unknown
name), and two edits put one before and one between its two lookups; its proofs drop these
bounds. Three steps let a script of `conversation` come to its verdict one step before the
bound, at it, and after it; three conversations let two rights be held while a third is earned,
and used in either order. The layouts of `Spawn` are the three the callers build and one for each
thing an order can get wrong: a source clobbered, a mapping moved on, a target filled twice, a
number mapped onto itself, the status pipe's number taken, a closed source; its proofs drop the
bound. Every run
explores its whole state space.

Deadlock is checked in all runs but two: `seat_env`, whose transactions, sessions and edits
are bounded, so that it may use all of them up, and `shadow`, which has no line left to
change after `userdel` on its last day; the other modules have an explicit terminal
step (`Over`, `AllOver`, `Done`), so that a state in which somebody still waits is reported.

**Fairness.** `LoginWire` and `Mukaed` assume weak fairness of the face thread, the worker
thread, the end of the greeter's `main` and the daemon: runnable threads of an operating
system are scheduled. No fairness for the person, for `STEP_TIMEOUT`, for a kill, or for the end of a session.
`Mukaed` adds that a signalled process is eventually terminated. `Spawn` assumes the child
and the parent each go on. `Greetd`, `PamConversation`, `SeatEnv`, `Shadow`, `SessionEnv` and
`Conversation` state safety only and assume none; what they say about waiting is in the
deadlock check and in `NobodyWaitsForBoth`. `FaceLearnsOfTheEnd` asks that the face stops
waiting however `serve_observed` ends, a SIGKILL included, and no fairness is given to
`PumpTimesOut`: two minutes of silence do pass, but what ends the wait is the worker that reads the
end of the socket. The exception is that a worker blocked on a
prompt learns of a killed daemon only from the person's answer, who owes none.

**Where the code and its words differ.** Four runs are expected to fail, each on a sentence of
the repository that the code does not keep:

- `mukaed_session_open` - `session_open` is never cleared: `session_ended` is called only
  by tests, against the field's doc. This is a bug of the introspection.
- `greetd_cancel` - StartSession answered with an error leaves the session uncancelled,
  which the comment on the other error path says makes a retry be refused.
- `login_wire_typed` - text typed into the masked field during the visible prompt (after
  Tab) is sent with the next secret answer.
- `mukaed_exit` - a session's child killed before its exec closes the status pipe as an exec
  does; `spawn` returns Ok and mukaed exits 0, of which its help says that the child exec'd.

Others were met on the way and have no run:

- `mukae-seat/src/bin/mukaed.rs:646`: the session PATH published is rendered for no account, before
  anybody logged in, and lacks the per-user entries that the session's PATH has; its setter is to
  "Record the resolved session PATH" (`introspect.rs:152`).
- `mukae-seat/src/bin/mukaed.rs:645`: without a VT no console is claimed and the session is on no
  seat, but `seat0` is published, against `introspect.rs:61` and `introspect.rs:144`.
- `mukae-seat/src/vt.rs:122`: a console that a crash left in graphics mode stays dark under the
  greeter, for a text claim changes nothing; the comment at the claim (`mukaed.rs:619`) says that the
  kernel console must keep drawing. `GreeterIsVisible` says what the code does keep.
- `mukae-host/src/bridging_conv.rs:209`: the `String` an answer is copied from (`capability.rs:32`
  and `74`) is freed unscrubbed, on success and on failure, while the comments have the plaintext
  live only as that `String` (`bridging_conv.rs:206`) and the scrubbing end its being legible in the
  heap (`bridging_conv.rs:99`). `ResponsesAreScrubbed` says what the code does keep: the array.
  (`capability.rs:29` names the type that would scrub as a later step.)
- `mukae-seat/src/ipc.rs:119`, "the face must be told rather than left waiting" of a daemon that
  went away: one killed while a prompt is on screen goes unnoticed until the person answers,
  because the worker is in `ask` and reads no socket. `FaceLearnsOfTheEnd` leaves that case out.
- `mukae-seat/src/spawn.rs:55`, end of file "cannot be forged by a child that died before writing":
  a child killed before `execve` closes the pipe as a successful exec does, and `spawn` returns Ok
  (what `mukaed_exit` shows at the daemon).
- `mukae-seat/src/spawn.rs:431`, a `read` cut short by a signal is reported as `ForkFailed`, while the
  child may yet exec. The daemon installs no handler, so no read of it is cut short, and the case is
  left out.
- `mukae-seat/src/vt.rs:57`, dropping the console "restores what was found": `restore` always sets
  text mode, whatever the console was in.
- `mukae-seat/src/lib.rs:91`, the passphrase is held only until the verification: the code holds it
  until `mint_proof` or `pam_end`. `MintProof` relies on it, and the model keeps what the code does.
- `mukae-seat/src/config.rs:32`, "A broken config must not cost you the seat", holds of the loader
  only: a config that says `vt: 0` is refused by `run`, even where `--vt` would override it,
  and a NUL in a value of `session_env` loads and then makes every spawn fail.
- `session_path` knows `{user}` and not `{home}`, which stays in PATH as it is written; the two
  renderers are documented to share their rules (`config.rs:338`).
- A conversation of `Conversation::run` that ends in an error leaves its transaction open under a
  handle the caller was never told (`NothingIsLeftBehind` says so explicitly).
- `Surface`: `Verdict::Blind` is never produced, and with the `observe` there is a declaration that
  a loop can act on is acted on at every pass (theorem `UnreadNeverConverges`).

## 4. What TLAPS proves

The proofs hold for every value of the constants that satisfies the named assumptions.

**SeatEnvProofs** (from `SeatAssumption`: the initial files are well typed, `None` is no
user, uid or secret, the bounds are naturals) proves the type invariant, the five safety
invariants, both action properties, and the refinement of `LoginRight`. The safety invariants
are not inductive by themselves. `IInv` adds four parts:

- `TxnsAreCoherent` - the flags of a transaction agree, and an ended one is blank: without
  it an undecided transaction could hold a token;
- `SessionsAreExclusive` - no two transactions hold one session: without it closing one
  would take a session from under the other, against `SessionsAreHeld`;
- `NothingBeforeStart` - a handle not yet issued was neither judged nor paid for: without it
  `PamStart` would inherit an old verdict or capability;
- `PaidOnce` - a capability, and a child, used up the token they came from: this is what
  makes `OneSessionPerLogin` inductive.

There is one lemma per action or group of actions that change the same variables
(`OpenSessionIInv`, `LetGoIInv`, ...). The refinement shows that each step moves at most
one attempt, by one of LoginRight's five actions (`MoveIsAStep`), and that all others stay put.

**SpawnProofs** (from `SpawnAssumption`: numbers are naturals, and no mapping's source is the
status pipe's) proves the type invariant and the three safety invariants. `IInv` says what the child has given up by the step it has got to
(`DropSoFar`), that a child that wrote its reason is gone (`LastWords`), and what its
descriptor table is between the calls of `dup2`: for any layout (`LaidOut`: a number a mapping
has filled holds what some source was at the fork, any other what it was itself), and for one in
order (`LaidOutInOrder`: each mapping done stays done). `ProgramHoldsItsOwn` has the same two
halves: of any layout, that a program holds nothing of the daemon's that the layout does not
name; of one that satisfies `Orderly`, which nothing in `spawn` enforces and its callers keep,
that it holds everything it names, in place.

**ShadowProofs** (from `ShadowAssumption`: days are positive i64 that stay below the word
with `NeverAges` added, and fields are i64 or unset; `AbsentAssumption`: no line is none)
proves the type invariant and all four properties the run checks. `NeverBetterByWaiting` and
`ChangeRecovers` follow from the types and one lemma each about `Validity`
(`LaterIsNoBetter`, `ChangedTodayIsGood`). The other two need `IInv`, which adds
`HashIsChosen` (whatever hash stands behind a lock is that of the last passphrase chosen)
and `TermSoFar` (how many days of the term and of the grace have gone, by the fields of the
line, while it has not expired). `DueOfADay` shows that the due day of a passphrase chosen on
a real day cannot wrap; only the grace can, and `TermsAreServed` says what holds then.

**SessionEnvProofs** (from `SessionEnvAssumption`: a file names the two typed variables and the
two placeholders only, which is what the loader's types accept) proves all four properties the
run checks, for any files, names, accounts and number of edits. `IInv` adds to
`SearchPathsNameOneAccount` what makes the rest inductive: `ConfigIsSound` (an accepted config
sets no reserved variable), `WritersKeepToTheirOwn` (by the step the daemon has got to, who can
have written which variable), `ConsoleSoFar` (what the VT has been told to whom), `NothingYet`
and `FactsAreFour` (what is still blank), `IdentitySet` and `DirsArePublished`. The part about
one account holds because the two paths come from one lookup, and no later edit touches them.

**MukaedProofs** (from `BridgeAssumption` and `WireAssumption`: a script is a sequence of prompt
styles and messages) is in two layers. The first is about `LoginWire` alone and proves its type
invariant, `AnswersReachTheirPrompt` and `VerdictsAgree`. What makes them inductive is that the
four activities take turns, which no single one of them enforces; `WireInv` says it place by
place:

- `Turns` - while the worker is at a prompt the socket is empty both ways and the daemon is at
  that same prompt, waiting or dead;
- `ToRead`, `ToTell` - what is in flight: towards the daemon one frame at most, for its
  current prompt; towards the greeter messages, and behind them the last thing the daemon did;
- `SocketEnds`, `Offers` - who holds which end, and what a worker can be offering, by where it is;
- `FaceFollows` - a face with a prompt on screen, or an answer in hand, has the worker's prompt;
- `VisibleField` - the visible field holds nothing typed at another prompt. The masked one may,
  which is the divergence `login_wire_typed` shows;
- `Counted` - a login is counted once, when it is over, and a face that says Abandoned has left
  nothing in the socket that the daemon could count.

The second layer is about `Mukaed`, whose steps are steps of the conversation or of the daemon
around it. There `IInv` adds `NoConversation` (before the greeter is started the conversation is
in its initial state, and if none is started there is never anything heard or counted),
`DaemonSoFar` (what there is at logind, as a child and as an exit code by the step the daemon has
got to; that a failed fork leaves a session open is in it), `GreeterFirst` (the greeter is reaped
before there is a session) and `ConsoleSoFar`. It proves the four safety properties of the daemon and, with the first layer's
lemmas reused as they are, that the conversation keeps its own inside the daemon
(`LoginIsSafeInMukaed`).

**GreetdProofs** (from `BridgeAssumption`; nothing is assumed of greetd but what the actions say)
proves all four properties the run checks, for any number of prompts. `IInv` is again about
turns: which request or response can be in flight by where the worker is and what state
greetd's session is in (`Turns`, and `Requests` for the requests greetd may still read when the
worker is gone), what is offered to the face, and what an outcome on the screen says of
greetd's session (`Outcomes`). `NobodyWaitsForBoth` is read off `Turns`: a request is never
dropped, and is answered once.

**PamConversationProofs** (from `BridgeAssumption` and `ConversationAssumption`: the bound on a
batch is a natural) proves the type invariant and the three safety properties, for any number of
prompts and batches of any length. `ResponsesAreScrubbed` is about the array made for
libpam and not about the `String`s the answers came in. `IInv` adds that a call being served has answered a prefix of
its messages, each answer fitting its message (`CallSoFar`), and that success is offered only
when the handle is ended (`SuccessSoFar`).

**SpecProofs** holds what is proved of `mukae-spec`. Of **Conversation** (from its
`ConversationAssumption`: scripts are sequences of the four kinds of step, with one of the four
account verdicts or none) it proves the type invariant, the three safety properties, and that it
implements `LoginRight`, for all scripts, plans, bounds and numbers of conversations.
`EarnedOnce` and the refinement are of a caller that keeps rights and uses them in any order, so
the invariant is about all of them at once: `Granted` says of each capability held that its
conversation authenticated, on a completed transaction, and that `start_session` runs with one of
them; `Paid` that each session is of a conversation that authenticated, whose capability is gone,
and of no other's. `OutcomesSoFar` says that a conversation has no outcome before it is over,
`WalkedSoFar` what became of those left, and `StepsSoFar` that the loop's counter is the
mock's cursor and everything before it asked or told something. In the refinement a conversation
is asking until `run` has an outcome, granted while its capability is held, denied while a refused
transaction stays open, and over after that; a step moves one at most (`MoveIsAStep`), a step of
one conversation leaves the rights of the others as they are (`OthersStay`), and only `Forks`
spends.

Of **Surface** it proves of `diff`, for every set of uids, that no action it names is one the key
forbids (`ActionsAreDrivable`), that what cannot be
read never converges (`UnreadNeverConverges`) and that what waits for a human does not block
(`WaitingIsConverged`).

**What is proved and what is only checked.** Every invariant and action property of a passing run,
and both refinements, is stated by a theorem. TLC finds the inductive invariants to hold on the
instances of the runs as well. The type invariants are part of
their `IInv` and are proved, and not listed in the runs. Only model-checked are the four
liveness properties (`GreeterDoesNotOutlive`, `FaceLearnsOfTheEnd`, `DaemonOutlivesTheGreeter`,
`SpawnReturns`), which rest on fairness and are outside the prover's reach, and the absence of
deadlock.

## 5. What is not modelled

`HostSeatEnv` (it does not implement the `SeatEnv` trait, and no binary constructs it: there is
no caller to model it with). Hashing, timing ballast, frame encoding, PAM's own modules,
painting, key decoding and yaml are abstracted to the outcome the callers act on. Ids and
coverage tables, the Lisp front end and the read-only queries keep no state that a step could
get wrong. Of the mock, the reads that keep no state (`resolve_principal`,
`enumerate_principals`, `clock`) and `pam_chauthtok`. Which handle a caller gives
`capability_from` is not in the code: `Outcome::Authenticated` names none, and the model takes
the caller to give the right one, as the tests do. What acting on a `Surface` drift does is not in
the code either: it names the action, and nothing performs it.

## 6. Plan

Done: the modules of section 2, and proofs of all their safety properties and both refinements.

1. `Mukaed` over `SeatEnv` instead of a choice of outcomes, so that the exit code and the
   logind session are tied to the transaction that paid for them.
2. `ExitTellsTheTruth` and `OneDrawer` as properties of one abstract run of a daemon, which
   `Mukaed` would be shown to implement.
