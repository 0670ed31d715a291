-------------------------------- MODULE Surface --------------------------------
(***************************************************************************)
(* The login surface as state a reconciler may hold: Key, Drivable, diff,  *)
(* is_converged and observe of mukae-spec/src/surface.rs.  A declaration,  *)
(* and an observation, is a function from the keys it has a value for; the *)
(* loop itself is another program's, and so is what its actions do.        *)
(***************************************************************************)
CONSTANT Uids

Keys == {"SessionOpen", "SessionOwner", "LoginsEnabled"}

Values == [SessionOpen |-> BOOLEAN, SessionOwner |-> Uids, LoginsEnabled |-> BOOLEAN]

\* What a key may be driven to by a loop.
Drivable == [SessionOpen |-> {FALSE}, SessionOwner |-> {}, LoginsEnabled |-> BOOLEAN]

Over(keys) == {f \in [keys -> UNION {BOOLEAN, Uids}] : \A k \in keys : f[k] \in Values[k]}

\* Desired, Observed: any of the keys, or all of them.
Surfaces == UNION {Over(keys) : keys \in SUBSET Keys}

\* diff: a declared key whose value was not observed to be the one wanted.
Drifts(want, have) ==
  {k \in DOMAIN want : k \notin DOMAIN have \/ have[k] # want[k]}

\* diff's verdict: Closeable, as opposed to NeedsHuman.
Closeable(want, k) == k = "LoginsEnabled" \/ (k = "SessionOpen" /\ ~want[k])

Actionable(want, have) == {k \in Drifts(want, have) : Closeable(want, k)}

IsConverged(want, have) == DOMAIN want # {} /\ Actionable(want, have) = {}

\* observe: no key of the environment can be read yet.
Observed == [k \in {} |-> FALSE]
===============================================================================
