---------------------------- MODULE MasterRequests ----------------------------
(***************************************************************************)
(* What the node remembers of the requests of the master API that change   *)
(* something: a client repeats one under the same X-Request-Id until it is *)
(* answered (withMasterIdempotency in cmd/node/main.go).                   *)
(*                                                                         *)
(* A key stands for actor, method, path and X-Request-Id.  A duplicate is  *)
(* answered without changing anything.                                     *)
(***************************************************************************)
EXTENDS Integers, FiniteSets

CONSTANTS Keys,        \* requests
          Room,        \* keys kept before old ones are looked for: 50000 in the code
          Retention,   \* time a key is kept for: 24 hours in the code
          MaxTime,     \* bound: clock
          MaxRuns,     \* bound: handlers of one key in a behaviour
          MaxRestarts  \* bound: restarts in a behaviour

ASSUME KeysAssumption == IsFiniteSet(Keys)
ASSUME CountsAssumption == {Room, Retention, MaxTime, MaxRuns, MaxRestarts} \subseteq Nat

VARIABLES
  now,       \* the clock
  seen,      \* masterIdemSeen: the time each remembered key was first seen, or Never
  began,     \* when the last handler of a key began in this process (history)
  runs,      \* handlers of each key so far (history)
  restarts

idemVars == <<seen, began, runs, restarts>>

Never == -1

IdemInit ==
  /\ now = 0
  /\ seen = [k \in Keys |-> Never]
  /\ began = [k \in Keys |-> Never]
  /\ runs = [k \in Keys |-> 0]
  /\ restarts = 0

Remembered == {k \in Keys : seen[k] # Never}

\* Mutant of Kept: a key is dropped one tick early.
KeptShorter(k) == seen[k] # Never /\ seen[k] > now - Retention

Kept(k) == seen[k] # Never /\ seen[k] >= now - Retention

\* Only a full map is pruned.
Pruned ==
  IF Cardinality(Remembered) > Room
    THEN [k \in Keys |-> IF Kept(k) THEN seen[k] ELSE Never]
    ELSE seen

\* The key is looked up and stored under one lock, before the handler runs.  It
\* stays, whatever becomes of the handler (no quorum, a full disk, a number taken).
Begin(k) ==
  /\ seen[k] = Never
  /\ runs[k] < MaxRuns /\ runs' = [runs EXCEPT ![k] = @ + 1]
  /\ seen' = [Pruned EXCEPT ![k] = now]
  /\ began' = [began EXCEPT ![k] = now]
  /\ UNCHANGED <<now, restarts>>

Tick ==
  /\ now < MaxTime /\ now' = now + 1
  /\ UNCHANGED idemVars

\* A restart of the node forgets the keys.
Forget ==
  /\ restarts < MaxRestarts /\ restarts' = restarts + 1
  /\ seen' = [k \in Keys |-> Never]
  /\ began' = [k \in Keys |-> Never]
  /\ UNCHANGED <<now, runs>>

-----------------------------------------------------------------------------

\* As long as the process lives, two handlers of one request begin more than the
\* retention apart, however full the map was in between (the prune of
\* withMasterIdempotency).
RunsAreApart ==
  [][\A k \in Keys : runs'[k] # runs[k] /\ began[k] # Never
                       => now > began[k] + Retention]_<<now, idemVars>>

=============================================================================
