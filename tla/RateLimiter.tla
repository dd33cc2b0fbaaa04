----------------------------- MODULE RateLimiter ------------------------------
(***************************************************************************)
(* The rate limiters of a node (simpleRateLimiter in cmd/node/main.go):    *)
(* each counts the requests of every caller within a minute of the clock,  *)
(* one for the paths that are sensitive and one for the rest.              *)
(***************************************************************************)
EXTENDS Integers

CONSTANTS Callers,  \* rateLimitKey: the user of a valid token, or the address
          Tiers,    \* the paths that share a limiter
          Minute    \* ticks of the clock in a window

ASSUME MinuteAssumption == Minute \in Nat \ {0}

VARIABLES
  limit,     \* requests a minute, as the node was started with
  windowAt,  \* the minute each limiter counts
  counts,    \* requests of each caller in that minute
  passes     \* requests this process let through in this tick and the age ones before (history)

limiterVars == <<limit, windowAt, counts, passes>>

NoCounts == [c \in Callers |-> 0]
NoPasses == [tier \in Tiers |-> [c \in Callers |-> [age \in 0 .. Minute - 1 |-> 0]]]

\* newSimpleRateLimiter
LimiterInit ==
  /\ windowAt = [tier \in Tiers |-> 0]
  /\ counts = [tier \in Tiers |-> NoCounts]
  /\ passes = NoPasses

LimiterReset ==
  /\ windowAt' = [tier \in Tiers |-> 0]
  /\ counts' = [tier \in Tiers |-> NoCounts]
  /\ passes' = NoPasses
  /\ UNCHANGED limit

\* Mutant of CountsNow: the window is one of its own for every tick.
CountsThisTick(tier, now) == NoCounts

\* A limiter whose minute has passed begins again from nothing.
CountsNow(tier, now) ==
  IF windowAt[tier] # now \div Minute THEN NoCounts ELSE counts[tier]

\* Allow: a request over the limit is counted too.
Allowed(tier, c, now) == CountsNow(tier, now)[c] + 1 =< limit[tier]

Count(tier, c, now) ==
  /\ windowAt' = [windowAt EXCEPT ![tier] = now \div Minute]
  /\ counts' = [counts EXCEPT ![tier] = [CountsNow(tier, now) EXCEPT ![c] = @ + 1]]
  /\ passes' = IF Allowed(tier, c, now) THEN [passes EXCEPT ![tier][c] =
                                                   [age \in 0 .. Minute - 1 |-> @[age] + 1]]
                                        ELSE passes
  /\ UNCHANGED limit

\* The clock goes on.
Age ==
  /\ passes' = [tier \in Tiers |-> [c \in Callers |-> [age \in 0 .. Minute - 1 |->
                  IF age = 0 THEN 0 ELSE passes[tier][c][age - 1]]]]
  /\ UNCHANGED <<limit, windowAt, counts>>

=============================================================================
