---------------------------- MODULE MasterApiProofs ---------------------------
(***************************************************************************)
(* The safety of MasterApi for every set of callers, tokens and requests   *)
(* and every bound.  Its three parts meet in the steps of a request and    *)
(* keep state of their own: each has its inductive invariant.              *)
(***************************************************************************)
EXTENDS MasterApi, TLAPS

-----------------------------------------------------------------------------
(* The keys of the master API *)

(***************************************************************************)
(* A handler that began within the retention is still remembered, at the   *)
(* very time it began at: this is what the prune of a full map must keep.  *)
(***************************************************************************)
IdemInv ==
  /\ now \in Nat
  /\ seen \in [Keys -> Int] /\ began \in [Keys -> Int] /\ runs \in [Keys -> Nat]
  /\ \A k \in Keys : began[k] # Never /\ now =< began[k] + Retention => seen[k] = began[k]

LEMMA PruneKeepsTheYoung ==
  ASSUME IdemInv, NEW k \in Keys, began[k] # Never, now =< began[k] + Retention
  PROVE  Pruned[k] = began[k]
  <1>1. seen[k] = began[k] /\ Kept(k)
    BY CountsAssumption DEF IdemInv, Kept
  <1> QED
    BY <1>1 DEF Pruned, IdemInv

LEMMA PrunedType == IdemInv => Pruned \in [Keys -> Int]
  BY DEF IdemInv, Pruned, Never

LEMMA BeginKeepsIdem ==
  ASSUME IdemInv, NEW k, Begin(k)
  PROVE  /\ IdemInv'
         /\ \A l \in Keys : runs'[l] # runs[l] /\ began[l] # Never
                              => now > began[l] + Retention
  <1>1. /\ seen' = [Pruned EXCEPT ![k] = now] /\ began' = [began EXCEPT ![k] = now]
        /\ runs' = [runs EXCEPT ![k] = @ + 1] /\ now' = now /\ seen[k] = Never
    BY DEF Begin
  <1>2. \A l \in Keys : runs'[l] # runs[l] => l = k
    BY <1>1 DEF IdemInv
  <1>3. \A l \in Keys : l # k => seen'[l] = Pruned[l] /\ began'[l] = began[l]
    BY <1>1, PrunedType DEF IdemInv
  <1>4. \A l \in Keys : l = k => seen'[l] = now /\ began'[l] = now
    BY <1>1, PrunedType DEF IdemInv
  <1>5. \A l \in Keys : began'[l] # Never /\ now =< began'[l] + Retention
                          => seen'[l] = began'[l]
    BY <1>3, <1>4, PruneKeepsTheYoung
  <1>6. seen' \in [Keys -> Int] /\ began' \in [Keys -> Int] /\ runs' \in [Keys -> Nat]
    <2>1. now \in Int /\ Pruned \in [Keys -> Int] /\ began \in [Keys -> Int]
      BY PrunedType DEF IdemInv
    <2>2. seen' \in [Keys -> Int] /\ began' \in [Keys -> Int]
      BY <1>1, <2>1
    <2>3. runs \in [Keys -> Nat] => runs' \in [Keys -> Nat]
      <3>1. CASE k \in Keys
        BY <1>1, <3>1
      <3>2. CASE k \notin Keys
        BY <1>1, <3>2
      <3> QED
        BY <3>1, <3>2
    <2> QED
      BY <2>2, <2>3 DEF IdemInv
  <1>7. \A l \in Keys : l = k /\ began[l] # Never => now > began[l] + Retention
    BY <1>1, CountsAssumption DEF IdemInv
  <1> QED
    BY <1>1, <1>2, <1>5, <1>6, <1>7 DEF IdemInv

\* Only Mark begins a handler; a kill and the clock leave the invariant true.
LEMMA IdemNext ==
  ASSUME IdemInv, [Next]_vars
  PROVE  /\ IdemInv'
         /\ \A l \in Keys : runs'[l] # runs[l] /\ began[l] # Never
                              => now > began[l] + Retention
  <1>1. ASSUME UNCHANGED <<now, idemVars>>
        PROVE  IdemInv' /\ \A l \in Keys : runs'[l] = runs[l]
    BY <1>1 DEF IdemInv, idemVars
  <1>2. ASSUME NEW s \in Slots, Mark(s), ~UNCHANGED <<now, idemVars>>
        PROVE  Begin(KeyOf(slots[s].ask))
    BY <1>2 DEF Mark
  <1>3. ASSUME Kill
        PROVE  IdemInv' /\ \A l \in Keys : runs'[l] = runs[l]
    BY <1>3 DEF Kill, Forget, IdemInv, Never
  <1>4. ASSUME Pass
        PROVE  IdemInv' /\ \A l \in Keys : runs'[l] = runs[l]
    BY <1>4, CountsAssumption DEF Pass, Tick, IdemInv, idemVars
  <1>5. ASSUME [Next]_vars
        PROVE  \/ UNCHANGED <<now, idemVars>>
               \/ \E s \in Slots : Mark(s)
               \/ Kill
               \/ Pass
    BY <1>5 DEF Next, vars, Arrive, Authorize, DoWork, DoIssue, DoRevoke, DoBind, Start, StartFails,
                Command
  <1> QED
    BY <1>1, <1>2, <1>3, <1>4, <1>5, BeginKeepsIdem

LEMMA IdemStart == Init => IdemInv
  BY CountsAssumption DEF Init, IdemInit, IdemInv, Never

-----------------------------------------------------------------------------
(* The rate limiters *)

(***************************************************************************)
(* How many ticks of the running minute have passed.  What was let through *)
(* in them is bounded by the count of the window; what was let through     *)
(* before them, and is not a minute old, by the limit alone.               *)
(***************************************************************************)
Elapsed == now % Minute
Ages == 0 .. Minute - 1

LimiterTypes ==
  /\ now \in Nat
  /\ limit \in [Tiers -> Nat]
  /\ windowAt \in [Tiers -> Nat]
  /\ counts \in [Tiers -> [Callers -> Nat]]
  /\ passes \in [Tiers -> [Callers -> [Ages -> Nat]]]

Bounded(tier, c) ==
  LET n == passes[tier][c]
  IN  /\ \A a, b \in Ages : a =< b => n[a] =< n[b]
      /\ n[Elapsed] =< CountsNow(tier, now)[c]
      /\ n[Elapsed] =< limit[tier]
      /\ \A a \in Ages : n[a] =< n[Elapsed] + limit[tier]

LimiterInv ==
  /\ LimiterTypes
  /\ \A tier \in Tiers : windowAt[tier] =< now \div Minute
  /\ \A tier \in Tiers, c \in Callers : Bounded(tier, c)

\* A minute ends, or the next tick is of the same one.
LEMMA TheNextTick ==
  ASSUME NEW n \in Nat
  PROVE  /\ n % Minute \in Ages /\ n \div Minute \in Nat
         /\ \/ /\ n % Minute = Minute - 1
               /\ (n + 1) % Minute = 0 /\ (n + 1) \div Minute = (n \div Minute) + 1
            \/ /\ n % Minute < Minute - 1
               /\ (n + 1) % Minute = (n % Minute) + 1 /\ (n + 1) \div Minute = n \div Minute
  BY MinuteAssumption, SMTT(60) DEF Ages
\* A request is counted for its caller; it is let through only within the limit.
LEMMA CountKeepsLimits ==
  ASSUME LimiterInv, NEW tier, NEW c, Count(tier, c, now), now' = now
  PROVE  LimiterInv'
  <1> DEFINE ok == Allowed(tier, c, now)
             window == CountsNow(tier, now)
  <1>1. /\ windowAt' = [windowAt EXCEPT ![tier] = now \div Minute] /\ limit' = limit
        /\ counts' = [counts EXCEPT ![tier] = [window EXCEPT ![c] = @ + 1]]
        /\ passes' = IF ok THEN [passes EXCEPT ![tier][c] = [age \in 0 .. Minute - 1 |-> @[age] + 1]]
                           ELSE passes
    BY DEF Count
  <1>2. Elapsed' = Elapsed /\ Elapsed \in Ages /\ now \div Minute \in Nat
    BY TheNextTick DEF Elapsed, LimiterInv, LimiterTypes
  <1>3. tier \in Tiers => window \in [Callers -> Nat]
    BY DEF CountsNow, NoCounts, LimiterInv, LimiterTypes
  <1>4. /\ windowAt' \in [Tiers -> Nat]
        /\ \A u \in Tiers : windowAt'[u] = IF u = tier THEN now \div Minute ELSE windowAt[u]
    BY <1>1, <1>2 DEF LimiterInv, LimiterTypes
  <1>5. /\ counts' \in [Tiers -> [Callers -> Nat]]
        /\ \A u \in Tiers, d \in Callers :
             counts'[u][d] = IF u # tier THEN counts[u][d]
                             ELSE IF d = c THEN window[d] + 1 ELSE window[d]
    <2>1. counts \in [Tiers -> [Callers -> Nat]]
      BY DEF LimiterInv, LimiterTypes
    <2>2. /\ tier \in Tiers => [window EXCEPT ![c] = @ + 1] \in [Callers -> Nat]
          /\ \A d \in Callers : tier \in Tiers =>
               [window EXCEPT ![c] = @ + 1][d] = IF d = c THEN window[d] + 1 ELSE window[d]
      <3>1. CASE c \in Callers
        BY <1>3, <3>1
      <3>2. CASE c \notin Callers
        BY <1>3, <3>2
      <3> QED
        BY <3>1, <3>2
    <2> QED
      BY <1>1, <2>1, <2>2
  <1>6. /\ passes' \in [Tiers -> [Callers -> [Ages -> Nat]]]
        /\ \A u \in Tiers, d \in Callers, a \in Ages :
             passes'[u][d][a] = IF ok /\ u = tier /\ d = c THEN passes[u][d][a] + 1
                                ELSE passes[u][d][a]
    <2>1. passes \in [Tiers -> [Callers -> [Ages -> Nat]]]
      BY DEF LimiterInv, LimiterTypes
    <2>2. ASSUME tier \in Tiers, c \in Callers
          PROVE  /\ [age \in Ages |-> passes[tier][c][age] + 1] \in [Ages -> Nat]
                 /\ \A a \in Ages : [age \in Ages |-> passes[tier][c][age] + 1][a]
                                    = passes[tier][c][a] + 1
      BY <2>1, <2>2
    <2>3. CASE ok /\ tier \in Tiers /\ c \in Callers
      <3>1. passes' = [passes EXCEPT ![tier] = [passes[tier] EXCEPT ![c] =
                         [age \in Ages |-> passes[tier][c][age] + 1]]]
        BY <1>1, <2>1, <2>3 DEF Ages
      <3> QED
        BY <2>1, <2>2, <2>3, <3>1
    <2>4. CASE ~(ok /\ tier \in Tiers /\ c \in Callers)
      <3>1. passes' = passes
        BY <1>1, <2>1, <2>4
      <3> QED
        BY <2>1, <2>4, <3>1
    <2> QED
      BY <2>3, <2>4
  <1>7. \A u \in Tiers, d \in Callers :
          (CountsNow(u, now)')[d] = IF u = tier /\ d = c THEN CountsNow(u, now)[d] + 1
                                  ELSE CountsNow(u, now)[d]
    BY <1>4, <1>5 DEF CountsNow, NoCounts
  <1>8. ASSUME NEW u \in Tiers, NEW d \in Callers
        PROVE  Bounded(u, d)'
    <2> DEFINE n == passes[u][d]
    <2>1. /\ \A a, b \in Ages : a =< b => n[a] =< n[b]
          /\ n[Elapsed] =< CountsNow(u, now)[d] /\ n[Elapsed] =< limit[u]
          /\ \A a \in Ages : n[a] =< n[Elapsed] + limit[u]
          /\ limit[u] \in Nat /\ \A a \in Ages : n[a] \in Nat
      BY DEF LimiterInv, Bounded, LimiterTypes
    <2>2. CASE ok /\ u = tier /\ d = c
      <3>1. CountsNow(u, now)[d] + 1 =< limit[u] /\ CountsNow(u, now)[d] \in Nat
        BY <1>3, <2>2 DEF Allowed
      <3>2. /\ \A a \in Ages : passes'[u][d][a] = n[a] + 1
            /\ (CountsNow(u, now)')[d] = CountsNow(u, now)[d] + 1 /\ limit'[u] = limit[u]
        BY <1>1, <1>6, <1>7, <2>2
      <3>3. Ages' = Ages
        BY DEF Ages
      <3> HIDE DEF n
      <3> QED
        BY <1>2, <2>1, <3>1, <3>2, <3>3 DEF Bounded
    <2>3. CASE ~(ok /\ u = tier /\ d = c)
      <3>1. CountsNow(u, now)[d] \in Nat
        BY DEF CountsNow, NoCounts, LimiterInv, LimiterTypes
      <3> QED
        BY <1>1, <1>2, <1>6, <1>7, <2>1, <2>3, <3>1 DEF Bounded
    <2> QED
      BY <2>2, <2>3
  <1>9. \A u \in Tiers : windowAt'[u] =< now' \div Minute
    BY <1>2, <1>4 DEF LimiterInv
  <1> QED
    BY <1>1, <1>4, <1>5, <1>6, <1>8, <1>9 DEF LimiterInv, LimiterTypes

\* The clock goes on: within a minute the counts stay, at its end what was let
\* through in it becomes what was let through before.
LEMMA PassKeepsLimits ==
  ASSUME LimiterInv, Pass
  PROVE  LimiterInv'
  <1>1. /\ now' = now + 1 /\ UNCHANGED <<limit, windowAt, counts>>
        /\ passes' = [tier \in Tiers |-> [c \in Callers |-> [age \in Ages |->
                        IF age = 0 THEN 0 ELSE passes[tier][c][age - 1]]]]
    BY DEF Pass, Tick, Age, Ages
  <1>2. LimiterTypes'
    <2>1. \A a \in Ages : a # 0 => a - 1 \in Ages
      BY MinuteAssumption DEF Ages
    <2>2. passes' \in [Tiers -> [Callers -> [Ages -> Nat]]]
      BY <1>1, <2>1 DEF LimiterInv, LimiterTypes
    <2> QED
      BY <1>1, <2>2 DEF LimiterInv, LimiterTypes
  <1>3. ASSUME NEW u \in Tiers
        PROVE  /\ windowAt'[u] =< now' \div Minute
               /\ \A c \in Callers : Bounded(u, c)'
    <2>1. /\ windowAt[u] \in Nat /\ windowAt[u] =< now \div Minute /\ now \in Nat
          /\ limit[u] \in Nat
      BY DEF LimiterInv, LimiterTypes
    <2>2. 0 \in Ages /\ Ages' = Ages /\ Minute - 1 \in Ages
      BY MinuteAssumption DEF Ages
    <2>3. ASSUME NEW c \in Callers
          PROVE  Bounded(u, c)'
      <3> DEFINE n == passes[u][c]
                 m == passes'[u][c]
      <3>1. /\ \A a, b \in Ages : a =< b => n[a] =< n[b]
            /\ n[Elapsed] =< CountsNow(u, now)[c] /\ n[Elapsed] =< limit[u]
            /\ \A a \in Ages : n[a] =< n[Elapsed] + limit[u]
            /\ \A a \in Ages : n[a] \in Nat
        BY DEF LimiterInv, Bounded, LimiterTypes
      <3>2. \A a \in Ages : m[a] = IF a = 0 THEN 0 ELSE n[a - 1]
        BY <1>1
      <3>3. \A a, b \in Ages : a =< b => m[a] =< m[b]
        BY <3>1, <3>2, MinuteAssumption DEF Ages
      <3>4. CASE Elapsed = Minute - 1 /\ Elapsed' = 0 /\ now' \div Minute = (now \div Minute) + 1
        <4>1. CountsNow(u, now)' = NoCounts
          BY <1>1, <2>1, <3>4, TheNextTick DEF CountsNow, NoCounts
        <4>2. \A a \in Ages : m[a] =< limit[u]
          BY <2>1, <3>1, <3>2, <3>4, MinuteAssumption DEF Ages
        <4>3. m[0] = 0
          BY <2>2, <3>2
        <4> HIDE DEF m
        <4> QED
          BY <1>1, <2>1, <2>2, <3>3, <3>4, <4>1, <4>2, <4>3 DEF Bounded, NoCounts, m
      <3>5. CASE /\ Elapsed < Minute - 1 /\ Elapsed' = Elapsed + 1
                 /\ now' \div Minute = now \div Minute
        <4>1. CountsNow(u, now)' = CountsNow(u, now)
          BY <1>1, <3>5 DEF CountsNow, NoCounts
        <4>2. Elapsed \in Ages /\ Elapsed' \in Ages /\ Elapsed' # 0
          <5>1. Elapsed \in Ages
            BY <2>1, TheNextTick DEF Elapsed
          <5> QED
            BY <3>5, <5>1, MinuteAssumption DEF Ages
        <4>3. m[Elapsed'] = n[Elapsed]
          BY <3>2, <3>5, <4>2 DEF Ages
        <4>4. \A a \in Ages : m[a] =< m[Elapsed'] + limit[u]
          BY <2>1, <3>1, <3>2, <4>2, <4>3, MinuteAssumption DEF Ages
        <4> HIDE DEF m, n
        <4> QED
          BY <1>1, <2>2, <3>1, <3>3, <4>1, <4>3, <4>4 DEF Bounded, m
      <3> QED
        BY <1>1, <2>1, <3>4, <3>5, TheNextTick DEF Elapsed
    <2>4. windowAt'[u] =< now' \div Minute
      BY <1>1, <2>1, TheNextTick
    <2> QED
      BY <2>3, <2>4
  <1> QED
    BY <1>2, <1>3 DEF LimiterInv

LEMMA ResetKeepsLimits ==
  ASSUME windowAt' = [tier \in Tiers |-> 0], counts' = [tier \in Tiers |-> NoCounts],
         passes' = NoPasses, limit' \in [Tiers -> Nat], now' \in Nat
  PROVE  LimiterInv'
  <1>1. /\ LimiterTypes'
        /\ \A tier \in Tiers, c \in Callers, a \in Ages : passes'[tier][c][a] = 0
    BY DEF LimiterTypes, NoCounts, NoPasses, Ages
  <1>2. (now' % Minute) \in Ages /\ now' \div Minute \in Nat
    BY TheNextTick
  <1>3. \A tier \in Tiers, c \in Callers : (CountsNow(tier, now)')[c] = 0
    BY DEF CountsNow, NoCounts
  <1>4. \A tier \in Tiers, c \in Callers : Bounded(tier, c)'
    BY <1>1, <1>2, <1>3 DEF Bounded, Elapsed, LimiterTypes, Ages
  <1> QED
    BY <1>1, <1>2, <1>4 DEF LimiterInv

LEMMA LimitsInit == Init => LimiterInv
  <1> SUFFICES ASSUME Init
               PROVE  LimiterInv
    OBVIOUS
  <1>1. /\ now = 0 /\ limit \in [Tiers -> Nat] /\ windowAt = [tier \in Tiers |-> 0]
        /\ counts = [tier \in Tiers |-> NoCounts] /\ passes = NoPasses
    BY LimitsAssumption DEF Init, IdemInit, LimiterInit
  <1>2. /\ LimiterTypes
        /\ \A tier \in Tiers, c \in Callers, a \in Ages : passes[tier][c][a] = 0
    BY <1>1 DEF LimiterTypes, NoCounts, NoPasses, Ages
  <1>3. (now % Minute) \in Ages /\ now \div Minute \in Nat
    BY <1>1, TheNextTick
  <1>4. \A tier \in Tiers, c \in Callers : CountsNow(tier, now)[c] = 0
    BY <1>1 DEF CountsNow, NoCounts
  <1>5. \A tier \in Tiers, c \in Callers : Bounded(tier, c)
    BY <1>2, <1>3, <1>4 DEF Bounded, Elapsed, LimiterTypes, Ages
  <1> QED
    BY <1>1, <1>2, <1>3, <1>5 DEF LimiterInv

LEMMA LimitsNext == LimiterInv /\ [Next]_vars => LimiterInv'
  <1> SUFFICES ASSUME LimiterInv, [Next]_vars
               PROVE  LimiterInv'
    OBVIOUS
  <1>1. ASSUME NEW s \in Slots, NEW q \in asks, Arrive(s, q)
        PROVE  LimiterInv'
    BY <1>1, CountKeepsLimits DEF Arrive
  <1>2. ASSUME Kill
        PROVE  LimiterInv'
    BY <1>2, ResetKeepsLimits DEF Kill, Forget, LimiterReset, LimiterInv, LimiterTypes
  <1>3. ASSUME UNCHANGED <<now, limiterVars>>
        PROVE  LimiterInv'
    BY <1>3 DEF limiterVars, LimiterInv, LimiterTypes, Bounded, CountsNow, NoCounts, Elapsed,
                Ages
  <1>4. \/ UNCHANGED <<now, limiterVars>>
        \/ \E s \in Slots, q \in asks : Arrive(s, q)
        \/ Kill
        \/ Pass
    BY DEF Next, vars, Authorize, Mark, Begin, DoWork, DoIssue, DoRevoke, DoBind, Start,
           StartFails, Command
  <1> QED
    BY <1>1, <1>2, <1>3, <1>4, PassKeepsLimits

-----------------------------------------------------------------------------
(* The tokens *)

Records == [principal : Principal, expires : Int] \cup {NoRecord}
Docs == [tokens : [Names -> Records], roles : [Users -> Roles \cup {NoRole}]]

LEMMA OpFields ==
  ASSUME NEW op \in Ops
  PROVE  /\ op.kind = "issue" => /\ op.user \in Users /\ op.role \in Roles \cup {NoRole}
                                 /\ op.ttl \in Int
         /\ op.kind = "revoke" => op.token \in Names
         /\ op.kind = "bind" => op.user \in Users /\ op.role \in Roles
  BY TtlsAssumption DEF Ops, Work, IssueFor, RevokeOf, BindTo

LEMMA NoDocumentType == NoDocument \in Docs /\ \A t \in Names : NoDocument.tokens[t] = NoRecord
  BY DEF NoDocument, Docs, Records

LEMMA RecordFields ==
  ASSUME NEW r \in Records
  PROVE  /\ r.principal.active \in BOOLEAN /\ r.expires \in Int
         /\ r.principal.active => r # NoRecord
         /\ r # NoRecord <=> r.principal.user # UnknownUser
  <1>1. CASE r = NoRecord
    <2>1. r.principal = Unknown /\ r.expires = 0
      BY <1>1 DEF NoRecord
    <2>2. Unknown.active = FALSE /\ Unknown.user = UnknownUser
      BY DEF Unknown
    <2>3. r.principal.active = FALSE /\ r.principal.user = UnknownUser
      BY <2>1, <2>2
    <2>4. r.principal.active \in BOOLEAN /\ ~r.principal.active
      BY <2>3
    <2>5. r # NoRecord <=> r.principal.user # UnknownUser
      BY <1>1, <2>3
    <2>6. r.expires \in Int
      BY <2>1
    <2> QED
      BY <2>4, <2>5, <2>6
  <1>2. CASE r \in [principal : Principal, expires : Int]
    <2>1. /\ r.principal.active \in BOOLEAN /\ r.expires \in Int
          /\ r.principal.user \in Users \cup {NoUser}
      BY <1>2 DEF Principal
    <2>2. r.principal.user # UnknownUser
      BY <2>1, UsersAssumption DEF NoUser, UnknownUser
    <2> QED
      BY <2>1, <2>2 DEF NoRecord, Unknown
  <1> QED
    BY <1>1, <1>2 DEF Records

LEMMA IssueDocument ==
  ASSUME NEW d \in Docs, NEW t \in Names, NEW user \in Users, NEW role \in Roles \cup {NoRole},
         NEW e \in Int
  PROVE  /\ Issue(d, t, user, role, e) \in Docs
         /\ \A n \in Names : n # t => Issue(d, t, user, role, e).tokens[n] = d.tokens[n]
         /\ Issue(d, t, user, role, e).tokens[t].principal.active
         /\ Issue(d, t, user, role, e).tokens[t].expires = e
  <1> DEFINE given == RoleFor(d, user, role)
             who == [user |-> user, role |-> given, active |-> TRUE]
             new == [principal |-> who, expires |-> e]
             tokens == [d.tokens EXCEPT ![t] = new]
             roles == Bound(d.roles, user, given)
  <1>1. d.tokens \in [Names -> Records] /\ d.roles \in [Users -> Roles \cup {NoRole}]
    BY DEF Docs
  <1>2. given \in Roles \cup {NoRole}
    BY <1>1, TokensAssumption DEF RoleFor
  <1>3. new \in Records /\ new.principal.active /\ new.expires = e
    BY <1>2 DEF Records, Principal
  <1>4. roles \in [Users -> Roles \cup {NoRole}]
    BY <1>1, <1>2 DEF Bound
  <1>5. Issue(d, t, user, role, e) = [tokens |-> tokens, roles |-> roles]
    BY DEF Issue
  <1> HIDE DEF new, roles
  <1>6. /\ tokens \in [Names -> Records]
        /\ \A n \in Names : tokens[n] = IF n = t THEN new ELSE d.tokens[n]
    BY <1>1, <1>3
  <1> HIDE DEF tokens
  <1>7. [tokens |-> tokens, roles |-> roles] \in Docs
    BY <1>4, <1>6 DEF Docs
  <1> QED
    BY <1>3, <1>5, <1>6, <1>7

LEMMA RevokeDocument ==
  ASSUME NEW d \in Docs, NEW t \in Names
  PROVE  /\ Revoke(d, t) \in Docs \/ d.tokens[t] = NoRecord
         /\ \A n \in Names : n # t => Revoke(d, t).tokens[n] = d.tokens[n]
         /\ ~Revoke(d, t).tokens[t].principal.active
         /\ d.tokens[t] # NoRecord => Revoke(d, t).tokens[t] # NoRecord
  <1> DEFINE r == [d.tokens[t] EXCEPT !.principal = [@ EXCEPT !.active = FALSE]]
  <1>1. d.tokens \in [Names -> Records]
    BY DEF Docs
  <1>2. /\ r.principal.active = FALSE
        /\ d.tokens[t] # NoRecord =>
             r \in [principal : Principal, expires : Int] /\ r # NoRecord
    <2>1. CASE d.tokens[t] \in [principal : Principal, expires : Int]
      <3>1. /\ r \in [principal : Principal, expires : Int] /\ r.principal.active = FALSE
            /\ r.principal.user \in Users \cup {NoUser}
        BY <2>1 DEF Principal
      <3> QED
        BY <3>1, UsersAssumption DEF NoRecord, Unknown, NoUser, UnknownUser
    <2>2. CASE d.tokens[t] = NoRecord
      BY <2>2 DEF NoRecord, Unknown
    <2> QED
      BY <1>1, <2>1, <2>2 DEF Records
  <1>3. Revoke(d, t) = [d EXCEPT !.tokens = [d.tokens EXCEPT ![t] = r]]
    BY DEF Revoke
  <1>4. Revoke(d, t).tokens = [d.tokens EXCEPT ![t] = r] /\ Revoke(d, t).roles = d.roles
    BY <1>3 DEF Docs
  <1> HIDE DEF r
  <1>5. \A n \in Names : Revoke(d, t).tokens[n] = IF n = t THEN r ELSE d.tokens[n]
    BY <1>1, <1>4
  <1>6. ASSUME d.tokens[t] # NoRecord
        PROVE  Revoke(d, t) \in Docs
    <2>1. [d.tokens EXCEPT ![t] = r] \in [Names -> Records]
      BY <1>1, <1>2, <1>6 DEF Records
    <2> QED
      BY <1>3, <2>1 DEF Docs
  <1> QED
    BY <1>2, <1>5, <1>6

LEMMA BindDocument ==
  ASSUME NEW d \in Docs, NEW user \in Users, NEW role \in Roles \cup {NoRole}
  PROVE  SetRoleBinding(d, user, role) \in Docs /\ SetRoleBinding(d, user, role).tokens = d.tokens
  BY DEF SetRoleBinding, Docs

\* A start adds tokens of the configuration, and changes none that is known.
LEMMA SeedDocument ==
  ASSUME NEW d \in Docs, NEW cfg \in Configs, NEW n \in Nat
  PROVE  /\ SeedStatic(d, cfg, n) \in Docs
         /\ \A t \in Names : t \in Issued \/ d.tokens[t] # NoRecord
                              => SeedStatic(d, cfg, n).tokens[t] = d.tokens[t]
  <1> DEFINE T == [t \in Names |-> IF t \in Seeds(d, cfg)
                                     THEN [principal |-> cfg[t], expires |-> n + StaticTtl]
                                     ELSE d.tokens[t]]
             Named(u) == {t \in Seeds(d, cfg) : cfg[t].user = u}
  <1>1. d.tokens \in [Names -> Records] /\ d.roles \in [Users -> Roles \cup {NoRole}]
    BY DEF Docs
  <1>2. \A t \in Seeds(d, cfg) : t \in Static /\ cfg[t] \in Principal
    BY ConfigsAssumption DEF Seeds
  <1>3. T \in [Names -> Records]
    BY <1>1, <1>2, TtlsAssumption DEF Records
  <1>4. \A t \in Names : t \in Issued \/ d.tokens[t] # NoRecord => T[t] = d.tokens[t]
    BY TokensAssumption DEF Seeds
  <1>5. \A u \in Users : (\E t \in Seeds(d, cfg) : cfg[t].user = u) =>
          cfg[CHOOSE t \in Seeds(d, cfg) : cfg[t].user = u].role \in Roles \cup {NoRole}
    BY <1>2 DEF Principal
  <1>6. SeedStatic(d, cfg, n).roles \in [Users -> Roles \cup {NoRole}]
    BY <1>1, <1>5 DEF SeedStatic
  <1>7. SeedStatic(d, cfg, n).tokens = T
    BY DEF SeedStatic
  <1>8. SeedStatic(d, cfg, n) = [tokens |-> T, roles |-> SeedStatic(d, cfg, n).roles]
    BY DEF SeedStatic
  <1> QED
    BY <1>3, <1>4, <1>6, <1>7, <1>8 DEF Docs

(***************************************************************************)
(* What is said of the document in memory has to be said of the file too,  *)
(* the document of the next start; and a token that was revoked has to     *)
(* stay known, or a start would seed it anew.  D are the tokens drawn, R   *)
(* those revoked, O those owed; lost: a save may have left no document.    *)
(***************************************************************************)
Disks == {"whole", "empty", "part"}

Sound(d, D, R, O, lost) ==
  /\ d \in Docs
  /\ \A t \in Issued : d.tokens[t] # NoRecord => t \in D
  /\ \A t \in R : d.tokens[t].principal.active => t \in Static /\ lost
  /\ ~lost => /\ \A t \in R : d.tokens[t] # NoRecord
              /\ \A o \in O : /\ d.tokens[o.token].principal.active
                              /\ d.tokens[o.token].expires = o.expires

\* Who revokes and who is owed a token got it from the issuer.
Tracked(D, R, O) ==
  /\ D \subseteq Issued
  /\ R \subseteq Names /\ R \cap Issued \subseteq D
  /\ \A o \in O : o.token \in D /\ o.expires \in Int

LEMMA SoundForLess ==
  ASSUME NEW d, NEW D, NEW R, NEW O, NEW lost, Sound(d, D, R, O, lost),
         NEW E, D \subseteq E, NEW S \in SUBSET R, NEW P \in SUBSET O
  PROVE  Sound(d, E, S, P, lost)
  BY DEF Sound

LEMMA SoundIfLost ==
  ASSUME NEW d, NEW D, NEW R, NEW O, NEW lost, Sound(d, D, R, O, lost),
         NEW more, lost => more
  PROVE  Sound(d, D, R, O, more)
  BY DEF Sound

LEMMA LostIsSound ==
  ASSUME NEW D, NEW R, R \subseteq Names, NEW O, NEW lost, lost
  PROVE  Sound(NoDocument, D, R, O, lost)
  <1>1. \A t \in Names : ~NoDocument.tokens[t].principal.active
    BY NoDocumentType DEF NoRecord, Unknown
  <1> QED
    BY <1>1, NoDocumentType DEF Sound, Names

LEMMA IssueIsSound ==
  ASSUME NEW d, NEW D, NEW R, NEW O, NEW lost, Sound(d, D, R, O, lost), Tracked(D, R, O),
         NEW t \in Issued, t \notin D,
         NEW user \in Users, NEW role \in Roles \cup {NoRole}, NEW e \in Int
  PROVE  Sound(Issue(d, t, user, role, e), D \cup {t}, R,
               O \cup {[token |-> t, expires |-> e]}, lost)
  <1> DEFINE i == Issue(d, t, user, role, e)
  <1>1. t \in Names /\ d \in Docs /\ R \subseteq Names /\ D \subseteq Names
    BY DEF Names, Sound, Tracked
  <1>2. /\ i \in Docs /\ \A n \in Names : n # t => i.tokens[n] = d.tokens[n]
        /\ i.tokens[t].principal.active /\ i.tokens[t].expires = e
    BY <1>1, IssueDocument
  <1>3. t \notin R /\ \A o \in O : o.token # t /\ o.token \in Names
    BY <1>1 DEF Tracked
  <1> HIDE DEF i
  <1>4. \A n \in Issued : i.tokens[n] # NoRecord => n \in D \cup {t}
    BY <1>2 DEF Sound, Names
  <1>5. \A n \in R : i.tokens[n] = d.tokens[n]
    BY <1>1, <1>2, <1>3
  <1>6. \A o \in O : i.tokens[o.token] = d.tokens[o.token]
    BY <1>2, <1>3
  <1>7. Sound(i, D \cup {t}, R, O \cup {[token |-> t, expires |-> e]}, lost)
    BY <1>2, <1>4, <1>5, <1>6 DEF Sound
  <1> QED
    BY <1>7 DEF i

LEMMA RevokeIsSound ==
  ASSUME NEW d, NEW D, NEW R, NEW O, NEW lost, Sound(d, D, R, O, lost), Tracked(D, R, O),
         NEW t \in Names, d.tokens[t] # NoRecord
  PROVE  Sound(Revoke(d, t), D, R \cup {t}, {o \in O : o.token # t}, lost)
  <1> DEFINE r == Revoke(d, t)
  <1>1. d \in Docs /\ Issued \subseteq Names /\ R \subseteq Names
        /\ \A o \in O : o.token \in Names
    BY DEF Names, Sound, Tracked
  <1>2. /\ r \in Docs /\ \A n \in Names : n # t => r.tokens[n] = d.tokens[n]
        /\ ~r.tokens[t].principal.active /\ r.tokens[t] # NoRecord
    BY <1>1, RevokeDocument
  <1> HIDE DEF r
  <1>3. Sound(r, D, R \cup {t}, {o \in O : o.token # t}, lost)
    BY <1>1, <1>2 DEF Sound
  <1> QED
    BY <1>3 DEF r

LEMMA BindIsSound ==
  ASSUME NEW d, NEW D, NEW R, NEW O, NEW lost, Sound(d, D, R, O, lost),
         NEW user \in Users, NEW role \in Roles \cup {NoRole}
  PROVE  Sound(SetRoleBinding(d, user, role), D, R, O, lost)
  BY BindDocument DEF Sound

LEMMA SeedIsSound ==
  ASSUME NEW d, NEW D, NEW R, NEW O, NEW lost \in BOOLEAN, Sound(d, D, R, O, lost),
         Tracked(D, R, O), NEW cfg \in Configs, NEW n \in Nat
  PROVE  Sound(SeedStatic(d, cfg, n), D, R, O, lost)
  <1> DEFINE e == SeedStatic(d, cfg, n)
  <1>1. d \in Docs /\ Issued \subseteq Names /\ R \subseteq Names
        /\ \A o \in O : o.token \in Issued
    BY DEF Names, Sound, Tracked
  <1>2. /\ e \in Docs
        /\ \A t \in Names : t \in Issued \/ d.tokens[t] # NoRecord => e.tokens[t] = d.tokens[t]
    BY <1>1, SeedDocument
  <1> HIDE DEF e
  <1>3. ASSUME NEW t \in R, e.tokens[t].principal.active
        PROVE  t \in Static /\ lost
    <2>1. CASE t \in Issued \/ d.tokens[t] # NoRecord
      BY <1>1, <1>2, <1>3, <2>1 DEF Sound
    <2>2. CASE ~(t \in Issued \/ d.tokens[t] # NoRecord)
      BY <1>1, <2>2 DEF Sound, Names
    <2> QED
      BY <2>1, <2>2
  <1>4. ~lost => \A t \in R : e.tokens[t] # NoRecord
    BY <1>1, <1>2 DEF Sound
  <1>5. \A o \in O : e.tokens[o.token] = d.tokens[o.token]
    BY <1>1, <1>2
  <1>6. Sound(e, D, R, O, lost)
    BY <1>1, <1>2, <1>3, <1>4, <1>5 DEF Sound
  <1> QED
    BY <1>6 DEF e

\* Whatever a save leaves is sound, or is not the whole document.
LEMMA LeftIsSound ==
  ASSUME NEW d, NEW D, NEW R, R \subseteq Names, NEW O, disk \in Disks, Left(d),
         Sound(d, D, R, O, torn), Sound(file, D, R, O, torn \/ disk # "whole")
  PROVE  disk' \in Disks /\ Sound(file', D, R, O, torn \/ disk' # "whole")
  <1>1. CASE UNCHANGED <<file, disk>>
    BY <1>1
  <1>2. CASE file' = NoDocument /\ disk' \in {"empty", "part"}
    <2>1. torn \/ disk' # "whole"
      BY <1>2
    <2> QED
      BY <1>2, <2>1, LostIsSound DEF Disks
  <1>3. CASE file' = d /\ disk' = "whole"
    BY <1>3 DEF Sound, Disks
  <1> QED
    BY <1>1, <1>2, <1>3 DEF Left

LEMMA PutIsSound ==
  ASSUME NEW d, NEW D, NEW R, R \subseteq Names, NEW O, disk \in Disks, NEW ok, Put(d, ok),
         Sound(d, D, R, O, torn), ok \/ Sound(file, D, R, O, torn \/ disk # "whole")
  PROVE  disk' \in Disks /\ Sound(file', D, R, O, torn \/ disk' # "whole")
  <1>1. CASE file' = d /\ disk' = "whole"
    BY <1>1 DEF Sound, Disks
  <1>2. CASE Left(d) /\ ok = FALSE
    BY <1>2, LeftIsSound
  <1> QED
    BY <1>1, <1>2 DEF Put

Requests == UNION {p.asks : p \in Profiles}
Stages == [step : {"free"}] \cup [step : {"admitted", "authorized", "running"}, ask : Requests]

TokensInv ==
  /\ now \in Nat /\ torn \in BOOLEAN /\ disk \in Disks
  /\ asks \subseteq Requests /\ slots \in [Slots -> Stages]
  /\ Tracked(drawn, revoked, owed)
  /\ Sound(file, drawn, revoked, owed, torn \/ disk # "whole")
  /\ up => Sound(doc, drawn, revoked, owed, torn)
  /\ ~up => /\ doc = NoDocument /\ \A s \in Slots : slots[s].step = "free"
            /\ disk # "whole" => torn

\* A request at work means a running server, and asks for something it may ask for.
LEMMA AtWork ==
  ASSUME TokensInv, NEW s \in Slots, slots[s].step # "free"
  PROVE  up /\ slots[s].ask \in Requests /\ slots[s].ask.op \in Ops
         /\ slots[s] \in [step : {"admitted", "authorized", "running"}, ask : Requests]
  <1>1. slots[s] \in Stages /\ slots[s] \notin [step : {"free"}]
    BY DEF TokensInv
  <1>2. slots[s].ask \in Requests
        /\ slots[s] \in [step : {"admitted", "authorized", "running"}, ask : Requests]
    BY <1>1 DEF Stages
  <1> QED
    BY <1>2, AsksAssumption DEF TokensInv, Requests

LEMMA FreedSlots ==
  ASSUME TokensInv, NEW s \in Slots, Answer(s)
  PROVE  slots' \in [Slots -> Stages]
  BY DEF Answer, Free, Stages, TokensInv

\* On its way to the handler a request changes no token.
LEMMA MiddlewareKeepsTokens ==
  ASSUME TokensInv, NEW s \in Slots,
         (\E q \in asks : Arrive(s, q)) \/ Authorize(s) \/ Mark(s) \/ DoWork(s)
  PROVE  TokensInv'
  <1>1. UNCHANGED <<now, doc, file, disk, asks, up, drawn, owed, revoked, torn>>
    BY DEF Arrive, Authorize, Mark, Begin, DoWork, tokenVars, idemVars
  <1>2. up /\ slots' \in [Slots -> Stages]
    <2>1. ASSUME NEW q \in asks, Arrive(s, q)
          PROVE  up /\ slots' \in [Slots -> Stages]
      <3>1. At("admitted", q) \in Stages
        BY DEF At, Stages, TokensInv
      <3> QED
        BY <2>1, <3>1 DEF Arrive, TokensInv
    <2>2. CASE Authorize(s)
      <3>1. up /\ slots[s].ask \in Requests
        BY <2>2, AtWork DEF Authorize
      <3>2. /\ Free \in Stages /\ At("running", slots[s].ask) \in Stages
            /\ At("authorized", slots[s].ask) \in Stages
        BY <3>1 DEF Free, At, Stages
      <3> QED
        BY <2>2, <3>1, <3>2 DEF Authorize, TokensInv
    <2>3. CASE Mark(s)
      <3>1. /\ up
            /\ slots[s] \in [step : {"admitted", "authorized", "running"}, ask : Requests]
        BY <2>3, AtWork DEF Mark
      <3>2. Free \in Stages /\ [slots[s] EXCEPT !.step = "running"] \in Stages
        BY <3>1 DEF Free, Stages
      <3> QED
        BY <2>3, <3>1, <3>2 DEF Mark, TokensInv
    <2>4. CASE DoWork(s)
      BY <2>4, AtWork, FreedSlots DEF DoWork, Running
    <2> QED
      BY <2>1, <2>2, <2>3, <2>4
  <1> QED
    BY <1>1, <1>2 DEF TokensInv

\* A handler saves a document that is sound for what it then reports, and leaves a
\* sound one in memory when it cannot.
LEMMA HandlersKeepTokens ==
  ASSUME TokensInv, NEW s \in Slots,
         (\E t \in Issued : DoIssue(s, t)) \/ DoRevoke(s) \/ DoBind(s)
  PROVE  TokensInv'
  <1> DEFINE op == slots[s].ask.op
             InFile == disk' \in Disks
                       /\ Sound(file', drawn', revoked', owed', torn \/ disk' # "whole")
  <1>1. slots[s].step = "running" /\ Answer(s) /\ UNCHANGED <<now, asks, up, torn>>
    BY DEF DoIssue, DoRevoke, DoBind, Running, idemVars
  <1>2. /\ up /\ up' /\ op \in Ops /\ slots' \in [Slots -> Stages]
        /\ now \in Nat /\ torn \in BOOLEAN /\ disk \in Disks /\ revoked \subseteq Names
        /\ Sound(doc, drawn, revoked, owed, torn)
        /\ Sound(file, drawn, revoked, owed, torn \/ disk # "whole")
        /\ Tracked(drawn, revoked, owed)
    BY <1>1, AtWork, FreedSlots DEF TokensInv, Tracked
  <1> SUFFICES /\ Tracked(drawn', revoked', owed')
               /\ Sound(doc', drawn', revoked', owed', torn)
               /\ InFile
    BY <1>1, <1>2 DEF TokensInv
  <1>3. ASSUME NEW t \in Issued, DoIssue(s, t)
        PROVE  /\ Tracked(drawn', revoked', owed')
               /\ Sound(doc', drawn', revoked', owed', torn)
               /\ InFile
    <2> DEFINE e == now + op.ttl
               O == owed \cup {[token |-> t, expires |-> e]}
               i == Issue(doc, t, op.user, op.role, e)
    <2>1. /\ t \notin drawn /\ drawn' = drawn \cup {t} /\ revoked' = revoked /\ doc' = i
          /\ \/ Put(i, TRUE) /\ owed' = O
             \/ Put(i, FALSE) /\ owed' = owed
      BY <1>3 DEF DoIssue, Save
    <2>2. op.user \in Users /\ op.role \in Roles \cup {NoRole} /\ e \in Int
      BY <1>2, <1>3, OpFields DEF DoIssue, Running
    <2>3. Sound(i, drawn', revoked, O, torn)
      BY <1>2, <2>1, <2>2, IssueIsSound
    <2>4. /\ Sound(i, drawn', revoked, owed, torn)
          /\ Sound(file, drawn', revoked, owed, torn \/ disk # "whole")
      BY <1>2, <2>1, <2>3, SoundForLess
    <2>5. Tracked(drawn', revoked, owed) /\ Tracked(drawn', revoked, O)
      BY <1>2, <2>1, <2>2 DEF Tracked
    <2> HIDE DEF i, O, op
    <2> QED
      BY <1>2, <2>1, <2>3, <2>4, <2>5, PutIsSound
  <1>4. ASSUME DoRevoke(s)
        PROVE  /\ Tracked(drawn', revoked', owed')
               /\ Sound(doc', drawn', revoked', owed', torn)
               /\ InFile
    <2> DEFINE t == op.token
               R == revoked \cup {t}
               O == {o \in owed : o.token # t}
               r == Revoke(doc, t)
    <2>1. t \in Names /\ drawn' = drawn
      BY <1>2, <1>4, OpFields DEF DoRevoke, Running
    <2>2. CASE doc.tokens[t] = NoRecord
      <3>1. UNCHANGED <<doc, file, disk, owed, revoked>>
        BY <1>4, <2>2 DEF DoRevoke
      <3> QED
        BY <1>2, <2>1, <3>1
    <2>3. CASE doc.tokens[t] # NoRecord
      <3>1. /\ doc' = r /\ owed' = O
            /\ \/ Put(r, TRUE) /\ revoked' = R
               \/ Put(r, FALSE) /\ revoked' = revoked
        BY <1>4, <2>3 DEF DoRevoke, Save
      <3>2. Sound(r, drawn, R, O, torn)
        BY <1>2, <2>1, <2>3, RevokeIsSound
      <3>3. /\ Sound(r, drawn, revoked, O, torn)
            /\ Sound(file, drawn, revoked, O, torn \/ disk # "whole")
        BY <1>2, <3>2, SoundForLess
      <3>4. Tracked(drawn, R, O) /\ Tracked(drawn, revoked, O) /\ R \subseteq Names
        BY <1>2, <2>1, <2>3 DEF Tracked, Sound
      <3> HIDE DEF R, O, t, r
      <3> QED
        BY <1>2, <2>1, <3>1, <3>2, <3>3, <3>4, PutIsSound
    <2> QED
      BY <2>2, <2>3
  <1>5. ASSUME DoBind(s)
        PROVE  /\ Tracked(drawn', revoked', owed')
               /\ Sound(doc', drawn', revoked', owed', torn)
               /\ InFile
    <2> DEFINE b == SetRoleBinding(doc, op.user, op.role)
    <2>1. doc' = b /\ UNCHANGED <<drawn, revoked, owed>> /\ \E ok \in BOOLEAN : Put(b, ok)
      BY <1>5 DEF DoBind, Save
    <2>2. op.user \in Users /\ op.role \in Roles
      BY <1>2, <1>5, OpFields DEF DoBind, Running
    <2>3. Sound(b, drawn, revoked, owed, torn)
      BY <1>2, <2>2, BindIsSound
    <2> HIDE DEF b
    <2> QED
      BY <1>2, <2>1, <2>3, PutIsSound
  <1> QED
    BY <1>3, <1>4, <1>5

\* A kill leaves the old file, or what a handler's save had come to.
LEMMA KillKeepsTokens ==
  ASSUME TokensInv, Kill
  PROVE  TokensInv'
  <1> DEFINE lost == torn \/ disk' # "whole"
             SoundFile == disk' \in Disks /\ Sound(file', drawn, revoked, owed', lost)
  <1>1. /\ up /\ ~up' /\ doc' = NoDocument /\ UNCHANGED <<now, asks, drawn, revoked>>
        /\ slots' = [s \in Slots |-> Free] /\ torn' = lost
    BY DEF Kill, Forget
  <1>2. /\ Sound(doc, drawn, revoked, owed, torn)
        /\ Sound(file, drawn, revoked, owed, torn \/ disk # "whole")
        /\ Tracked(drawn, revoked, owed) /\ revoked \subseteq Names /\ disk \in Disks
    BY <1>1 DEF TokensInv, Tracked
  <1>3. /\ owed' \subseteq owed
        /\ \A s \in Slots : Running(s, "revoke") =>
             owed' \subseteq {o \in owed : o.token # slots[s].ask.op.token}
    BY DEF Kill
  <1>4. Sound(file, drawn, revoked, owed', torn \/ disk # "whole")
    BY <1>2, <1>3, SoundForLess
  <1>5. SoundFile
    <2>1. CASE UNCHANGED <<file, disk>>
      BY <1>2, <1>4, <2>1
    <2>2. ASSUME NEW s \in Slots, Running(s, "revoke"),
                 doc.tokens[slots[s].ask.op.token] # NoRecord,
                 Left(Revoke(doc, slots[s].ask.op.token))
          PROVE  SoundFile
      <3> DEFINE t == slots[s].ask.op.token
                 r == Revoke(doc, t)
      <3>1. t \in Names
        BY <2>2, AtWork, OpFields DEF Running
      <3>2. Sound(r, drawn, revoked \cup {t}, {o \in owed : o.token # t}, torn)
        BY <1>2, <2>2, <3>1, RevokeIsSound
      <3>3. Left(r)
        BY <2>2
      <3> HIDE DEF t, r
      <3>4. owed' \subseteq {o \in owed : o.token # t}
        BY <1>3, <2>2 DEF t
      <3>5. Sound(r, drawn, revoked, owed', torn)
        BY <3>2, <3>4, SoundForLess
      <3> QED
        BY <1>2, <1>4, <3>3, <3>5, LeftIsSound
    <2>3. ASSUME NEW user \in Users, NEW role \in Roles \cup {NoRole},
                 Left(SetRoleBinding(doc, user, role))
          PROVE  SoundFile
      <3> DEFINE b == SetRoleBinding(doc, user, role)
      <3>1. Sound(b, drawn, revoked, owed, torn)
        BY <1>2, BindIsSound
      <3>2. Sound(b, drawn, revoked, owed', torn)
        BY <1>3, <3>1, SoundForLess
      <3>3. Left(b)
        BY <2>3
      <3> HIDE DEF b
      <3> QED
        BY <1>2, <1>4, <3>2, <3>3, LeftIsSound
    <2>4. ASSUME NEW s \in Slots, Running(s, "bind"),
                 Left(SetRoleBinding(doc, slots[s].ask.op.user, slots[s].ask.op.role))
          PROVE  SoundFile
      BY <2>3, <2>4, AtWork, OpFields DEF Running
    <2>5. ASSUME NEW s \in Slots, Running(s, "issue"),
                 Left(LET op == slots[s].ask.op
                      IN  SetRoleBinding(doc, op.user,
                            Bound(doc.roles, op.user, RoleFor(doc, op.user, op.role))[op.user]))
          PROVE  SoundFile
      <3> DEFINE op == slots[s].ask.op
                 role == Bound(doc.roles, op.user, RoleFor(doc, op.user, op.role))[op.user]
      <3>1. op.user \in Users /\ op.role \in Roles \cup {NoRole}
        BY <2>5, AtWork, OpFields DEF Running
      <3>2. doc.roles \in [Users -> Roles \cup {NoRole}]
        BY <1>2 DEF Sound, Docs
      <3>3. role \in Roles \cup {NoRole}
        BY <3>1, <3>2, TokensAssumption DEF RoleFor, Bound
      <3>4. Left(SetRoleBinding(doc, op.user, role))
        BY <2>5
      <3> HIDE DEF op, role
      <3> QED
        BY <2>3, <3>1, <3>3, <3>4
    <2>6. \/ UNCHANGED <<file, disk>>
          \/ \E s \in Slots : /\ Running(s, "revoke")
                              /\ doc.tokens[slots[s].ask.op.token] # NoRecord
                              /\ Left(Revoke(doc, slots[s].ask.op.token))
          \/ \E s \in Slots : /\ Running(s, "bind")
                              /\ Left(SetRoleBinding(doc, slots[s].ask.op.user,
                                                     slots[s].ask.op.role))
          \/ \E s \in Slots :
               /\ Running(s, "issue")
               /\ Left(LET op == slots[s].ask.op
                       IN  SetRoleBinding(doc, op.user,
                             Bound(doc.roles, op.user, RoleFor(doc, op.user, op.role))[op.user]))
      <3>1. UNCHANGED <<file, disk>> \/ \E d \in Writing : Left(d)
        BY DEF Kill
      <3> QED
        BY <3>1 DEF Writing, Busy
    <2> QED
      BY <2>1, <2>2, <2>4, <2>5, <2>6
  <1>6. Tracked(drawn, revoked, owed')
    BY <1>2, <1>3 DEF Tracked
  <1>7. slots' \in [Slots -> Stages] /\ \A s \in Slots : slots'[s].step = "free"
    BY <1>1 DEF Free, Stages
  <1>8. Sound(file', drawn, revoked, owed', torn' \/ disk' # "whole") /\ torn' \in BOOLEAN
    BY <1>1, <1>5, SoundIfLost DEF TokensInv
  <1> QED
    BY <1>1, <1>5, <1>6, <1>7, <1>8 DEF TokensInv

\* What is on the disk of a stopped node is sound but for what was lost.
LEMMA StoppedIsSound ==
  ASSUME TokensInv, ~up
  PROVE  Sound(file, drawn, revoked, owed, torn)
  <1>1. torn \/ disk # "whole" => torn
    BY DEF TokensInv
  <1> QED
    BY <1>1, SoundIfLost DEF TokensInv

LEMMA StartKeepsTokens ==
  ASSUME TokensInv, NEW cfg \in Configs, Start(cfg) \/ StartFails(cfg)
  PROVE  TokensInv'
  <1>1. ~up /\ UNCHANGED <<now, asks, slots, drawn, owed, revoked>>
    BY DEF Start, StartFails, Loads
  <1>2. Sound(Seeded(cfg), drawn, revoked, owed, torn)
    BY <1>1, StoppedIsSound, SeedIsSound DEF TokensInv, Seeded
  <1>3. CASE Start(cfg)
    <2>1. /\ doc' = Seeded(cfg) /\ file' = Seeded(cfg) /\ disk' = "whole" /\ up'
          /\ torn' = torn
      BY <1>3 DEF Start
    <2>2. Sound(file', drawn, revoked, owed, torn \/ disk' # "whole")
      BY <1>2, <2>1 DEF Sound
    <2> QED
      BY <1>1, <1>2, <2>1, <2>2 DEF TokensInv, Disks
  <1>4. CASE StartFails(cfg)
    <2>1. /\ Left(Seeded(cfg)) /\ torn' = (torn \/ disk' # "whole") /\ UNCHANGED <<doc, up>>
      BY <1>4 DEF StartFails
    <2>2. disk' \in Disks /\ Sound(file', drawn, revoked, owed, torn \/ disk' # "whole")
      BY <1>2, <2>1, LeftIsSound DEF TokensInv, Tracked
    <2>3. Sound(file', drawn, revoked, owed, torn' \/ disk' # "whole") /\ torn' \in BOOLEAN
      BY <2>1, <2>2, SoundIfLost DEF TokensInv
    <2> QED
      BY <1>1, <2>1, <2>2, <2>3 DEF TokensInv
  <1> QED
    BY <1>3, <1>4

LEMMA CommandKeepsTokens ==
  ASSUME TokensInv, NEW q \in asks, Command(q.op)
  PROVE  TokensInv'
  <1> DEFINE op == q.op
             InFile == disk' \in Disks
                       /\ Sound(file', drawn', revoked', owed', torn \/ disk' # "whole")
  <1>1. /\ ~up /\ UNCHANGED <<now, doc, asks, up, slots>> /\ op \in Ops
        /\ torn' = (torn \/ disk' # "whole")
        /\ Tracked(drawn, revoked, owed) /\ revoked \subseteq Names
        /\ now \in Nat /\ torn \in BOOLEAN /\ disk \in Disks
    BY AsksAssumption DEF Command, Loads, TokensInv, Requests, Tracked
  <1>2. /\ Sound(file, drawn, revoked, owed, torn)
        /\ Sound(file, drawn, revoked, owed, torn \/ disk # "whole")
    BY <1>1, StoppedIsSound DEF TokensInv
  <1> SUFFICES Tracked(drawn', revoked', owed') /\ InFile
    <2>1. ASSUME InFile
          PROVE  Sound(file', drawn', revoked', owed', torn' \/ disk' # "whole")
      BY <1>1, <2>1, SoundIfLost
    <2> QED
      BY <1>1, <2>1 DEF TokensInv
  <1>3. ASSUME NEW t \in Issued, CommandIssue(op, t)
        PROVE  Tracked(drawn', revoked', owed') /\ InFile
    <2> DEFINE e == now + op.ttl
               O == owed \cup {[token |-> t, expires |-> e]}
               i == Issue(file, t, op.user, op.role, e)
    <2>1. op.user \in Users /\ op.role \in Roles \cup {NoRole} /\ e \in Int
      BY <1>1, <1>3, OpFields DEF CommandIssue
    <2>2. /\ t \notin drawn /\ drawn' = drawn \cup {t} /\ revoked' = revoked
          /\ \/ Put(i, TRUE) /\ owed' = O
             \/ Put(i, FALSE) /\ owed' = owed
      BY <1>3 DEF CommandIssue
    <2>3. Sound(i, drawn', revoked, O, torn)
      BY <1>1, <1>2, <2>1, <2>2, IssueIsSound
    <2>4. /\ Sound(i, drawn', revoked, owed, torn)
          /\ Sound(file, drawn', revoked, owed, torn \/ disk # "whole")
      BY <1>2, <2>2, <2>3, SoundForLess
    <2>5. Tracked(drawn', revoked, owed) /\ Tracked(drawn', revoked, O)
      BY <1>1, <2>1, <2>2 DEF Tracked
    <2> HIDE DEF i, O, op
    <2> QED
      BY <1>1, <2>2, <2>3, <2>4, <2>5, PutIsSound
  <1>4. ASSUME CommandRevoke(op)
        PROVE  Tracked(drawn', revoked', owed') /\ InFile
    <2> DEFINE t == op.token
               R == revoked \cup {t}
               O == {o \in owed : o.token # t}
               r == Revoke(file, t)
    <2>1. /\ t \in Names /\ file.tokens[t] # NoRecord /\ owed' = O /\ drawn' = drawn
          /\ \/ Put(r, TRUE) /\ revoked' = R
             \/ Put(r, FALSE) /\ revoked' = revoked
      BY <1>1, <1>4, OpFields DEF CommandRevoke
    <2>2. Sound(r, drawn, R, O, torn)
      BY <1>1, <1>2, <2>1, RevokeIsSound
    <2>3. /\ Sound(r, drawn, revoked, O, torn)
          /\ Sound(file, drawn, revoked, O, torn \/ disk # "whole")
      BY <1>2, <2>2, SoundForLess
    <2>4. Tracked(drawn, R, O) /\ Tracked(drawn, revoked, O) /\ R \subseteq Names
      BY <1>1, <1>2, <2>1 DEF Tracked, Sound
    <2> HIDE DEF R, O, t, r
    <2> QED
      BY <1>1, <2>1, <2>2, <2>3, <2>4, PutIsSound
  <1>5. ASSUME CommandBind(op)
        PROVE  Tracked(drawn', revoked', owed') /\ InFile
    <2> DEFINE b == SetRoleBinding(file, op.user, op.role)
    <2>1. /\ op.user \in Users /\ op.role \in Roles
          /\ UNCHANGED <<drawn, revoked, owed>> /\ \E ok \in BOOLEAN : Put(b, ok)
      BY <1>1, <1>5, OpFields DEF CommandBind
    <2>2. Sound(b, drawn, revoked, owed, torn)
      BY <1>2, <2>1, BindIsSound
    <2> HIDE DEF b
    <2> QED
      BY <1>1, <1>2, <2>1, <2>2, PutIsSound
  <1> QED
    BY <1>3, <1>4, <1>5 DEF Command

LEMMA TokensNext == TokensInv /\ [Next]_vars => TokensInv'
  <1> SUFFICES ASSUME TokensInv, [Next]_vars
               PROVE  TokensInv'
    OBVIOUS
  <1>1. ASSUME Pass \/ UNCHANGED vars
        PROVE  TokensInv'
    <2>1. /\ UNCHANGED <<doc, file, disk, asks, up, slots, drawn, owed, revoked, torn>>
          /\ now' \in Nat
      BY <1>1 DEF Pass, Tick, vars, tokenVars, requestVars, TokensInv
    <2> QED
      BY <2>1 DEF TokensInv
  <1> QED
    BY <1>1, MiddlewareKeepsTokens, HandlersKeepTokens, KillKeepsTokens, StartKeepsTokens,
       CommandKeepsTokens DEF Next

LEMMA TokensInit == Init => TokensInv
  <1> SUFFICES ASSUME Init
               PROVE  TokensInv
    OBVIOUS
  <1>1. /\ now = 0 /\ file = doc /\ disk = "whole" /\ up = TRUE /\ slots = [s \in Slots |-> Free]
        /\ drawn = {} /\ owed = {} /\ revoked = {} /\ torn = FALSE
    BY DEF Init, IdemInit
  <1>2. PICK cfg \in Configs : doc = SeedStatic(NoDocument, cfg, 0)
    BY DEF Init
  <1>3. PICK p \in Profiles : asks = p.asks
    BY DEF Init
  <1>4. Tracked({}, {}, {}) /\ Sound(NoDocument, {}, {}, {}, FALSE)
    BY NoDocumentType DEF Tracked, Sound, Names
  <1>5. Sound(doc, {}, {}, {}, FALSE)
    BY <1>2, <1>4, SeedIsSound
  <1>6. slots \in [Slots -> Stages] /\ asks \subseteq Requests
    BY <1>1, <1>3 DEF Free, Stages, Requests
  <1> QED
    BY <1>1, <1>4, <1>5, <1>6, SoundIfLost DEF TokensInv, Disks

-----------------------------------------------------------------------------
(* Theorems *)

\* The three inductive invariants hold in every reachable state: a handler that
\* began lately is remembered, what was let through is bounded by the count of the
\* window and the limit, and memory is sound for what was reported, and the file too
\* when it is whole, while nothing was lost at the end of a process.
THEOREM Invariance == Spec => [](IdemInv /\ LimiterInv /\ TokensInv)
  <1>1. Init => IdemInv /\ LimiterInv /\ TokensInv
    BY IdemStart, LimitsInit, TokensInit
  <1>2. IdemInv /\ LimiterInv /\ TokensInv /\ [Next]_vars
          => (IdemInv /\ LimiterInv /\ TokensInv)'
    BY IdemNext, LimitsNext, TokensNext
  <1> QED
    BY <1>1, <1>2, PTL DEF Spec

\* While the process lives, two handlers of one request begin more than the
\* retention apart, however often the full map is pruned (withMasterIdempotency).
THEOREM HandlersRunApart == Spec => RunsAreApart
  <1>1. IdemInv /\ [Next]_vars
          => [\A k \in Keys : runs'[k] # runs[k] /\ began[k] # Never
                               => now > began[k] + Retention]_<<now, idemVars>>
    BY IdemNext
  <1> QED
    BY Invariance, <1>1, PTL DEF Spec, RunsAreApart

\* A caller never gets more than twice the limit through within a minute, although
\* the window begins anew at every minute of the clock (simpleRateLimiter.Allow).
THEOREM TwiceTheLimitAtMost == Spec => []AtMostTwiceTheLimit
  <1>1. LimiterInv => AtMostTwiceTheLimit
    <2> SUFFICES ASSUME LimiterInv, NEW tier \in Tiers, NEW c \in Callers
                 PROVE  PassedLately(tier, c) =< 2 * limit[tier]
      BY DEF AtMostTwiceTheLimit
    <2> DEFINE n == passes[tier][c]
    <2>1. Elapsed \in Ages /\ Minute - 1 \in Ages
      BY TheNextTick, MinuteAssumption DEF LimiterInv, LimiterTypes, Elapsed, Ages
    <2>2. /\ n[Elapsed] =< limit[tier] /\ n[Minute - 1] =< n[Elapsed] + limit[tier]
          /\ limit[tier] \in Nat /\ n[Elapsed] \in Nat /\ n[Minute - 1] \in Nat
      BY <2>1 DEF LimiterInv, LimiterTypes, Bounded
    <2> QED
      BY <2>2 DEF PassedLately
  <1> QED
    BY Invariance, <1>1, PTL

\* A token whose revocation was confirmed is refused ever after; let in is only one
\* of a configuration, while that one is running or after a process ended with the
\* file empty or in part (Revoke, save, SeedStatic, authenticate).
THEOREM RevokedStayRefused == Spec => []RevokedTokensAreOut
  <1>1. TokensInv => RevokedTokensAreOut
    <2> SUFFICES ASSUME TokensInv, up, NEW t \in revoked, Authenticates(t, now)
                 PROVE  t \in Static /\ (config[t].active \/ torn)
      BY DEF RevokedTokensAreOut
    <2>1. CASE t \in Names /\ Valid(doc, t, now)
      BY <2>1 DEF TokensInv, Sound, Valid
    <2>2. CASE t \in Static /\ config[t].active
      BY <2>2
    <2> QED
      BY <2>1, <2>2 DEF Authenticates
  <1> QED
    BY Invariance, <1>1, PTL

\* A token that was given out works until it expires or somebody asks to revoke it,
\* unless a process ended, killed or by a save that failed, with the file empty or
\* in part (Issue, save, load, SeedStatic).
THEOREM IssuedKeepWorking == Spec => []IssuedTokensWork
  <1>1. TokensInv => IssuedTokensWork
    <2> SUFFICES ASSUME TokensInv, up, ~torn, NEW o \in owed, now =< o.expires
                 PROVE  Valid(doc, o.token, now)
      BY DEF IssuedTokensWork
    <2>1. /\ Sound(doc, drawn, revoked, owed, torn) /\ o.token \in Names
          /\ doc.tokens[o.token] \in Records
      BY DEF TokensInv, Sound, Tracked, Docs, Names
    <2>2. doc.tokens[o.token].principal.active /\ doc.tokens[o.token].expires = o.expires
      BY <2>1 DEF Sound
    <2> QED
      BY <2>1, <2>2, RecordFields DEF Valid
  <1> QED
    BY Invariance, <1>1, PTL

=============================================================================
