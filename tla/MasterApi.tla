------------------------------- MODULE MasterApi ------------------------------
(***************************************************************************)
(* The way of a request through a node (cmd/node/main.go): the rate        *)
(* limiter, authentication and roles (withAuthRoles), the keys of the      *)
(* master API (withMasterIdempotency), and the handler; the handlers of    *)
(* /master/auth change the tokens that later requests come with.           *)
(*                                                                         *)
(* Each of these takes its own lock, and the token is looked at three      *)
(* times: for the limiter's key, for the role, and for the actor of the    *)
(* idempotency key.  Other requests, the clock and a kill come in between. *)
(***************************************************************************)
EXTENDS MasterRequests, RateLimiter, Tokens

CONSTANTS Addresses,    \* what X-Forwarded-For of a request may say
          Slots,        \* requests at work at once
          Profiles      \* limits of a node and the requests its clients send, with bounds

NoToken == "no token"
ASSUME CallersAssumption == Callers = Users \cup Addresses
ASSUME BoundsAssumption == \A p \in Profiles : {p.requests, p.faults} \subseteq Nat
ASSUME LimitsAssumption == \A p \in Profiles : p.limit \in [Tiers -> Nat]

VARIABLES
  up,        \* the server runs
  slots,     \* the requests at work
  asks,      \* requests the clients send
  drawn,     \* tokens the issuer has drawn
  owed,      \* tokens given out and not asked to be revoked, with their expiry (history)
  revoked,   \* tokens whose revocation was answered with 200 (history)
  torn,      \* a process ended with auth.tokens.json empty or in part (history)
  left,      \* bound: requests still to come
  faults     \* bound: kills, and saves that fail, still to come

requestVars == <<up, slots, drawn, owed, revoked, torn, left, faults>>
vars == <<now, idemVars, limiterVars, tokenVars, asks, requestVars>>

\* What a request asks for.
Work == [kind |-> "work"]
IssueFor(user, role, ttl) == [kind |-> "issue", user |-> user, role |-> role, ttl |-> ttl]
RevokeOf(t) == [kind |-> "revoke", token |-> t]
BindTo(user, role) == [kind |-> "bind", user |-> user, role |-> role]

Ops ==
  {Work}
  \cup {IssueFor(user, role, ttl) : user \in Users, role \in Roles \cup {NoRole}, ttl \in Ttls}
  \cup {RevokeOf(t) : t \in Names}
  \cup {BindTo(user, role) : user \in Users, role \in Roles}
ASSUME AsksAssumption == \A p \in Profiles : \A q \in p.asks : q.op \in Ops

\* A request that is not under /master/ has no id.  The address is the one the
\* request names, whoever sends it.
NoId == "no id"
Ask(t, from, tier, id, op) ==
  [token |-> t, from |-> from, tier |-> tier, id |-> id, op |-> op]

Free == [step |-> "free"]
At(step, ask) == [step |-> step, ask |-> ask]
Busy(step) == {s \in Slots : slots[s].step = step}

Init ==
  /\ IdemInit
  /\ LimiterInit
  /\ \E p \in Profiles : limit = p.limit /\ asks = p.asks
                           /\ left = p.requests /\ faults = p.faults
  /\ \E cfg \in Configs : config = cfg /\ doc = SeedStatic(NoDocument, cfg, 0)
  /\ file = doc /\ disk = "whole"
  /\ up = TRUE
  /\ slots = [s \in Slots |-> Free]
  /\ drawn = {} /\ owed = {} /\ revoked = {}
  /\ torn = FALSE

-----------------------------------------------------------------------------
(* The middleware *)

\* rateLimitKey and actorFromReq: clientIPFromReq takes the client's word for its
\* address.
CallerOf(q) ==
  IF Authenticates(q.token, now) THEN PrincipalOf(q.token, now).user ELSE q.from

\* allowRequest: passed on, or 429.  A token is known once it was given out.
Arrive(s, q) ==
  /\ up /\ slots[s] = Free
  /\ q.token \in Issued => \E o \in owed : o.token = q.token
  /\ left > 0 /\ left' = left - 1
  /\ Count(q.tier, CallerOf(q), now)
  /\ slots' = IF Allowed(q.tier, CallerOf(q), now)
                THEN [slots EXCEPT ![s] = At("admitted", q)] ELSE slots
  /\ UNCHANGED <<now, idemVars, tokenVars, asks, up, drawn, owed, revoked, torn, faults>>

RolesFor(op) ==
  IF op.kind = "work" THEN {"admin", "lead", "dev", "qa"} ELSE {"admin"}

MayDo(q) ==
  /\ Authenticates(q.token, now)
  /\ PrincipalOf(q.token, now).role \in RolesFor(q.op)

\* withAuthRoles: passed on, or 401 or 403.
Authorize(s) ==
  /\ slots[s].step = "admitted"
  /\ slots' = [slots EXCEPT ![s] =
                 IF ~MayDo(@.ask) THEN Free
                 ELSE At(IF @.ask.id = NoId THEN "running" ELSE "authorized", @.ask)]
  /\ UNCHANGED <<now, idemVars, limiterVars, tokenVars, asks, up, drawn, owed, revoked,
                 torn, left, faults>>

KeyOf(q) == <<CallerOf(q), q.id>>

\* withMasterIdempotency: the handler runs, or the request is a duplicate.
Mark(s) ==
  /\ slots[s].step = "authorized"
  /\ \/ /\ Begin(KeyOf(slots[s].ask))
        /\ slots' = [slots EXCEPT ![s].step = "running"]
     \/ /\ KeyOf(slots[s].ask) \in Remembered
        /\ slots' = [slots EXCEPT ![s] = Free]
        /\ UNCHANGED <<now, idemVars>>
  /\ UNCHANGED <<limiterVars, tokenVars, asks, up, drawn, owed, revoked, torn, left,
                 faults>>

-----------------------------------------------------------------------------
(* The handlers; a document is changed and saved under the manager's lock *)

Answer(s) == slots' = [slots EXCEPT ![s] = Free]
Running(s, kind) == slots[s].step = "running" /\ slots[s].ask.op.kind = kind

\* Mutant of Put: an error of the write is not looked at.
PutUnchecked(d, ok) ==
  \/ file' = d /\ disk' = "whole" /\ ok = TRUE /\ UNCHANGED faults
  \/ Left(d) /\ ok = TRUE /\ faults > 0 /\ faults' = faults - 1

\* save: os.WriteFile writes the document, or fails before or after it emptied
\* the file.
Put(d, ok) ==
  \/ file' = d /\ disk' = "whole" /\ ok = TRUE /\ UNCHANGED faults
  \/ Left(d) /\ ok = FALSE /\ faults > 0 /\ faults' = faults - 1

\* A handler changes the document in memory, whatever becomes of its save.
Save(d, ok) == doc' = d /\ Put(d, ok)

\* A handler that leaves the tokens alone.
DoWork(s) ==
  /\ Running(s, "work")
  /\ Answer(s)
  /\ UNCHANGED <<now, idemVars, limiterVars, tokenVars, asks, up, drawn, owed, revoked,
                 torn, left, faults>>

\* authIssue: the token is given out when it is saved.
DoIssue(s, t) ==
  /\ Running(s, "issue")
  /\ t \notin drawn /\ drawn' = drawn \cup {t}
  /\ LET op == slots[s].ask.op
     IN  \E ok \in BOOLEAN :
           /\ Save(Issue(doc, t, op.user, op.role, now + op.ttl), ok)
           /\ owed' = IF ok THEN owed \cup {[token |-> t, expires |-> now + op.ttl]}
                            ELSE owed
  /\ Answer(s)
  /\ UNCHANGED <<now, idemVars, limiterVars, config, asks, up, revoked, torn, left>>

\* authRevoke; a token that is not known is answered with 400.
DoRevoke(s) ==
  /\ Running(s, "revoke")
  /\ LET t == slots[s].ask.op.token
     IN  \/ /\ doc.tokens[t] # NoRecord
            /\ \E ok \in BOOLEAN :
                 /\ Save(Revoke(doc, t), ok)
                 /\ revoked' = IF ok THEN revoked \cup {t} ELSE revoked
            /\ owed' = {o \in owed : o.token # t}
         \/ /\ doc.tokens[t] = NoRecord
            /\ UNCHANGED <<doc, file, disk, owed, revoked, faults>>
  /\ Answer(s)
  /\ UNCHANGED <<now, idemVars, limiterVars, config, asks, up, drawn, torn, left>>

\* authBindRole: the tokens given out before keep their role.
DoBind(s) ==
  /\ Running(s, "bind")
  /\ LET op == slots[s].ask.op
     IN  \E ok \in BOOLEAN : Save(SetRoleBinding(doc, op.user, op.role), ok)
  /\ Answer(s)
  /\ UNCHANGED <<now, idemVars, limiterVars, config, asks, up, drawn, owed, revoked, torn,
                 left>>

-----------------------------------------------------------------------------
(* The process *)

\* Documents a handler may be writing when the server is killed.  A token that
\* nobody was told of is left out of the document it is issued in.
Writing ==
  {Revoke(doc, slots[s].ask.op.token) : s \in {r \in Busy("running") :
      Running(r, "revoke") /\ doc.tokens[slots[r].ask.op.token] # NoRecord}}
  \cup {SetRoleBinding(doc, slots[s].ask.op.user, slots[s].ask.op.role) :
          s \in {r \in Busy("running") : Running(r, "bind")}}
  \cup {LET op == slots[s].ask.op
         IN  SetRoleBinding(doc, op.user, Bound(doc.roles, op.user,
                                                RoleFor(doc, op.user, op.role))[op.user]) :
          s \in {r \in Busy("running") : Running(r, "issue")}}

\* The server is killed: nothing is being written, or a handler is in the middle
\* of its save and nobody is told.
Kill ==
  /\ up /\ up' = FALSE
  /\ faults > 0 /\ faults' = faults - 1
  /\ UNCHANGED <<file, disk>> \/ \E d \in Writing : Left(d)
  /\ torn' = (torn \/ disk' # "whole")
  /\ doc' = NoDocument
  /\ slots' = [s \in Slots |-> Free]
  /\ Forget
  /\ LimiterReset
  /\ owed' = {o \in owed : \A s \in Slots :
                ~(Running(s, "revoke") /\ slots[s].ask.op.token = o.token)}
  /\ UNCHANGED <<config, asks, drawn, revoked, left>>

\* Mutant of Seeded: the document is made anew from the configuration.
SeededAfresh(cfg) == SeedStatic(NoDocument, cfg, now)

Seeded(cfg) == SeedStatic(file, cfg, now)

\* load: a process that needs the tokens starts unless the file is a part.
Loads == ~up /\ disk # "part"

\* runServe, with the configuration of this start.
Start(cfg) ==
  /\ Loads /\ up' = TRUE
  /\ config' = cfg
  /\ doc' = Seeded(cfg)
  /\ file' = Seeded(cfg) /\ disk' = "whole"
  /\ UNCHANGED <<now, idemVars, limiterVars, asks, slots, drawn, owed, revoked, torn,
                 left, faults>>

\* The save of SeedStatic fails, and the server does not start.
StartFails(cfg) ==
  /\ Loads
  /\ faults > 0 /\ faults' = faults - 1
  /\ Left(Seeded(cfg))
  /\ torn' = (torn \/ disk' # "whole")
  /\ UNCHANGED <<now, idemVars, limiterVars, doc, config, asks, up, slots, drawn, owed,
                 revoked, left>>

\* runAuth: a command changes the file while the server is stopped, and says
\* whether it could save it.
CommandIssue(op, t) ==
  /\ op.kind = "issue"
  /\ t \notin drawn /\ drawn' = drawn \cup {t}
  /\ \E ok \in BOOLEAN :
       /\ Put(Issue(file, t, op.user, op.role, now + op.ttl), ok)
       /\ owed' = IF ok THEN owed \cup {[token |-> t, expires |-> now + op.ttl]} ELSE owed
  /\ UNCHANGED revoked

CommandRevoke(op) ==
  /\ op.kind = "revoke" /\ file.tokens[op.token] # NoRecord
  /\ \E ok \in BOOLEAN :
       /\ Put(Revoke(file, op.token), ok)
       /\ revoked' = IF ok THEN revoked \cup {op.token} ELSE revoked
  /\ owed' = {o \in owed : o.token # op.token}
  /\ UNCHANGED drawn

CommandBind(op) ==
  /\ op.kind = "bind"
  /\ \E ok \in BOOLEAN : Put(SetRoleBinding(file, op.user, op.role), ok)
  /\ UNCHANGED <<drawn, owed, revoked>>

Command(op) ==
  /\ Loads /\ left > 0 /\ left' = left - 1
  /\ (\E t \in Issued : CommandIssue(op, t)) \/ CommandRevoke(op) \/ CommandBind(op)
  /\ torn' = (torn \/ disk' # "whole")
  /\ UNCHANGED <<now, idemVars, limiterVars, doc, config, asks, up, slots>>

Pass ==
  /\ Tick /\ Age
  /\ UNCHANGED <<tokenVars, asks, requestVars>>

Next ==
  \/ \E s \in Slots :
       \/ \E q \in asks : Arrive(s, q)
       \/ Authorize(s) \/ Mark(s)
       \/ DoWork(s) \/ DoRevoke(s) \/ DoBind(s)
       \/ \E t \in Issued : DoIssue(s, t)
  \/ Kill
  \/ \E q \in asks : Command(q.op)
  \/ \E cfg \in Configs : Start(cfg) \/ StartFails(cfg)
  \/ Pass

Spec == Init /\ [][Next]_vars

-----------------------------------------------------------------------------
(* Properties *)

\* Requests of caller c that passed in the last minute.
PassedLately(tier, c) == passes[tier][c][Minute - 1]

\* No user, and no address a request names, gets more than twice the limit through
\* within a minute, although the window begins anew at every minute of the clock
\* (simpleRateLimiter.Allow), and whichever tokens of one user the requests carry.
\* A client without a token that names several addresses has as many limits, and a
\* clock that is set begins a new window.
AtMostTwiceTheLimit ==
  \A tier \in Tiers, c \in Callers : PassedLately(tier, c) =< 2 * limit[tier]

\* A token whose revocation was confirmed is refused ever after, over restarts and
\* saves that fail.  Let in is only one of a configuration: while the running one
\* names it active (the fallback of authenticate), or when a process ended with
\* auth.tokens.json empty or in part, and some start since seeded it anew.
RevokedTokensAreOut ==
  up => \A t \in revoked :
          Authenticates(t, now) => t \in Static /\ (config[t].active \/ torn)

\* A token that was given out works until it expires or somebody asks to revoke it,
\* unless a process ended, killed or by a save that failed, with auth.tokens.json
\* empty or in part: no other request takes it away, no save that fails while the
\* server goes on, and no other restart (Manager.Issue, save and load).
IssuedTokensWork ==
  up /\ ~torn => \A o \in owed : now =< o.expires => Valid(doc, o.token, now)

=============================================================================
