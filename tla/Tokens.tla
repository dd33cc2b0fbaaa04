------------------------------- MODULE Tokens ---------------------------------
(***************************************************************************)
(* The access tokens of a node (internal/auth): records in                 *)
(* auth.tokens.json, loaded when the server starts, changed in memory and  *)
(* then saved as a whole under the lock of the manager; and the tokens of  *)
(* the configuration, which are seeded into the document at the start and  *)
(* which authenticate in cmd/node/main.go looks at as well.                *)
(*                                                                         *)
(* A save empties the file before it writes it (os.WriteFile): one that is *)
(* cut short, by a kill or a full disk, leaves nothing or a part of the    *)
(* document.  An empty file loads as no tokens; a part does not parse, and *)
(* nothing that needs the tokens starts until somebody repairs it.         *)
(***************************************************************************)
EXTENDS Integers, FiniteSets

CONSTANTS Users,
          Roles,
          Static,     \* tokens a configuration may name
          Issued,     \* tokens the issuer draws
          Configs,    \* AUTH_TOKENS_JSON of the starts of the node
          Ttls,       \* seconds clients ask a token to live
          StaticTtl   \* seconds a seeded token lives: 365 days in the code

ASSUME TokensAssumption == Static \cap Issued = {} /\ "viewer" \in Roles
ASSUME TtlsAssumption == Ttls \subseteq Int /\ StaticTtl \in Nat

Names == Static \cup Issued
NoUser == "nobody"
NoRole == "unset"
UnknownUser == "unknown"
ASSUME UsersAssumption == UnknownUser \notin Users

Principal == [user : Users \cup {NoUser}, role : Roles \cup {NoRole}, active : BOOLEAN]
Unknown == [user |-> UnknownUser, role |-> NoRole, active |-> FALSE]

\* A TokenRecord is a principal and its expiry; the time it was issued at and its
\* source are shown only.  A document holds tokens, and the roles bound to users.
NoRecord == [principal |-> Unknown, expires |-> 0]
NoDocument == [tokens |-> [t \in Names |-> NoRecord], roles |-> [u \in Users |-> NoRole]]

\* What a configuration says of the tokens it does not name.
NotNamed == Unknown
ASSUME ConfigsAssumption == Configs \subseteq [Static -> Principal \cup {NotNamed}]

VARIABLES
  doc,     \* Manager.doc
  file,    \* auth.tokens.json
  disk,    \* whole, or what a save left of the file: empty, part
  config   \* authTokens: the configuration the server was started with

tokenVars == <<doc, file, disk, config>>

\* A user's role is bound when a token first names it.
Bound(roles, user, role) ==
  IF user \in Users /\ roles[user] = NoRole THEN [roles EXCEPT ![user] = role] ELSE roles

\* Issue, for a role that may be left out.
RoleFor(d, user, role) ==
  IF role # NoRole THEN role
  ELSE IF d.roles[user] # NoRole THEN d.roles[user] ELSE "viewer"

Issue(d, t, user, role, expires) ==
  LET given == RoleFor(d, user, role)
      who == [user |-> user, role |-> given, active |-> TRUE]
  IN  [tokens |-> [d.tokens EXCEPT ![t] = [principal |-> who, expires |-> expires]],
       roles |-> Bound(d.roles, user, given)]

Revoke(d, t) == [d EXCEPT !.tokens[t].principal.active = FALSE]

SetRoleBinding(d, user, role) == [d EXCEPT !.roles[user] = role]

\* SeedStatic leaves a token alone that the document knows.
Seeds(d, cfg) == {t \in Static : cfg[t] # NotNamed /\ d.tokens[t] = NoRecord}

\* The first token of a user binds its role; two tokens of a user carry one role
\* in the configurations modelled.
SeedStatic(d, cfg, now) ==
  [tokens |-> [t \in Names |-> IF t \in Seeds(d, cfg)
                                 THEN [principal |-> cfg[t], expires |-> now + StaticTtl]
                                 ELSE d.tokens[t]],
   roles |-> [u \in Users |->
                IF d.roles[u] = NoRole /\ \E t \in Seeds(d, cfg) : cfg[t].user = u
                  THEN cfg[CHOOSE t \in Seeds(d, cfg) : cfg[t].user = u].role
                  ELSE d.roles[u]]]

\* What a save of document d that fails, or is cut short, leaves: the file as it
\* was, nothing, a part, or all of d.
Left(d) ==
  \/ UNCHANGED <<file, disk>>
  \/ file' = NoDocument /\ disk' \in {"empty", "part"}
  \/ file' = d /\ disk' = "whole"

\* Manager.Validate
Valid(d, t, now) ==
  /\ d.tokens[t] # NoRecord
  /\ d.tokens[t].principal.active
  /\ now =< d.tokens[t].expires

\* authenticate: the document, and then the configuration.
Authenticates(t, now) ==
  \/ t \in Names /\ Valid(doc, t, now)
  \/ t \in Static /\ config[t] # NotNamed /\ config[t].active

\* Who a request with token t comes from.
PrincipalOf(t, now) == IF Valid(doc, t, now) THEN doc.tokens[t].principal ELSE config[t]

=============================================================================
