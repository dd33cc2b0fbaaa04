------------------------------- MODULE Webhooks -------------------------------
(***************************************************************************)
(* The webhooks of the nodes (cmd/node/main.go): subscriptions in memory,  *)
(* saved as a whole to webhooks.json under one lock, and the deliveries of *)
(* what a handler announces after it has appended its event.               *)
(*                                                                         *)
(* A delivery is one request from a goroutine of its own, started from a   *)
(* copy of the subscription; it is never repeated.  Every subscription is  *)
(* to all events.                                                          *)
(***************************************************************************)
EXTENDS Integers

CONSTANTS Servers,
          Hooks    \* subscriptions the operators create

VARIABLES
  hooks,      \* syncServer.webhooks of each node: none, active or revoked
  hookFile,   \* webhooks.json of each node, or Broken: empty or in part
  announcing, \* events appended by a handler that has yet to announce them
  sending,    \* deliveries on their way
  got,        \* deliveries that arrived
  hushed,     \* events there were when the revocation was answered, or NotHushed (history)
  dead        \* nodes that cannot start again

webhookVars == <<hooks, hookFile, announcing, sending, got, hushed, dead>>

NoHooks == [h \in Hooks |-> "none"]
Broken == [h \in Hooks |-> "broken"]
NotHushed == -1

WebhooksInit ==
  /\ hooks = [n \in Servers |-> NoHooks]
  /\ hookFile = [n \in Servers |-> NoHooks]
  /\ announcing = {} /\ sending = {} /\ got = {}
  /\ hushed = [h \in Hooks |-> NotHushed]
  /\ dead = {}

Up(n) == n \notin dead

\* saveWebhooksLocked, of what is in memory: os.WriteFile writes it all, or fails
\* before or after it emptied the file.
SaveHooks(n, ok) ==
  \/ hookFile' = [hookFile EXCEPT ![n] = hooks'[n]]
  \/ ~ok /\ hookFile' \in {hookFile, [hookFile EXCEPT ![n] = Broken]}

\* webhookCreate; the id is new in the cluster, for it is the time.  That of a hook
\* lost with its file, which nobody revoked, may come again: no one can tell.
CreateHook(n, h, ok) ==
  /\ Up(n) /\ hushed[h] = NotHushed
  /\ \A m \in Servers : hooks[m][h] = "none" /\ hookFile[m][h] \in {"none", "broken"}
  /\ hooks' = [hooks EXCEPT ![n][h] = "active"]
  /\ SaveHooks(n, ok)
  /\ UNCHANGED <<announcing, sending, got, hushed, dead>>

\* Mutant of RevokeHook: the change is not saved.
RevokeHookUnsaved(n, h, ok, sofar) ==
  /\ Up(n) /\ hooks[n][h] # "none"
  /\ hooks' = [hooks EXCEPT ![n][h] = "revoked"]
  /\ hushed' = [hushed EXCEPT ![h] = IF ok /\ @ = NotHushed THEN sofar ELSE @]
  /\ UNCHANGED <<hookFile, announcing, sending, got, dead>>

\* webhookRevoke, answered when there were `so far` events.
RevokeHook(n, h, ok, sofar) ==
  /\ Up(n) /\ hooks[n][h] # "none"
  /\ hooks' = [hooks EXCEPT ![n][h] = "revoked"]
  /\ SaveHooks(n, ok)
  /\ hushed' = [hushed EXCEPT ![h] = IF ok /\ @ = NotHushed THEN sofar ELSE @]
  /\ UNCHANGED <<announcing, sending, got, dead>>

Targets(n) == {h \in Hooks : hooks[n][h] = "active"}

\* emitWebhookEvent
Emit(a) ==
  /\ a \in announcing /\ announcing' = announcing \ {a}
  /\ sending' = sending \cup {[hook |-> h, event |-> a] : h \in Targets(a.node)}
  /\ UNCHANGED <<hooks, hookFile, got, hushed, dead>>

\* webhookTest, which announces no event of the log.
TestHook(n, h) ==
  /\ Up(n) /\ h \in Targets(n)
  /\ sending' = sending \cup {[hook |-> h, event |-> [node |-> n, stamp |-> 0]]}
  /\ UNCHANGED <<hooks, hookFile, announcing, got, hushed, dead>>

\* The request arrives, or it does not within five seconds.
Deliver(d) ==
  /\ d \in sending /\ sending' = sending \ {d}
  /\ got' \in {got, got \cup {d}}
  /\ UNCHANGED <<hooks, hookFile, announcing, hushed, dead>>

\* The node is killed and starts from the file, or it does not start where the file
\* is empty or in part (loadWebhooks): being written, or left so by a save.
KillHooks(n, writing) ==
  LET broken == writing \/ hookFile[n] = Broken IN
  /\ announcing' = {a \in announcing : a.node # n}
  /\ sending' = {d \in sending : d.event.node # n}
  /\ hookFile' = [hookFile EXCEPT ![n] = IF broken THEN Broken ELSE @]
  /\ hooks' = [hooks EXCEPT ![n] = IF broken THEN NoHooks ELSE hookFile[n]]
  /\ dead' = IF broken THEN dead \cup {n} ELSE dead
  /\ UNCHANGED <<got, hushed>>

=============================================================================
