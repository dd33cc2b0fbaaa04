----------------------------- MODULE Attachments -----------------------------
(***************************************************************************)
(* Files attached to issues (cmd/node/main.go): a client asks a node for   *)
(* an upload token, uploads the bytes, and completes the attachment, which *)
(* makes the node hash the stored bytes and append an event that carries   *)
(* the hash.  The event is replicated; the bytes are in the directory of   *)
(* the node that took the upload, or in a bucket all nodes use.            *)
(*                                                                         *)
(* A client whose upload is not answered in time uploads the same bytes    *)
(* again, while the handler of the first attempt may still be running.     *)
(* Stored bytes are all there, or only part; a hash stands for which.      *)
(* Events are stamped with one clock (skewed clocks: see Tracker).         *)
(*                                                                         *)
(* An attachment may also be a link.  Every handler announces its event to *)
(* the webhooks of its node (Webhooks); the behaviours with webhooks are   *)
(* those whose clients attach links.                                       *)
(***************************************************************************)
EXTENDS Integers, FiniteSets, Webhooks

CONSTANTS Nodes,
          Files,      \* attachment ids
          Attempts,   \* uploads the clients start
          Ttl,        \* time a token is valid: 5 minutes in the code
          MaxTime,    \* bound: clock
          MaxEvents,  \* bound: attachment events
          MaxFaults   \* bound: kills, and writes that fail

ASSUME ServersAssumption == Servers = Nodes
ASSUME BoundsAssumption == {Ttl, MaxTime, MaxEvents, MaxFaults} \subseteq Nat

VARIABLES
  now,
  home,       \* the node that gave out the token of a file, or none
  expires,    \* when that token expires
  store,      \* the bytes of each file in each place: none, part or all
  step,       \* each upload attempt: new, read, write, done or failed
  of,         \* the file an attempt uploads
  bucket,     \* the backend of the nodes is s3, not local
  checked,    \* files whose client sends checksum_sha256 with complete
  hooked,     \* links are attached, and webhooks told
  completing, \* complete handlers that have hashed the bytes, not yet appended
  events,     \* attachment events in each node's log
  issued,     \* attachment events so far
  cut,        \* files of which an upload was cut short (history)
  faults

setup == <<of, bucket, checked, hooked>>
vars == <<webhookVars, now, home, expires, store, step, setup, completing, events, issued, cut, faults>>

NoNode == "none"
Places == Nodes \cup {"bucket"}

StoreOf(n) == IF bucket THEN "bucket" ELSE n

Init ==
  /\ now = 0
  /\ home = [f \in Files |-> NoNode]
  /\ expires = [f \in Files |-> 0]
  /\ store = [p \in Places |-> [f \in Files |-> "none"]]
  /\ step = [u \in Attempts |-> "new"]
  /\ of \in [Attempts -> Files]
  /\ bucket \in BOOLEAN
  /\ checked \in SUBSET Files
  /\ hooked \in BOOLEAN /\ (hooked => checked = {} /\ ~bucket)
  /\ WebhooksInit
  /\ completing = {}
  /\ events = [n \in Nodes |-> {}]
  /\ issued = 0
  /\ cut = {}
  /\ faults = 0

\* projectBoardFromEvents: the last event of a file says whether it is listed,
\* and with which hash.
OfFile(n, f) == {e \in events[n] : e.file = f}
Listed(n, f) ==
  {e \in OfFile(n, f) : /\ e.sum # "removed"
                        /\ \A d \in OfFile(n, f) : d.stamp =< e.stamp}

Writers(f) == {u \in Attempts : of[u] = f /\ step[u] = "write"}

-----------------------------------------------------------------------------
(* Upload *)

Initiate(n, f) ==
  /\ ~hooked /\ home[f] = NoNode
  /\ home' = [home EXCEPT ![f] = n]
  /\ expires' = [expires EXCEPT ![f] = now + Ttl]
  /\ UNCHANGED <<webhookVars, now, store, step, setup, completing, events, issued, cut, faults>>

\* The token is checked before the body is read.
StartUpload(u) ==
  /\ step[u] = "new"
  /\ home[of[u]] # NoNode /\ now < expires[of[u]]
  /\ step' = [step EXCEPT ![u] = "read"]
  /\ UNCHANGED <<webhookVars, now, home, expires, store, setup, completing, events, issued, cut, faults>>

\* The bucket takes an object as a whole (external).
PutObject(u) ==
  /\ bucket /\ step[u] = "read"
  /\ store' = [store EXCEPT !["bucket"][of[u]] = "all"]
  /\ step' = [step EXCEPT ![u] = "done"]
  /\ UNCHANGED <<webhookVars, now, home, expires, setup, completing, events, issued, cut, faults>>

\* os.WriteFile empties the file first ...
BeginWrite(u) ==
  /\ ~bucket /\ step[u] = "read"
  /\ store' = [store EXCEPT ![home[of[u]]][of[u]] = "part"]
  /\ step' = [step EXCEPT ![u] = "write"]
  /\ UNCHANGED <<webhookVars, now, home, expires, setup, completing, events, issued, cut, faults>>

\* ... and has written all of it; another attempt may have emptied it since.
EndWrite(u) ==
  /\ step[u] = "write"
  /\ \E b \in IF Writers(of[u]) = {u} THEN {"all"} ELSE {"part", "all"} :
       store' = [store EXCEPT ![home[of[u]]][of[u]] = b]
  /\ step' = [step EXCEPT ![u] = "done"]
  /\ UNCHANGED <<webhookVars, now, home, expires, setup, completing, events, issued, cut, faults>>

\* The disk is full: the rest of the bytes is missing.
FailWrite(u) ==
  /\ step[u] = "write"
  /\ faults < MaxFaults /\ faults' = faults + 1
  /\ step' = [step EXCEPT ![u] = "failed"]
  /\ cut' = cut \cup {of[u]}
  /\ UNCHANGED <<webhookVars, now, home, expires, store, setup, completing, events, issued>>

-----------------------------------------------------------------------------
(* Complete and remove *)

\* Mutant of HashBytes: the client's checksum is not compared.
HashUnchecked(n, f) ==
  /\ \E u \in Attempts : of[u] = f /\ step[u] = "done"
  /\ store[StoreOf(n)][f] # "none"
  /\ completing' = completing \cup {[node |-> n, file |-> f, sum |-> store[StoreOf(n)][f]]}
  /\ UNCHANGED <<webhookVars, now, home, expires, store, step, setup, events, issued, cut, faults>>

\* A client completes when an upload of its file was answered.  Bytes that are
\* not there, or do not match its checksum, are refused and nothing changes.
HashBytes(n, f) ==
  /\ \E u \in Attempts : of[u] = f /\ step[u] = "done"
  /\ store[StoreOf(n)][f] # "none"
  /\ f \in checked => store[StoreOf(n)][f] = "all"
  /\ completing' = completing \cup {[node |-> n, file |-> f, sum |-> store[StoreOf(n)][f]]}
  /\ UNCHANGED <<webhookVars, now, home, expires, store, step, setup, events, issued, cut, faults>>

\* The event is appended, and then announced.
AppendEvent(n, f, sum) ==
  /\ Up(n)
  /\ issued < MaxEvents /\ issued' = issued + 1
  /\ events' = [events EXCEPT ![n] = @ \cup
                 {[stamp |-> issued + 1, signer |-> n, file |-> f, sum |-> sum]}]
  /\ announcing' = IF hooked THEN announcing \cup {[node |-> n, stamp |-> issued + 1]}
                             ELSE announcing
  /\ UNCHANGED <<hooks, hookFile, sending, got, hushed, dead>>

\* issueAttachmentAdd, with an id of its own.
AddLink(n, f) ==
  /\ hooked /\ home[f] = NoNode
  /\ home' = [home EXCEPT ![f] = n]
  /\ AppendEvent(n, f, "link")
  /\ UNCHANGED <<now, expires, store, step, setup, completing, cut, faults>>

EndComplete(c) ==
  /\ c \in completing
  /\ completing' = completing \ {c}
  /\ AppendEvent(c.node, c.file, c.sum)
  /\ UNCHANGED <<now, home, expires, store, step, setup, cut, faults>>

\* Mutant of Remove: the bytes are deleted at once.
RemoveWithBytes(n, f) ==
  /\ home[f] # NoNode
  /\ AppendEvent(n, f, "removed")
  /\ store' = [store EXCEPT ![StoreOf(n)][f] = "none"]
  /\ UNCHANGED <<now, home, expires, step, setup, completing, cut, faults>>

\* A soft delete: the bytes stay, and it is not asked whether the file is listed.
Remove(n, f) ==
  /\ home[f] # NoNode
  /\ AppendEvent(n, f, "removed")
  /\ UNCHANGED <<now, home, expires, store, step, setup, completing, cut, faults>>

-----------------------------------------------------------------------------
(* The rest *)

\* Replication brings a signer's events in their order (SyncCluster).
Learn(n, e) ==
  /\ Up(n) /\ e \notin events[n]
  /\ \A m \in Nodes : \A d \in events[m] :
       d.signer = e.signer /\ d.stamp < e.stamp => d \in events[n]
  /\ events' = [events EXCEPT ![n] = @ \cup {e}]
  /\ UNCHANGED <<webhookVars, now, home, expires, store, step, setup, completing, issued, cut, faults>>

\* A node is killed and starts again; what it handled is gone, and tokens stay
\* valid, for their key is made from the node's identity.
Kill(n) ==
  /\ Up(n)
  /\ faults < MaxFaults /\ faults' = faults + 1
  /\ completing' = {c \in completing : c.node # n}
  /\ LET here == {u \in Attempts : /\ ~bucket /\ home[of[u]] = n
                                   /\ step[u] \in {"read", "write"}}
     IN  /\ step' = [u \in Attempts |-> IF u \in here THEN "failed" ELSE step[u]]
         /\ cut' = cut \cup {of[u] : u \in {v \in here : step[v] = "write"}}
  /\ \E writing \in {FALSE, hooked} : KillHooks(n, writing)
  /\ UNCHANGED <<now, home, expires, store, setup, events, issued>>

\* The operator's requests, and what goes on behind them.
Hook ==
  /\ hooked
  /\ \/ /\ \E n \in Nodes, h \in Hooks, ok \in BOOLEAN :
             /\ CreateHook(n, h, ok) \/ RevokeHook(n, h, ok, issued)
             /\ ok \/ faults < MaxFaults
             /\ faults' = IF ok THEN faults ELSE faults + 1
     \/ /\ (\E a \in announcing : Emit(a)) \/ (\E d \in sending : Deliver(d))
           \/ \E n \in Nodes, h \in Hooks : TestHook(n, h)
        /\ UNCHANGED faults
  /\ UNCHANGED <<now, home, expires, store, step, setup, completing, events, issued, cut>>

Tick ==
  /\ now < MaxTime /\ now' = now + 1
  /\ UNCHANGED <<webhookVars, home, expires, store, step, setup, completing, events, issued, cut, faults>>

Next ==
  \/ \E n \in Nodes, f \in Files : Initiate(n, f) \/ HashBytes(n, f) \/ Remove(n, f)
                                \/ AddLink(n, f)
  \/ \E u \in Attempts : \/ StartUpload(u) \/ PutObject(u)
                         \/ BeginWrite(u) \/ EndWrite(u) \/ FailWrite(u)
  \/ \E c \in completing : EndComplete(c)
  \/ \E n \in Nodes : \E e \in UNION {events[m] : m \in Nodes} : Learn(n, e)
  \/ \E n \in Nodes : Kill(n)
  \/ Hook
  \/ Tick

Spec == Init /\ [][Next]_vars

-----------------------------------------------------------------------------
(* Properties *)

\* A file whose client sends its checksum: what any node lists is stored where it
\* was completed, with the hash that is listed, once no attempt is writing it and
\* unless one was cut short: however late the attempts of a client that gave up
\* waiting still run (attachmentsUpload, issueAttachmentComplete).
ListedIsIntact ==
  \A n \in Nodes, f \in checked \ cut : Writers(f) = {} =>
    \A e \in Listed(n, f) : store[StoreOf(e.signer)][f] = e.sum

\* Once a revocation is answered, its hook is told of no event that is appended
\* afterwards, over restarts and saves that fail (webhookRevoke, emitWebhookEvent,
\* loadWebhooks).
RevokedHooksAreQuiet ==
  \A d \in got \cup sending :
    hushed[d.hook] # NotHushed => d.event.stamp =< hushed[d.hook]

\* With the bucket, what a node lists can be opened and verified at that node,
\* whichever node completed it (docs/SDD-13: integrity consistent from all nodes).
OpensEverywhere ==
  bucket => \A n \in Nodes, f \in Files :
              \A e \in Listed(n, f) : store[StoreOf(n)][f] = e.sum

=============================================================================
