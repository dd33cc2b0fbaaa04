----------------------------- MODULE SyncCluster -----------------------------
(***************************************************************************)
(* The replication of signed events between the nodes of a project: the    *)
(* store of internal/store/eventlog.go with its index in memory, the       *)
(* handlers that append to it (appendIssueEventWithLog), the sync loop     *)
(* that pulls from the peers (pullFromPeer) and the ingest endpoint        *)
(* (syncIngest), with crashes, restarts and failed requests.               *)
(*                                                                         *)
(* One server process per data directory.  A process that shares the       *)
(* directory with the server is modelled in DataDir.                       *)
(***************************************************************************)
EXTENDS EventOrder, FiniteSets

CONSTANTS Peers,        \* the nodes each node pulls from
          Trusted,      \* the signers each node accepts at its ingest endpoint
          Strays,       \* events that name a node but carry another key
          MaxHandlers,  \* bound: handlers in flight on a node
          MaxFaults     \* bound: crashes, failed requests and strays posted

ASSUME PeersAssumption == Peers \in [Nodes -> SUBSET Nodes]
ASSUME TrustedAssumption == Trusted \in [Nodes -> SUBSET Nodes]
ASSUME StraysAssumption ==
  \A e \in Strays : e \in Event /\ ~Genuine(e) /\ VerifyByEventKey(e)
ASSUME FaultsAssumption == MaxFaults \in Nat /\ MaxHandlers \in Nat

VARIABLES
  log,        \* events.jsonl of each node
  up,         \* the nodes whose server runs
  lastSeq,    \* EventLog.lastSeq, in memory
  replayIx,   \* EventLog.replayIx, in memory
  inflight,   \* events signed by handlers that have not called Append yet
  pc,         \* where the sync loop of each node is
  todo,       \* peers the running tick has not visited yet
  peer,       \* the peer being pulled from
  remote,     \* remoteClock
  local,      \* localClock
  need,       \* signers the loop over remoteClock has left to fetch
  items,      \* events fetched and not yet applied
  acked,      \* events whose request was answered with 201 (history)
  issued,     \* events signed so far, and the body of the last one
  faults      \* faults so far

storeVars == <<log, lastSeq, replayIx>>
pullVars == <<pc, todo, peer, remote, local, need, items>>
vars == <<log, up, lastSeq, replayIx, inflight, pc, todo, peer, remote, local,
          need, items, acked, issued, faults>>

ZeroClock == [s \in Nodes |-> 0]

\* Everything a process holds in memory, before it opens the store.
MemoryInit ==
  /\ lastSeq = [n \in Nodes |-> ZeroClock]
  /\ replayIx = [n \in Nodes |-> {}]
  /\ inflight = [n \in Nodes |-> {}]
  /\ pc = [n \in Nodes |-> "idle"]
  /\ todo = [n \in Nodes |-> {}]
  /\ peer = [n \in Nodes |-> n]
  /\ remote = [n \in Nodes |-> ZeroClock]
  /\ local = [n \in Nodes |-> ZeroClock]
  /\ need = [n \in Nodes |-> {}]
  /\ items = [n \in Nodes |-> {}]

Init ==
  /\ log = [n \in Nodes |-> <<>>]
  /\ up = Nodes
  /\ MemoryInit
  /\ acked = {}
  /\ issued = 0
  /\ faults = 0

Fault == faults < MaxFaults /\ faults' = faults + 1

-----------------------------------------------------------------------------
(* The store *)

\* Mutant of Accepts: a number beyond the next one is accepted.
AcceptsAhead(n, e) ==
  /\ <<e.signer, e.seq>> \notin replayIx[n]
  /\ e.seq > lastSeq[n][e.signer]

\* EventLog.Append accepts the event: not a replay, and next in its signer's
\* sequence.
Accepts(n, e) ==
  /\ <<e.signer, e.seq>> \notin replayIx[n]
  /\ e.seq = lastSeq[n][e.signer] + 1

\* EventLog.Append writes the row, then brings the index up to date.
Write(n, e) ==
  /\ log' = [log EXCEPT ![n] = Append(@, e)]
  /\ replayIx' = [replayIx EXCEPT ![n] = @ \cup {<<e.signer, e.seq>>}]
  /\ lastSeq' = [lastSeq EXCEPT ![n][e.signer] = e.seq]

-----------------------------------------------------------------------------
(* Handlers of the server: appendIssueEventWithLog *)

\* Mutant of SignEvent: NextSeq returns the last number, not the next one.
SignWithLastNumber(n) ==
  /\ n \in up
  /\ issued < MaxEvents
  /\ Cardinality(inflight[n]) < MaxHandlers
  /\ issued' = issued + 1
  /\ inflight' = [inflight EXCEPT ![n] = @ \cup
       {[signer |-> n, seq |-> lastSeq[n][n], body |-> issued + 1, key |-> n]}]
  /\ UNCHANGED <<storeVars, up, pullVars, acked, faults>>

\* The handler takes the next sequence number and signs its event; the lock of
\* the log is free again before Append takes it.
SignEvent(n) ==
  /\ n \in up
  /\ issued < MaxEvents
  /\ Cardinality(inflight[n]) < MaxHandlers
  /\ issued' = issued + 1
  /\ inflight' = [inflight EXCEPT ![n] = @ \cup
       {[signer |-> n, seq |-> lastSeq[n][n] + 1, body |-> issued + 1, key |-> n]}]
  /\ UNCHANGED <<storeVars, up, pullVars, acked, faults>>

\* Append succeeds and the request is answered with 201.
AppendEvent(n, e) ==
  /\ n \in up
  /\ e \in inflight[n]
  /\ Accepts(n, e)
  /\ Write(n, e)
  /\ inflight' = [inflight EXCEPT ![n] = @ \ {e}]
  /\ acked' = acked \cup {e}
  /\ UNCHANGED <<up, pullVars, issued, faults>>

\* Mutant of RefuseEvent: the error of Append is not looked at.
RefuseUnnoticed(n, e) ==
  /\ n \in up
  /\ e \in inflight[n]
  /\ ~Accepts(n, e)
  /\ inflight' = [inflight EXCEPT ![n] = @ \ {e}]
  /\ acked' = acked \cup {e}
  /\ UNCHANGED <<storeVars, up, pullVars, issued, faults>>

\* Append refuses the event of a handler that lost the race for its number.
RefuseEvent(n, e) ==
  /\ n \in up
  /\ e \in inflight[n]
  /\ ~Accepts(n, e)
  /\ inflight' = [inflight EXCEPT ![n] = @ \ {e}]
  /\ UNCHANGED <<storeVars, up, pullVars, acked, issued, faults>>

\* What a client may post: an event some node holds, at any later time and any
\* number of times, a copy of it changed on the way, or an event that names a
\* node and is signed with another key.
Posted == LET held == UNION {Rows(log[m]) : m \in Nodes}
          IN  held \cup {[e EXCEPT !.body = Altered] : e \in held} \cup Strays

\* Mutant of Ingest: the signature is not verified.
IngestUnverified(n, e) ==
  /\ n \in up
  /\ e.signer \in Trusted[n]
  /\ Accepts(n, e)
  /\ Write(n, e)
  /\ UNCHANGED <<up, inflight, pullVars, acked, issued, faults>>

\* syncIngest: the signature must verify and the signer's name be trusted; a
\* refused event changes nothing.
Ingest(n, e) ==
  /\ n \in up
  /\ VerifyByEventKey(e)
  /\ e.signer \in Trusted[n]
  /\ Accepts(n, e)
  /\ Write(n, e)
  /\ \/ Genuine(e) /\ UNCHANGED faults
     \/ ~Genuine(e) /\ Fault
  /\ UNCHANGED <<up, inflight, pullVars, acked, issued>>

-----------------------------------------------------------------------------
(* The sync loop: syncLoop and pullFromPeer *)

StartTick(n) ==
  /\ n \in up
  /\ pc[n] = "idle" /\ todo[n] = {} /\ Peers[n] # {}
  /\ todo' = [todo EXCEPT ![n] = Peers[n]]
  /\ UNCHANGED <<storeVars, up, inflight, pc, peer, remote, local, need, items,
                 acked, issued, faults>>

\* The peer answers /sync/clock.
FetchClock(n, m) ==
  /\ n \in up
  /\ pc[n] = "idle" /\ m \in todo[n] /\ m \in up
  /\ remote' = [remote EXCEPT ![n] = Clock(log[m])]
  /\ peer' = [peer EXCEPT ![n] = m]
  /\ todo' = [todo EXCEPT ![n] = @ \ {m}]
  /\ pc' = [pc EXCEPT ![n] = "local"]
  /\ UNCHANGED <<storeVars, up, inflight, local, need, items, acked, issued,
                 faults>>

\* The peer is down, its answer is lost, or it is passed over while its
\* backoff runs: the loop goes on with the next one.
SkipPeer(n, m) ==
  /\ n \in up
  /\ pc[n] = "idle" /\ m \in todo[n]
  /\ \/ m \notin up /\ UNCHANGED faults
     \/ Fault
  /\ todo' = [todo EXCEPT ![n] = @ \ {m}]
  /\ UNCHANGED <<storeVars, up, inflight, pc, peer, remote, local, need, items,
                 acked, issued>>

\* The local clock is read from the file, after the remote one arrived.
ReadLocalClock(n) ==
  /\ n \in up
  /\ pc[n] = "local"
  /\ local' = [local EXCEPT ![n] = Clock(log[n])]
  /\ need' = [need EXCEPT ![n] = {s \in Nodes : remote[n][s] > Clock(log[n])[s]}]
  /\ remote' = [remote EXCEPT ![n] = ZeroClock]
  /\ pc' = [pc EXCEPT ![n] = "signers"]
  /\ UNCHANGED <<storeVars, up, inflight, todo, peer, items, acked, issued,
                 faults>>

\* Mutant of FetchEvents: a peer serves the events it signed itself only.
FetchOwnEvents(n, s) ==
  /\ n \in up
  /\ pc[n] = "signers" /\ s \in need[n] /\ peer[n] \in up
  /\ items' = [items EXCEPT ![n] = {e \in EventsAfter(log[peer[n]], s, local[n][s]) :
                                      e.signer = peer[n]}]
  /\ need' = [need EXCEPT ![n] = @ \ {s}]
  /\ pc' = [pc EXCEPT ![n] = "apply"]
  /\ UNCHANGED <<storeVars, up, inflight, todo, peer, remote, local, acked,
                 issued, faults>>

\* The peer answers /sync/events with what it holds by now.
FetchEvents(n, s) ==
  /\ n \in up
  /\ pc[n] = "signers" /\ s \in need[n] /\ peer[n] \in up
  /\ items' = [items EXCEPT ![n] = EventsAfter(log[peer[n]], s, local[n][s])]
  /\ need' = [need EXCEPT ![n] = @ \ {s}]
  /\ pc' = [pc EXCEPT ![n] = "apply"]
  /\ UNCHANGED <<storeVars, up, inflight, todo, peer, remote, local, acked,
                 issued, faults>>

\* The request fails: the loop goes on with the next signer.
SkipSigner(n, s) ==
  /\ n \in up
  /\ pc[n] = "signers" /\ s \in need[n]
  /\ \/ peer[n] \notin up /\ UNCHANGED faults
     \/ Fault
  /\ need' = [need EXCEPT ![n] = @ \ {s}]
  /\ UNCHANGED <<storeVars, up, inflight, pc, todo, peer, remote, local, items,
                 acked, issued>>

\* The fetched events are applied by ascending sequence number; one that does
\* not verify, or that Append refuses, is passed over.
ApplyItem(n, e) ==
  /\ n \in up
  /\ pc[n] = "apply" /\ e \in items[n]
  /\ \A other \in items[n] : e.seq =< other.seq
  /\ items' = [items EXCEPT ![n] = @ \ {e}]
  /\ IF VerifyByEventKey(e) /\ Accepts(n, e)
       THEN Write(n, e)
       ELSE UNCHANGED storeVars
  /\ UNCHANGED <<up, inflight, pc, todo, peer, remote, local, need, acked,
                 issued, faults>>

NextSigner(n) ==
  /\ n \in up
  /\ pc[n] = "apply" /\ items[n] = {}
  /\ pc' = [pc EXCEPT ![n] = "signers"]
  /\ UNCHANGED <<storeVars, up, inflight, todo, peer, remote, local, need,
                 items, acked, issued, faults>>

EndPull(n) ==
  /\ n \in up
  /\ pc[n] = "signers" /\ need[n] = {}
  /\ pc' = [pc EXCEPT ![n] = "idle"]
  /\ peer' = [peer EXCEPT ![n] = n]
  /\ local' = [local EXCEPT ![n] = ZeroClock]
  /\ UNCHANGED <<storeVars, up, inflight, todo, remote, need, items, acked,
                 issued, faults>>

-----------------------------------------------------------------------------
(* Processes *)

\* The server stops at any point; the file stays, the memory goes.
Crash(n) ==
  /\ n \in up
  /\ Fault
  /\ up' = up \ {n}
  /\ lastSeq' = [lastSeq EXCEPT ![n] = ZeroClock]
  /\ replayIx' = [replayIx EXCEPT ![n] = {}]
  /\ inflight' = [inflight EXCEPT ![n] = {}]
  /\ pc' = [pc EXCEPT ![n] = "idle"]
  /\ todo' = [todo EXCEPT ![n] = {}]
  /\ peer' = [peer EXCEPT ![n] = n]
  /\ remote' = [remote EXCEPT ![n] = ZeroClock]
  /\ local' = [local EXCEPT ![n] = ZeroClock]
  /\ need' = [need EXCEPT ![n] = {}]
  /\ items' = [items EXCEPT ![n] = {}]
  /\ UNCHANGED <<log, acked, issued>>

\* Mutant of Restart: the index starts empty.
RestartWithoutIndex(n) ==
  /\ n \notin up
  /\ up' = up \cup {n}
  /\ UNCHANGED <<log, lastSeq, replayIx, inflight, pullVars, acked, issued, faults>>

\* Mutant of Restart: only the last numbers are read back.
RestartWithoutReplayKeys(n) ==
  /\ n \notin up
  /\ up' = up \cup {n}
  /\ lastSeq' = [lastSeq EXCEPT ![n] = Clock(log[n])]
  /\ UNCHANGED <<log, replayIx, inflight, pullVars, acked, issued, faults>>

\* store.Open: loadIndexes reads the index back from the file.
Restart(n) ==
  /\ n \notin up
  /\ up' = up \cup {n}
  /\ lastSeq' = [lastSeq EXCEPT ![n] = Clock(log[n])]
  /\ replayIx' = [replayIx EXCEPT ![n] = ReplayKeys(log[n])]
  /\ UNCHANGED <<log, inflight, pullVars, acked, issued, faults>>

Handlers(n) ==
  \/ SignEvent(n)
  \/ \E e \in inflight[n] : AppendEvent(n, e) \/ RefuseEvent(n, e)
  \/ \E e \in Posted : Ingest(n, e)

SyncLoop(n) ==
  \/ StartTick(n)
  \/ \E m \in Nodes : FetchClock(n, m) \/ SkipPeer(n, m)
  \/ ReadLocalClock(n)
  \/ \E s \in Nodes : FetchEvents(n, s) \/ SkipSigner(n, s)
  \/ \E e \in items[n] : ApplyItem(n, e)
  \/ NextSigner(n)
  \/ EndPull(n)

Next == \E n \in Nodes : \/ Handlers(n)
                         \/ SyncLoop(n)
                         \/ Crash(n)
                         \/ Restart(n)

Spec == Init /\ [][Next]_vars

\* The goroutine of the sync loop keeps being scheduled, and a stopped node is
\* started again.  Nothing is assumed of clients and handlers.
Fairness == \A n \in Nodes : WF_vars(SyncLoop(n)) /\ WF_vars(Restart(n))

FairSpec == Spec /\ Fairness

-----------------------------------------------------------------------------
(* Properties *)

\* Every variable holds a value the code can put there.
TypeOK ==
  /\ log \in [Nodes -> Seq(Event)]
  /\ up \in SUBSET Nodes
  /\ lastSeq \in [Nodes -> [Nodes -> Nat]]
  /\ replayIx \in [Nodes -> SUBSET (Nodes \X (Nat \ {0}))]
  /\ inflight \in [Nodes -> SUBSET Event]
  /\ pc \in [Nodes -> {"idle", "local", "signers", "apply"}]
  /\ todo \in [Nodes -> SUBSET Nodes]
  /\ peer \in [Nodes -> Nodes]
  /\ remote \in [Nodes -> [Nodes -> Nat]]
  /\ local \in [Nodes -> [Nodes -> Nat]]
  /\ need \in [Nodes -> SUBSET Nodes]
  /\ items \in [Nodes -> SUBSET Event]
  /\ acked \in SUBSET Event
  /\ issued \in 0 .. MaxEvents
  /\ faults \in 0 .. MaxFaults

\* "storage verify-integrity" passes on every node at any moment: whatever
\* order events arrive in, each signer's rows are numbered 1, 2, 3, ... in file
\* order and carry valid signatures (integrity.go).
ChainVerifies == \A n \in Nodes : VerifyIntegrity(log[n])

\* Two events with one signer and number, both signed with that signer's key,
\* are the same event on whichever nodes they are, although handlers race for
\* numbers, events are posted twice, changed or signed with other keys on the
\* way, and nodes restart in the middle of anything (Append's checks,
\* syncIngest, pullFromPeer).  Of events with another key nothing is promised:
\* whichever reaches a node first under a number stays there.
Agreement ==
  \A m, n \in Nodes : \A e \in Rows(log[m]), f \in Rows(log[n]) :
    e.signer = f.signer /\ e.seq = f.seq /\ Genuine(e) /\ Genuine(f) => e = f

\* Two nodes with the same clock that took up no event with another key hold
\* the same events: comparing clocks, as pullFromPeer does, finds everything
\* that is missing.
ClockTellsAll ==
  \A m, n \in Nodes :
    /\ Clock(log[m]) = Clock(log[n])
    /\ \A e \in Rows(log[m]) \cup Rows(log[n]) : Genuine(e)
    => Rows(log[m]) = Rows(log[n])

\* The index of a running server is the one it would read back from its file,
\* so a restart changes nothing it decides (Append, loadIndexes).
IndexMatchesFile ==
  \A n \in up : /\ lastSeq[n] = Clock(log[n])
                /\ replayIx[n] = ReplayKeys(log[n])

\* An event whose request was answered with 201 stays in its node's file.
AckedIsDurable == \A e \in acked : e \in Rows(log[e.signer])

\* No step drops, rewrites or reorders what a node has written.
AppendOnly ==
  [][\A n \in Nodes : /\ Len(log[n]) =< Len(log'[n])
                      /\ SubSeq(log'[n], 1, Len(log[n])) = log[n]]_log

RL == INSTANCE ReplicatedLog WITH seen <- [n \in Nodes |-> Rows(log[n])]

\* The files of the nodes behave as the abstract replicated log: a node writes
\* its own next event, copies the next event of a signer that holds it, or takes
\* up one that carries another key than its signer's (Append).
ReplicatesLog == RL!Spec

\* Once no more faults happen, an event in the file of one node reaches the
\* file of every node, however it got lost or delayed before (syncLoop).
EventsSpread ==
  \A s, n \in Nodes : \A k \in 1 .. MaxEvents :
    (\E e \in Rows(log[s]) : e.signer = s /\ e.seq = k)
      ~> (\E e \in Rows(log[n]) : e.signer = s /\ e.seq = k)

=============================================================================
