----------------------------- MODULE AuditExport ------------------------------
(***************************************************************************)
(* The export of the audit logs of the cluster: the exporting node reads   *)
(* its own log, then the log of each peer page by page, by offset, while   *)
(* those logs grow; every page the peer serves is itself a record of the   *)
(* peer's log (masterAuditClusterExport, fetchPeerAuditEvents and          *)
(* securityAuditExport in cmd/node/main.go).                               *)
(*                                                                         *)
(* Records are counted, not named: the logs only grow at their end, so an  *)
(* offset keeps its meaning.  A peer's log has any length in Sizes when    *)
(* an export reaches it.  A client may also ask for the merged result page *)
(* by page: the behaviours where it does are those of ClusterPages.        *)
(***************************************************************************)
EXTENDS Integers, FiniteSets, ClusterPages

CONSTANTS Exports,   \* requests for a cluster export
          Home,      \* the node each is sent to
          PageLimit, \* peer_limit
          SelfSeen,  \* the filter lets the records of the export itself through
          Sizes,     \* lengths a log may have
          MaxOther,  \* bound: other audited requests in a behaviour
          MaxFaults  \* bound: pages that fail in a behaviour

ASSUME HomeAssumption == Home \in [Exports -> Nodes]
ASSUME PageLimitAssumption == PageLimit \in Nat \ {0}
ASSUME SelfSeenAssumption == SelfSeen \in BOOLEAN
ASSUME SizesAssumption == Sizes \subseteq Nat /\ {MaxOther, MaxFaults} \subseteq Nat

VARIABLES
  paging, \* the client asks for pages
  step,   \* what the handler of each export is at
  at,     \* the peer it reads, or none
  todo,   \* peers it has not read
  beyond, \* records of that peer's log beyond the cursor
  wanted, \* those of them that were there when the export reached the peer (history)
  whole,  \* peers read to the end
  failed, \* peer_errors
  missed, \* peers read to the end of which a wanted record is missing (history)
  other, faults

exportVars == <<step, at, todo, beyond, wanted, whole, failed, missed, other, faults>>
clusterVars == <<paging, pageVars, exportVars>>

AtLeastZero(k) == IF k < 0 THEN 0 ELSE k

ExportInit ==
  /\ paging \in BOOLEAN
  /\ PagesInit /\ (paging \/ Taken = {})
  /\ step = [x \in Exports |-> "idle"]
  /\ at = [x \in Exports |-> {}]
  /\ todo = [x \in Exports |-> Nodes \ {Home[x]}]
  /\ beyond = [x \in Exports |-> 0]
  /\ wanted = [x \in Exports |-> 0]
  /\ whole = [x \in Exports |-> {}]
  /\ failed = [x \in Exports |-> {}]
  /\ missed = [x \in Exports |-> {}]
  /\ other = 0 /\ faults = 0

\* auditManager.Append at node m, as the exports that read its log see it.
Grown(m) == [x \in Exports |-> IF at[x] = {m} THEN beyond[x] + 1 ELSE beyond[x]]
GrownBySelf(m) == IF SelfSeen THEN Grown(m) ELSE beyond

\* The handler starts, and reads the local log.
Start(x) ==
  /\ step[x] = "idle"
  /\ step' = [step EXCEPT ![x] = "running"]
  /\ UNCHANGED <<at, todo, beyond, wanted, whole, failed, missed, other, faults>>

ReachPeer(x, m, size) ==
  /\ step[x] = "running" /\ at[x] = {} /\ m \in todo[x]
  /\ at' = [at EXCEPT ![x] = {m}]
  /\ todo' = [todo EXCEPT ![x] = @ \ {m}]
  /\ beyond' = [beyond EXCEPT ![x] = size]
  /\ wanted' = [wanted EXCEPT ![x] = size]
  /\ UNCHANGED <<step, whole, failed, missed, other, faults>>

\* Mutant of HasNext: the last record is not worth a page.
HasNextShort(left) == left > PageLimit + 1

\* paginateAuditEvents gives a next cursor.
HasNext(left) == left > PageLimit

\* Mutant of FetchPage: the cursor stays.
FetchPageAgain(x, m) ==
  /\ at[x] = {m} /\ HasNext(beyond[x])
  /\ UNCHANGED exportVars

\* One page, computed before the request is recorded in the same log.
FetchPage(x, m) ==
  /\ at[x] = {m} /\ HasNext(beyond[x])
  /\ beyond' = [GrownBySelf(m) EXCEPT ![x] = @ - PageLimit]
  /\ wanted' = [wanted EXCEPT ![x] = AtLeastZero(@ - PageLimit)]
  /\ UNCHANGED <<step, at, todo, whole, failed, missed, other, faults>>

Leave(x) == /\ at' = [at EXCEPT ![x] = {}]
            /\ wanted' = [wanted EXCEPT ![x] = 0]

FetchLastPage(x, m) ==
  /\ at[x] = {m} /\ ~HasNext(beyond[x])
  /\ beyond' = [GrownBySelf(m) EXCEPT ![x] = 0]
  /\ whole' = [whole EXCEPT ![x] = @ \cup {m}]
  /\ missed' = [missed EXCEPT ![x] = IF wanted[x] > PageLimit THEN @ \cup {m} ELSE @]
  /\ Leave(x)
  /\ UNCHANGED <<step, todo, failed, other, faults>>

\* The page does not come, whether or not the peer recorded the request: all
\* pages of the peer are dropped, and the export goes on.
FailPage(x, m) ==
  /\ at[x] = {m}
  /\ faults < MaxFaults /\ faults' = faults + 1
  /\ \E b \in {beyond, GrownBySelf(m)} : beyond' = [b EXCEPT ![x] = 0]
  /\ failed' = [failed EXCEPT ![x] = @ \cup {m}]
  /\ Leave(x)
  /\ UNCHANGED <<step, todo, whole, missed, other>>

\* 200; the export is recorded in the log of its own node.
Answer(x) ==
  /\ step[x] = "running" /\ at[x] = {} /\ todo[x] = {}
  /\ step' = [step EXCEPT ![x] = "answered"]
  /\ beyond' = GrownBySelf(Home[x])
  /\ UNCHANGED <<at, todo, wanted, whole, failed, missed, other, faults>>

\* Any other audited request at a node.
OtherRecord(m) ==
  /\ other < MaxOther /\ other' = other + 1
  /\ beyond' = Grown(m)
  /\ UNCHANGED <<step, at, todo, wanted, whole, failed, missed, faults>>

Handle(x) ==
  /\ ~paging
  /\ \/ \E m \in Nodes : \/ \E size \in Sizes : ReachPeer(x, m, size)
                         \/ FetchPage(x, m)
                         \/ FetchLastPage(x, m)
                         \/ FailPage(x, m)
     \/ Answer(x)
  /\ UNCHANGED <<paging, pageVars>>

ExportNext ==
  \/ \E x \in Exports : Handle(x)
  \/ /\ ~paging
     /\ (\E x \in Exports : Start(x)) \/ (\E m \in Nodes : OtherRecord(m))
     /\ UNCHANGED <<paging, pageVars>>
  \/ /\ paging /\ PagesNext
     /\ UNCHANGED <<paging, exportVars>>

ExportSpec == ExportInit /\ [][ExportNext]_clusterVars

\* The goroutine of a handler keeps being scheduled, and a request to a peer is
\* answered or times out.
FairSpec == ExportSpec /\ \A x \in Exports : WF_clusterVars(Handle(x))

-----------------------------------------------------------------------------
(* Properties *)

\* When an export is answered, each peer is listed as an error or is there with
\* every record its log held when the export reached it, although the log grew
\* between the pages (offsets of fetchPeerAuditEvents and paginateAuditEvents).
ExportIsComplete ==
  \A x \in Exports : step[x] = "answered" =>
    \A m \in Nodes \ {Home[x]} :
      m \in failed[x] \/ (m \in whole[x] /\ m \notin missed[x])

\* An export that has begun is answered, although each of its pages makes the
\* log it reads longer.
ExportEnds == \A x \in Exports : step[x] = "running" ~> step[x] = "answered"

=============================================================================
