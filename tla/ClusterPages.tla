----------------------------- MODULE ClusterPages -----------------------------
(***************************************************************************)
(* The pages of a cluster export: for every page the node reads all logs   *)
(* anew, merges and sorts them, and cuts the page out by its offset        *)
(* (masterAuditClusterExport and paginateClusterAuditRecords in            *)
(* cmd/node/main.go).  How one log is read is in AuditExport.              *)
(*                                                                         *)
(* A record is its place in the order by time, node, id and hash.  A new   *)
(* one may come before older ones: clocks are apart, and ids are compared  *)
(* as strings.                                                             *)
(***************************************************************************)
EXTENDS Integers, FiniteSets

CONSTANTS Nodes,       \* the servers; each has the others as peers
          Reader,      \* the node the client asks for pages
          MaxPlaces,   \* bound: records in the logs
          Held,        \* bound: of them, records at the start
          Limit,       \* limit: records a page
          MaxPageErrors    \* bound: reads of peers that fail

ASSUME ReaderAssumption == Reader \in Nodes
ASSUME LimitAssumption == Limit \in Nat \ {0} /\ {MaxPlaces, Held, MaxPageErrors} \subseteq Nat

VARIABLES
  logs,      \* the records of each node
  page,      \* what the handler of a page is at: idle, reading or done
  unread,    \* peers it has yet to read
  merged,    \* the records it has read
  offset,    \* the client's cursor
  asked,     \* pages were served (history)
  offered,   \* records merged for the first page (history)
  delivered, \* records the client was given (history)
  pageErrors     \* reads that failed (history)

pageVars == <<logs, page, unread, merged, offset, asked, offered, delivered, pageErrors>>

Places == 1 .. MaxPlaces
Taken == UNION {logs[n] : n \in Nodes}

\* Every record there is at the start belongs to one node.
PagesInit ==
  /\ \E some \in {s \in SUBSET Places : Cardinality(s) =< Held} :
       \E owner \in [some -> Nodes] : logs = [n \in Nodes |-> {q \in some : owner[q] = n}]
  /\ page = "idle"
  /\ unread = {} /\ merged = {}
  /\ offset = 0
  /\ asked = FALSE /\ offered = {} /\ delivered = {}
  /\ pageErrors = 0

\* auditManager.Append; the filter of the export may hide the record.
Recorded(n) ==
  \/ UNCHANGED logs
  \/ \E q \in Places \ Taken : logs' = [logs EXCEPT ![n] = @ \cup {q}]

\* The handler reads its own log first.
AskPage ==
  /\ page = "idle" /\ page' = "reading"
  /\ merged' = logs[Reader]
  /\ unread' = Nodes \ {Reader}
  /\ UNCHANGED <<logs, offset, asked, offered, delivered, pageErrors>>

\* The peer records the request in the log it has read.
ReadPeer(m) ==
  /\ m \in unread /\ unread' = unread \ {m}
  /\ merged' = merged \cup logs[m]
  /\ Recorded(m)
  /\ UNCHANGED <<page, offset, asked, offered, delivered, pageErrors>>

\* peer_errors; the page is served without the records of this peer.
MissPeer(m) ==
  /\ m \in unread /\ unread' = unread \ {m}
  /\ pageErrors < MaxPageErrors /\ pageErrors' = pageErrors + 1
  /\ Recorded(m)
  /\ UNCHANGED <<page, merged, offset, asked, offered, delivered>>

\* Where the sorted result has record q.
IndexOf(q) == Cardinality({r \in merged : r < q})

Paged == {q \in merged : IndexOf(q) \in offset .. offset + Limit - 1}

\* Mutant of HasMore: the last record is not worth a page.
HasMoreShort == offset + Limit + 1 < Cardinality(merged)

\* There is a next_cursor.
HasMore == offset + Limit < Cardinality(merged)

\* 200; the request is recorded by this node too.
ServePage ==
  /\ page = "reading" /\ unread = {}
  /\ delivered' = delivered \cup Paged
  /\ offered' = IF asked THEN offered ELSE merged
  /\ asked' = TRUE
  /\ page' = IF HasMore THEN "idle" ELSE "done"
  /\ offset' = IF HasMore THEN offset + Limit ELSE offset
  /\ merged' = {}
  /\ Recorded(Reader)
  /\ UNCHANGED <<unread, pageErrors>>

\* Any other audited request.
RecordOther(n) ==
  /\ page # "done"
  /\ Recorded(n)
  /\ UNCHANGED <<page, unread, merged, offset, asked, offered, delivered, pageErrors>>

PagesNext ==
  \/ AskPage \/ ServePage
  \/ \E n \in Nodes : ReadPeer(n) \/ MissPeer(n) \/ RecordOther(n)

-----------------------------------------------------------------------------

\* A client that has followed the cursors to the end was given every record that
\* was there for the first page, although all logs grow between the pages and new
\* records are sorted in anywhere; unless a peer failed to answer for a page, for
\* then the offset skips records of the others (paginateClusterAuditRecords).
PagesMissNothing == page = "done" /\ pageErrors = 0 => offered \subseteq delivered

=============================================================================
