------------------------------- MODULE Tracker -------------------------------
(***************************************************************************)
(* The issue handlers of the nodes and the offboarding of a user, over     *)
(* logs that replicate as SyncCluster guarantees: a node learns the events *)
(* of a signer in order, whenever (cmd/node/main.go: issueCreate,          *)
(* issueTransition, issueComment, issueArchive, issueUnarchive,            *)
(* teamOffboard, reassignFromEvents).                                      *)
(*                                                                         *)
(* Handlers read the log, sign and append in separate steps: the lock of   *)
(* the log is not held in between.  The quorum a team.offboard asks for    *)
(* has been granted; a node runs one for a user at a time.                 *)
(***************************************************************************)
EXTENDS Board

CONSTANTS Leads,      \* users with the role lead
          Duty,       \* users on duty
          Offset,     \* how far the clock of each node is ahead at first
          Settings,   \* how far ahead each clock may be set later
          Kinds,      \* operations the clients of each node may call, with issues
          Pasts,      \* files that all nodes may begin with
          Targets,    \* statuses they ask for
          MaxEvents,  \* bound: events signed since
          MaxPending, \* bound: issue handlers in flight on a node
          MaxOffboards, \* bound: calls of team.offboard in a behaviour
          MaxStepped  \* bound: nodes whose clock is set back in a behaviour

\* Signed issue events.
Events == [signer : Nodes, seq : Nat, time : Int, issue : Issues,
           type : {"create", "transition", "comment", "archive", "unarchive", "reassign"},
           arg : Users \cup {Nobody} \cup Statuses]

Rows(file) == {file[k] : k \in DOMAIN file}
Count(file, s) == Cardinality({k \in DOMAIN file : file[k].signer = s})

\* The rows of each signer carry the numbers 1, 2, ...
Ascends(file) ==
  /\ \A k \in DOMAIN file : file[k].seq =< Count(file, file[k].signer)
  /\ \A j, k \in DOMAIN file :
       file[j].signer = file[k].signer /\ j < k => file[j].seq < file[k].seq

\* The times of a signer, unless it is one of these, never go back.
InTime(rows, signers) ==
  \A e, f \in rows :
    e.signer = f.signer /\ e.signer \notin signers /\ e.seq < f.seq => e.time =< f.time

ASSUME PastsAssumption ==
  \A past \in Pasts : /\ past \in Seq(Events) /\ Ascends(past) /\ InTime(Rows(past), {})
                      /\ \A e \in Rows(past) : e.time =< Offset[e.signer]
ASSUME RolesAssumption == Leads \subseteq Users /\ Duty \subseteq Users
ASSUME OffsetAssumption == Offset \in [Nodes -> Nat] /\ Settings \in [Nodes -> SUBSET Int]
ASSUME TargetsAssumption == Targets \subseteq Statuses
ASSUME CountsAssumption == {MaxEvents, MaxPending, MaxOffboards, MaxStepped} \subseteq Nat

VARIABLES
  kinds,    \* operations the clients of each node call, each with its issue
  log,      \* events.jsonl of each node
  now,      \* true time, advanced by every signature
  ahead,    \* how far the clock of each node is ahead of it
  stepped,  \* nodes whose clock was set back (history)
  active,   \* the members the team file of each node holds as active
  checked,  \* creates that found no such issue in the log
  signed,   \* events signed by issue handlers, not appended yet
  off,      \* the team.offboard handler of each node and user
  calls,    \* calls of team.offboard so far
  done      \* offboardings answered with 200 (history)

vars == <<kinds, log, now, ahead, stepped, active, checked, signed, off, calls, done>>
clocks == <<ahead, stepped>>

\* EventLog.NextSeq
NextSeq(n) == Count(log[n], n) + 1

\* appendIssueEventWithLog up to the signature.
Signed(n, issue, type, arg) ==
  [signer |-> n, seq |-> NextSeq(n), time |-> now + ahead[n], issue |-> issue,
   type |-> type, arg |-> arg]

\* The handler of team.offboard, between requests.
Idle == [step |-> "idle", next |-> Nobody, seen |-> {}, issues |-> {}, left |-> {},
         event |-> {}]

\* Servers that were stopped when all of them held the same events.
Init ==
  /\ kinds \in Kinds
  /\ \E past \in Pasts : log = [n \in Nodes |-> past]
  /\ now = 0
  /\ ahead = Offset /\ stepped = {}
  /\ active = [n \in Nodes |-> Users]
  /\ checked = [n \in Nodes |-> {}]
  /\ signed = [n \in Nodes |-> {}]
  /\ off = [n \in Nodes |-> [u \in Users |-> Idle]]
  /\ calls = 0
  /\ done = {}

Free(n) == Cardinality(checked[n]) + Cardinality(signed[n]) < MaxPending
Sign == now < MaxEvents /\ now' = now + 1

\* The clock of a node is the wall clock of its machine, which time.Now().UTC()
\* reads: it may be set at any moment, and back as well (external;
\* after the last signature nobody reads it).
SetClock(n, t) ==
  /\ now < MaxEvents
  /\ ahead' = [ahead EXCEPT ![n] = t]
  /\ stepped' = IF t < ahead[n] THEN stepped \cup {n} ELSE stepped
  /\ Cardinality(stepped') =< MaxStepped
  /\ UNCHANGED <<kinds, log, now, active, checked, signed, off, calls, done>>

-----------------------------------------------------------------------------
(* The issue handlers *)

\* issueCreate reads the log and finds no such issue.
CheckCreate(n, issue, assignee) ==
  /\ <<"create", issue>> \in kinds[n] /\ Free(n)
  /\ ~IssueExists(log[n], issue)
  /\ checked' = [checked EXCEPT ![n] = @ \cup {<<issue, assignee>>}]
  /\ UNCHANGED <<clocks, kinds, log, now, active, signed, off, calls, done>>

SignCreate(n, c) ==
  /\ c \in checked[n]
  /\ Sign
  /\ checked' = [checked EXCEPT ![n] = @ \ {c}]
  /\ signed' = [signed EXCEPT ![n] = @ \cup {Signed(n, c[1], "create", c[2])}]
  /\ UNCHANGED <<clocks, kinds, log, active, off, calls, done>>

\* issueTransition: the request states where the issue comes from.
SignTransition(n, issue, from, to) ==
  /\ <<"transition", issue>> \in kinds[n] /\ Free(n)
  /\ ValidTransition(from, to)
  /\ Sign
  /\ signed' = [signed EXCEPT ![n] = @ \cup {Signed(n, issue, "transition", to)}]
  /\ UNCHANGED <<clocks, kinds, log, active, checked, off, calls, done>>

\* issueComment, issueArchive, issueUnarchive
SignOther(n, issue, type) ==
  /\ <<type, issue>> \in kinds[n] /\ Free(n)
  /\ Sign
  /\ signed' = [signed EXCEPT ![n] = @ \cup {Signed(n, issue, type, Nobody)}]
  /\ UNCHANGED <<clocks, kinds, log, active, checked, off, calls, done>>

\* Mutant of Accepts: the number is not checked.
AcceptsAny(n, e) == TRUE

\* EventLog.Append checks the number against the last one of the signer.
Accepts(n, e) == e.seq = NextSeq(n)

\* EventLog.Append: 201, or 500 for a handler whose number was taken.
AppendEvent(n, e) ==
  /\ e \in signed[n]
  /\ signed' = [signed EXCEPT ![n] = @ \ {e}]
  /\ log' = IF Accepts(n, e) THEN [log EXCEPT ![n] = Append(@, e)] ELSE log
  /\ UNCHANGED <<clocks, kinds, now, active, checked, off, calls, done>>

\* pullFromPeer, as far as SyncCluster shows it matters: the next event of a
\* signer.
Learn(n, e) ==
  /\ e.seq = Cardinality({f \in Rows(log[n]) : f.signer = e.signer}) + 1
  /\ log' = [log EXCEPT ![n] = Append(@, e)]
  /\ UNCHANGED <<clocks, kinds, now, active, checked, signed, off, calls, done>>

-----------------------------------------------------------------------------
(* teamOffboard and reassignFromEvents *)

\* team.Manager.Offboard; the handler may be called again for the same user.
Offboard(n, u) ==
  /\ off[n][u].step = "idle" /\ calls < MaxOffboards
  /\ active' = [active EXCEPT ![n] = @ \ {u}]
  /\ off' = [off EXCEPT ![n][u].step = "read"]
  /\ calls' = calls + 1
  /\ UNCHANGED <<clocks, kinds, log, now, checked, signed, done>>

\* The whole log is read once.
ReadForReassign(n, u) ==
  /\ off[n][u].step = "read"
  /\ LET mine == OpenIssuesOf(Board(log[n]), u)
     IN  off' = [off EXCEPT ![n][u] = [@ EXCEPT !.step = "choose", !.seen = Rows(log[n]),
                                                !.issues = mine, !.left = mine]]
  /\ UNCHANGED <<clocks, kinds, log, now, active, checked, signed, calls, done>>

\* ActiveLead and ActiveDuty take any match: they range over a Go map.
AnyOf(members) == IF members = {} THEN {Nobody} ELSE members
NextAssignee(n, u) ==
  LET leads == AnyOf(active[n] \cap Leads)
      duty == {IF d = u THEN Nobody ELSE d : d \in AnyOf(active[n] \cap Duty)}
  IN  (leads \ {Nobody, u}) \cup (IF leads \cap {Nobody, u} # {} THEN duty ELSE {})

\* The assignee is chosen once.
ChooseAssignee(n, u) ==
  /\ off[n][u].step = "choose"
  /\ \E next \in NextAssignee(n, u) :
       off' = [off EXCEPT ![n][u] = [@ EXCEPT !.step = "sign", !.next = next]]
  /\ UNCHANGED <<clocks, kinds, log, now, active, checked, signed, calls, done>>

SignReassign(n, u, issue) ==
  /\ off[n][u].step = "sign" /\ issue \in off[n][u].left
  /\ Sign
  /\ off' = [off EXCEPT ![n][u] = [@ EXCEPT !.step = "append",
               !.event = {Signed(n, issue, "reassign", off[n][u].next)}]]
  /\ UNCHANGED <<clocks, kinds, log, active, checked, signed, calls, done>>

Reassigned(n, u, e) ==
  off' = [off EXCEPT ![n][u] = [@ EXCEPT !.step = "sign", !.event = {},
                                         !.left = off[n][u].left \ {e.issue}]]

\* Mutant of AppendReassign: the error of Append is not looked at.
AppendReassignUnchecked(n, u) ==
  /\ off[n][u].step = "append"
  /\ \E e \in off[n][u].event :
       /\ log' = IF Accepts(n, e) THEN [log EXCEPT ![n] = Append(@, e)] ELSE log
       /\ Reassigned(n, u, e)
  /\ UNCHANGED <<clocks, kinds, now, active, checked, signed, calls, done>>

\* A refused event ends the handler with 500; the issues left stay as they are.
AppendReassign(n, u) ==
  /\ off[n][u].step = "append"
  /\ \E e \in off[n][u].event :
       IF Accepts(n, e)
         THEN log' = [log EXCEPT ![n] = Append(@, e)] /\ Reassigned(n, u, e)
         ELSE off' = [off EXCEPT ![n][u] = Idle] /\ UNCHANGED log
  /\ UNCHANGED <<clocks, kinds, now, active, checked, signed, calls, done>>

\* 200: offboarded.
AnswerOffboarded(n, u) ==
  /\ off[n][u].step = "sign" /\ off[n][u].left = {}
  /\ done' = done \cup {[node |-> n, user |-> u, seen |-> off[n][u].seen,
                         issues |-> off[n][u].issues]}
  /\ off' = [off EXCEPT ![n][u] = Idle]
  /\ UNCHANGED <<clocks, kinds, log, now, active, checked, signed, calls>>

Next ==
  \E n \in Nodes :
    \/ \E t \in Settings[n] : SetClock(n, t)
    \/ \E i \in Issues, u \in Users \cup {Nobody} : CheckCreate(n, i, u)
    \/ \E c \in checked[n] : SignCreate(n, c)
    \/ \E i \in Issues, to \in Targets, from \in Statuses \cup {Unstated} :
         SignTransition(n, i, from, to)
    \/ \E i \in Issues, type \in {"comment", "archive", "unarchive"} : SignOther(n, i, type)
    \/ \E e \in signed[n] : AppendEvent(n, e)
    \/ \E m \in Nodes : \E e \in Rows(log[m]) : Learn(n, e)
    \/ \E u \in Users :
         \/ Offboard(n, u)
         \/ ReadForReassign(n, u)
         \/ ChooseAssignee(n, u)
         \/ \E i \in Issues : SignReassign(n, u, i)
         \/ AppendReassign(n, u)
         \/ AnswerOffboarded(n, u)

Spec == Init /\ [][Next]_vars

-----------------------------------------------------------------------------
(* Properties *)

\* Nodes that hold the same events show the same board, whatever order the
\* events arrived in, however the clocks are set and whenever they step back (the
\* sort of projectBoardFromEvents).
BoardsConverge ==
  \A m, n \in Nodes :
    m < n /\ Rows(log[m]) = Rows(log[n]) => Board(log[m]) = Board(log[n])

\* The replay reverses two events of one signer only if the clock of that node was
\* set back at some time, although the timestamp is taken outside the lock of the
\* log (NextSeq, Sign and Append of appendIssueEventWithLog).
SignerOrderKept ==
  \A n \in Nodes :
    LET rows == Replayed(log[n])
    IN  \A j, k \in DOMAIN rows :
          rows[j].signer = rows[k].signer /\ j < k =>
            rows[j].seq < rows[k].seq \/ rows[j].signer \in stepped

\* An answer of 200 means that every task the handler found has a reassign event
\* of this node, although each of them raced other handlers for its number.
OffboardIsComplete ==
  \A d \in done : \A i \in d.issues :
    \E e \in Rows(log[d.node]) \ d.seen :
      e.signer = d.node /\ e.issue = i /\ e.type = "reassign"

\* An answer of 200 means that none of those tasks is assigned to the user any
\* more, as long as the log holds no other new event about it.
OffboardClears ==
  \A d \in done : \A i \in d.issues :
    (\A e \in Rows(log[d.node]) \ d.seen :
       e.issue = i => e.type = "reassign" /\ e.signer = d.node)
      => Board(log[d.node])[i].assignee # d.user

=============================================================================
