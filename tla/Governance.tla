------------------------------ MODULE Governance ------------------------------
(***************************************************************************)
(* The documents a node changes only with the votes of a majority: who has *)
(* a vote (internal/governance), who is on the team (internal/team) and    *)
(* which nodes are trusted (internal/trust).  A node collects the votes of *)
(* its peers, one request after the other, and applies the change to its   *)
(* own document (the handlers under /governance/, /team/ and /trust/ and   *)
(* the vote endpoints in cmd/node/main.go).                                *)
(*                                                                         *)
(* Every node lists every other one as a peer.  What an offboarding does   *)
(* to the issues is in Tracker.  Saves that fail while the server goes on  *)
(* are left out: see Trust, whose manager saves in the same way.           *)
(***************************************************************************)
EXTENDS Integers, Sequences, FiniteSets

CONSTANTS Nodes,     \* the servers
          Ids,       \* node ids a document may name
          Blank,     \* an empty node id in a request
          Users,     \* members a request may name
          Roles,     \* roles of members
          Families,  \* requests clients send, a set for each behaviour
          MaxCalls,  \* bound: requests in a behaviour
          MaxFaults  \* bound: crashes and lost votes in a behaviour

ASSUME NodesAssumption == Nodes \subseteq Ids /\ IsFiniteSet(Nodes)
ASSUME BlankAssumption == Blank \notin Ids
ASSUME BoundsAssumption == {MaxCalls, MaxFaults} \subseteq Nat

VARIABLES
  requests, \* the requests clients send
  gov,      \* governance.json of each node, which its memory equals
  team,     \* team.json of each node, which its memory equals
  trust,    \* trust.json of each node, which its memory equals
  up,       \* the nodes whose server runs
  handler,  \* the request each node is working on
  applied,  \* who voted for each change that was applied (history)
  refused,  \* votes that were lost by each request answered "rejected" (history)
  last,     \* the voting set a node was last given, <<>> if changed since (history)
  calls, faults

documents == <<gov, team, trust>>
history == <<applied, refused, last>>
vars == <<requests, documents, up, handler, history, calls, faults>>

Entry == [role : {"voting", "non_voting", "absent"}, active : BOOLEAN]
Absent == [role |-> "absent", active |-> FALSE]
Voting == [role |-> "voting", active |-> TRUE]

\* The nodes VotingCount counts.
Voters(doc) == {id \in Ids : doc[id] = Voting}

Member == [role : Roles \cup {"absent"}, duty : BOOLEAN, active : BOOLEAN]
TrustList == [trusted : SUBSET Ids, invited : SUBSET Ids]
NoMember == [role |-> "absent", duty |-> FALSE, active |-> FALSE]

\* The requests.
Reconfigure(list) == [op |-> "reconfigure", list |-> list]
NodeRole(id, entry) == [op |-> "node_role", id |-> id, entry |-> entry]
Onboard(u, role, duty) == [op |-> "onboard", user |-> u, role |-> role, duty |-> duty]
RoleChange(u, role, duty) == [op |-> "role_change", user |-> u, role |-> role, duty |-> duty]
Offboard(u) == [op |-> "offboard", user |-> u]
Invite(id) == [op |-> "invite", id |-> id]
Revoke(id) == [op |-> "revoke", id |-> id]
NoRequest == [op |-> "none"]

\* Whether the votes for a change are there is asked for by commands that change
\* something themselves: the transition of an issue is only asked for in this way.
Transition(legal) == [op |-> "transition", legal |-> legal]
Validate(r) == [op |-> "validate", of |-> r]

Changes ==
  [op : {"reconfigure"}, list : Seq(Ids \cup {Blank})]
  \cup [op : {"node_role"}, id : Ids, entry : Entry]
  \cup [op : {"onboard", "role_change"}, user : Users, role : Roles, duty : BOOLEAN]
  \cup [op : {"offboard"}, user : Users]
  \cup [op : {"invite", "revoke"}, id : Ids]
  \cup [op : {"transition"}, legal : BOOLEAN]
Requests == Changes \cup [op : {"validate"}, of : Changes]
ASSUME FamiliesAssumption == \A family \in Families : family \subseteq Requests

\* What a node's handler holds: the peers it has yet to ask, those that agreed, and
\* those whose vote was lost.
Handlers == [request : Requests \cup {NoRequest}, left : SUBSET Nodes,
             voted : SUBSET Nodes, lost : SUBSET Nodes, saved : BOOLEAN]
Idle == [request |-> NoRequest, left |-> {}, voted |-> {}, lost |-> {}, saved |-> FALSE]

\* Every node was given the same voting set before, and trusts itself.
Init ==
  /\ requests \in Families
  /\ team = [n \in Nodes |-> [u \in Users |-> NoMember]]
  /\ trust = [n \in Nodes |-> [trusted |-> {n}, invited |-> {}]]
  /\ gov = [n \in Nodes |-> [id \in Ids |-> IF id \in Nodes THEN Voting ELSE Absent]]
  /\ up = Nodes
  /\ handler = [n \in Nodes |-> Idle]
  /\ applied = {}
  /\ refused = {}
  /\ last = [n \in Nodes |-> <<>>]
  /\ calls = 0
  /\ faults = 0

-----------------------------------------------------------------------------
(* internal/governance *)

Named(list) == {list[k] : k \in DOMAIN list} \ {Blank}
IsOdd(k) == k % 2 = 1

\* Mutant of Replaced: nobody loses its vote.
ReplacedKeeping(doc, list) ==
  [id \in Ids |-> IF id \in Named(list) THEN Voting ELSE doc[id]]

\* ReplaceVotingSet: the others keep what they were, without a vote.
Replaced(doc, list) ==
  [id \in Ids |-> IF id \in Named(list) THEN Voting
                  ELSE IF doc[id] = Absent THEN Absent
                  ELSE [doc[id] EXCEPT !.role = "non_voting"]]

Replaceable(list) == IsOdd(Len(list)) /\ IsOdd(Cardinality(Named(list)))

-----------------------------------------------------------------------------
(* internal/team and internal/trust *)

Onboarded(doc, r) ==
  [doc EXCEPT ![r.user] = [role |-> r.role, duty |-> r.duty, active |-> TRUE]]

\* ChangeRole: whether the member is active stays as it was.
RoleChanged(doc, r) ==
  [doc EXCEPT ![r.user] = [role |-> r.role, duty |-> r.duty, active |-> @.active]]

Offboarded(doc, r) == [doc EXCEPT ![r.user].active = FALSE]

Known(doc, u) == doc[u] # NoMember

Invited(doc, id) == [doc EXCEPT !.invited = @ \cup {id}]
Revoked(doc, id) == [trusted |-> doc.trusted \ {id}, invited |-> doc.invited \ {id}]

-----------------------------------------------------------------------------
(* Votes *)

\* validateVotingSet
ValidVotingSet(list) ==
  /\ IsOdd(Len(list))
  /\ \A k \in DOMAIN list : list[k] # Blank
  /\ \A j, k \in DOMAIN list : list[j] = list[k] => j = k

\* Mutant of QuorumNeeded: half of the nodes is enough.
HalfNeeded(total) == total \div 2

\* Mutant of QuorumNeeded: every node has to agree.
AllNeeded(total) == total

QuorumNeeded(total) == total \div 2 + 1

Granted(h) == Cardinality(h.voted)
HasQuorum(h) == Granted(h) >= QuorumNeeded(Cardinality(Nodes))

Asked(request) == IF request.op = "validate" THEN request.of ELSE request

\* The vote endpoints look at the request alone and leave nothing behind; one that
\* names a node, a member or a role is let through.
Allows(request) ==
  LET r == Asked(request)
  IN  /\ r.op = "reconfigure" => ValidVotingSet(r.list)
      /\ r.op = "transition" => r.legal

\* A handler starts; its own vote counts, whatever the request says, but the
\* endpoints for commands look at it first.
Call(n, request) ==
  /\ n \in up /\ handler[n] = Idle
  /\ request.op = "validate" => Allows(request)
  /\ calls < MaxCalls
  /\ calls' = calls + 1
  /\ handler' = [handler EXCEPT ![n] = [Idle EXCEPT !.request = request,
                                          !.left = Nodes \ {n}, !.voted = {n}]]
  /\ UNCHANGED <<requests, documents, up, history, faults>>

Vote(n, m) ==
  /\ n \in up /\ m \in handler[n].left /\ m \in up
  /\ handler' = [handler EXCEPT ![n].left = @ \ {m},
                   ![n].voted = IF Allows(handler[n].request) THEN @ \cup {m} ELSE @]
  /\ UNCHANGED <<requests, documents, up, history, calls, faults>>

\* The peer is down, or it does not answer within three seconds.
LoseVote(n, m) ==
  /\ n \in up /\ m \in handler[n].left
  /\ \/ m \notin up /\ UNCHANGED faults
     \/ faults < MaxFaults /\ faults' = faults + 1
  /\ handler' = [handler EXCEPT ![n].left = @ \ {m}, ![n].lost = @ \cup {m}]
  /\ UNCHANGED <<requests, documents, up, history, calls>>

Counted(n) ==
  /\ n \in up /\ handler[n].request # NoRequest
  /\ handler[n].left = {} /\ ~handler[n].saved

\* "quorum not reached": nothing is changed.
Reject(n) ==
  /\ Counted(n) /\ ~HasQuorum(handler[n])
  /\ refused' = refused \cup {[request |-> handler[n].request, lost |-> handler[n].lost]}
  /\ handler' = [handler EXCEPT ![n] = Idle]
  /\ UNCHANGED <<requests, documents, up, applied, last, calls, faults>>

\* The managers refuse an even voting set, and a change of a user they do not know.
Taken(n, r) ==
  /\ r.op = "reconfigure" => Replaceable(r.list)
  /\ r.op \in {"role_change", "offboard"} => Known(team[n], r.user)

\* 400, and nothing is changed.
NotTaken(n) ==
  /\ Counted(n) /\ HasQuorum(handler[n]) /\ ~Taken(n, handler[n].request)
  /\ handler' = [handler EXCEPT ![n] = Idle]
  /\ UNCHANGED <<requests, documents, up, history, calls, faults>>

\* The request of node n, an op, has its votes, and the manager changes and saves
\* its document.
Granting(n, op) ==
  /\ Counted(n) /\ HasQuorum(handler[n]) /\ handler[n].request.op = op
  /\ Taken(n, handler[n].request)
  /\ handler' = [handler EXCEPT ![n].saved = TRUE]
  /\ UNCHANGED <<requests, up, applied, refused, calls, faults>>

ApplyReconfigure(n) ==
  /\ Granting(n, "reconfigure")
  /\ gov' = [gov EXCEPT ![n] = Replaced(@, handler[n].request.list)]
  /\ last' = [last EXCEPT ![n] = handler[n].request.list]
  /\ UNCHANGED <<team, trust>>

ApplyNodeRole(n) ==
  /\ Granting(n, "node_role")
  /\ gov' = [gov EXCEPT ![n][handler[n].request.id] = handler[n].request.entry]
  /\ last' = [last EXCEPT ![n] = <<>>]
  /\ UNCHANGED <<team, trust>>

ApplyOnboard(n) ==
  /\ Granting(n, "onboard")
  /\ team' = [team EXCEPT ![n] = Onboarded(@, handler[n].request)]
  /\ UNCHANGED <<gov, trust, last>>

ApplyRoleChange(n) ==
  /\ Granting(n, "role_change")
  /\ team' = [team EXCEPT ![n] = RoleChanged(@, handler[n].request)]
  /\ UNCHANGED <<gov, trust, last>>

ApplyOffboard(n) ==
  /\ Granting(n, "offboard")
  /\ team' = [team EXCEPT ![n] = Offboarded(@, handler[n].request)]
  /\ UNCHANGED <<gov, trust, last>>

ApplyInvite(n) ==
  /\ Granting(n, "invite")
  /\ trust' = [trust EXCEPT ![n] = Invited(@, handler[n].request.id)]
  /\ UNCHANGED <<gov, team, last>>

ApplyRevoke(n) ==
  /\ Granting(n, "revoke")
  /\ trust' = [trust EXCEPT ![n] = Revoked(@, handler[n].request.id)]
  /\ UNCHANGED <<gov, team, last>>

\* "allow": nothing is changed here.
ApplyElsewhere(n) ==
  /\ Granting(n, "validate")
  /\ UNCHANGED <<documents, last>>

\* The request is answered with 200 or 201.
Answer(n) ==
  /\ n \in up /\ handler[n].saved
  /\ applied' = applied \cup {[request |-> handler[n].request, voted |-> handler[n].voted]}
  /\ handler' = [handler EXCEPT ![n] = Idle]
  /\ UNCHANGED <<requests, documents, up, refused, last, calls, faults>>

\* trustJoin asks for the invite's token, and for no votes.
Join(n, id) ==
  /\ n \in up /\ id \in trust[n].invited
  /\ trust' = [trust EXCEPT ![n] = [trusted |-> @.trusted \cup {id},
                                   invited |-> @.invited \ {id}]]
  /\ UNCHANGED <<requests, gov, team, up, handler, history, calls, faults>>

Apply(n) ==
  \/ ApplyReconfigure(n) \/ ApplyNodeRole(n)
  \/ ApplyOnboard(n) \/ ApplyRoleChange(n) \/ ApplyOffboard(n)
  \/ ApplyInvite(n) \/ ApplyRevoke(n) \/ ApplyElsewhere(n)

-----------------------------------------------------------------------------

\* What a document is after its file was emptied.
NoNodes == [id \in Ids |-> Absent]
NoMembers == [u \in Users |-> NoMember]
NoTrust == [trusted |-> {}, invited |-> {}]

\* The document that the handler of node n saves is emptied.
Emptied(n, op) ==
  /\ CASE op \in {"reconfigure", "node_role"} ->
            gov' = [gov EXCEPT ![n] = NoNodes] /\ UNCHANGED <<team, trust>>
       [] op \in {"onboard", "role_change", "offboard"} ->
            team' = [team EXCEPT ![n] = NoMembers] /\ UNCHANGED <<gov, trust>>
       [] op \in {"invite", "revoke"} ->
            trust' = [trust EXCEPT ![n] = NoTrust] /\ UNCHANGED <<gov, team>>
       [] OTHER -> UNCHANGED documents
  /\ last' = [last EXCEPT ![n] = IF gov'[n] = gov[n] THEN @ ELSE <<>>]

\* Mutant of Crash: the requests a node worked on survive it.
CrashKeeping(n) ==
  /\ n \in up
  /\ faults < MaxFaults /\ faults' = faults + 1
  /\ up' = up \ {n}
  /\ UNCHANGED <<requests, documents, handler, history, calls>>

\* A node is killed; a file that was being saved may be left empty (in part: the
\* node does not start again).
Crash(n) ==
  /\ n \in up
  /\ faults < MaxFaults /\ faults' = faults + 1
  /\ up' = up \ {n}
  /\ handler' = [handler EXCEPT ![n] = Idle]
  /\ \/ UNCHANGED <<documents, last>>
     \/ /\ Counted(n) /\ HasQuorum(handler[n]) /\ Taken(n, handler[n].request)
        /\ Emptied(n, handler[n].request.op)
  /\ UNCHANGED <<requests, applied, refused, calls>>

\* runServe gives the node a vote in its own document, and trusts it.
Restart(n) ==
  /\ n \notin up
  /\ up' = up \cup {n}
  /\ gov' = [gov EXCEPT ![n][n] = Voting]
  /\ last' = [last EXCEPT ![n] = IF gov[n][n] = Voting THEN @ ELSE <<>>]
  /\ trust' = [trust EXCEPT ![n].trusted = @ \cup {n}]
  /\ UNCHANGED <<requests, team, handler, applied, refused, calls, faults>>

\* runTeam and runTrust: a command changes the document of a node whose server is
\* stopped, and asks nobody for a vote.
Command(n, r) ==
  /\ n \notin up /\ Taken(n, r)
  /\ calls < MaxCalls /\ calls' = calls + 1
  /\ \/ r.op = "onboard" /\ team' = [team EXCEPT ![n] = Onboarded(@, r)] /\ UNCHANGED trust
     \/ r.op = "role_change" /\ team' = [team EXCEPT ![n] = RoleChanged(@, r)] /\ UNCHANGED trust
     \/ r.op = "offboard" /\ team' = [team EXCEPT ![n] = Offboarded(@, r)] /\ UNCHANGED trust
     \/ r.op = "invite" /\ trust' = [trust EXCEPT ![n] = Invited(@, r.id)] /\ UNCHANGED team
     \/ r.op = "revoke" /\ trust' = [trust EXCEPT ![n] = Revoked(@, r.id)] /\ UNCHANGED team
  /\ UNCHANGED <<requests, gov, up, handler, history, faults>>

Handle(n) ==
  \/ \E m \in Nodes : Vote(n, m) \/ LoseVote(n, m)
  \/ Reject(n) \/ NotTaken(n)
  \/ Apply(n)
  \/ Answer(n)
  \/ \E id \in Ids : Join(n, id)

Next == \E n \in Nodes : \/ \E r \in requests : Call(n, r) \/ Command(n, r)
                         \/ Handle(n)
                         \/ Crash(n)
                         \/ Restart(n)

Spec == Init /\ [][Next]_vars

-----------------------------------------------------------------------------
(* Properties *)

\* The types of what the nodes keep and of what their handlers hold.
DocumentsOK ==
  /\ gov \in [Nodes -> [Ids -> Entry]]
  /\ team \in [Nodes -> [Users -> Member]]
  /\ trust \in [Nodes -> TrustList]
  /\ last \in [Nodes -> Seq(Ids \cup {Blank})]

\* A request is worked on by a running server only, and its own vote is counted
\* from the start (validateGovernanceReconfigureWithQuorum).
HandlersOK ==
  /\ up \subseteq Nodes
  /\ handler \in [Nodes -> Handlers]
  /\ \A n \in Nodes : /\ n \notin handler[n].left \cup handler[n].lost
                      /\ handler[n] # Idle => n \in handler[n].voted /\ n \in up

\* Types, and a request at work as HandlersOK has it.
TypeOK ==
  /\ requests \subseteq Requests
  /\ DocumentsOK
  /\ HandlersOK
  /\ calls \in 0 .. MaxCalls
  /\ faults \in 0 .. MaxFaults

\* Any two changes that servers make have a voter in common, so the two sides of a
\* partition cannot both go on changing who votes, who is on the team and whom they
\* trust (quorumNeeded, and the votes that validateGovernanceReconfigureWithQuorum and
\* its siblings for the team and the trust list count).
QuorumsIntersect == \A a, b \in applied : a.voted \cap b.voted # {}

\* A node whose document was last changed by a new voting set gives a vote to
\* exactly the nodes of that set, whatever the document held before; so nodes
\* that were given the same set agree.
VotersAreTheLastSet ==
  \A n \in Nodes : last[n] # <<>> => Voters(gov[n]) = Named(last[n])

\* One failure does not stop a valid change: a majority of the votes has to be
\* missing (docs/SDD-01: tolerate one node failure in 3-node quorum).
OneFailureIsTolerated ==
  \A r \in refused : Allows(r.request) => 2 * Cardinality(r.lost) >= Cardinality(Nodes)

=============================================================================
