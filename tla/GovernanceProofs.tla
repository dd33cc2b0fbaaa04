--------------------------- MODULE GovernanceProofs ---------------------------
(***************************************************************************)
(* The safety of Governance for every number of nodes, every set of        *)
(* requests and every bound.                                               *)
(***************************************************************************)
EXTENDS Governance, FiniteSetTheorems, TLAPS

(***************************************************************************)
(* The inductive invariant.  What was applied, and what was refused, is    *)
(* only known from the request that did it: so HandlerInv says of a        *)
(* request at work that its votes are enough once it is saved, and that no *)
(* vote for a valid change is missing but those that are lost.             *)
(***************************************************************************)

Majority(voters) == Cardinality(voters) >= QuorumNeeded(Cardinality(Nodes))

HandlerInv ==
  \A n \in Nodes :
    /\ handler[n].saved => handler[n].left = {} /\ Majority(handler[n].voted)
    /\ handler[n].request # NoRequest /\ Allows(handler[n].request)
         => Nodes = handler[n].left \cup handler[n].voted \cup handler[n].lost

AppliedInv == \A a \in applied : a.voted \subseteq Nodes /\ Majority(a.voted)

IInv == /\ TypeOK
        /\ HandlerInv
        /\ AppliedInv
        /\ OneFailureIsTolerated
        /\ VotersAreTheLastSet

-----------------------------------------------------------------------------
(* Facts about votes, documents and requests *)

LEMMA NodesFinite == IsFiniteSet(Nodes) /\ Cardinality(Nodes) \in Nat
  BY NodesAssumption, FS_CardinalityType

\* Two majorities of the nodes have a node in common.
LEMMA MajoritiesMeet ==
  ASSUME NEW S, NEW T, S \subseteq Nodes, T \subseteq Nodes, Majority(S), Majority(T)
  PROVE  S \cap T # {}
  <1>1. Cardinality(S) \in Nat /\ Cardinality(T) \in Nat
    BY NodesFinite, FS_Subset, FS_CardinalityType
  <1>2. Cardinality(S) + Cardinality(T) > Cardinality(Nodes)
    BY <1>1, NodesFinite DEF Majority, QuorumNeeded
  <1> QED
    BY <1>2, NodesFinite, FS_MajoritiesIntersect

\* Who has not voted, when there is no majority, is at least half of the nodes.
LEMMA MissingAreHalf ==
  ASSUME NEW voted \in SUBSET Nodes, NEW lost \in SUBSET Nodes,
         Nodes = voted \cup lost, ~Majority(voted)
  PROVE  2 * Cardinality(lost) >= Cardinality(Nodes)
  <1>1. /\ IsFiniteSet(voted) /\ Cardinality(voted) \in Nat
        /\ IsFiniteSet(lost) /\ Cardinality(lost) \in Nat
    BY NodesFinite, FS_Subset, FS_CardinalityType
  <1>2. /\ Cardinality(voted \cap lost) \in Nat
        /\ Cardinality(Nodes) = Cardinality(voted) + Cardinality(lost)
                                - Cardinality(voted \cap lost)
    BY <1>1, FS_Union, FS_Intersection, FS_CardinalityType
  <1> QED
    BY <1>1, <1>2, NodesFinite DEF Majority, QuorumNeeded

\* After a replacement the voters are exactly the nodes of the list.
LEMMA ReplacedVoters ==
  ASSUME NEW doc \in [Ids -> Entry], NEW list \in Seq(Ids \cup {Blank})
  PROVE  /\ Replaced(doc, list) \in [Ids -> Entry]
         /\ Voters(Replaced(doc, list)) = Named(list)
  <1>1. Named(list) \subseteq Ids
    BY DEF Named
  <1>2. \A id \in Ids : [doc[id] EXCEPT !.role = "non_voting"] \in Entry
    BY DEF Entry
  <1>3. Absent \in Entry /\ Voting \in Entry /\ Absent # Voting
    BY DEF Entry, Absent, Voting
  <1>4. \A id \in Ids : [doc[id] EXCEPT !.role = "non_voting"] # Voting
    BY DEF Entry, Voting
  <1>5. Replaced(doc, list) \in [Ids -> Entry]
    BY <1>2, <1>3 DEF Replaced
  <1>6. \A id \in Ids : Replaced(doc, list)[id] = Voting <=> id \in Named(list)
    BY <1>3, <1>4 DEF Replaced
  <1> QED
    BY <1>1, <1>5, <1>6 DEF Voters

\* What a request of each kind carries.
LEMMA RequestFields ==
  ASSUME NEW r \in Requests
  PROVE  /\ r.op = "reconfigure" => r.list \in Seq(Ids \cup {Blank})
         /\ r.op = "node_role" => r.id \in Ids /\ r.entry \in Entry
         /\ r.op \in {"onboard", "role_change"}
              => r.user \in Users /\ r.role \in Roles /\ r.duty \in BOOLEAN
         /\ r.op = "offboard" => r.user \in Users
         /\ r.op \in {"invite", "revoke"} => r.id \in Ids
         /\ r # NoRequest
  BY DEF Requests, Changes, NoRequest

\* The managers leave documents of the same shape.
LEMMA DocumentTypes ==
  ASSUME NEW r \in Requests
  PROVE  /\ \A doc \in [Users -> Member] :
              /\ r.op = "onboard" => Onboarded(doc, r) \in [Users -> Member]
              /\ r.op = "role_change" => RoleChanged(doc, r) \in [Users -> Member]
              /\ r.op = "offboard" => Offboarded(doc, r) \in [Users -> Member]
         /\ \A doc \in TrustList :
              /\ r.op = "invite" => Invited(doc, r.id) \in TrustList
              /\ r.op = "revoke" => Revoked(doc, r.id) \in TrustList
  <1>1. ASSUME NEW doc \in [Users -> Member], r.op = "onboard"
        PROVE  Onboarded(doc, r) \in [Users -> Member]
    BY <1>1, RequestFields DEF Onboarded, Member
  <1>2. ASSUME NEW doc \in [Users -> Member], r.op = "role_change"
        PROVE  RoleChanged(doc, r) \in [Users -> Member]
    BY <1>2, RequestFields DEF RoleChanged, Member
  <1>3. ASSUME NEW doc \in [Users -> Member], r.op = "offboard"
        PROVE  Offboarded(doc, r) \in [Users -> Member]
    BY <1>3, RequestFields DEF Offboarded, Member
  <1>4. ASSUME NEW doc \in TrustList
        PROVE  /\ r.op = "invite" => Invited(doc, r.id) \in TrustList
               /\ r.op = "revoke" => Revoked(doc, r.id) \in TrustList
    BY <1>4, RequestFields DEF Invited, Revoked, TrustList
  <1> QED
    BY <1>1, <1>2, <1>3, <1>4

-----------------------------------------------------------------------------
(* Types *)

LEMMA TypeInit == Init => TypeOK
  <1>1. \A family \in Families : family \subseteq Requests
    BY FamiliesAssumption
  <1>2. NoMember \in Member /\ Absent \in Entry /\ Voting \in Entry
    BY DEF NoMember, Member, Absent, Voting, Entry
  <1>3. 0 \in 0 .. MaxCalls /\ 0 \in 0 .. MaxFaults
    BY BoundsAssumption
  <1>4. Init => DocumentsOK
    BY <1>2, NodesAssumption DEF Init, DocumentsOK, TrustList
  <1>5. Init => HandlersOK
    BY DEF Init, HandlersOK, Handlers, Idle
  <1> QED
    BY <1>1, <1>3, <1>4, <1>5 DEF Init, TypeOK

\* A step that gives one node another handler, or stops a node without one.
LEMMA HandlersStep ==
  ASSUME HandlersOK, NEW n \in Nodes, NEW h \in Handlers,
         handler' = [handler EXCEPT ![n] = h],
         n \notin h.left \cup h.lost,
         h # Idle => n \in h.voted /\ n \in up',
         up' \subseteq Nodes, up \ {n} \subseteq up'
  PROVE  HandlersOK'
  BY DEF HandlersOK

\* Every change of one handler in the specification.
LEMMA HandlerTypes ==
  ASSUME NEW h \in Handlers, NEW n \in Nodes
  PROVE  /\ Idle \in Handlers
         /\ \A r \in Requests :
              [Idle EXCEPT !.request = r, !.left = Nodes \ {n}, !.voted = {n}] \in Handlers
         /\ [h EXCEPT !.left = @ \ {n}, !.voted = @ \cup {n}] \in Handlers
         /\ [h EXCEPT !.left = @ \ {n}, !.voted = @] \in Handlers
         /\ [h EXCEPT !.left = @ \ {n}, !.lost = @ \cup {n}] \in Handlers
         /\ [h EXCEPT !.saved = TRUE] \in Handlers
  BY DEF Idle, Handlers

\* A handler that applies its change has a request, and keeps all but that it is saved.
LEMMA ApplyStep ==
  ASSUME HandlersOK, NEW n \in Nodes, Apply(n)
  PROVE  /\ n \in up /\ handler[n] # Idle /\ handler[n].request \in Requests
         /\ handler[n].left = {} /\ HasQuorum(handler[n])
         /\ handler' = [handler EXCEPT ![n] = [handler[n] EXCEPT !.saved = TRUE]]
         /\ UNCHANGED <<requests, up, applied, refused, calls, faults>>
  <1>1. PICK op : Granting(n, op)
    BY DEF Apply, ApplyReconfigure, ApplyNodeRole, ApplyOnboard, ApplyRoleChange,
           ApplyOffboard, ApplyInvite, ApplyRevoke, ApplyElsewhere
  <1>2. handler[n] \in Handlers /\ handler[n].request # NoRequest
    BY <1>1 DEF HandlersOK, Granting, Counted
  <1> QED
    BY <1>1, <1>2 DEF Granting, Counted, Idle, Handlers

LEMMA TypeNext == TypeOK /\ [Next]_vars => TypeOK'
  <1> SUFFICES ASSUME TypeOK, [Next]_vars
               PROVE  TypeOK'
    OBVIOUS
  <1>1. requests \subseteq Requests /\ DocumentsOK /\ HandlersOK
    BY DEF TypeOK
  <1>2. \A n \in Nodes : handler[n] \in Handlers
    BY <1>1 DEF HandlersOK
  <1>3. ASSUME NEW n \in Nodes, NEW r \in requests, Call(n, r)
        PROVE  TypeOK'
    <2> DEFINE h == [Idle EXCEPT !.request = r, !.left = Nodes \ {n}, !.voted = {n}]
    <2>1. h \in Handlers /\ n \in h.voted /\ n \notin h.left \cup h.lost
      BY <1>1, <1>2, HandlerTypes DEF Idle
    <2>2. HandlersOK'
      BY <1>1, <1>3, <2>1, HandlersStep DEF Call, HandlersOK
    <2>3. DocumentsOK'
      BY <1>1, <1>3 DEF Call, DocumentsOK, documents, history
    <2> QED
      BY <1>3, <2>2, <2>3, BoundsAssumption DEF Call, TypeOK
  <1>4. ASSUME NEW n \in Nodes, NEW r \in requests, Command(n, r)
        PROVE  TypeOK'
    <2>1. r \in Requests
      BY <1>1
    <2>2. team[n] \in [Users -> Member] /\ trust[n] \in TrustList
      BY <1>1 DEF DocumentsOK
    <2>3. DocumentsOK'
      <3>1. team' \in [Nodes -> [Users -> Member]]
        <4>1. \/ UNCHANGED team
              \/ \E doc \in [Users -> Member] : team' = [team EXCEPT ![n] = doc]
          BY <1>1, <1>4, <2>1, <2>2, DocumentTypes DEF Command
        <4> QED
          BY <1>1, <4>1 DEF DocumentsOK
      <3>2. trust' \in [Nodes -> TrustList]
        <4>1. \/ UNCHANGED trust
              \/ \E doc \in TrustList : trust' = [trust EXCEPT ![n] = doc]
          BY <1>1, <1>4, <2>1, <2>2, DocumentTypes DEF Command
        <4> QED
          BY <1>1, <4>1 DEF DocumentsOK
      <3> QED
        BY <1>1, <1>4, <3>1, <3>2 DEF Command, DocumentsOK, history
    <2>4. HandlersOK'
      BY <1>1, <1>4 DEF Command, HandlersOK
    <2> QED
      BY <1>4, <2>3, <2>4, BoundsAssumption DEF Command, TypeOK
  <1>5. ASSUME NEW n \in Nodes, NEW m \in Nodes, Vote(n, m)
        PROVE  TypeOK'
    <2> DEFINE h == [handler[n] EXCEPT !.left = @ \ {m},
                       !.voted = IF Allows(handler[n].request) THEN @ \cup {m} ELSE @]
    <2>1. h \in Handlers
      BY <1>2, HandlerTypes
    <2>2. handler' = [handler EXCEPT ![n] = h]
      BY <1>1, <1>5 DEF Vote, HandlersOK
    <2>3. n \notin h.left \cup h.lost /\ n \in h.voted /\ n \in up
      BY <1>1, <1>2, <1>5 DEF Vote, HandlersOK, Handlers, Idle
    <2>4. HandlersOK'
      BY <1>1, <1>5, <2>1, <2>2, <2>3, HandlersStep DEF Vote, HandlersOK
    <2>5. DocumentsOK'
      BY <1>1, <1>5 DEF Vote, DocumentsOK, documents, history
    <2> QED
      BY <1>5, <2>4, <2>5 DEF Vote, TypeOK
  <1>6. ASSUME NEW n \in Nodes, NEW m \in Nodes, LoseVote(n, m)
        PROVE  TypeOK'
    <2> DEFINE h == [handler[n] EXCEPT !.left = @ \ {m}, !.lost = @ \cup {m}]
    <2>1. h \in Handlers
      BY <1>2, HandlerTypes
    <2>2. handler' = [handler EXCEPT ![n] = h]
      BY <1>1, <1>6 DEF LoseVote, HandlersOK
    <2>3. n \notin h.left \cup h.lost /\ n \in h.voted /\ n \in up
      BY <1>1, <1>2, <1>6 DEF LoseVote, HandlersOK, Handlers, Idle
    <2>4. HandlersOK'
      BY <1>1, <1>6, <2>1, <2>2, <2>3, HandlersStep DEF LoseVote, HandlersOK
    <2>5. DocumentsOK'
      BY <1>1, <1>6 DEF LoseVote, DocumentsOK, documents, history
    <2> QED
      BY <1>6, <2>4, <2>5, BoundsAssumption DEF LoseVote, TypeOK
  <1>7. ASSUME NEW n \in Nodes, Reject(n) \/ NotTaken(n) \/ Answer(n)
        PROVE  TypeOK'
    <2>1. Idle \in Handlers /\ n \notin Idle.left \cup Idle.lost
      BY <1>2, HandlerTypes DEF Idle
    <2>2. handler' = [handler EXCEPT ![n] = Idle] /\ up' = up
      BY <1>7 DEF Reject, NotTaken, Answer
    <2>3. HandlersOK'
      BY <1>1, <2>1, <2>2, HandlersStep DEF HandlersOK
    <2>4. DocumentsOK'
      BY <1>1, <1>7 DEF Reject, NotTaken, Answer, DocumentsOK, documents, history
    <2> QED
      BY <1>7, <2>3, <2>4 DEF Reject, NotTaken, Answer, TypeOK
  <1>8. ASSUME NEW n \in Nodes, Apply(n)
        PROVE  TypeOK'
    <2> DEFINE r == handler[n].request
               h == [handler[n] EXCEPT !.saved = TRUE]
    <2>1. /\ n \in up /\ r \in Requests /\ handler[n] # Idle
          /\ handler' = [handler EXCEPT ![n] = h]
          /\ UNCHANGED <<requests, up, calls, faults>>
      BY <1>1, <1>8, ApplyStep
    <2>2. h \in Handlers /\ n \in h.voted /\ n \notin h.left \cup h.lost
      BY <1>1, <1>2, <2>1, HandlerTypes DEF HandlersOK, Handlers
    <2>3. HandlersOK'
      BY <1>1, <2>1, <2>2, HandlersStep DEF HandlersOK
    <2>4. DocumentsOK'
      <3>1. /\ gov[n] \in [Ids -> Entry] /\ team[n] \in [Users -> Member]
            /\ trust[n] \in TrustList
        BY <1>1 DEF DocumentsOK
      <3> HIDE DEF r, h
      <3>2. CASE ApplyReconfigure(n)
        <4>1. r.list \in Seq(Ids \cup {Blank})
          BY <2>1, <3>2, RequestFields DEF ApplyReconfigure, Granting, r
        <4>2. Replaced(gov[n], r.list) \in [Ids -> Entry]
          BY <3>1, <4>1, ReplacedVoters
        <4> QED
          BY <1>1, <3>2, <4>1, <4>2 DEF ApplyReconfigure, DocumentsOK, r
      <3>3. CASE ApplyNodeRole(n)
        <4>1. r.id \in Ids /\ r.entry \in Entry
          BY <2>1, <3>3, RequestFields DEF ApplyNodeRole, Granting, r
        <4> QED
          BY <1>1, <3>3, <4>1 DEF ApplyNodeRole, DocumentsOK, r
      <3>4. CASE ApplyOnboard(n) \/ ApplyRoleChange(n) \/ ApplyOffboard(n)
        <4>1. \E doc \in [Users -> Member] : team' = [team EXCEPT ![n] = doc]
          BY <2>1, <3>1, <3>4, DocumentTypes
             DEF ApplyOnboard, ApplyRoleChange, ApplyOffboard, Granting, r
        <4> QED
          BY <1>1, <3>4, <4>1
             DEF ApplyOnboard, ApplyRoleChange, ApplyOffboard, DocumentsOK
      <3>5. CASE ApplyInvite(n) \/ ApplyRevoke(n)
        <4>1. \E doc \in TrustList : trust' = [trust EXCEPT ![n] = doc]
          BY <2>1, <3>1, <3>5, DocumentTypes DEF ApplyInvite, ApplyRevoke, Granting, r
        <4> QED
          BY <1>1, <3>5, <4>1 DEF ApplyInvite, ApplyRevoke, DocumentsOK
      <3>6. CASE ApplyElsewhere(n)
        BY <1>1, <3>6 DEF ApplyElsewhere, documents, DocumentsOK
      <3> QED
        BY <1>8, <3>2, <3>3, <3>4, <3>5, <3>6 DEF Apply
    <2> QED
      BY <1>1, <2>1, <2>3, <2>4 DEF TypeOK
  <1>9. ASSUME NEW n \in Nodes, NEW id \in Ids, Join(n, id)
        PROVE  TypeOK'
    <2>1. DocumentsOK'
      BY <1>1, <1>9 DEF Join, DocumentsOK, history, TrustList
    <2>2. HandlersOK'
      BY <1>1, <1>9 DEF Join, HandlersOK
    <2> QED
      BY <1>9, <2>1, <2>2 DEF Join, TypeOK
  <1>10. ASSUME NEW n \in Nodes, Crash(n)
         PROVE  TypeOK'
    <2>1. /\ NoNodes \in [Ids -> Entry]
          /\ NoMembers \in [Users -> Member]
          /\ NoTrust \in TrustList
      BY DEF NoNodes, NoMembers, NoTrust, TrustList, Absent, Entry, NoMember, Member
    <2>2. DocumentsOK'
      <3>1. CASE UNCHANGED <<documents, last>>
        BY <1>1, <3>1 DEF documents, DocumentsOK
      <3>2. CASE Emptied(n, handler[n].request.op)
        <4>1. last' \in [Nodes -> Seq(Ids \cup {Blank})]
          BY <1>1, <3>2 DEF Emptied, DocumentsOK
        <4>2. /\ gov' \in [Nodes -> [Ids -> Entry]]
              /\ team' \in [Nodes -> [Users -> Member]]
              /\ trust' \in [Nodes -> TrustList]
          BY <1>1, <2>1, <3>2 DEF Emptied, DocumentsOK, documents
        <4> QED
          BY <4>1, <4>2 DEF DocumentsOK
      <3> QED
        BY <1>10, <3>1, <3>2 DEF Crash
    <2>3. Idle \in Handlers /\ n \notin Idle.left \cup Idle.lost
      BY <1>2, HandlerTypes DEF Idle
    <2>4. HandlersOK'
      BY <1>1, <1>10, <2>3, HandlersStep DEF Crash, HandlersOK
    <2> QED
      BY <1>10, <2>2, <2>4, BoundsAssumption DEF Crash, TypeOK
  <1>11. ASSUME NEW n \in Nodes, Restart(n)
         PROVE  TypeOK'
    <2>1. Voting \in Entry /\ n \in Ids
      BY NodesAssumption DEF Voting, Entry
    <2>2. DocumentsOK'
      <3>1. gov' \in [Nodes -> [Ids -> Entry]]
        <4>1. gov[n] \in [Ids -> Entry]
          BY <1>1 DEF DocumentsOK
        <4>2. [gov[n] EXCEPT ![n] = Voting] \in [Ids -> Entry]
          BY <2>1, <4>1
        <4>3. gov' = [gov EXCEPT ![n] = [gov[n] EXCEPT ![n] = Voting]]
          BY <1>1, <1>11 DEF Restart, DocumentsOK
        <4> QED
          BY <1>1, <4>2, <4>3 DEF DocumentsOK
      <3>2. trust' \in [Nodes -> TrustList]
        BY <1>1, <1>11, <2>1 DEF Restart, DocumentsOK, TrustList
      <3>3. last' \in [Nodes -> Seq(Ids \cup {Blank})]
        BY <1>1, <1>11 DEF Restart, DocumentsOK
      <3> QED
        BY <1>1, <1>11, <3>1, <3>2, <3>3 DEF Restart, DocumentsOK
    <2>3. HandlersOK'
      BY <1>1, <1>11 DEF Restart, HandlersOK
    <2> QED
      BY <1>11, <2>2, <2>3 DEF Restart, TypeOK
  <1>12. CASE UNCHANGED vars
    BY <1>12 DEF vars, documents, history, TypeOK, DocumentsOK, HandlersOK
  <1> QED
    BY <1>3, <1>4, <1>5, <1>6, <1>7, <1>8, <1>9, <1>10, <1>11, <1>12 DEF Next, Handle

-----------------------------------------------------------------------------
(* The invariant *)

LEMMA InitInv == Init => IInv
  <1> SUFFICES ASSUME Init
               PROVE  IInv
    OBVIOUS
  <1>1. TypeOK
    BY TypeInit
  <1>2. HandlerInv
    BY DEF Init, HandlerInv, Idle, NoRequest
  <1>3. AppliedInv /\ OneFailureIsTolerated /\ VotersAreTheLastSet
    BY DEF Init, AppliedInv, OneFailureIsTolerated, VotersAreTheLastSet
  <1> QED
    BY <1>1, <1>2, <1>3 DEF IInv

\* Votes are collected until none is left; only then is a change saved.
LEMMA HandlerInvNext == IInv /\ [Next]_vars => HandlerInv'
  <1> SUFFICES ASSUME IInv, [Next]_vars
               PROVE  HandlerInv'
    OBVIOUS
  <1> USE DEF IInv
  <1>1. /\ handler \in [Nodes -> Handlers]
        /\ \A n \in Nodes : handler[n] # Idle => n \in handler[n].voted
    BY DEF TypeOK, HandlersOK
  <1>2. ASSUME NEW n \in Nodes, NEW r \in requests, Call(n, r)
        PROVE  HandlerInv'
    <2>1. /\ handler'[n].left \cup handler'[n].voted = Nodes
          /\ handler'[n].lost = {} /\ ~handler'[n].saved
      BY <1>1, <1>2 DEF Call, Idle
    <2>2. \A k \in Nodes : k # n => handler'[k] = handler[k]
      BY <1>1, <1>2 DEF Call
    <2> QED
      BY <2>1, <2>2 DEF HandlerInv
  <1>3. ASSUME NEW n \in Nodes, NEW m \in Nodes, Vote(n, m) \/ LoseVote(n, m)
        PROVE  HandlerInv'
    <2>1. \A k \in Nodes : k # n => handler'[k] = handler[k]
      BY <1>1, <1>3 DEF Vote, LoseVote
    <2>2. /\ ~handler[n].saved /\ handler'[n].saved = handler[n].saved
          /\ handler'[n].request = handler[n].request
          /\ handler'[n].left = handler[n].left \ {m}
          /\ handler[n].voted \subseteq handler'[n].voted
          /\ handler[n].lost \subseteq handler'[n].lost
          /\ Allows(handler[n].request) => m \in handler'[n].voted \cup handler'[n].lost
      BY <1>1, <1>3 DEF Vote, LoseVote, HandlerInv, Handlers
    <2>3. handler'[n].voted \subseteq Nodes /\ handler'[n].lost \subseteq Nodes
      BY TypeNext DEF TypeOK, HandlersOK, Handlers
    <2>4. Nodes = handler'[n].left \cup handler'[n].voted \cup handler'[n].lost
            \/ ~Allows(handler[n].request) \/ handler[n].request = NoRequest
      BY <2>2, <2>3 DEF HandlerInv
    <2> QED
      BY <2>1, <2>2, <2>4 DEF HandlerInv
  <1>4. ASSUME NEW n \in Nodes, Reject(n) \/ NotTaken(n) \/ Answer(n) \/ Crash(n)
        PROVE  HandlerInv'
    <2>1. handler' = [handler EXCEPT ![n] = Idle]
      BY <1>4 DEF Reject, NotTaken, Answer, Crash
    <2> QED
      BY <1>1, <2>1 DEF HandlerInv, Idle, NoRequest
  <1>5. ASSUME NEW n \in Nodes, Apply(n)
        PROVE  HandlerInv'
    <2>1. /\ handler[n].left = {} /\ HasQuorum(handler[n])
          /\ handler' = [handler EXCEPT ![n] = [handler[n] EXCEPT !.saved = TRUE]]
      BY <1>5, ApplyStep DEF TypeOK
    <2>2. /\ handler'[n].request = handler[n].request /\ handler'[n].left = {}
          /\ handler'[n].voted = handler[n].voted /\ handler'[n].lost = handler[n].lost
          /\ \A k \in Nodes : k # n => handler'[k] = handler[k]
      BY <1>1, <2>1 DEF Handlers
    <2>3. Majority(handler'[n].voted)
      BY <2>1, <2>2 DEF HasQuorum, Granted, Majority
    <2> QED
      BY <2>1, <2>2, <2>3 DEF HandlerInv
  <1>6. CASE UNCHANGED handler
    BY <1>6 DEF HandlerInv
  <1> QED
    BY <1>2, <1>3, <1>4, <1>5, <1>6
       DEF Next, Handle, Join, Command, Restart, vars

LEMMA AppliedInvNext == IInv /\ [Next]_vars => AppliedInv'
  <1> SUFFICES ASSUME IInv, [Next]_vars
               PROVE  AppliedInv'
    OBVIOUS
  <1>1. ASSUME NEW n \in Nodes, Answer(n)
        PROVE  AppliedInv'
    <2>1. handler[n].voted \subseteq Nodes /\ Majority(handler[n].voted)
      BY <1>1 DEF IInv, TypeOK, HandlersOK, Handlers, HandlerInv, Answer
    <2> QED
      BY <1>1, <2>1 DEF IInv, AppliedInv, Answer
  <1>2. CASE UNCHANGED applied
    BY <1>2 DEF IInv, AppliedInv
  <1>3. ASSUME NEW n \in Nodes, Apply(n)
        PROVE  UNCHANGED applied
    BY <1>3, ApplyStep DEF IInv, TypeOK
  <1> QED
    BY <1>1, <1>2, <1>3 DEF Next, Handle, Call, Command, Vote, LoseVote, Reject, NotTaken,
                            Join, Crash, Restart, vars, history

\* A valid change is refused only when the votes that were lost are at least half.
LEMMA OneFailureNext == IInv /\ [Next]_vars => OneFailureIsTolerated'
  <1> SUFFICES ASSUME IInv, [Next]_vars
               PROVE  OneFailureIsTolerated'
    OBVIOUS
  <1>1. ASSUME NEW n \in Nodes, Reject(n)
        PROVE  OneFailureIsTolerated'
    <2> DEFINE h == handler[n]
    <2>1. h.voted \in SUBSET Nodes /\ h.lost \in SUBSET Nodes
      BY DEF IInv, TypeOK, HandlersOK, Handlers
    <2>2. h.left = {} /\ h.request # NoRequest /\ ~Majority(h.voted)
      BY <1>1 DEF Reject, Counted, HasQuorum, Granted, Majority
    <2>3. Allows(h.request) => Nodes = h.voted \cup h.lost
      BY <2>2 DEF IInv, HandlerInv
    <2>4. Allows(h.request) => 2 * Cardinality(h.lost) >= Cardinality(Nodes)
      BY <2>1, <2>2, <2>3, MissingAreHalf
    <2>5. refused' = refused \cup {[request |-> h.request, lost |-> h.lost]}
      BY <1>1 DEF Reject
    <2> QED
      BY <2>4, <2>5 DEF IInv, OneFailureIsTolerated
  <1>2. CASE UNCHANGED refused
    BY <1>2 DEF IInv, OneFailureIsTolerated
  <1>3. ASSUME NEW n \in Nodes, Apply(n)
        PROVE  UNCHANGED refused
    BY <1>3, ApplyStep DEF IInv, TypeOK
  <1> QED
    BY <1>1, <1>2, <1>3 DEF Next, Handle, Call, Command, Vote, LoseVote, NotTaken, Answer,
                            Join, Crash, Restart, vars, history

\* A document changes together with last: to a new set, or to a document of which
\* nothing is claimed.
LEMMA VotersNext == IInv /\ [Next]_vars => VotersAreTheLastSet'
  <1> SUFFICES ASSUME IInv, [Next]_vars
               PROVE  VotersAreTheLastSet'
    OBVIOUS
  <1>1. gov \in [Nodes -> [Ids -> Entry]] /\ last \in [Nodes -> Seq(Ids \cup {Blank})]
    BY DEF IInv, TypeOK, DocumentsOK
  <1>2. ASSUME NEW n \in Nodes, ApplyReconfigure(n)
        PROVE  VotersAreTheLastSet'
    <2> DEFINE list == handler[n].request.list
    <2>1. list \in Seq(Ids \cup {Blank})
      <3>1. handler[n].request \in Requests
        BY <1>2, ApplyStep DEF IInv, TypeOK, Apply
      <3> QED
        BY <1>2, <3>1, RequestFields DEF ApplyReconfigure, Granting
    <2>2. gov' = [gov EXCEPT ![n] = Replaced(gov[n], list)] /\ last' = [last EXCEPT ![n] = list]
      BY <1>2 DEF ApplyReconfigure
    <2>3. Voters(gov'[n]) = Named(last'[n])
      BY <1>1, <2>1, <2>2, ReplacedVoters
    <2>4. \A k \in Nodes : k # n => gov'[k] = gov[k] /\ last'[k] = last[k]
      BY <1>1, <2>2
    <2> QED
      BY <2>3, <2>4 DEF IInv, VotersAreTheLastSet
  <1>3. ASSUME NEW n \in Nodes, ApplyNodeRole(n)
        PROVE  VotersAreTheLastSet'
    BY <1>1, <1>3 DEF ApplyNodeRole, IInv, VotersAreTheLastSet
  <1>4. ASSUME NEW n \in Nodes, Emptied(n, handler[n].request.op)
        PROVE  VotersAreTheLastSet'
    <2>1. last' = [last EXCEPT ![n] = IF gov'[n] = gov[n] THEN @ ELSE <<>>]
      BY <1>4 DEF Emptied
    <2>2. \A k \in Nodes : k # n => gov'[k] = gov[k]
      BY <1>1, <1>4 DEF Emptied, documents
    <2> QED
      BY <1>1, <2>1, <2>2 DEF IInv, VotersAreTheLastSet
  <1>5. ASSUME NEW n \in Nodes, Restart(n)
        PROVE  VotersAreTheLastSet'
    <2>1. \A k \in Nodes : k # n => gov'[k] = gov[k] /\ last'[k] = last[k]
      BY <1>1, <1>5 DEF Restart
    <2>2. CASE gov[n][n] = Voting
      <3>1. gov'[n] = gov[n] /\ last'[n] = last[n]
        BY <1>1, <1>5, <2>2 DEF Restart
      <3> QED
        BY <2>1, <3>1 DEF IInv, VotersAreTheLastSet
    <2>3. CASE gov[n][n] # Voting
      <3>1. last'[n] = <<>>
        BY <1>1, <1>5, <2>3 DEF Restart
      <3> QED
        BY <2>1, <3>1 DEF IInv, VotersAreTheLastSet
    <2> QED
      BY <2>2, <2>3
  <1>6. CASE UNCHANGED <<gov, last>>
    BY <1>6 DEF IInv, VotersAreTheLastSet
  <1>7. ASSUME NEW n \in Nodes, Handle(n), ~ApplyReconfigure(n), ~ApplyNodeRole(n)
        PROVE  UNCHANGED <<gov, last>>
    BY <1>7 DEF Handle, Vote, LoseVote, Reject, NotTaken, Answer, Join, Apply,
       ApplyOnboard, ApplyRoleChange, ApplyOffboard, ApplyInvite, ApplyRevoke,
       ApplyElsewhere, documents, history
  <1>8. ASSUME NEW n \in Nodes, Crash(n), ~Emptied(n, handler[n].request.op)
        PROVE  UNCHANGED <<gov, last>>
    BY <1>8 DEF Crash, documents
  <1>9. ASSUME NEW n \in Nodes, NEW r \in requests, Call(n, r) \/ Command(n, r)
        PROVE  UNCHANGED <<gov, last>>
    BY <1>9 DEF Call, Command, documents, history
  <1>10. UNCHANGED vars => UNCHANGED <<gov, last>>
    BY DEF vars, documents, history
  <1> QED
    BY <1>2, <1>3, <1>4, <1>5, <1>6, <1>7, <1>8, <1>9, <1>10 DEF Next

-----------------------------------------------------------------------------
(* Theorems *)

\* The inductive invariant holds: what a request at work still needs, what was
\* applied and refused, and whom the documents give a vote.
THEOREM Invariance == Spec => []IInv
  <1>1. IInv /\ [Next]_vars => IInv'
    BY TypeNext, HandlerInvNext, AppliedInvNext, OneFailureNext, VotersNext DEF IInv
  <1> QED
    BY <1>1, InitInv, PTL DEF Spec

\* What the nodes keep and what their handlers hold has its type, and only a running
\* server works on a request (handlers of cmd/node/main.go).
THEOREM TypeCorrect == Spec => []TypeOK
  BY Invariance, PTL DEF IInv

\* Any two changes that servers apply were voted for by a common node, for every
\* number of nodes, odd or even (quorumNeeded).
THEOREM AppliedChangesShareAVoter == Spec => []QuorumsIntersect
  <1>1. IInv => QuorumsIntersect
    BY MajoritiesMeet DEF IInv, AppliedInv, QuorumsIntersect
  <1> QED
    BY <1>1, Invariance, PTL

\* A valid change is refused only if half of the votes or more were lost.
THEOREM RefusalNeedsHalf == Spec => []OneFailureIsTolerated
  BY Invariance, PTL DEF IInv

\* The last voting set a node was given decides who has a vote in its document
\* (ReplaceVotingSet, SetNodeRole, restarts and emptied files).
THEOREM DocumentsFollowTheSet == Spec => []VotersAreTheLastSet
  BY Invariance, PTL DEF IInv

=============================================================================
