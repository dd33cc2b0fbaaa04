----------------------------- MODULE TrustProofs ------------------------------
(***************************************************************************)
(* The safety of Trust for every set of nodes and tokens and every bound,  *)
(* when one process has the list at a time; and that the sync loop of      *)
(* Peers follows the list, for every set of URLs and every topology.       *)
(***************************************************************************)
EXTENDS Trust, Peers, TLAPS

(***************************************************************************)
(* The inductive invariant.  A caller is told after the file is written,   *)
(* from what its process remembers to be doing, so JobInv ties that to the *)
(* document in memory; and a copy that was left behind by a kill or by a   *)
(* save that failed is the next one to be loaded, so the rest is said of   *)
(* every copy.  While the file is empty or in part, some process has the   *)
(* members in memory, or one ended that had (MembersInv).                  *)
(***************************************************************************)

Invites == [token : Tokens, node : Nodes, expires : Nat]
Docs == [trusted : SUBSET Nodes, invites : SUBSET Invites]
Jobs == {j \in [op : {"none", "self", "invite", "join", "expire", "revoke"},
                node : Nodes, token : Tokens \cup {NoToken}] :
           j.op = "invite" => j.token \in Tokens}

TypeInv ==
  /\ now \in Nat
  /\ file \in Docs /\ disk \in {"whole", "empty", "part"}
  /\ doc \in [Procs -> Docs]
  /\ pc \in [Procs -> {"off", "idle", "changed", "emptied"}]
  /\ job \in [Procs -> Jobs]
  /\ issued \subseteq Tokens /\ handed \subseteq Tokens
  /\ members \subseteq Nodes /\ barred \subseteq Nodes
  /\ joins \in [Tokens -> Nat]
  /\ torn \in BOOLEAN

\* One process at a time; the memory of the others is gone.
OneProcess ==
  /\ \A p, q \in Procs : pc[p] # "off" /\ pc[q] # "off" => p = q
  /\ \A p \in Procs : pc[p] = "off" => doc[p] = NoDoc

JobInv ==
  \A p \in Procs : Saving(p) =>
    /\ job[p].op = "revoke" => /\ job[p].node \notin doc[p].trusted
                               /\ \A i \in doc[p].invites : i.node # job[p].node
    /\ job[p].op = "join" => /\ job[p].node \in doc[p].trusted
                             /\ job[p].token \in Tokens /\ joins[job[p].token] = 0
                             /\ \A i \in doc[p].invites : i.token # job[p].token

\* A token stands for one invite, and for none after a join was reported.
TokenInv ==
  /\ \A d \in Copies : \A i \in d.invites : i.token \in issued /\ joins[i.token] = 0
  /\ \A d, e \in Copies : \A i \in d.invites, j \in e.invites : i.token = j.token => i = j
  /\ \A t \in Tokens : joins[t] # 0 => t \in issued
  /\ \A p \in Procs : Saving(p) /\ job[p].op = "join" => job[p].token \in issued

MembersInv ==
  ~torn =>
    /\ disk = "whole" => members \subseteq file.trusted
    /\ (\A p \in Procs : pc[p] = "off") => disk = "whole"
    /\ \A p \in Procs : pc[p] = "emptied" => disk # "whole"
    /\ \A p \in Procs : pc[p] # "off" => members \subseteq doc[p].trusted

IInv == /\ TypeInv
        /\ OneProcess
        /\ JobInv
        /\ TokenInv
        /\ BarredStaysOut
        /\ MembersInv
        /\ InviteAdmitsOnce

-----------------------------------------------------------------------------
(* Facts about documents and processes *)

LEMMA DocumentTypes ==
  ASSUME NEW d \in Docs, NEW n \in Nodes
  PROVE  /\ Trusting(d, n) \in Docs /\ Revoking(d, n) \in Docs /\ NoDoc \in Docs
         /\ \A i \in d.invites : Joined(d, i) \in Docs /\ i \in Invites
         /\ \A S \in SUBSET d.invites : [d EXCEPT !.invites = S] \in Docs
         /\ \A i \in Invites : [d EXCEPT !.invites = @ \cup {i}] \in Docs
  BY DEF Docs, Trusting, Revoking, Joined, NoDoc, Invites

LEMMA InitInv == Init => IInv
  <1> SUFFICES ASSUME Init
               PROVE  IInv
    OBVIOUS
  <1>1. NoDoc \in Docs /\ NoJob \in Jobs
    BY NodesAssumption DEF NoDoc, Docs, NoJob, Jobs, NoToken
  <1>2. TypeInv
    BY <1>1 DEF Init, TypeInv
  <1>3. \A d \in Copies : d.trusted = {} /\ d.invites = {}
    BY DEF Init, Copies, NoDoc
  <1> QED
    BY <1>2, <1>3 DEF Init, IInv, OneProcess, Saving, JobInv, TokenInv, BarredStaysOut,
                      MembersInv, InviteAdmitsOnce

\* A process that has the list takes a new document into memory.
LEMMA ChangeKeepsInv ==
  ASSUME IInv, NEW p \in Procs, NEW d \in Docs, NEW j \in Jobs, Change(p, d, j),
         UNCHANGED <<file, disk, joins, torn>>,
         now' \in Nat, issued' \subseteq Tokens, handed' \subseteq Tokens,
         issued \subseteq issued',
         members' \subseteq members, barred' \subseteq barred,
         \A q \in Procs : q # p => pc[q] = "off",
         j.op = "revoke" => /\ j.node \notin d.trusted
                            /\ \A i \in d.invites : i.node # j.node,
         j.op = "join" => /\ j.node \in d.trusted
                          /\ j.token \in issued /\ joins[j.token] = 0
                          /\ \A i \in d.invites : i.token # j.token,
         \A i \in d.invites : /\ i.token \in issued' /\ joins[i.token] = 0
                              /\ \A k \in d.invites \cup file.invites :
                                   i.token = k.token => i = k,
         barred' \cap d.trusted = {},
         \A i \in d.invites : i.node \notin barred',
         ~torn => members' \subseteq d.trusted,
         pc[p] # "emptied"
  PROVE  IInv'
  <1>1. TypeInv'
    BY DEF IInv, TypeInv, Change
  <1>2. /\ doc'[p] = d /\ pc'[p] = "changed" /\ job'[p] = j
        /\ \A q \in Procs : q # p => /\ pc'[q] = "off" /\ pc[q] = "off"
                                     /\ doc'[q] = NoDoc /\ doc[q] = NoDoc
    BY DEF IInv, TypeInv, OneProcess, Change
  <1>3. OneProcess'
    BY <1>2 DEF OneProcess
  <1>4. JobInv'
    BY <1>2 DEF IInv, TypeInv, JobInv, Saving
  <1>5. \A e \in Copies' : e = file \/ e = d \/ e = NoDoc
    BY <1>2 DEF Copies
  <1>6. file \in Copies /\ NoDoc.invites = {} /\ NoDoc.trusted = {}
    BY DEF Copies, NoDoc
  <1>7. TokenInv'
    <2>1. \A e \in Copies' : \A i \in e.invites : i.token \in issued' /\ joins'[i.token] = 0
      BY <1>5, <1>6 DEF IInv, TokenInv
    <2>2. \A e, f \in Copies' : \A i \in e.invites, k \in f.invites :
            i.token = k.token => i = k
      BY <1>5, <1>6 DEF IInv, TokenInv
    <2>3. \A q \in Procs : Saving(q)' /\ job'[q].op = "join" => job'[q].token \in issued'
      BY <1>2 DEF Saving
    <2> QED
      BY <2>1, <2>2, <2>3 DEF IInv, TokenInv
  <1>8. BarredStaysOut'
    BY <1>5, <1>6 DEF IInv, BarredStaysOut
  <1>9. MembersInv'
    BY <1>2 DEF IInv, MembersInv
  <1>10. InviteAdmitsOnce'
    BY DEF IInv, InviteAdmitsOnce
  <1> QED
    BY <1>1, <1>3, <1>4, <1>7, <1>8, <1>9, <1>10 DEF IInv

\* What a stopped save leaves is the file as it was, nothing, or the document in
\* memory.
LEMMA LeaveFacts ==
  ASSUME IInv, NEW p \in Procs, pc[p] # "off", Leave(p)
  PROVE  /\ file' \in Docs /\ disk' \in {"whole", "empty", "part"}
         /\ file' \in Copies \/ file' = NoDoc
         /\ ~torn /\ disk' = "whole" => members \subseteq file'.trusted
         /\ pc[p] # "emptied" => disk' = disk
  <1>1. /\ NoDoc \in Docs /\ file \in Docs /\ doc[p] \in Docs
        /\ file \in Copies /\ doc[p] \in Copies
    BY DEF NoDoc, Docs, Copies, IInv, TypeInv
  <1>2. ~torn => /\ members \subseteq doc[p].trusted
                 /\ disk = "whole" => members \subseteq file.trusted
    BY DEF IInv, MembersInv
  <1> QED
    BY <1>1, <1>2 DEF Leave, IInv, TypeInv

\* A process whose memory is lost, with what it leaves on the disk.
LEMMA StopKeepsInv ==
  ASSUME IInv, NEW p \in Procs, pc[p] # "off", Leave(p), End(p),
         UNCHANGED <<now, issued, handed, told>>
  PROVE  IInv'
  <1> USE DEF End
  <1>1. NoDoc \in Docs /\ NoJob \in Jobs
    BY NodesAssumption DEF NoDoc, Docs, NoJob, Jobs, NoToken
  <1>2. TypeInv'
    BY <1>1, LeaveFacts DEF IInv, TypeInv, told
  <1>3. \A q \in Procs : pc'[q] = "off" /\ doc'[q] = NoDoc
    BY DEF IInv, TypeInv, OneProcess
  <1>4. \A e \in Copies' : e \in Copies \/ e = NoDoc
    BY <1>3, LeaveFacts DEF Copies
  <1>5. NoDoc.invites = {} /\ NoDoc.trusted = {}
    BY DEF NoDoc
  <1>6. ~torn' => disk' = "whole" /\ members \subseteq file'.trusted
    BY LeaveFacts
  <1>7. TokenInv'
    BY <1>3, <1>4, <1>5 DEF IInv, TokenInv, Saving, told
  <1>8. BarredStaysOut'
    BY <1>4, <1>5 DEF IInv, BarredStaysOut, told
  <1> QED
    BY <1>2, <1>3, <1>6, <1>7, <1>8
       DEF IInv, OneProcess, JobInv, Saving, MembersInv, InviteAdmitsOnce, told

\* While a process has the list, the other one is off.
LEMMA OthersAreOff ==
  ASSUME IInv, NEW p \in Procs, pc[p] # "off"
  PROVE  \A q \in Procs : q # p => pc[q] = "off" /\ doc[q] = NoDoc
  BY DEF IInv, OneProcess

LEMMA NextInv == ASSUME Exclusive PROVE IInv /\ [Next]_vars => IInv'
  <1> SUFFICES ASSUME IInv, [Next]_vars
               PROVE  IInv'
    OBVIOUS
  <1>1. /\ file \in Docs /\ \A p \in Procs : doc[p] \in Docs
        /\ file \in Copies /\ \A p \in Procs : doc[p] \in Copies
    BY DEF IInv, TypeInv, Copies
  <1>2. ASSUME Serve
        PROVE  IInv'
    <2> DEFINE d == Trusting(file, Self)
               j == [NoJob EXCEPT !.op = "self"]
    <2>1. "server" \in Procs /\ \A q \in Procs : pc[q] = "off"
      BY <1>2 DEF Serve, Start, Procs
    <2>2. d \in Docs /\ j \in Jobs /\ j.op = "self"
      BY <1>1, NodesAssumption, DocumentTypes DEF NoJob, Jobs, NoToken
    <2>3. d.invites = file.invites /\ d.trusted = file.trusted \cup {Self}
      BY <1>1 DEF Trusting, Docs
    <2>4. \A i \in d.invites : /\ i.token \in issued /\ joins[i.token] = 0
                               /\ \A k \in file.invites : i.token = k.token => i = k
      BY <1>1, <2>3 DEF IInv, TokenInv
    <2>5. barred' \cap d.trusted = {} /\ \A i \in d.invites : i.node \notin barred'
      BY <1>1, <1>2, <2>3 DEF IInv, BarredStaysOut, Serve
    <2>6. ~torn => members \subseteq d.trusted
      BY <2>1, <2>3 DEF IInv, MembersInv
    <2> QED
      BY <1>2, <2>1, <2>2, <2>3, <2>4, <2>5, <2>6, ChangeKeepsInv DEF Serve, IInv, TypeInv
  <1>3. ASSUME OpenCommand
        PROVE  IInv'
    <2>1. \A q \in Procs : pc[q] = "off" /\ doc[q] = NoDoc
      BY <1>3 DEF OpenCommand, Start, IInv, OneProcess
    <2>2. /\ "command" \in Procs
          /\ pc' = [pc EXCEPT !["command"] = "idle"] /\ doc' = [doc EXCEPT !["command"] = file]
          /\ UNCHANGED <<now, file, disk, job, issued, handed, members, barred, joins, torn>>
      BY <1>3 DEF OpenCommand, history, told, Procs
    <2>3. TypeInv'
      BY <1>1, <2>2 DEF IInv, TypeInv
    <2>4. \A q \in Procs : doc'[q] = IF q = "command" THEN file ELSE NoDoc
      BY <2>1, <2>2 DEF IInv, TypeInv
    <2>5. \A q \in Procs : pc'[q] = IF q = "command" THEN "idle" ELSE "off"
      BY <2>1, <2>2 DEF IInv, TypeInv
    <2>6. Copies' = {file, NoDoc}
      BY <2>2, <2>4 DEF Copies, Procs
    <2>7. Copies' = Copies
      BY <2>1, <2>6 DEF Copies, Procs
    <2>8. TokenInv' /\ BarredStaysOut'
      BY <2>2, <2>5, <2>7 DEF IInv, TokenInv, BarredStaysOut, Saving
    <2>9. OneProcess' /\ JobInv' /\ MembersInv' /\ InviteAdmitsOnce'
      BY <2>1, <2>2, <2>4, <2>5
         DEF IInv, OneProcess, JobInv, Saving, MembersInv, InviteAdmitsOnce
    <2> QED
      BY <2>3, <2>8, <2>9 DEF IInv
  <1>4. ASSUME NEW p \in Procs, NEW t \in Tokens, NEW n \in Nodes, CreateInvite(p, t, n)
        PROVE  IInv'
    <2> DEFINE i0 == [token |-> t, node |-> n, expires |-> now + Ttl]
               d == [doc[p] EXCEPT !.invites = @ \cup {i0}]
               j == [op |-> "invite", node |-> n, token |-> t]
    <2>1. i0 \in Invites /\ d \in Docs /\ j \in Jobs
      <3>1. i0 \in Invites
        BY BoundsAssumption DEF IInv, TypeInv, Invites
      <3>2. d \in Docs
        BY <1>1, <3>1, DocumentTypes
      <3>3. j \in Jobs
        BY DEF Jobs
      <3> QED
        BY <3>1, <3>2, <3>3
    <2>2. d.trusted = doc[p].trusted /\ d.invites = doc[p].invites \cup {i0}
      BY <1>1 DEF Docs
    <2>3. /\ pc[p] = "idle" /\ t \notin issued /\ issued' = issued \cup {t}
          /\ barred' = barred \ {n} /\ Change(p, d, j)
          /\ UNCHANGED <<now, file, disk, handed, members, joins, torn>>
      BY <1>4 DEF CreateInvite
    <2>4. joins[t] = 0
      BY <2>3 DEF IInv, TypeInv, TokenInv
    <2>5. \A i \in d.invites : /\ i.token \in issued' /\ joins[i.token] = 0
                               /\ \A k \in d.invites \cup file.invites :
                                    i.token = k.token => i = k
      <3>1. \A i \in doc[p].invites \cup file.invites : i.token \in issued
        BY <1>1 DEF IInv, TokenInv
      <3>2. \A i \in doc[p].invites : joins[i.token] = 0
        BY <1>1 DEF IInv, TokenInv
      <3>3. \A i, k \in doc[p].invites \cup file.invites : i.token = k.token => i = k
        BY <1>1 DEF IInv, TokenInv
      <3> QED
        BY <2>2, <2>3, <2>4, <3>1, <3>2, <3>3
    <2>6. barred' \cap d.trusted = {} /\ \A i \in d.invites : i.node \notin barred'
      BY <1>1, <2>2, <2>3 DEF IInv, BarredStaysOut
    <2>7. ~torn => members \subseteq d.trusted
      BY <2>2, <2>3 DEF IInv, MembersInv
    <2>8. \A q \in Procs : q # p => pc[q] = "off"
      BY <2>3, OthersAreOff
    <2> HIDE DEF d, i0
    <2> QED
      BY <2>1, <2>3, <2>5, <2>6, <2>7, <2>8, ChangeKeepsInv DEF IInv, TypeInv
  <1>5. ASSUME NEW p \in Procs, NEW i \in doc[p].invites, UseInvite(p, i)
        PROVE  IInv'
    <2>1. /\ pc[p] = "idle" /\ i \in Invites
          /\ UNCHANGED <<now, file, disk, issued, handed, members, barred, joins, torn>>
          /\ \A q \in Procs : q # p => pc[q] = "off"
      BY <1>1, <1>5, NodesAssumption, DocumentTypes, OthersAreOff
         DEF UseInvite, history, told
    <2>2. /\ \A k \in doc[p].invites : /\ k.token \in issued /\ joins[k.token] = 0
                                       /\ k.node \notin barred
                                       /\ \A m \in doc[p].invites \cup file.invites :
                                            k.token = m.token => k = m
          /\ barred \cap doc[p].trusted = {}
          /\ ~torn => members \subseteq doc[p].trusted
      BY <1>1, <2>1 DEF IInv, TokenInv, BarredStaysOut, MembersInv
    <2>3. CASE now > i.expires
      <3> DEFINE d == [doc[p] EXCEPT !.invites = @ \ {i}]
                 j == [op |-> "expire", node |-> i.node, token |-> i.token]
      <3>1. d \in Docs /\ j \in Jobs /\ Change(p, d, j)
        BY <1>1, <1>5, <2>1, <2>3, NodesAssumption, DocumentTypes
           DEF UseInvite, Invites, Jobs
      <3>2. d.trusted = doc[p].trusted /\ d.invites = doc[p].invites \ {i}
        BY <1>1 DEF Docs
      <3> HIDE DEF d
      <3> QED
        BY <2>1, <2>2, <3>1, <3>2, ChangeKeepsInv DEF IInv, TypeInv
    <2>4. CASE ~(now > i.expires)
      <3> DEFINE d == Joined(doc[p], i)
                 j == [op |-> "join", node |-> i.node, token |-> i.token]
      <3>1. d \in Docs /\ j \in Jobs /\ Change(p, d, j)
        BY <1>1, <1>5, <2>1, <2>4, NodesAssumption, DocumentTypes
           DEF UseInvite, Invites, Jobs
      <3>2. d.trusted = doc[p].trusted \cup {i.node} /\ d.invites = doc[p].invites \ {i}
        BY DEF Joined
      <3>3. \A k \in d.invites : k.token # i.token
        BY <2>2, <3>2
      <3> HIDE DEF d
      <3> QED
        BY <2>1, <2>2, <3>1, <3>2, <3>3, ChangeKeepsInv DEF IInv, TypeInv
    <2> QED
      BY <2>3, <2>4
  <1>6. ASSUME NEW p \in Procs, NEW n \in Nodes, RevokeNode(p, n)
        PROVE  IInv'
    <2> DEFINE d == Revoking(doc[p], n)
               j == [op |-> "revoke", node |-> n, token |-> NoToken]
    <2>1. d \in Docs /\ j \in Jobs
      BY <1>1, DocumentTypes DEF Jobs
    <2>2. /\ pc[p] = "idle" /\ Change(p, d, j) /\ members' = members \ {n}
          /\ UNCHANGED <<now, file, disk, issued, handed, barred, joins, torn>>
          /\ \A q \in Procs : q # p => pc[q] = "off"
      BY <1>6, OthersAreOff DEF RevokeNode
    <2>3. /\ d.trusted = doc[p].trusted \ {n}
          /\ \A i \in d.invites : i \in doc[p].invites /\ i.node # n
      BY DEF Revoking
    <2>4. /\ \A k \in doc[p].invites : /\ k.token \in issued /\ joins[k.token] = 0
                                       /\ k.node \notin barred
                                       /\ \A m \in doc[p].invites \cup file.invites :
                                            k.token = m.token => k = m
          /\ barred \cap doc[p].trusted = {}
          /\ ~torn => members \subseteq doc[p].trusted
      BY <1>1, <2>2 DEF IInv, TokenInv, BarredStaysOut, MembersInv
    <2> HIDE DEF d
    <2> QED
      BY <2>1, <2>2, <2>3, <2>4, ChangeKeepsInv DEF IInv, TypeInv
  <1>7. ASSUME NEW p \in Procs, Empty(p)
        PROVE  IInv'
    <2>1. /\ pc[p] = "changed" /\ pc' = [pc EXCEPT ![p] = "emptied"]
          /\ file' = NoDoc /\ disk' = "empty"
          /\ UNCHANGED <<now, doc, job, issued, handed, members, barred, joins, torn>>
          /\ \A q \in Procs : q # p => pc[q] = "off"
      BY <1>7, OthersAreOff DEF Empty, history, told
    <2>2. TypeInv'
      BY <2>1 DEF IInv, TypeInv, NoDoc, Docs
    <2>3. /\ \A e \in Copies' : e \in Copies \/ e = NoDoc
          /\ NoDoc.invites = {} /\ NoDoc.trusted = {}
      BY <2>1 DEF Copies, NoDoc
    <2>4. \A q \in Procs : Saving(q)' <=> Saving(q)
      BY <2>1 DEF IInv, TypeInv, Saving
    <2>5. TokenInv'
      BY <2>1, <2>3, <2>4 DEF IInv, TokenInv
    <2>6. BarredStaysOut'
      BY <2>1, <2>3 DEF IInv, BarredStaysOut
    <2>7. JobInv'
      BY <2>1, <2>4 DEF IInv, JobInv
    <2>8. OneProcess' /\ MembersInv' /\ InviteAdmitsOnce'
      BY <2>1 DEF IInv, TypeInv, OneProcess, MembersInv, InviteAdmitsOnce
    <2> QED
      BY <2>2, <2>5, <2>6, <2>7, <2>8 DEF IInv
  <1>8. ASSUME NEW p \in Procs, Write(p)
        PROVE  IInv'
    <2>1. /\ pc[p] = "emptied" /\ file' = doc[p] /\ disk' = "whole"
          /\ Report(job[p]) /\ Finish(p)
          /\ UNCHANGED <<now, issued, torn>>
          /\ \A q \in Procs : q # p => pc[q] = "off" /\ doc[q] = NoDoc
      BY <1>8, OthersAreOff DEF Write
    <2>2. NoDoc \in Docs /\ NoJob \in Jobs /\ job[p] \in Jobs
      BY NodesAssumption DEF NoDoc, Docs, NoJob, Jobs, NoToken, IInv, TypeInv
    <2>3. /\ \A q \in Procs : ~Saving(q)' /\ pc'[q] # "emptied"
          /\ \A q \in Procs : q # p => pc'[q] = "off" /\ doc'[q] = NoDoc
          /\ \/ doc'[p] = doc[p] /\ pc'[p] = "idle"
             \/ doc'[p] = NoDoc /\ pc'[p] = "off"
      BY <2>1 DEF IInv, TypeInv, Finish, Saving
    <2>4. Copies' \subseteq {doc[p], NoDoc}
      BY <2>1, <2>3 DEF Copies
    <2>5. /\ doc[p] \in Copies /\ Saving(p)
          /\ NoDoc.invites = {} /\ NoDoc.trusted = {}
      BY <2>1 DEF Copies, Saving, NoDoc
    <2>6. job[p].op = "join" => job[p].token \in Tokens /\ joins[job[p].token] = 0
      BY <2>5 DEF IInv, JobInv
    <2>7. TypeInv'
      <3>1. joins' \in [Tokens -> Nat] /\ handed' \subseteq Tokens
        <4>1. job[p].op = "invite" => job[p].token \in Tokens
          BY <2>2 DEF Jobs
        <4> QED
          BY <2>1, <2>6, <4>1 DEF IInv, TypeInv, Report
      <3>2. members' \subseteq Nodes /\ barred' \subseteq Nodes
        BY <2>1, <2>2 DEF IInv, TypeInv, Report, Jobs
      <3>3. doc' \in [Procs -> Docs] /\ job' \in [Procs -> Jobs]
            /\ pc' \in [Procs -> {"off", "idle", "changed", "emptied"}]
        BY <2>1, <2>2 DEF IInv, TypeInv, Finish
      <3> QED
        BY <1>1, <2>1, <3>1, <3>2, <3>3 DEF IInv, TypeInv
    <2>8. OneProcess' /\ JobInv'
      BY <2>3 DEF OneProcess, JobInv
    <2>9. TokenInv'
      <3>1. \A i \in doc[p].invites : i.token \in issued /\ joins[i.token] = 0
                                     /\ (job[p].op = "join" => i.token # job[p].token)
        BY <2>5 DEF IInv, TokenInv, JobInv
      <3>2. \A i, k \in doc[p].invites : i.token = k.token => i = k
        BY <2>5 DEF IInv, TokenInv
      <3>3. \A i \in doc[p].invites : i.token \in Tokens
        BY <3>1 DEF IInv, TypeInv
      <3>4. \A i \in doc[p].invites : joins'[i.token] = 0
        BY <2>1, <3>1, <3>3 DEF Report, IInv, TypeInv
      <3>5. \A t \in Tokens : joins'[t] # 0 => t \in issued
        BY <2>1, <2>5 DEF Report, IInv, TypeInv, TokenInv
      <3> QED
        BY <2>1, <2>3, <2>4, <2>5, <3>1, <3>2, <3>4, <3>5 DEF TokenInv
    <2>10. BarredStaysOut'
      BY <2>1, <2>4, <2>5 DEF IInv, BarredStaysOut, JobInv, Report
    <2>11. MembersInv'
      BY <2>1, <2>3, <2>5 DEF IInv, MembersInv, JobInv, Report
    <2>12. InviteAdmitsOnce'
      BY <2>1, <2>6 DEF IInv, InviteAdmitsOnce, Report, TypeInv
    <2> QED
      BY <2>7, <2>8, <2>9, <2>10, <2>11, <2>12 DEF IInv
  <1>9. ASSUME NEW p \in Procs, SaveFails(p)
        PROVE  IInv'
    <2>1. /\ pc[p] # "off" /\ Saving(p) /\ Leave(p)
          /\ UNCHANGED <<now, issued, handed, told>>
      BY <1>9 DEF SaveFails, Saving
    <2>2. CASE job[p].op = "self" \/ p = "command"
      BY <1>9, <2>1, <2>2, StopKeepsInv DEF SaveFails
    <2>3. CASE job[p].op # "self" /\ p # "command"
      <3>1. /\ pc' = [pc EXCEPT ![p] = "idle"] /\ doc' = doc /\ torn' = torn
            /\ job' = [job EXCEPT ![p] = NoJob]
        BY <1>9, <2>3 DEF SaveFails, Finish, IInv, TypeInv, Procs
      <3>2. TypeInv'
        <4>1. NoJob \in Jobs
          BY NodesAssumption DEF NoJob, Jobs, NoToken
        <4> QED
          BY <2>1, <3>1, <4>1, LeaveFacts DEF IInv, TypeInv, told
      <3>3. /\ \A q \in Procs : Saving(q)' => Saving(q) /\ job'[q] = job[q]
            /\ \A q \in Procs : pc'[q] = "off" <=> pc[q] = "off"
            /\ \A q \in Procs : pc'[q] # "emptied" /\ pc'[p] = "idle"
        BY <2>1, <3>1, OthersAreOff DEF IInv, TypeInv, Saving
      <3>4. \A e \in Copies' : e \in Copies \/ e = NoDoc
        BY <2>1, <3>1, LeaveFacts DEF Copies
      <3>5. NoDoc.invites = {} /\ NoDoc.trusted = {}
        BY DEF NoDoc
      <3>6. TokenInv' /\ BarredStaysOut'
        BY <2>1, <3>3, <3>4, <3>5 DEF IInv, TokenInv, BarredStaysOut, told
      <3>7. MembersInv'
        BY <2>1, <3>1, <3>3, LeaveFacts DEF IInv, MembersInv, told
      <3>8. OneProcess' /\ JobInv' /\ InviteAdmitsOnce'
        BY <2>1, <3>1, <3>3
           DEF IInv, OneProcess, JobInv, InviteAdmitsOnce, told
      <3> QED
        BY <3>2, <3>6, <3>7, <3>8 DEF IInv
    <2> QED
      BY <2>2, <2>3
  <1>10. ASSUME NEW p \in Procs, Kill(p)
         PROVE  IInv'
    BY <1>10, StopKeepsInv DEF Kill
  <1>11. CASE Tick \/ UNCHANGED vars
    <2>1. /\ UNCHANGED <<file, disk, doc, pc, job, issued, handed, members, barred, joins,
                        torn>>
          /\ now' \in Nat
      BY <1>11 DEF Tick, vars, process, history, told, IInv, TypeInv
    <2>2. Copies' = Copies
      BY <2>1 DEF Copies
    <2> QED
      BY <2>1, <2>2 DEF IInv, TypeInv, OneProcess, JobInv, Saving, TokenInv, BarredStaysOut,
                        MembersInv, InviteAdmitsOnce
  <1> QED
    BY <1>2, <1>3, <1>4, <1>5, <1>6, <1>7, <1>8, <1>9, <1>10, <1>11 DEF Next, Operation

-----------------------------------------------------------------------------
(* Theorems *)

\* The inductive invariant holds in every reachable state when a command runs only
\* while the server does not (Serve, OpenCommand, the operations and their save).
THEOREM Invariance == ASSUME Exclusive PROVE Spec => []IInv
  <1>1. IInv /\ [Next]_vars => IInv'
    BY NextInv
  <1> QED
    BY InitInv, <1>1, PTL DEF Spec

\* A node whose revocation was reported is on no copy of the list, and no copy
\* holds an invite for it, until somebody invites it again (RevokeNode, save).
THEOREM RevokedStayOut == ASSUME Exclusive PROVE Spec => []BarredStaysOut
  <1>1. IInv => BarredStaysOut
    BY DEF IInv
  <1> QED
    BY Invariance, <1>1, PTL

\* A node whose join was reported is on the list that the next start loads and on
\* the server's, unless a process ended with the file empty or in part, killed or
\* by a save that failed (save, load).
THEOREM ReportedMembersAreKept == ASSUME Exclusive PROVE Spec => []MembersAreKept
  <1>1. IInv => MembersAreKept
    BY DEF IInv, MembersInv, MembersAreKept, Procs
  <1> QED
    BY Invariance, <1>1, PTL

\* An invite lets one join through, whatever fails on the way (UseInvite, save).
THEOREM InvitesAdmitOnce == ASSUME Exclusive PROVE Spec => []InviteAdmitsOnce
  <1>1. IInv => InviteAdmitsOnce
    BY DEF IInv
  <1> QED
    BY Invariance, <1>1, PTL

-----------------------------------------------------------------------------
(* The peers the sync loop keeps *)

PeersTypes ==
  /\ found \subseteq Urls /\ cands \subseteq Urls /\ todo \subseteq Urls
  /\ doing = "add" => cand \in Urls
  /\ nodeAt \in [Urls -> Known \cup {NoNode}]

PeersInv == PeersTypes /\ RevokedPeersAreDropped

\* Whatever is forgotten, no other URL is touched.
LEMMA ForgetTypes ==
  ASSUME PeersTypes, NEW gone \in SUBSET Urls, Forget(gone)
  PROVE  /\ found' = found \ gone /\ nodeAt' \in [Urls -> Known \cup {NoNode}]
         /\ \A u \in found' : nodeAt'[u] = nodeAt[u]
  BY DEF PeersTypes, Forget

LEMMA PeersStep ==
  ASSUME PeersInv, [PeersNext]_peersVars
  PROVE  PeersInv'
  <1> USE DEF peersVars, world, discovery, loop
  <1>1. CASE UNCHANGED peersVars
    BY <1>1 DEF PeersInv, PeersTypes, RevokedPeersAreDropped
  <1>2. CASE StartPass \/ StartRefresh \/ NextSource
    BY <1>2, UrlsAssumption
    DEF PeersInv, PeersTypes, RevokedPeersAreDropped, StartPass, StartRefresh, NextSource,
        ActiveSyncPeers
  <1>3. CASE Add
    <2>1. /\ cand \in Urls /\ NodeOf[cand] \in Known
          /\ nodeAt' = [nodeAt EXCEPT ![cand] = NodeOf[cand]]
          /\ found' = found \cup {cand} /\ UNCHANGED <<cands, todo>> /\ doing' = "probe"
      BY <1>3 DEF Add, PeersInv, PeersTypes, Known
    <2> QED
      BY <2>1 DEF PeersInv, PeersTypes, RevokedPeersAreDropped
  <1>4. CASE Prune
    <2> DEFINE gone == {u \in found : \/ age[u] - passAge > DiscoveryTtl
                                      \/ nodeAt[u] \notin trusted}
    <2>1. gone \in SUBSET Urls /\ Forget(gone)
      BY <1>4 DEF Prune, PeersInv, PeersTypes
    <2>2. /\ found' = found \ gone /\ nodeAt' \in [Urls -> Known \cup {NoNode}]
          /\ \A u \in found' : nodeAt'[u] = nodeAt[u]
      BY <2>1, ForgetTypes DEF PeersInv
    <2>3. doing' = "sleep" /\ UNCHANGED <<trusted, cands, todo>>
      BY <1>4 DEF Prune
    <2>4. \A u \in found' : nodeAt'[u] \in trusted'
      BY <2>2, <2>3
    <2> QED
      BY <2>2, <2>3, <2>4 DEF PeersInv, PeersTypes, RevokedPeersAreDropped
  <1>5. CASE PassTime
    BY <1>5 DEF PeersInv, PeersTypes, RevokedPeersAreDropped, PassTime
  <1>6. ASSUME NEW u \in Urls, SkipPeer(u) \/ Pull(u)
        PROVE  PeersInv'
    BY <1>6 DEF PeersInv, PeersTypes, RevokedPeersAreDropped, SkipPeer, Pull
  <1>7. ASSUME NEW u \in Urls, PassOver(u) \/ Reject(u)
        PROVE  PeersInv'
    <2>1. /\ doing \in {"refresh", "probe"} /\ UNCHANGED <<doing, cand>>
          /\ cands' \subseteq cands /\ todo' \subseteq todo
          /\ UNCHANGED discovery \/ Forget({u})
      BY <1>7 DEF PassOver, Reject
    <2>2. found' \subseteq found /\ nodeAt' \in [Urls -> Known \cup {NoNode}]
      BY <2>1, ForgetTypes DEF PeersInv, PeersTypes
    <2> QED
      BY <2>1, <2>2 DEF PeersInv, PeersTypes, RevokedPeersAreDropped
  <1>8. ASSUME NEW u \in Urls, Source(u)
        PROVE  PeersInv'
    <2>1. NodeOf[u] \in Known /\ Lists[u] \subseteq Urls
      BY UrlsAssumption DEF Known
    <2> QED
      BY <1>8, <2>1 DEF PeersInv, PeersTypes, RevokedPeersAreDropped, Source
  <1>9. ASSUME NEW u \in Urls, Probe(u)
        PROVE  PeersInv'
    BY <1>9 DEF PeersInv, PeersTypes, RevokedPeersAreDropped, Probe
  <1>10. ASSUME NEW u \in Urls, PeerFails(u) \/ PeerReturns(u)
         PROVE  PeersInv'
    BY <1>10 DEF PeersInv, PeersTypes, RevokedPeersAreDropped, PeerFails, PeerReturns
  <1>11. ASSUME NEW n \in Fickle, Distrust(n) \/ TrustNode(n)
         PROVE  PeersInv'
    BY <1>11 DEF PeersInv, PeersTypes, RevokedPeersAreDropped, Distrust, TrustNode
  <1> QED
    BY <1>1, <1>2, <1>3, <1>4, <1>5, <1>6, <1>7, <1>8, <1>9, <1>10, <1>11
    DEF PeersNext, SyncLoop

\* Between two passes the node keeps no discovered peer whose node was revoked before
\* the last prune, wherever in a pass that was (addDiscoveredPeer, pruneDiscoveredPeers).
THEOREM PeersFollowTheList == PeersSpec => []RevokedPeersAreDropped
  <1>1. PeersInit => PeersInv
    BY DEF PeersInit, PeersInv, PeersTypes, RevokedPeersAreDropped
  <1>2. PeersInv /\ [PeersNext]_peersVars => PeersInv'
    BY PeersStep
  <1>3. PeersInv => RevokedPeersAreDropped
    BY DEF PeersInv
  <1> QED
    BY <1>1, <1>2, <1>3, PTL DEF PeersSpec

=============================================================================
