-------------------------------- MODULE Trust --------------------------------
(***************************************************************************)
(* The trust list of a node (internal/trust): which nodes its events are   *)
(* taken from, and the invites that let a node onto the list.  The whole   *)
(* document lies in trust.json; the server holds one copy in memory from   *)
(* its start, and every command of the operator (trust invite, use-invite, *)
(* revoke) loads a copy of its own, changes it and saves it.               *)
(*                                                                         *)
(* A save empties the file before it writes it (os.WriteFile).  A kill or  *)
(* a full disk after that leaves nothing of the document or a part of it:  *)
(* an empty file loads as an empty document, a part does not parse, and no *)
(* process starts until somebody repairs it.  The peers' votes on an       *)
(* invite or a revocation keep no state: a request that misses its quorum  *)
(* changes nothing and is not modelled.                                    *)
(***************************************************************************)
EXTENDS Integers, FiniteSets

CONSTANTS Nodes,      \* identities of nodes
          Self,       \* the node whose list this is
          Tokens,     \* invite tokens
          Ttl,        \* seconds an invite lives
          MaxTime,    \* bound: clock
          MaxFaults,  \* bound: kills and saves that fail
          Exclusive   \* TRUE: a command runs only while the server does not

ASSUME NodesAssumption == Self \in Nodes
ASSUME BoundsAssumption == {Ttl, MaxTime, MaxFaults} \subseteq Nat
ASSUME ModeAssumption == Exclusive \in BOOLEAN

VARIABLES
  now,      \* the clock
  file,     \* the document in trust.json
  disk,     \* whole, or what a save left of it: empty, part
  doc,      \* Manager.doc of each process
  pc,       \* off, idle, changed (not yet saved), emptied (file truncated)
  job,      \* what each process saves, and will report as done
  issued,   \* tokens drawn so far
  handed,   \* tokens given to the caller who asked for one
  members,  \* nodes whose join was reported and whose revocation has not begun since (history)
  barred,   \* nodes whose revocation was reported and not invited since (history)
  joins,    \* joins reported for each token (history)
  torn,     \* a process ended with the file empty or in part (history)
  faults

process == <<doc, pc, job>>
told == <<members, barred, joins>>
history == <<told, torn>>
vars == <<now, file, disk, process, issued, handed, history, faults>>

Procs == {"server", "command"}
NoToken == "none"
NoDoc == [trusted |-> {}, invites |-> {}]
NoJob == [op |-> "none", node |-> Self, token |-> NoToken]

Init ==
  /\ now = 0
  /\ file = NoDoc
  /\ disk = "whole"
  /\ doc = [p \in Procs |-> NoDoc]
  /\ pc = [p \in Procs |-> "off"]
  /\ job = [p \in Procs |-> NoJob]
  /\ issued = {}
  /\ handed = {}
  /\ members = {}
  /\ barred = {}
  /\ joins = [t \in Tokens |-> 0]
  /\ torn = FALSE
  /\ faults = 0

-----------------------------------------------------------------------------
(* The documents the operations leave *)

Trusting(d, n) == [d EXCEPT !.trusted = @ \cup {n}]

\* Mutant of Revoking: the invites of the node stay.
RevokingOnly(d, n) == [d EXCEPT !.trusted = @ \ {n}]

Revoking(d, n) == [trusted |-> d.trusted \ {n},
                   invites |-> {i \in d.invites : i.node # n}]

\* Mutant of Joined: the invite can be used again.
JoinedKeeping(d, i) == [d EXCEPT !.trusted = @ \cup {i.node}]

Joined(d, i) == [trusted |-> d.trusted \cup {i.node}, invites |-> d.invites \ {i}]

\* A process takes a document into memory and is about to save it.
Change(p, d, j) ==
  /\ doc' = [doc EXCEPT ![p] = d]
  /\ job' = [job EXCEPT ![p] = j]
  /\ pc' = [pc EXCEPT ![p] = "changed"]

\* The server goes on serving; a command exits.
Finish(p) ==
  /\ pc' = [pc EXCEPT ![p] = IF p = "server" THEN "idle" ELSE "off"]
  /\ doc' = [doc EXCEPT ![p] = IF p = "server" THEN @ ELSE NoDoc]
  /\ job' = [job EXCEPT ![p] = NoJob]

\* load: a document that was cut off does not parse.
Start(p) ==
  /\ pc[p] = "off" /\ disk # "part"
  /\ Exclusive => \A q \in Procs : pc[q] = "off"

-----------------------------------------------------------------------------
(* Operations *)

\* runServe loads the list and puts the node itself on it.
Serve ==
  /\ Start("server")
  /\ Change("server", Trusting(file, Self), [NoJob EXCEPT !.op = "self"])
  /\ barred' = barred \ {Self}
  /\ UNCHANGED <<now, file, disk, issued, handed, members, joins, torn, faults>>

\* trust.Open in a command.
OpenCommand ==
  /\ Start("command")
  /\ doc' = [doc EXCEPT !["command"] = file]
  /\ pc' = [pc EXCEPT !["command"] = "idle"]
  /\ UNCHANGED <<now, file, disk, job, issued, handed, history, faults>>

CreateInvite(p, t, n) ==
  /\ pc[p] = "idle"
  /\ t \notin issued
  /\ issued' = issued \cup {t}
  /\ Change(p, [doc[p] EXCEPT !.invites = @ \cup
                  {[token |-> t, node |-> n, expires |-> now + Ttl]}],
            [op |-> "invite", node |-> n, token |-> t])
  /\ barred' = barred \ {n}
  /\ UNCHANGED <<now, file, disk, handed, members, joins, torn, faults>>

\* An invite of another node, or one that is not there, is refused and nothing
\* changes; an expired one is deleted.
UseInvite(p, i) ==
  /\ pc[p] = "idle"
  /\ i \in doc[p].invites /\ i.token \in handed
  /\ IF now > i.expires
       THEN Change(p, [doc[p] EXCEPT !.invites = @ \ {i}],
                   [op |-> "expire", node |-> i.node, token |-> i.token])
       ELSE Change(p, Joined(doc[p], i),
                   [op |-> "join", node |-> i.node, token |-> i.token])
  /\ UNCHANGED <<now, file, disk, issued, handed, history, faults>>

RevokeNode(p, n) ==
  /\ pc[p] = "idle"
  /\ Change(p, Revoking(doc[p], n), [op |-> "revoke", node |-> n, token |-> NoToken])
  /\ members' = members \ {n}
  /\ UNCHANGED <<now, file, disk, issued, handed, barred, joins, torn, faults>>

Saving(p) == pc[p] \in {"changed", "emptied"}

\* save: the file is emptied ...
Empty(p) ==
  /\ pc[p] = "changed"
  /\ file' = NoDoc /\ disk' = "empty"
  /\ pc' = [pc EXCEPT ![p] = "emptied"]
  /\ UNCHANGED <<now, doc, job, issued, handed, history, faults>>

\* What the caller is told: the token of an invite, a join, a revocation.
Report(j) ==
  /\ handed' = IF j.op = "invite" THEN handed \cup {j.token} ELSE handed
  /\ members' = IF j.op = "join" THEN members \cup {j.node} ELSE members
  /\ barred' = IF j.op = "revoke" THEN barred \cup {j.node} ELSE barred
  /\ joins' = IF j.op = "join" THEN [joins EXCEPT ![j.token] = @ + 1] ELSE joins

\* ... and written; the caller is told that it is done.
Write(p) ==
  /\ pc[p] = "emptied"
  /\ file' = doc[p] /\ disk' = "whole"
  /\ Report(job[p])
  /\ Finish(p)
  /\ UNCHANGED <<now, issued, torn, faults>>

\* What a process that stops saving leaves on the disk: the file as it was, before
\* it emptied it, and then nothing, a part, or the whole document.
Leave(p) ==
  \/ pc[p] # "emptied" /\ UNCHANGED <<file, disk>>
  \/ pc[p] = "emptied" /\ file' = NoDoc /\ disk' \in {"empty", "part"}
  \/ pc[p] = "emptied" /\ file' = doc[p] /\ disk' = "whole"

\* The memory of the process goes, and the file stays as it is.
End(p) ==
  /\ pc' = [pc EXCEPT ![p] = "off"]
  /\ doc' = [doc EXCEPT ![p] = NoDoc]
  /\ job' = [job EXCEPT ![p] = NoJob]
  /\ torn' = (torn \/ disk' # "whole")

\* Mutant of SaveFails: the caller is not told of the error.
SaveFailsUnnoticed(p) ==
  /\ Saving(p)
  /\ faults < MaxFaults /\ faults' = faults + 1
  /\ Leave(p)
  /\ Report(job[p])
  /\ IF job[p].op = "self" \/ p = "command"
       THEN End(p)
       ELSE Finish(p) /\ UNCHANGED torn
  /\ UNCHANGED <<now, issued>>

\* The file cannot be opened, or not be written: the caller gets the error.  The
\* server keeps the change in memory and goes on; a command exits, and so does a
\* server that cannot save its own entry.
SaveFails(p) ==
  /\ Saving(p)
  /\ faults < MaxFaults /\ faults' = faults + 1
  /\ Leave(p)
  /\ IF job[p].op = "self" \/ p = "command"
       THEN End(p)
       ELSE Finish(p) /\ UNCHANGED torn
  /\ UNCHANGED <<now, issued, handed, told>>

Kill(p) ==
  /\ pc[p] # "off"
  /\ faults < MaxFaults /\ faults' = faults + 1
  /\ Leave(p)
  /\ End(p)
  /\ UNCHANGED <<now, issued, handed, told>>

Tick ==
  /\ now < MaxTime /\ now' = now + 1
  /\ UNCHANGED <<file, disk, process, issued, handed, history, faults>>

Operation(p) ==
  \/ \E t \in Tokens, n \in Nodes : CreateInvite(p, t, n)
  \/ \E i \in doc[p].invites : UseInvite(p, i)
  \/ \E n \in Nodes : RevokeNode(p, n)

Next ==
  \/ Serve
  \/ OpenCommand
  \/ \E p \in Procs : Operation(p) \/ Empty(p) \/ Write(p) \/ SaveFails(p) \/ Kill(p)
  \/ Tick

Spec == Init /\ [][Next]_vars

-----------------------------------------------------------------------------
(* Properties *)

Copies == {file} \cup {doc[p] : p \in Procs}

\* One process at a time: once a revocation is reported, the node is on no copy of
\* the list and no copy holds an invite for it, until somebody invites it again:
\* through failed saves, kills and restarts, and whatever was half done when the
\* revocation came (RevokeNode, save).
BarredStaysOut ==
  \A d \in Copies : /\ barred \cap d.trusted = {}
                    /\ \A i \in d.invites : i.node \notin barred

\* One process at a time, and unless one ended, by a kill or by itself, with the
\* file empty or in part: a node whose join was reported is on the list that the
\* next start loads, and on the list of the running server, until a revocation
\* begins.  A running server whose save failed makes up for it with its next one
\* (UseInvite, save, load).
MembersAreKept ==
  ~torn =>
    /\ disk = "whole" \/ (\A p \in Procs : pc[p] = "off") => members \subseteq file.trusted
    /\ pc["server"] # "off" => members \subseteq doc["server"].trusted

\* One process at a time, whatever fails on the way: an invite lets one join
\* through (UseInvite deletes it and saves before it answers).
InviteAdmitsOnce == \A t \in Tokens : joins[t] =< 1

=============================================================================
