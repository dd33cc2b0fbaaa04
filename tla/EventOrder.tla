----------------------------- MODULE EventOrder -----------------------------
(***************************************************************************)
(* The event log of internal/store as every component sees it: a sequence  *)
(* of signed events, the clock computed from it, the events after a        *)
(* sequence number, and the check of internal/store/integrity.go.          *)
(*                                                                         *)
(* One project.  An event is what the sync layer tells apart: the signer   *)
(* it names, its sequence number, a body standing for the rest of its      *)
(* fields, and the key it carries (signer_pub).  A node's key goes by the  *)
(* node's name.  Altered is the body of an event whose fields no longer    *)
(* match its signature.                                                    *)
(***************************************************************************)
EXTENDS Integers, Sequences

CONSTANTS Nodes,       \* the nodes of the project, each one a signer
          Keys,        \* the signing keys: those of the nodes, and others
          MaxEvents,   \* bound: how many events the nodes sign in a behaviour
          Altered      \* the body of an event that was changed after signing

ASSUME KeysAssumption == Nodes \subseteq Keys
ASSUME BoundAssumption == MaxEvents \in Nat
ASSUME AlteredAssumption == Altered \notin Nat

Bodies == 1 .. MaxEvents

\* events.SignedEvent
Event == [signer : Nodes, seq : Nat \ {0}, body : Bodies \cup {Altered},
          key : Keys]

\* events.VerifyByEventKey: the signature covers the fields and is checked with
\* the key in the event, whoever's key that is.
VerifyByEventKey(e) == e.body # Altered

\* The event was signed with the key of the signer it names.  No code checks it.
Genuine(e) == e.key = e.signer

Rows(file) == {file[i] : i \in DOMAIN file}

\* seq is the highest sequence number of signer s in the file, 0 for none.
IsTop(file, s, seq) ==
  /\ \A e \in Rows(file) : e.signer = s => e.seq =< seq
  /\ seq # 0 => \E e \in Rows(file) : e.signer = s /\ e.seq = seq

\* EventLog.Clock: the highest sequence number of every signer.
Clock(file) ==
  [s \in Nodes |->
     CHOOSE seq \in {0} \cup {e.seq : e \in Rows(file)} : IsTop(file, s, seq)]

\* EventLog.EventsAfter
EventsAfter(file, s, seq) == {e \in Rows(file) : e.signer = s /\ e.seq > seq}

\* The keys loadIndexes fills replayIx with.
ReplayKeys(file) == {<<e.signer, e.seq>> : e \in Rows(file)}

\* EventLog.VerifyIntegrity: every signature is valid, and every row carries
\* the sequence number after the one of its signer's previous row.
VerifyIntegrity(file) ==
  \A i \in DOMAIN file :
    LET earlier == {j \in 1 .. i - 1 : file[j].signer = file[i].signer}
    IN  /\ VerifyByEventKey(file[i])
        /\ IF earlier = {}
             THEN file[i].seq = 1
             ELSE \E j \in earlier : /\ \A h \in earlier : h =< j
                                     /\ file[i].seq = file[j].seq + 1

=============================================================================
