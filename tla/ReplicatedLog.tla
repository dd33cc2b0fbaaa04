---------------------------- MODULE ReplicatedLog ----------------------------
(***************************************************************************)
(* What the sync layer promises: what a node knows of a signer is numbered *)
(* without a gap, and every event in it that is signed with that signer's  *)
(* key is the one event the signer published under that number.  An event  *)
(* signed with another key may take a number of the signer it names.       *)
(***************************************************************************)
EXTENDS EventOrder

VARIABLE seen   \* the events each node knows

Init == seen = [n \in Nodes |-> {}]

\* The events of signer s before number k are known to n.
KnowsUpTo(n, s, k) == \A h \in 1 .. k - 1 : \E e \in seen[n] : e.signer = s /\ e.seq = h

Fresh(n, s, k) == \A e \in seen[n] : e.signer = s => e.seq < k

\* A node publishes the event after the last one it published.
Publish(n, e) ==
  /\ e.signer = n /\ Genuine(e) /\ VerifyByEventKey(e)
  /\ KnowsUpTo(n, n, e.seq) /\ Fresh(n, n, e.seq)
  /\ seen' = [seen EXCEPT ![n] = @ \cup {e}]

\* A node learns the event after the last one it knows of that signer, exactly
\* as its signer published it.
Learn(n, e) ==
  /\ e.signer # n /\ Genuine(e)
  /\ e \in seen[e.signer]
  /\ KnowsUpTo(n, e.signer, e.seq) /\ Fresh(n, e.signer, e.seq)
  /\ seen' = [seen EXCEPT ![n] = @ \cup {e}]

\* A node takes up an event that carries a key other than its signer's.
Adopt(n, e) ==
  /\ ~Genuine(e) /\ VerifyByEventKey(e)
  /\ KnowsUpTo(n, e.signer, e.seq) /\ Fresh(n, e.signer, e.seq)
  /\ seen' = [seen EXCEPT ![n] = @ \cup {e}]

Next == \E n \in Nodes : \E e \in seen'[n] :
          Publish(n, e) \/ Learn(n, e) \/ Adopt(n, e)

Spec == Init /\ [][Next]_seen

=============================================================================
