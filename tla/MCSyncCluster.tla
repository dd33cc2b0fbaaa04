---------------------------- MODULE MCSyncCluster ----------------------------
(* Instances of SyncCluster for TLC. *)
EXTENDS SyncCluster, TLC

CONSTANTS n1, n2, n3, other

Two == {n1, n2}
Three == {n1, n2, n3}

\* Every node lists every other one, as in the 3-node deployments.
Mesh == [n \in Nodes |-> Nodes \ {n}]

\* n1 pulls from n2, n2 from n3 and n3 from n1: events travel through a relay.
Ring == (n1 :> {n2}) @@ (n2 :> {n3}) @@ (n3 :> {n1})

AllTrusted == [n \in Nodes |-> Nodes]

\* One key that is no node's.
AnyKey == Nodes \cup {other}

\* One event for the first number of every node, with that key.
SomeStrays == {[signer |-> n, seq |-> 1, body |-> 1, key |-> other] : n \in Nodes}
NoStrays == {}

\* A node accepts posted events of its own only.
SelfTrusted == [n \in Nodes |-> {n}]

NodeSymmetry == Permutations(Nodes)

=============================================================================
