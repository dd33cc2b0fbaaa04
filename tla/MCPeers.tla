------------------------------- MODULE MCPeers -------------------------------
(* Instances of Peers for TLC. *)
EXTENDS Peers, TLC

CONSTANTS a, b, nodeA, nodeB

TwoUrls == {a, b}
OneStatic == {a}
TwoNodes == a :> nodeA @@ b :> nodeB
\* Both nodes list both URLs: the static peer its own public URL too.
BothListed == a :> {a, b} @@ b :> {a, b}
Both == {nodeA, nodeB}

=============================================================================
