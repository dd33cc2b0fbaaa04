------------------------------- MODULE MCTrust -------------------------------
(* Instances of Trust for TLC. *)
EXTENDS Trust

CONSTANTS n1, n2, t1, t2

TwoNodes == {n1, n2}
TwoTokens == {t1, t2}

=============================================================================
