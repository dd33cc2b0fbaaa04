------------------------------ MODULE MCDataDir ------------------------------
(* Instances of DataDir for TLC. *)
EXTENDS DataDir

CONSTANT c1

One == {c1}

=============================================================================
