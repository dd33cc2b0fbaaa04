---------------------------- MODULE MCAttachments ----------------------------
(* Instances of Attachments for TLC. *)
EXTENDS Attachments, TLC

CONSTANTS n1, n2, f1, u1, u2, h1

TwoNodes == {n1, n2}
OneFile == {f1}
TwoAttempts == {u1, u2}
OneHook == {h1}
Alike == Permutations(TwoNodes) \cup Permutations(TwoAttempts)

=============================================================================
