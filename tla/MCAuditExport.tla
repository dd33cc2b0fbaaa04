----------------------------- MODULE MCAuditExport ----------------------------
(* Instances of AuditExport for TLC. *)
EXTENDS AuditExport

CONSTANTS a, b, c, e1, e2

Three == {a, b, c}
Pair == {e1, e2}
AtAB == [x \in Exports |-> IF x = e1 THEN a ELSE b]
Small == 0 .. 4

=============================================================================
