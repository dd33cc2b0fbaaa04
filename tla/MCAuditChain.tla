----------------------------- MODULE MCAuditChain -----------------------------
(* Instances of AuditChain for TLC: a body, the same with a blank after it, and *)
(* one that is no UTF-8, of which reading makes the first.                      *)
EXTENDS AuditChain

Both == {"server", "command"}
SomeBodies == {"text", "text ", "raw"}
SomeText == [b \in SomeBodies |-> IF b = "raw" THEN "raw" ELSE "text"]
SomeDecode == [b \in SomeBodies |-> IF b = "raw" THEN "text" ELSE b]

\* Once the file is damaged and another process or a torn write has disturbed it,
\* the properties say nothing more.
Telling == damage = "none" \/ Undisturbed

=============================================================================
