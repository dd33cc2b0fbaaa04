------------------------------ MODULE MCTracker ------------------------------
(* Instances of Tracker for TLC. *)
EXTENDS Tracker, TLC

CONSTANTS i1, i2, dev, lead

TwoNodes == {1, 2}
OneIssue == {i1}
TwoIssues == {i1, i2}
TheLead == {lead}
Staff == {dev, lead}
SecondAhead == [n \in Nodes |-> IF n = 2 THEN 1 ELSE 0]
SecondSetBack == [n \in Nodes |-> IF n = 2 THEN {-1} ELSE {}]
End == {"done"}

\* Both nodes are asked to create the same issue; the second one is asked for more.
Uneven == (1 :> {<<"create", i1>>})
          @@ (2 :> {<<"create", i1>>, <<"transition", i1>>, <<"comment", i2>>})
Archiving == (1 :> {<<"archive", i1>>}) @@ (2 :> {<<"create", i2>>, <<"unarchive", i1>>})
UnevenOrArchiving == {Uneven, Archiving}
Creates == {[n \in Nodes |-> {<<"create", i1>>}]}

\* A new project, and one with two tasks of the lead.
TaskOfLead(issue, seq) ==
  [signer |-> 1, seq |-> seq, time |-> 0, issue |-> issue, type |-> "create", arg |-> lead]
Fresh == {<<>>}
FreshOrTasked == {<<>>, <<TaskOfLead(i1, 1), TaskOfLead(i2, 2)>>}

=============================================================================
