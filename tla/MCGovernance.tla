----------------------------- MODULE MCGovernance -----------------------------
(* Instances of Governance for TLC: changes of the voting set, of the team, and *)
(* of the trust list. *)
EXTENDS Governance

CONSTANTS a, b, c, d, u, v

Three == {a, b, c}
Four == {a, b, c, d}
Two == {u, v}
SomeRoles == {"lead", "dev"}

\* Valid sets, and one of each kind that must be refused.
SomeLists == {<<a, b, c>>, <<b, c, d>>, <<a>>, <<a, b>>, <<a, a, b>>, <<a, b, Blank>>,
              <<a, a, a>>}
Votings == {Reconfigure(list) : list \in SomeLists}
           \cup {NodeRole(b, [role |-> "non_voting", active |-> TRUE]),
                 NodeRole(d, [role |-> "voting", active |-> FALSE]), NodeRole(d, Voting)}
Teams == {Onboard(u, "lead", TRUE), Onboard(v, "dev", FALSE), RoleChange(u, "dev", FALSE),
          Offboard(u)}
Trusts == {Invite(b), Invite(d), Revoke(b), Revoke(a), Validate(Transition(TRUE)),
           Validate(Transition(FALSE))}
SomeFamilies == {Votings, Teams, Trusts}

=============================================================================
