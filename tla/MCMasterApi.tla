------------------------------ MODULE MCMasterApi -----------------------------
(* Instances of MasterApi for TLC: a node with low limits and clients that send *)
(* too much, one whose admin changes tokens, one whose clients repeat requests. *)
EXTENDS MasterApi, TLC

CONSTANTS s1, s2, t1, root, guest

Alike == Permutations({s1, s2})
TwoSlots == {s1, s2}
OneToken == {t1}
Both == {root, guest}
TwoUsers == {"ann", "bob"}
SomeRoles == {"admin", "dev", "viewer"}
TwoAddresses == {"near", "far"}
UsersAndAddresses == TwoUsers \cup TwoAddresses
SomeKeys == {"ann", "near"} \X {"r1", "r2", "r3"}
BothTiers == {"sensitive", "default"}

Admin == [user |-> "ann", role |-> "admin", active |-> TRUE]
Dev == [user |-> "bob", role |-> "dev", active |-> TRUE]
SomeConfigs == {[t \in Both |-> IF t = root THEN Admin ELSE Dev],
                [t \in Both |-> IF t = root THEN Admin ELSE NotNamed]}

Limits(sensitive, default) == [tier \in BothTiers |->
                                 IF tier = "sensitive" THEN sensitive ELSE default]

Busy2 == [limit |-> Limits(1, 1), requests |-> 5, faults |-> 0,
          asks |-> {Ask(root, "near", "default", NoId, Work),
                    Ask(root, "near", "sensitive", NoId, Work),
                    Ask(guest, "near", "default", NoId, Work)}
                   \cup {Ask(NoToken, from, "default", NoId, Work) : from \in TwoAddresses}]
Administered == [limit |-> Limits(9, 9), requests |-> 3, faults |-> 2,
                 asks |-> {Ask(root, "near", "default", NoId, op) :
                             op \in {IssueFor("bob", NoRole, 1), RevokeOf(t1), RevokeOf(guest),
                                     BindTo("bob", "admin")}}
                          \cup {Ask(t1, "near", "default", NoId, RevokeOf(root))}]
Repeating == [limit |-> Limits(9, 9), requests |-> 4, faults |-> 1,
              asks |-> {Ask(root, "near", "default", id, Work) : id \in {"r1", "r2", "r3"}}]
SomeProfiles == {Busy2, Administered, Repeating}

=============================================================================
