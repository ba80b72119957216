------------------------------ MODULE MCMemory ------------------------------
(* Small instances of the memory store and the machines that cache it.     *)
EXTENDS MemoryProps

\* One person with two machines, and the admin who wrote the team standard.
UserOfMC == [s1 |-> "person", s2 |-> "admin"]
UserOfBoth == [s1 |-> "person", s2 |-> "person"]
OwnerRules == [r1 |-> "person", r2 |-> "person", t1 |-> "admin"]
KindRules == [r1 |-> "iron_rule", r2 |-> "iron_rule", t1 |-> "team_standard"]
OwnerMixed == [r1 |-> "person", p1 |-> "person"]
KindMixed == [r1 |-> "iron_rule", p1 |-> "project"]
AccountOfMC == [m1 |-> "person"]
OwnerOne == [r1 |-> "person"]
KindOne == [r1 |-> "project"]
=============================================================================
