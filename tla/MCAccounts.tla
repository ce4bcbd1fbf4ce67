----------------------------- MODULE MCAccounts -----------------------------
EXTENDS Accounts, TLC

CONSTANTS p1, p2, a1, a2, k1, k2, k3, admin, u1

SameName == [a \in Agent |-> "agent"]
OfOneUser == [a \in Agent |-> u1]
Symmetric == Permutations(Proc) \cup Permutations(Agent) \cup Permutations(Key)
=============================================================================
