--------------------------- MODULE MCConnections ----------------------------
(* Instances of Connections for TLC. *)
EXTENDS Connections, TLC

CONSTANTS a1, u1

\* a1 belongs to a user, any other agent to nobody.
OneOwned == [a \in Agent |-> IF a = a1 THEN u1 ELSE NoUser]

Symmetric == Permutations(Skill) \cup Permutations(Name) \cup Permutations(File)
                \cup Permutations(Thread)
=============================================================================
