----------------------------- MODULE MCRegistry -----------------------------
(* Instances of Registry for TLC. *)
EXTENDS Registry, TLC

CONSTANTS a1, a2, a3, u1, u2

\* a1 and a2 belong to one user, a3 to another, any other agent to nobody.
TwoUsers ==
    [a \in Agent |-> IF a \in {a1, a2} THEN u1 ELSE IF a = a3 THEN u2 ELSE NoUser]

\* Skills, names and files are interchangeable: nothing but equality is used.
Symmetric == Permutations(Skill) \cup Permutations(Name) \cup Permutations(File)
=============================================================================
