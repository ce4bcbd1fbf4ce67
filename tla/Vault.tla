------------------------------- MODULE Vault --------------------------------
(***************************************************************************)
(* What the registry promises about the skills it offers (class Registry,  *)
(* README.md "Tools"): an agent offers a skill to an audience, revises it  *)
(* under any name it has not given to another, and withdraws it; whom a    *)
(* skill is for, and whose it is, never changes; and what nobody owns, the *)
(* seeds, is never withdrawn.  Module Registry implements this.            *)
(***************************************************************************)
EXTENDS Naturals

CONSTANTS
    Skill, Name,
    Audience,    \* whom a skill can be offered to
    Owner,       \* who can own one
    NoOwner,     \* the owner of a seed
    Nothing      \* the entry of a skill that is not offered

VARIABLE
    skill    \* skill[s].current is the released version, 0 if none is yet

Entry == [vis : Audience, owner : Owner \cup {NoOwner}, name : Name, current : Nat]

Offered(s) == skill[s] # Nothing

\* An owner gives a name to one skill only.
MayName(s, o, nm) ==
    o # NoOwner => \A t \in Skill \ {s} :
                      Offered(t) /\ skill[t].owner = o => skill[t].name # nm

\* Only the entry of s changes, to e.
Becomes(s, e) ==
    /\ e \in Entry
    /\ MayName(s, e.owner, e.name)
    /\ skill' = [skill EXCEPT ![s] = e]

Offer(s) ==
    /\ ~Offered(s)
    /\ Becomes(s, skill'[s])
    /\ skill'[s].owner = NoOwner => skill'[s].vis = "global"

Revise(s) ==
    /\ Offered(s) /\ skill[s].owner # NoOwner
    /\ Becomes(s, skill'[s])
    /\ skill'[s].vis = skill[s].vis /\ skill'[s].owner = skill[s].owner
    /\ skill'[s].current > skill[s].current

Withdraw(o, S) ==
    /\ \A s \in S : Offered(s) /\ skill[s].owner = o
    /\ skill' = [s \in Skill |-> IF s \in S THEN Nothing ELSE skill[s]]

VaultInit == skill = [s \in Skill |-> Nothing]

VaultNext ==
    \/ \E s \in Skill : Offer(s) \/ Revise(s)
    \/ \E o \in Owner, S \in SUBSET Skill : Withdraw(o, S)

VaultSpec == VaultInit /\ [][VaultNext]_skill

\* An owner never has two skills of one name, so that one of them can be asked for
\* by its name.
NamesDiffer ==
    \A s, t \in Skill :
        s # t /\ Offered(s) /\ Offered(t) /\ skill[s].owner = skill[t].owner
        /\ skill[s].owner # NoOwner => skill[s].name # skill[t].name
=============================================================================
