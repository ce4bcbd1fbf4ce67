----------------------------- MODULE MCRanking ------------------------------
EXTENDS Ranking

Versions == {<<"s1", 1>>, <<"s1", 2>>, <<"s2", 1>>, <<"s3", 1>>}
FirstOnes == {<<"s1", 1>>, <<"s2", 1>>, <<"s3", 1>>}
SecondSkill == {<<"s2", 1>>}
Standings == [s1 |-> "global", s2 |-> "global", s3 |-> "own"]
ByName == [s1 |-> 1, s2 |-> 2, s3 |-> 3]

\* Every order of the four combined scores there are, and all versions alike
EveryOrder ==
    {n \in [meta : [Versions -> {0, 1}], body : [Versions -> {0, 1}]] :
        LET Alike(v, w) == n.meta[v] = n.meta[w] /\ n.body[v] = n.body[w] IN
        \/ \A v, w \in Versions : v # w => ~Alike(v, w)
        \/ \A v, w \in Versions : Alike(v, w)}
=============================================================================
