------------------------------ MODULE MCCenter ------------------------------
(* Small instances of Center. *)
EXTENDS Center, TLC

CONSTANTS n1, n2, s1, s2

\* The shape of bin/config/dev/cluster/cluster.json, where a node runs GS1 and GS2.
TwoNodes == {<<n1, s1>>, <<n1, s2>>, <<n2, s1>>}
OneNode  == {<<n1, s1>>, <<n1, s2>>}

\* Priorities drift without limit (see README.md), so runs cut them off.
MaxDrift == 1
PriorityBound ==
    \A g \in GameServices :
        Registered(g) => mapBalance[g].priority \in -MaxDrift..MaxDrift

UserSymmetry == Permutations(Users)
=============================================================================
