------------------------------ MODULE MCLogin ------------------------------
(* Small instances of LoginSystem. *)
EXTENDS LoginSystem, TLC

CONSTANTS n1, n2, s1, s2, c1, c2, g1, g2

\* One node with two GameServices, as in bin/config/dev/cluster/cluster.json.
OneNode  == {<<n1, s1>>, <<n1, s2>>}
OneGS    == {<<n1, s1>>}

\* Two gates with a client each, or one gate.
TwoGates == [c \in Clients |-> IF c = c1 THEN g1 ELSE g2]
OneGate  == [c \in Clients |-> g1]

\* Bound: both clients log in on one GameService, or one client on both.
UsedClients == {c \in Clients : \/ conn[c] # "open"
                                \/ \E r \in Logins : loginReq[r] # NoLogin /\ loginReq[r].client = c}
OneOfEither == Cardinality(UsedClients) <= 1 \/ Cardinality(listed) <= 1

\* Exchanging both clients together with their gates, the logins, and the
\* GameServices of the node.
LoginSymmetry ==
    {p @@ q @@ s : p \in {c1 :> c1 @@ c2 :> c2 @@ g1 :> g1 @@ g2 :> g2,
                          c1 :> c2 @@ c2 :> c1 @@ g1 :> g2 @@ g2 :> g1},
                   q \in Permutations(Logins), s \in Permutations(GSNames)}
=============================================================================
