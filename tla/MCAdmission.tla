------------------------------ MODULE MCAdmission ------------------------------
(* Small instances of Admission for TLC. *)
EXTENDS Admission, TLC

CONSTANTS n1, n2, b1, team

MCNamespaces == {n1, n2}

(* Two claims in one namespace, and one of the same name in another. *)
MCClaims == {<<n1, "a">>, <<n1, "b">>, <<n2, "a">>}
MCTwoClaims == {<<n1, "a">>, <<n2, "a">>}

MCTeamOf == [n \in Namespaces |-> team]
MCNamespaceLimit == [n \in Namespaces |-> IF n = n1 THEN 2 ELSE NoLimit]
MCTeamLimit == [t \in {team} |-> 3]
MCQuotas == 1 .. 3
=============================================================================
