-------------------------- MODULE MCClaimReconciler --------------------------
(* Small instances of ClaimReconciler for TLC. *)
EXTENDS ClaimRefinement, TLC

CONSTANTS c1, c2, s1

MCOneClaim  == {c1}
MCTwoClaims == {c1, c2}
MCSubusers  == {s1}

(* Claims differ in their names only. *)
MCSymmetry == Permutations(Claims)

(* Names as the users and the code choose them: no two the same. *)
MCSecretNames ==
    Claims \X ({Admin, Readonly} \cup Subusers \cup {"ro", "renamed"})
MCSubuserSecret == [c \in Claims |-> [s \in Users |-> <<c, s>>]]

MCSpec(c, q, subusers) ==
    [quota |-> q, subusers |-> subusers, admin |-> <<c, Admin>>,
     readonly |-> <<c, "ro">>]

(* Two specs that differ in the quota and in the subusers. *)
MCSubuserSpecs ==
    [c \in Claims |-> {MCSpec(c, 1, Subusers), MCSpec(c, 2, {})}]

(* Two specs that differ in the quota and in the admin Secret. *)
MCRenamedSpecs ==
    [c \in Claims |->
        {MCSpec(c, 1, {}),
         [MCSpec(c, 2, {}) EXCEPT !.admin = <<c, "renamed">>]}]

(* Two specs that differ in the quota only. *)
MCQuotaSpecs == [c \in Claims |-> {MCSpec(c, 1, {}), MCSpec(c, 2, {})}]
=============================================================================
