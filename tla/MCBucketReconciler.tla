------------------------- MODULE MCBucketReconciler -------------------------
(* Small instances of BucketReconciler and BucketRefinement for TLC. *)
EXTENDS BucketRefinement

CONSTANTS b1, c1, c2, s1, s2

MCBuckets  == {b1}
MCOwners   == {c1, c2}
MCSubusers == {s1, s2}

Bind(s, a) == [name |-> s, access |-> a]

MCSpec(c, policy, bindings) ==
    [ref |-> c, policy |-> policy, bindings |-> bindings]

(* One subuser bound twice, and two subusers. *)
Twice == <<Bind(s1, "write"), Bind(s1, "read")>>
Two   == <<Bind(s1, "read"), Bind(s2, "write")>>

(* For one claim two specs that differ in everything else, for the other one. *)
MCSpecs ==
    [b \in MCBuckets |-> {MCSpec(c1, "delete", Twice),
                          MCSpec(c1, "retain", Two),
                          MCSpec(c2, "delete", <<>>)}]

(* Two specs that differ in the deletion policy only. *)
MCPolicySpecs ==
    [b \in MCBuckets |-> {MCSpec(c1, "delete", Twice),
                          MCSpec(c1, "retain", Twice)}]
=============================================================================
