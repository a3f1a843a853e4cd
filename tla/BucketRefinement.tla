-------------------------- MODULE BucketRefinement --------------------------
(****************************************************************************)
(* The S3Bucket controller implements BucketLifecycle: whatever copies of an  *)
(* S3Bucket it acts on, whatever fails or crashes, all that its steps do to   *)
(* an S3Bucket and its bucket are steps of that specification.                *)
(****************************************************************************)
EXTENDS BucketReconciler

Phase == [b \in Buckets |-> IF released[b] THEN "released"
                                           ELSE bucket[b].state]

Holder == [b \in Buckets |-> IF rgw[b].exists THEN rgw[b].owner ELSE NoOwner]

(* The claims whose subusers a policy names. *)
Named(policy) ==
    {c \in Owners : \E st \in policy, s \in Subusers : <<c, s>> \in st.principals}

Guests == [b \in Buckets |-> IF rgw[b].exists THEN Named(rgw[b].policy) ELSE {}]

Lifecycle == INSTANCE BucketLifecycle
    WITH phase <- Phase, wish <- asked, holder <- Holder, guests <- Guests

(* Each step of the controller and its surroundings is a step of the         *)
(* lifecycle of one bucket, or the loss of an account, or changes nothing     *)
(* that users of buckets can see.                                            *)
ImplementsLifecycle == Lifecycle!Spec

(* What follows: at no time, settled or not, does a policy let in a subuser  *)
(* of a claim that does not own the bucket (SetBucketPolicy, CreateBucket).   *)
NoStrangers == Lifecycle!NoStrangers

(* What exists on RGW belongs to the account of a claim. *)
OwnedInv == \A b \in Buckets : rgw[b].exists => rgw[b].owner \in Owners
=============================================================================
