--------------------------- MODULE BucketLifecycle ---------------------------
(****************************************************************************)
(* What the operator promises those who keep data in a bucket: who holds it,  *)
(* whose subusers get at it, and that it is closed only for a user who asked  *)
(* for that.  BucketReconciler implements this (module BucketRefinement).     *)
(****************************************************************************)
CONSTANTS
    Buckets,  \* names of S3Buckets
    Owners,   \* names of S3UserClaims
    NoOwner   \* no claim

VARIABLES
    phase,    \* where each S3Bucket is in its life
    wish,     \* the deletion policies it has had since it was deleted
    holder,   \* the claim whose account has the bucket on RGW
    guests    \* the claims whose subusers its policy lets in

vars == <<phase, wish, holder, guests>>

AllWishes == {"delete", "retain"}

TypeOK ==
    /\ phase \in [Buckets -> {"absent", "live", "terminating", "released"}]
    /\ wish \in [Buckets -> SUBSET AllWishes]
    /\ holder \in [Buckets -> Owners \cup {NoOwner}]
    /\ guests \in [Buckets -> SUBSET Owners]

Init ==
    /\ phase = [b \in Buckets |-> "absent"]
    /\ wish = [b \in Buckets |-> {}]
    /\ holder = [b \in Buckets |-> NoOwner]
    /\ guests = [b \in Buckets |-> {}]

(* The bucket of an earlier S3Bucket of that name may still be there. *)
Create(b) ==
    /\ phase[b] \in {"absent", "released"}
    /\ phase' = [phase EXCEPT ![b] = "live"]
    /\ wish' = [wish EXCEPT ![b] = {}]
    /\ UNCHANGED <<holder, guests>>

(* Marked for deletion, or without the finalizer gone at once. *)
Delete(b) ==
    /\ phase[b] = "live"
    /\ \E p \in {"terminating", "absent"} : phase' = [phase EXCEPT ![b] = p]
    /\ \E w \in AllWishes : wish' = [wish EXCEPT ![b] = {w}]
    /\ UNCHANGED <<holder, guests>>

(* Users may still change their mind. *)
Ask(b) ==
    /\ phase[b] = "terminating"
    /\ \E w \in AllWishes : wish' = [wish EXCEPT ![b] = wish[b] \cup {w}]
    /\ UNCHANGED <<phase, holder, guests>>

(* The operator lets go of a bucket that is gone or was to be retained. *)
Release(b) ==
    /\ phase[b] = "terminating"
    /\ holder[b] = NoOwner \/ "retain" \in wish[b]
    /\ phase' = [phase EXCEPT ![b] = "released"]
    /\ UNCHANGED <<wish, holder, guests>>

(* Until it has let go it may act on an S3Bucket that is no longer there. *)
Open(b) ==
    /\ phase[b] # "released"
    /\ holder[b] = NoOwner
    /\ \E c \in Owners : holder' = [holder EXCEPT ![b] = c]
    /\ UNCHANGED <<phase, wish, guests>>

(* Nobody but subusers of the claim that holds the bucket is let in. *)
Share(b) ==
    /\ phase[b] # "released"
    /\ holder[b] # NoOwner
    /\ \E g \in SUBSET {holder[b]} : guests' = [guests EXCEPT ![b] = g]
    /\ UNCHANGED <<phase, wish, holder>>

Close(b) ==
    /\ phase[b] = "terminating" /\ "delete" \in wish[b]
    /\ holder' = [holder EXCEPT ![b] = NoOwner]
    /\ guests' = [guests EXCEPT ![b] = {}]
    /\ UNCHANGED <<phase, wish>>

(* The account of a claim goes, and its buckets with it. *)
Lose(c) ==
    /\ holder' = [b \in Buckets |-> IF holder[b] = c THEN NoOwner
                                                     ELSE holder[b]]
    /\ guests' = [b \in Buckets |-> IF holder[b] = c THEN {} ELSE guests[b]]
    /\ UNCHANGED <<phase, wish>>

Next == \/ \E b \in Buckets : \/ Create(b) \/ Delete(b) \/ Ask(b) \/ Release(b)
                              \/ Open(b) \/ Share(b) \/ Close(b)
        \/ \E c \in Owners : Lose(c)

Spec == Init /\ [][Next]_vars

(* At no time, not even while a bucket changes hands, does its policy let in *)
(* a subuser of a claim that does not hold it.                               *)
NoStrangers == \A b \in Buckets : guests[b] \subseteq {holder[b]}
=============================================================================
