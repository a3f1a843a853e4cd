--------------------------- MODULE ClaimRefinement ---------------------------
(****************************************************************************)
(* The S3UserClaim controller implements ClaimLifecycle: whatever the        *)
(* interleaving, failures and crashes, all that its steps do to a claim, its  *)
(* account and its keys are steps of that specification.                     *)
(****************************************************************************)
EXTENDS ClaimReconciler

AdminNames(c) == {s.admin : s \in SpecsOf[c]}

(* The names of the Secrets of claim c that hold keys of subusers. *)
OtherNames(c) == {s.readonly : s \in SpecsOf[c]}
                 \cup {SubuserSecret[c][u] : u \in Users \ {Admin}}

(* No two claims, and no two kinds of keys, share a Secret. *)
ASSUME SecretsDistinct ==
    /\ \A c \in Claims : AdminNames(c) \cap OtherNames(c) = {}
    /\ \A c, d \in Claims : c # d =>
         AdminNames(c) \cap (AdminNames(d) \cup OtherNames(d)) = {}

Phase == [c \in Claims |-> claim[c].state]

Account == [c \in Claims |-> ceph[c].exists]

(* Secret n belongs to claim c as it is now, not to an earlier one. *)
Belongs(n, c) == /\ n \in SecretNames /\ secret[n].exists
                 /\ secret[n].owner = c /\ secret[n].uid = claim[c].uid

(* What one finds who looks up the claim and then its admin Secret, as the   *)
(* S3Bucket controller does (setS3Agent).                                    *)
Access(c) ==
    LET n == claim[c].spec.admin
    IN IF claim[c].state = "absent" \/ ~ Belongs(n, c) THEN "none"
       ELSE IF ceph[c].exists /\ secret[n].key = ceph[c].keys[Admin]
         THEN "ready" ELSE "stale"

Accesses == [c \in Claims |-> Access(c)]

Lifecycle == INSTANCE ClaimLifecycle
    WITH phase <- Phase, account <- Account, access <- Accesses,
         ByHand <- MaxStrips > 0

(* Each step of the controller and its surroundings is a step of the         *)
(* lifecycle of one claim, or changes nothing its owner can see.             *)
ImplementsLifecycle == Lifecycle!Spec

(* What follows for a claim: a live one never names a Secret of its own      *)
(* whose keys RGW refuses (ensureSecrets, removeCephUser).                   *)
KeysWork == Lifecycle!KeysWork

-----------------------------------------------------------------------------
(* The inductive invariant the refinement rests on. *)

(* RGW has generated every key there is. *)
GeneratedInv ==
    /\ \A c \in Claims, u \in Users : ceph[c].keys[u] <= nextKey
    /\ \A u \in Users : cephUser[u] <= nextKey
    /\ \A n \in SecretNames : secret[n].key <= nextKey

(* A Secret is of no later claim than the cached one and the one being       *)
(* reconciled.                                                              *)
OwnerInv ==
    \A c \in Claims, n \in SecretNames :
        secret[n].exists /\ secret[n].owner = c =>
            /\ secret[n].uid <= cache[c].uid
            /\ pc # "idle" /\ cur = c => secret[n].uid <= obj.uid

(* The keys that are about to be written are those of an account that was    *)
(* provisioned for the claim being reconciled.                              *)
RetrievedInv ==
    /\ pc \in {"cephQuota", "subuserAccess", "subusers", "subuserSecret",
               "retrieve", "adminSecret"} =>
         ceph[cur].exists /\ ceph[cur].for = obj.uid
    /\ pc = "adminSecret" => cephUser[Admin] = ceph[cur].keys[Admin]
    /\ pc = "subuserSecret" => sub # Admin
    /\ pc = "otherSecrets" => Admin \notin todo

(* The keys in a Secret of a live claim open its account. *)
WorkingInv ==
    \A c \in Claims, n \in SecretNames :
        n \in AdminNames(c) /\ claim[c].state = "live" /\ Belongs(n, c) =>
            /\ ceph[c].exists /\ ceph[c].for = claim[c].uid
            /\ secret[n].key = ceph[c].keys[Admin]

KeysInv == /\ SpecsInv /\ GeneratedInv /\ OwnerInv /\ RetrievedInv
           /\ WorkingInv
=============================================================================
