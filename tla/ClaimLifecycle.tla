--------------------------- MODULE ClaimLifecycle ---------------------------
(****************************************************************************)
(* What the operator promises the owner of an S3UserClaim, and the S3Bucket  *)
(* controller that works with the keys of the claim: an account on RGW, and   *)
(* an admin Secret whose keys open it.  ClaimReconciler implements this       *)
(* (module ClaimRefinement).                                                 *)
(****************************************************************************)
CONSTANTS
    Claims,   \* names of S3UserClaims
    ByHand    \* may users remove finalizers by hand?

VARIABLES
    phase,    \* where each claim is in its life
    account,  \* has RGW an account for it?
    access    \* the keys in the Secret it names: none, old ones, those of
              \* its account

vars == <<phase, account, access>>

AllAccess == {"none", "stale", "ready"}

TypeOK ==
    /\ phase \in [Claims -> {"absent", "live", "terminating"}]
    /\ account \in [Claims -> BOOLEAN]
    /\ access \in [Claims -> AllAccess]

Init ==
    /\ phase = [c \in Claims |-> "absent"]
    /\ account = [c \in Claims |-> FALSE]
    /\ access = [c \in Claims |-> "none"]

(* A claim starts without keys; the account of an earlier claim of that name *)
(* may still be there.                                                      *)
Create(c) ==
    /\ phase[c] = "absent"
    /\ phase' = [phase EXCEPT ![c] = "live"]
    /\ UNCHANGED <<account, access>>

(* The claim names another Secret.  None that belongs to a live claim has    *)
(* keys that do not work.                                                   *)
Rename(c) ==
    /\ phase[c] # "absent"
    /\ access' \in {[access EXCEPT ![c] = a] : a \in AllAccess}
    /\ phase[c] = "live" => access'[c] # "stale"
    /\ access'[c] = "ready" => account[c]
    /\ UNCHANGED <<phase, account>>

(* Marked for deletion. *)
Terminate(c) ==
    /\ phase[c] = "live"
    /\ phase' = [phase EXCEPT ![c] = "terminating"]
    /\ UNCHANGED <<account, access>>

(* Gone: without the finalizer at once, with it when the operator lets go,   *)
(* which it does only when the account is gone.                             *)
Leave(c) ==
    /\ phase[c] # "absent"
    /\ phase[c] = "terminating" => ~ account[c] \/ ByHand
    /\ phase' = [phase EXCEPT ![c] = "absent"]
    /\ access' = [access EXCEPT ![c] = "none"]
    /\ UNCHANGED account

(* The operator may act on a claim that is no longer there. *)
Open(c) ==
    /\ ~ account[c]
    /\ account' = [account EXCEPT ![c] = TRUE]
    /\ UNCHANGED <<phase, access>>

Grant(c) ==
    /\ phase[c] # "absent" /\ account[c]
    /\ access' = [access EXCEPT ![c] = "ready"]
    /\ UNCHANGED <<phase, account>>

(* The keys of a live claim never stop working. *)
Purge(c) ==
    /\ account[c]
    /\ ~ (phase[c] = "live" /\ access[c] = "ready")
    /\ account' = [account EXCEPT ![c] = FALSE]
    /\ access' = [access EXCEPT ![c] = IF access[c] = "ready"
                                         THEN "stale" ELSE access[c]]
    /\ UNCHANGED phase

Next == \E c \in Claims : \/ Create(c) \/ Rename(c) \/ Terminate(c) \/ Leave(c)
                          \/ Open(c) \/ Grant(c) \/ Purge(c)

Spec == Init /\ [][Next]_vars

(* Whoever looks up a live claim and then the Secret it names finds no keys, *)
(* or keys that RGW accepts: a Secret left by an earlier claim of the name,  *)
(* or by an account that was purged and opened again, is never taken for one *)
(* of this claim.                                                           *)
KeysWork ==
    \A c \in Claims :
        phase[c] = "live" => /\ access[c] # "stale"
                             /\ access[c] = "ready" => account[c]

(* With what it takes to prove it. *)
KeysWorkInv == /\ TypeOK /\ KeysWork
               /\ \A c \in Claims : phase[c] = "absent" => access[c] = "none"
=============================================================================
