--------------------------- MODULE ClaimReconciler ---------------------------
(****************************************************************************)
(* The S3UserClaim controller of the Ceph S3 operator                       *)
(* (internal/controllers/s3userclaim) together with what it talks to: the   *)
(* Kubernetes API server (claims, S3Users, Secrets, one ResourceQuota), the  *)
(* informer cache and the work queue of controller-runtime, and the RADOS   *)
(* gateway (RGW) that holds the Ceph users.                                  *)
(*                                                                          *)
(* One worker reconciles one claim at a time.  Every sub-reconciler of       *)
(* Provision and Cleanup is an action, so that the users' requests, the      *)
(* delivery of watch events, a failing call and a crash may fall between any *)
(* two of them.                                                             *)
(****************************************************************************)
EXTENDS Integers, Sequences, FiniteSets, Functions

CONSTANTS
    Claims,          \* names of S3UserClaims, all in one namespace
    Subusers,        \* names a claim may list in spec.subusers
    Admin,           \* the Ceph user itself, as the holder of a key
    Readonly,        \* the subuser the operator adds to every Ceph user
    SecretNames,     \* names of Secrets in the namespace
    SubuserSecret,   \* SubuserSecret[c][s]: the name the code derives for s
    SpecsOf,         \* SpecsOf[c]: the specs a user may give to claim c
    NoKey,           \* no claim, no subuser
    NoSecret,        \* no Secret name
    Webhooks,        \* are the validating webhooks enabled (ENABLE_WEBHOOKS)?
    LaggingQuotaCache, \* may the cached ResourceQuota lag behind?
    MaxCreates,      \* bound: creations of a claim of the same name
    MaxEdits,        \* bound: spec edits by users
    MaxDeletes,      \* bound: deletions by users
    MaxStrips,       \* bound: removals of the finalizer by users
    MaxFails,        \* bound: calls that fail
    MaxCrashes       \* bound: crashes of the operator

Users == Subusers \cup {Admin, Readonly}

SpecRec == [quota : Nat, subusers : SUBSET Subusers,
            admin : SecretNames \cup {NoSecret},
            readonly : SecretNames \cup {NoSecret}]

ASSUME NamesAssumption ==
    /\ NoKey \notin Claims /\ NoKey \notin Users
    /\ Admin \notin Subusers /\ Admin # Readonly
    /\ SubuserSecret \in [Claims -> [Users -> SecretNames]]

ASSUME ClaimsAssumption == IsFiniteSet(Claims)

(* Both names are required fields of a spec. *)
ASSUME SpecsAssumption ==
    SpecsOf \in [Claims -> SUBSET {s \in SpecRec :
                                    {s.admin, s.readonly} \subseteq SecretNames}]

ASSUME FlagsAssumption ==
    /\ Webhooks \in BOOLEAN
    /\ LaggingQuotaCache \in BOOLEAN

ASSUME BoundsAssumption ==
    /\ MaxCreates \in Nat /\ MaxEdits \in Nat /\ MaxDeletes \in Nat
    /\ MaxStrips \in Nat /\ MaxFails \in Nat /\ MaxCrashes \in Nat

VARIABLES
    (* The API server and RGW. *)
    claim,       \* the S3UserClaim objects
    s3user,      \* the S3User object of each claim
    secret,      \* the Secrets of the namespace
    used,        \* the S3 usage in the ResourceQuota's status
    ceph,        \* the Ceph user of each claim
    nextKey,     \* number of keys RGW has generated
    (* The operator process. *)
    up,          \* is the operator running?
    cache,       \* the informer's copy of each claim
    watch,       \* versions of each claim still on their way to the cache
    cachedUsed,  \* the informer's copy of used
    queue,       \* the work queue
    (* The reconcile in progress: the per-request fields of Reconciler. *)
    pc,          \* the next sub-reconciler to run
    cur,         \* the request
    obj,         \* r.s3UserClaim
    cephUser,    \* the keys of r.cephUser
    todo,        \* what is left of the loop being run
    sub,         \* the subuser whose Secret is to be deleted
    sum,         \* r.namespaceUsedQuota
    (* Counters for the bounds. *)
    spent

apiVars   == <<claim, s3user, secret, used>>
rgwVars   == <<ceph, nextKey>>
infVars   == <<cache, watch, cachedUsed>>
reqVars   == <<cur, obj>>
localVars == <<cephUser, todo, sub, sum>>
vars == <<claim, s3user, secret, used, ceph, nextKey, up, cache, watch,
          cachedUsed, queue, pc, cur, obj, cephUser, todo, sub, sum, spent>>

-----------------------------------------------------------------------------
(* The objects. *)

StatusRec == [named : BOOLEAN, quota : Nat, subusers : SUBSET Subusers]

(* uid tells apart the objects that have had this name, rv is the resource  *)
(* version, fin says whether the cleanup finalizer is set.                  *)
ClaimRec == [state : {"absent", "live", "terminating"}, uid : Nat, rv : Nat,
             spec : SpecRec, status : StatusRec, fin : BOOLEAN]

S3UserRec == [exists : BOOLEAN, uid : Nat, rv : Nat, quota : Nat]

SecretRec == [exists : BOOLEAN, key : Nat, owner : Claims \cup {NoKey},
              uid : Nat]

(* for is a ghost: the uid of the claim the account was last provisioned    *)
(* for.  A key is a number RGW has not given before, 0 when there is none.  *)
CephRec == [exists : BOOLEAN, for : Nat, maxBuckets : Nat, quota : Nat,
            subusers : SUBSET Users, keys : [Users -> Nat]]

NoSpec   == [quota |-> 0, subusers |-> {}, admin |-> NoSecret,
             readonly |-> NoSecret]
NoStatus == [named |-> FALSE, quota |-> 0, subusers |-> {}]
NoObject == [state |-> "absent", uid |-> 0, rv |-> 0, spec |-> NoSpec,
             status |-> NoStatus, fin |-> FALSE]
NoS3User == [exists |-> FALSE, uid |-> 0, rv |-> 0, quota |-> 0]
NoData   == [exists |-> FALSE, key |-> 0, owner |-> NoKey, uid |-> 0]
NoKeys   == [u \in Users |-> 0]
NoUser   == [exists |-> FALSE, for |-> 0, maxBuckets |-> 0, quota |-> 0,
             subusers |-> {}, keys |-> NoKeys]

ProvisionSteps == {"cephUser", "cephQuota", "subuserAccess", "subusers",
                   "subuserSecret", "retrieve", "adminSecret",
                   "readonlySecret", "otherSecrets", "s3User", "status",
                   "addFinalizer"}
CleanupSteps == {"removeCephUser", "removeS3User", "removeFinalizer"}
QuotaSteps == {"sumUsed", "writeUsed"}

Counters == [edits : Nat, deletes : Nat, strips : Nat, fails : Nat, crashes : Nat]

TypeOK ==
    /\ claim \in [Claims -> ClaimRec]
    /\ s3user \in [Claims -> S3UserRec]
    /\ secret \in [SecretNames -> SecretRec]
    /\ used \in Nat
    /\ ceph \in [Claims -> CephRec]
    /\ nextKey \in Nat
    /\ up \in BOOLEAN
    /\ cache \in [Claims -> ClaimRec]
    /\ watch \in [Claims -> Seq(ClaimRec)]
    /\ cachedUsed \in Nat
    /\ queue \subseteq Claims
    /\ pc \in {"idle"} \cup ProvisionSteps \cup CleanupSteps \cup QuotaSteps
    /\ cur \in Claims \cup {NoKey}
    /\ obj \in ClaimRec
    /\ cephUser \in [Users -> Nat]
    /\ todo \subseteq Users
    /\ sub \in Users \cup {NoKey}
    /\ sum \in Nat
    /\ spent \in Counters

Init ==
    /\ claim = [c \in Claims |-> NoObject]
    /\ s3user = [c \in Claims |-> NoS3User]
    /\ secret = [n \in SecretNames |-> NoData]
    /\ used = 0
    /\ ceph = [c \in Claims |-> NoUser]
    /\ nextKey = 0
    /\ up = TRUE
    /\ cache = [c \in Claims |-> NoObject]
    /\ watch = [c \in Claims |-> <<>>]
    /\ cachedUsed = 0
    /\ queue = {}
    /\ pc = "idle"
    /\ cur = NoKey
    /\ obj = NoObject
    /\ cephUser = NoKeys
    /\ todo = {}
    /\ sub = NoKey
    /\ sum = 0
    /\ spent = [edits |-> 0, deletes |-> 0, strips |-> 0, fails |-> 0,
                crashes |-> 0]

-----------------------------------------------------------------------------
(* Writes to a claim, and the watch that reports them. *)

NewVersion(c, r) == [r EXCEPT !.rv = claim[c].rv + 1]

(* The API server stores r as the new version of claim c and, while the     *)
(* operator runs, sends it to the operator's informer.                      *)
StoreClaim(c, r) ==
    /\ claim' = [claim EXCEPT ![c] = NewVersion(c, r)]
    /\ watch' = IF up THEN [watch EXCEPT ![c] = Append(@, NewVersion(c, r))]
                      ELSE watch

Gone(c) == [NoObject EXCEPT !.uid = claim[c].uid]

(* An update carries the uid and the resource version it was read with and  *)
(* is refused when either is out of date.                                   *)
UpToDate == /\ claim[cur].state # "absent"
            /\ claim[cur].uid = obj.uid
            /\ claim[cur].rv = obj.rv

-----------------------------------------------------------------------------
(* What users do to claims.                                                 *)

(* With webhooks (failurePolicy fail) a request needs a running operator.   *)
Admitted == Webhooks => up

(* validateSecrets: the named Secrets must not exist yet. *)
SecretsFree(names) == Webhooks => \A n \in names : ~ secret[n].exists

CreateClaim(c) ==
    /\ Admitted
    /\ claim[c].state = "absent"
    /\ claim[c].uid < MaxCreates
    /\ \E s \in SpecsOf[c] :
        /\ SecretsFree({s.admin, s.readonly})
        /\ StoreClaim(c, [state |-> "live", uid |-> claim[c].uid + 1,
                          rv |-> 0, spec |-> s, status |-> NoStatus,
                          fin |-> FALSE])
    /\ UNCHANGED <<s3user, secret, used, rgwVars, up, cache, cachedUsed,
                   queue, pc, reqVars, localVars, spent>>

EditClaim(c) ==
    /\ Admitted
    /\ claim[c].state # "absent"
    /\ spent.edits < MaxEdits
    /\ \E s \in SpecsOf[c] \ {claim[c].spec} :
        /\ SecretsFree({s.admin} \ {claim[c].spec.admin})
        /\ SecretsFree({s.readonly} \ {claim[c].spec.readonly})
        /\ StoreClaim(c, [claim[c] EXCEPT !.spec = s])
    /\ spent' = [spent EXCEPT !.edits = @ + 1]
    /\ UNCHANGED <<s3user, secret, used, rgwVars, up, cache, cachedUsed,
                   queue, pc, reqVars, localVars>>

(* The object stays, marked for deletion, while the finalizer is set. *)
DeleteClaim(c) ==
    /\ Admitted
    /\ claim[c].state = "live"
    /\ spent.deletes < MaxDeletes
    /\ StoreClaim(c, IF claim[c].fin
                       THEN [claim[c] EXCEPT !.state = "terminating"]
                       ELSE Gone(c))
    /\ spent' = [spent EXCEPT !.deletes = @ + 1]
    /\ UNCHANGED <<s3user, secret, used, rgwVars, up, cache, cachedUsed,
                   queue, pc, reqVars, localVars>>

(* A user removes the finalizer by hand. *)
StripFinalizer(c) ==
    /\ Admitted
    /\ claim[c].fin
    /\ spent.strips < MaxStrips
    /\ StoreClaim(c, IF claim[c].state = "terminating"
                       THEN Gone(c)
                       ELSE [claim[c] EXCEPT !.fin = FALSE])
    /\ spent' = [spent EXCEPT !.strips = @ + 1]
    /\ UNCHANGED <<s3user, secret, used, rgwVars, up, cache, cachedUsed,
                   queue, pc, reqVars, localVars>>

-----------------------------------------------------------------------------
(* What happens around the worker: watch events, the garbage collector,     *)
(* failing calls, crashes.                                                  *)

(* The informer receives the next version of a claim and enqueues it. *)
Deliver(c) ==
    /\ up
    /\ watch[c] # <<>>
    /\ cache' = [cache EXCEPT ![c] = Head(watch[c])]
    /\ watch' = [watch EXCEPT ![c] = Tail(@)]
    /\ queue' = queue \cup {c}
    /\ UNCHANGED <<apiVars, claim, rgwVars, up, cachedUsed, pc, reqVars,
                   localVars, spent>>

(* No controller watches ResourceQuotas: their new version only refreshes   *)
(* the cache.                                                               *)
DeliverQuota ==
    /\ up
    /\ cachedUsed # used
    /\ cachedUsed' = used
    /\ UNCHANGED <<apiVars, rgwVars, up, cache, watch, queue, pc, reqVars,
                   localVars, spent>>

(* The requests the events of these Secrets lead to: their owners. *)
Owners(data) == {d.owner : d \in data} \ {NoKey}

(* Kubernetes deletes a Secret whose owner no longer exists under that uid. *)
Garbage(n) ==
    /\ secret[n].exists /\ secret[n].owner # NoKey
    /\ LET c == secret[n].owner
       IN claim[c].state = "absent" \/ claim[c].uid # secret[n].uid

CollectSecret(n) ==
    /\ Garbage(n)
    /\ secret' = [secret EXCEPT ![n] = NoData]
    /\ queue' = IF up THEN queue \cup Owners({secret[n]}) ELSE queue
    /\ UNCHANGED <<claim, s3user, used, rgwVars, up, infVars, pc, reqVars,
                   localVars, spent>>

(* The reconcile ends. *)
EndReconcile ==
    /\ pc' = "idle" /\ cur' = NoKey /\ obj' = NoObject
    /\ cephUser' = NoKeys /\ todo' = {} /\ sub' = NoKey /\ sum' = 0

(* subreconciler.Requeue(): the request goes back to the queue. *)
Requeue ==
    /\ queue' = queue \cup {cur}
    /\ EndReconcile

(* The call a sub-reconciler makes fails without effect.  A call that took  *)
(* effect and whose answer was lost is the effect followed by this step.    *)
Fail ==
    /\ pc # "idle"
    /\ spent.fails < MaxFails
    /\ Requeue
    /\ spent' = [spent EXCEPT !.fails = @ + 1]
    /\ UNCHANGED <<apiVars, rgwVars, up, infVars>>

Crash ==
    /\ up
    /\ spent.crashes < MaxCrashes
    /\ up' = FALSE
    /\ queue' = {}
    /\ watch' = [c \in Claims |-> <<>>]
    /\ EndReconcile
    /\ spent' = [spent EXCEPT !.crashes = @ + 1]
    /\ UNCHANGED <<apiVars, rgwVars, cache, cachedUsed>>

(* Mutant: the S3Users are not watched. *)
RestartMutant ==
    /\ ~ up
    /\ up' = TRUE
    /\ cache' = claim
    /\ cachedUsed' = used
    /\ queue' = {c \in Claims : claim[c].state # "absent"}
                \cup Owners({secret[n] : n \in SecretNames})
    /\ UNCHANGED <<apiVars, rgwVars, watch, pc, reqVars, localVars, spent>>

(* The caches are filled anew, and each object listed leads to a request:   *)
(* a claim for itself, an S3User for its claimRef, a Secret for its owner.  *)
Restart ==
    /\ ~ up
    /\ up' = TRUE
    /\ cache' = claim
    /\ cachedUsed' = used
    /\ queue' = {c \in Claims : claim[c].state # "absent"}
                \cup {c \in Claims : s3user[c].exists}
                \cup Owners({secret[n] : n \in SecretNames})
    /\ UNCHANGED <<apiVars, rgwVars, watch, pc, reqVars, localVars, spent>>

-----------------------------------------------------------------------------
(* Reconcile. *)

Goto(next) == pc' = next

(* Mutant: nothing is done for a claim that is not found. *)
ReconcileMutant(c) ==
    /\ pc = "idle"
    /\ c \in queue
    /\ queue' = queue \ {c}
    /\ IF cache[c].state = "absent"
         THEN UNCHANGED <<pc, cur, obj>>
         ELSE /\ cur' = c /\ obj' = cache[c]
              /\ Goto(IF cache[c].state = "live" THEN "cephUser"
                                                 ELSE "removeCephUser")
    /\ UNCHANGED <<apiVars, rgwVars, up, infVars, localVars, spent>>

(* Take a request and read the claim from the cache: Cleanup when it is not *)
(* found or marked for deletion, Provision otherwise.                       *)
Reconcile(c) ==
    /\ pc = "idle"
    /\ c \in queue
    /\ queue' = queue \ {c}
    /\ cur' = c
    /\ obj' = cache[c]
    /\ Goto(IF cache[c].state = "live" THEN "cephUser" ELSE "removeCephUser")
    /\ UNCHANGED <<apiVars, rgwVars, up, infVars, localVars, spent>>

-----------------------------------------------------------------------------
(* Provision. *)

(* Mutant: the user is created without looking for it first. *)
EnsureCephUserMutant ==
    /\ pc = "cephUser"
    /\ ceph' = [ceph EXCEPT ![cur] =
                   [exists |-> TRUE, for |-> obj.uid,
                    maxBuckets |-> obj.spec.quota, quota |-> 0,
                    subusers |-> {},
                    keys |-> [NoKeys EXCEPT ![Admin] = nextKey + 1]]]
    /\ nextKey' = nextKey + 1
    /\ Goto("cephQuota")
    /\ UNCHANGED <<apiVars, up, infVars, queue, reqVars, localVars, spent>>

(* Create the Ceph user, which gets a key of its own, or modify it. *)
EnsureCephUser ==
    /\ pc = "cephUser"
    /\ ceph' = [ceph EXCEPT ![cur] =
                   [exists |-> TRUE, for |-> obj.uid,
                    maxBuckets |-> obj.spec.quota, quota |-> @.quota,
                    subusers |-> @.subusers,
                    keys |-> IF @.exists
                               THEN @.keys
                               ELSE [NoKeys EXCEPT ![Admin] = nextKey + 1]]]
    /\ nextKey' = IF ceph[cur].exists THEN nextKey ELSE nextKey + 1
    /\ Goto("cephQuota")
    /\ UNCHANGED <<apiVars, up, infVars, queue, reqVars, localVars, spent>>

EnsureCephUserQuota ==
    /\ pc = "cephQuota"
    /\ ceph' = [ceph EXCEPT ![cur] = [@ EXCEPT !.quota = obj.spec.quota]]
    /\ Goto("subuserAccess")
    /\ UNCHANGED <<apiVars, nextKey, up, infVars, queue, reqVars, localVars,
                   spent>>

DesiredSubusers == obj.spec.subusers \cup {Readonly}

(* Mutants: nothing is tagged for removal; what is there already is not     *)
(* taken off the list.                                                      *)
SubuserAccessMutantKeep(desired, current) == desired \ current
SubuserAccessMutantAll(desired, current) == desired \cup current

(* Tag for creation what is desired and missing, for removal what is there  *)
(* and not desired.                                                         *)
SubuserAccess(desired, current) ==
    (desired \ current) \cup (current \ desired)

GenerateSubuserAccess ==
    /\ pc = "subuserAccess"
    /\ todo' = SubuserAccess(DesiredSubusers, ceph[cur].subusers)
    /\ Goto("subusers")
    /\ UNCHANGED <<apiVars, rgwVars, up, infVars, queue, reqVars, cephUser,
                   sub, sum, spent>>

(* Account a with these subusers and keys. *)
WithSubusers(a, subusers, keys) ==
    [exists |-> a.exists, for |-> a.for, maxBuckets |-> a.maxBuckets,
     quota |-> a.quota, subusers |-> subusers, keys |-> keys]

(* RGW generates a key for the new subuser. *)
GenerateSubuser(s) ==
    /\ pc = "subusers"
    /\ s \in todo \cap DesiredSubusers
    /\ ceph' = [ceph EXCEPT ![cur] =
                   WithSubusers(@, @.subusers \cup {s},
                                [@.keys EXCEPT ![s] = nextKey + 1])]
    /\ nextKey' = nextKey + 1
    /\ todo' = todo \ {s}
    /\ UNCHANGED <<apiVars, up, infVars, queue, pc, reqVars, cephUser, sub,
                   sum, spent>>

(* RGW drops the subuser with its key. *)
RemoveSubuser(s) ==
    /\ pc = "subusers"
    /\ s \in todo \ DesiredSubusers
    /\ ceph' = [ceph EXCEPT ![cur] =
                   WithSubusers(@, @.subusers \ {s},
                                [@.keys EXCEPT ![s] = 0])]
    /\ todo' = todo \ {s}
    /\ sub' = s
    /\ Goto("subuserSecret")
    /\ UNCHANGED <<apiVars, nextKey, up, infVars, queue, reqVars, cephUser,
                   sum, spent>>

(* The Secret is deleted by its name, whoever owns it. *)
RemoveSubuserSecret ==
    /\ pc = "subuserSecret"
    /\ LET n == SubuserSecret[cur][sub]
       IN /\ secret' = [secret EXCEPT ![n] = NoData]
          /\ queue' = queue \cup Owners({secret[n]})
    /\ sub' = NoKey
    /\ Goto("subusers")
    /\ UNCHANGED <<claim, s3user, used, rgwVars, up, infVars, reqVars,
                   cephUser, todo, sum, spent>>

SubusersSynced ==
    /\ pc = "subusers"
    /\ todo = {}
    /\ Goto("retrieve")
    /\ UNCHANGED <<apiVars, rgwVars, up, infVars, queue, reqVars, localVars,
                   spent>>

RetrieveCephUser ==
    /\ pc = "retrieve"
    /\ cephUser' = ceph[cur].keys
    /\ Goto("adminSecret")
    /\ UNCHANGED <<apiVars, rgwVars, up, infVars, queue, reqVars, todo, sub,
                   sum, spent>>

(* Mutant: a Secret that is there is given to the claim as it is. *)
EnsureSecretMutant(n, u, next, rest) ==
    LET s     == secret[n]
        fresh == [exists |-> TRUE,
                  key |-> IF s.exists THEN s.key ELSE cephUser[u],
                  owner |-> cur, uid |-> obj.uid]
    IN IF cephUser[u] = 0 \/ s.owner \notin {cur, NoKey}
         THEN Requeue /\ UNCHANGED secret
         ELSE /\ secret' = [secret EXCEPT ![n] = fresh]
              /\ queue' = IF s = fresh THEN queue ELSE queue \cup {cur}
              /\ todo' = rest
              /\ Goto(next)
              /\ UNCHANGED <<reqVars, cephUser, sub, sum>>

(* Make Secret n hold the key of u and belong to the claim.  Ends in a      *)
(* requeue when u has no key or the Secret is controlled by another claim.  *)
EnsureSecret(n, u, next, rest) ==
    LET s     == secret[n]
        fresh == [exists |-> TRUE, key |-> cephUser[u], owner |-> cur,
                  uid |-> obj.uid]
    IN IF cephUser[u] = 0 \/ s.owner \notin {cur, NoKey}
         THEN Requeue /\ UNCHANGED secret
         ELSE /\ secret' = [secret EXCEPT ![n] = fresh]
              /\ queue' = IF s = fresh THEN queue ELSE queue \cup {cur}
              /\ todo' = rest
              /\ Goto(next)
              /\ UNCHANGED <<reqVars, cephUser, sub, sum>>

EnsureAdminSecret ==
    /\ pc = "adminSecret"
    /\ EnsureSecret(obj.spec.admin, Admin, "readonlySecret", {})
    /\ UNCHANGED <<claim, s3user, used, rgwVars, up, infVars, spent>>

EnsureReadonlySecret ==
    /\ pc = "readonlySecret"
    /\ EnsureSecret(obj.spec.readonly, Readonly, "otherSecrets",
                    obj.spec.subusers)
    /\ UNCHANGED <<claim, s3user, used, rgwVars, up, infVars, spent>>

EnsureSubuserSecret(s) ==
    /\ pc = "otherSecrets"
    /\ s \in todo
    /\ EnsureSecret(SubuserSecret[cur][s], s, "otherSecrets", todo \ {s})
    /\ UNCHANGED <<claim, s3user, used, rgwVars, up, infVars, spent>>

SecretsEnsured ==
    /\ pc = "otherSecrets"
    /\ todo = {}
    /\ Goto("s3User")
    /\ UNCHANGED <<apiVars, rgwVars, up, infVars, queue, reqVars, localVars,
                   spent>>

(* Mutants: an S3User that exists is left as it is; it is always written,   *)
(* which sends an event each time.                                          *)
EnsureS3UserMutantKeep ==
    /\ pc = "s3User"
    /\ LET fresh == [exists |-> TRUE, uid |-> obj.uid, rv |-> obj.rv,
                     quota |-> obj.spec.quota]
       IN IF s3user[cur].exists
            THEN UNCHANGED <<s3user, queue>>
            ELSE /\ s3user' = [s3user EXCEPT ![cur] = fresh]
                 /\ queue' = queue \cup {cur}
    /\ Goto("status")
    /\ UNCHANGED <<claim, secret, used, rgwVars, up, infVars, reqVars,
                   localVars, spent>>

EnsureS3UserMutantWrite ==
    /\ pc = "s3User"
    /\ s3user' = [s3user EXCEPT ![cur] =
                     [exists |-> TRUE, uid |-> obj.uid, rv |-> obj.rv,
                      quota |-> obj.spec.quota]]
    /\ queue' = queue \cup {cur}
    /\ Goto("status")
    /\ UNCHANGED <<claim, secret, used, rgwVars, up, infVars, reqVars,
                   localVars, spent>>

(* Mutant: the claimRef of an S3User that exists is not refreshed. *)
EnsureS3UserMutantRef ==
    /\ pc = "s3User"
    /\ LET read  == IF s3user[cur].exists THEN s3user[cur] ELSE obj
           fresh == [exists |-> TRUE, uid |-> read.uid, rv |-> read.rv,
                     quota |-> obj.spec.quota]
       IN /\ s3user' = [s3user EXCEPT ![cur] = fresh]
          /\ queue' = IF s3user[cur] = fresh THEN queue ELSE queue \cup {cur}
    /\ Goto("status")
    /\ UNCHANGED <<claim, secret, used, rgwVars, up, infVars, reqVars,
                   localVars, spent>>

(* The claimRef names the very version of the claim that was read. *)
EnsureS3User ==
    /\ pc = "s3User"
    /\ LET fresh == [exists |-> TRUE, uid |-> obj.uid, rv |-> obj.rv,
                     quota |-> obj.spec.quota]
       IN /\ s3user' = [s3user EXCEPT ![cur] = fresh]
          /\ queue' = IF s3user[cur] = fresh THEN queue ELSE queue \cup {cur}
    /\ Goto("status")
    /\ UNCHANGED <<claim, secret, used, rgwVars, up, infVars, reqVars,
                   localVars, spent>>

(* Mutant: the status is given the spec. *)
StatusForMutant(s) == s

StatusFor(s) == [named |-> TRUE, quota |-> s.quota, subusers |-> s.subusers]

(* Mutant: a claim that changed meanwhile is taken for one that is gone. *)
UpdateS3UserClaimStatusMutant ==
    /\ pc = "status"
    /\ LET r == [obj EXCEPT !.status = StatusFor(obj.spec)]
       IN CASE obj.status = StatusFor(obj.spec) ->
                 /\ Goto("sumUsed")
                 /\ UNCHANGED <<claim, watch, queue, reqVars, localVars>>
            [] obj.status # StatusFor(obj.spec) /\ UpToDate ->
                 /\ StoreClaim(cur, r)
                 /\ obj' = NewVersion(cur, r)
                 /\ Goto("sumUsed")
                 /\ UNCHANGED <<queue, cur, localVars>>
            [] OTHER -> /\ Goto("removeCephUser")
                        /\ UNCHANGED <<claim, watch, queue, reqVars, localVars>>
    /\ UNCHANGED <<s3user, secret, used, rgwVars, up, cache, cachedUsed,
                   spent>>

(* Mutant: the status is written without a look at what it is. *)
UpdateS3UserClaimStatusMutantWrite ==
    /\ pc = "status"
    /\ LET r == [obj EXCEPT !.status = StatusFor(obj.spec)]
       IN IF UpToDate
            THEN /\ StoreClaim(cur, r)
                 /\ obj' = NewVersion(cur, r)
                 /\ Goto("sumUsed")
                 /\ UNCHANGED <<queue, cur, localVars>>
            ELSE Requeue /\ UNCHANGED <<claim, watch>>
    /\ UNCHANGED <<s3user, secret, used, rgwVars, up, cache, cachedUsed,
                   spent>>

(* RetryOnConflict retries with the same stale object: a conflict stays a   *)
(* conflict.                                                                *)
UpdateS3UserClaimStatus ==
    /\ pc = "status"
    /\ LET r == [obj EXCEPT !.status = StatusFor(obj.spec)]
       IN CASE obj.status = StatusFor(obj.spec) ->
                 /\ Goto("sumUsed")
                 /\ UNCHANGED <<claim, watch, queue, reqVars, localVars>>
            [] obj.status # StatusFor(obj.spec) /\ UpToDate ->
                 /\ StoreClaim(cur, r)
                 /\ obj' = NewVersion(cur, r)
                 /\ Goto("sumUsed")
                 /\ UNCHANGED <<queue, cur, localVars>>
            [] OTHER -> Requeue /\ UNCHANGED <<claim, watch>>
    /\ UNCHANGED <<s3user, secret, used, rgwVars, up, cache, cachedUsed,
                   spent>>

AddCleanupFinalizer ==
    /\ pc = "addFinalizer"
    /\ CASE obj.fin -> EndReconcile /\ UNCHANGED <<claim, watch, queue>>
         [] ~ obj.fin /\ UpToDate ->
              /\ StoreClaim(cur, [obj EXCEPT !.fin = TRUE])
              /\ EndReconcile
              /\ UNCHANGED queue
         [] OTHER -> Requeue /\ UNCHANGED <<claim, watch>>
    /\ UNCHANGED <<s3user, secret, used, rgwVars, up, cache, cachedUsed,
                   spent>>

-----------------------------------------------------------------------------
(* updateNamespaceQuotaStatus, called by Provision and by Cleanup. *)

Quota == [c \in Claims |-> claim[c].spec.quota]

(* Mutant: the quota of the request's claim is not added for Provision. *)
NamespaceUsedQuotaMutant ==
    LET others == IF obj.state = "absent" THEN Claims ELSE Claims \ {cur}
    IN SumFunctionOnSet(Quota, others)

(* What the API server lists, save the claim of the request, whose quota is *)
(* taken from r.s3UserClaim when provisioning.  In a cleanup of a claim     *)
(* that was not found r.s3UserClaim is empty and excludes no claim.         *)
NamespaceUsedQuota ==
    LET others == IF obj.state = "absent" THEN Claims ELSE Claims \ {cur}
        own    == IF obj.state = "live" THEN obj.spec.quota ELSE 0
    IN own + SumFunctionOnSet(Quota, others)

SumNamespaceUsedQuota ==
    /\ pc = "sumUsed"
    /\ sum' = NamespaceUsedQuota
    /\ Goto("writeUsed")
    /\ UNCHANGED <<apiVars, rgwVars, up, infVars, queue, reqVars, cephUser,
                   todo, sub, spent>>

(* The ResourceQuota is read from the cache: nothing is written when that   *)
(* copy has the sum, and a write from a copy that is behind is refused.     *)
UpdateNamespaceQuotaStatus ==
    /\ pc = "writeUsed"
    /\ IF cachedUsed # sum /\ cachedUsed # used
         THEN Requeue /\ UNCHANGED <<used, cachedUsed>>
         ELSE /\ used' = IF cachedUsed = sum THEN used ELSE sum
              /\ cachedUsed' = IF LaggingQuotaCache THEN cachedUsed ELSE used'
              /\ Goto(IF obj.state = "live" THEN "addFinalizer"
                                            ELSE "removeFinalizer")
              /\ UNCHANGED <<queue, reqVars, localVars>>
    /\ UNCHANGED <<claim, s3user, secret, rgwVars, up, cache, watch, spent>>

-----------------------------------------------------------------------------
(* Cleanup. *)

(* Mutants: a user that does not exist ends the cleanup; an error is taken  *)
(* for success.                                                             *)
RemoveCephUserMutantStop ==
    /\ pc = "removeCephUser"
    /\ IF ceph[cur].exists
         THEN /\ ceph' = [ceph EXCEPT ![cur] = NoUser]
              /\ Goto("removeS3User")
              /\ UNCHANGED <<reqVars, localVars>>
         ELSE EndReconcile /\ UNCHANGED ceph
    /\ UNCHANGED <<apiVars, nextKey, up, infVars, queue, spent>>

RemoveCephUserMutantIgnore ==
    /\ pc = "removeCephUser"
    /\ ceph' \in {ceph, [ceph EXCEPT ![cur] = NoUser]}
    /\ Goto("removeS3User")
    /\ UNCHANGED <<apiVars, nextKey, up, infVars, queue, reqVars, localVars,
                   spent>>

(* Mutant: the quota status is left alone for a claim that is not found. *)
RemoveS3UserMutant ==
    /\ pc = "removeS3User"
    /\ s3user' = [s3user EXCEPT ![cur] = NoS3User]
    /\ queue' = IF s3user[cur].exists THEN queue \cup {cur} ELSE queue
    /\ Goto(IF obj.state = "absent" THEN "removeFinalizer" ELSE "sumUsed")
    /\ UNCHANGED <<claim, secret, used, rgwVars, up, infVars, reqVars,
                   localVars, spent>>

(* The account goes with all its data; no such user is as good. *)
RemoveCephUser ==
    /\ pc = "removeCephUser"
    /\ ceph' = [ceph EXCEPT ![cur] = NoUser]
    /\ Goto("removeS3User")
    /\ UNCHANGED <<apiVars, nextKey, up, infVars, queue, reqVars, localVars,
                   spent>>

RemoveS3User ==
    /\ pc = "removeS3User"
    /\ s3user' = [s3user EXCEPT ![cur] = NoS3User]
    /\ queue' = IF s3user[cur].exists THEN queue \cup {cur} ELSE queue
    /\ Goto("sumUsed")
    /\ UNCHANGED <<claim, secret, used, rgwVars, up, infVars, reqVars,
                   localVars, spent>>

(* Removing the last finalizer of an object marked for deletion deletes it. *)
RemoveCleanupFinalizer ==
    /\ pc = "removeFinalizer"
    /\ CASE ~ obj.fin -> EndReconcile /\ UNCHANGED <<claim, watch, queue>>
         [] obj.fin /\ UpToDate ->
              /\ StoreClaim(cur, Gone(cur))
              /\ EndReconcile
              /\ UNCHANGED queue
         [] OTHER -> Requeue /\ UNCHANGED <<claim, watch>>
    /\ UNCHANGED <<s3user, secret, used, rgwVars, up, cache, cachedUsed,
                   spent>>

-----------------------------------------------------------------------------
User(c) == \/ CreateClaim(c)
           \/ EditClaim(c)
           \/ DeleteClaim(c)
           \/ StripFinalizer(c)

Provision ==
    \/ EnsureCephUser
    \/ EnsureCephUserQuota
    \/ GenerateSubuserAccess
    \/ \E s \in Users : GenerateSubuser(s)
    \/ \E s \in Users : RemoveSubuser(s)
    \/ RemoveSubuserSecret
    \/ SubusersSynced
    \/ RetrieveCephUser
    \/ EnsureAdminSecret
    \/ EnsureReadonlySecret
    \/ \E s \in Users : EnsureSubuserSecret(s)
    \/ SecretsEnsured
    \/ EnsureS3User
    \/ UpdateS3UserClaimStatus
    \/ AddCleanupFinalizer

Cleanup ==
    \/ RemoveCephUser
    \/ RemoveS3User
    \/ RemoveCleanupFinalizer

UpdateQuota ==
    \/ SumNamespaceUsedQuota
    \/ UpdateNamespaceQuotaStatus

Worker == \/ \E c \in Claims : Reconcile(c)
          \/ Provision
          \/ Cleanup
          \/ UpdateQuota

Informer == \/ \E c \in Claims : Deliver(c)
            \/ DeliverQuota

CollectGarbage == \E n \in SecretNames : CollectSecret(n)

Next == \/ \E c \in Claims : User(c)
        \/ Worker
        \/ Informer
        \/ CollectGarbage
        \/ Fail
        \/ Crash
        \/ Restart

Spec == Init /\ [][Next]_vars

(* The worker, the watches and the garbage collector keep running and a     *)
(* crashed operator is started again; nothing makes users act or calls fail.*)
(* One claim cannot keep the worker from another: the queue is fair.        *)
FairSpec == /\ Spec
            /\ WF_vars(Provision \/ Cleanup \/ UpdateQuota)
            /\ \A c \in Claims : SF_vars(Reconcile(c)) /\ WF_vars(Deliver(c))
            /\ WF_vars(DeliverQuota)
            /\ WF_vars(CollectGarbage)
            /\ WF_vars(Restart)

-----------------------------------------------------------------------------
(* Properties. *)

(* The operator runs, has seen everything and has nothing left to do. *)
Settled ==
    /\ up /\ pc = "idle" /\ queue = {}
    /\ \A c \in Claims : watch[c] = <<>>
    /\ cachedUsed = used
    /\ \A n \in SecretNames : ~ Garbage(n)

(* Secret n holds the key of user u of claim c and belongs to that claim. *)
Holds(n, c, u) ==
    secret[n] = [exists |-> TRUE, key |-> ceph[c].keys[u], owner |-> c,
                 uid |-> claim[c].uid]

HasUser(c) ==
    ceph[c].exists /\ ceph[c].maxBuckets = claim[c].spec.quota

HasQuota(c) == ceph[c].quota = claim[c].spec.quota

HasSubusers(c) == ceph[c].subusers = claim[c].spec.subusers \cup {Readonly}

HasS3User(c) ==
    /\ s3user[c].exists /\ s3user[c].uid = claim[c].uid
    /\ s3user[c].quota = claim[c].spec.quota

HasStatus(c) == claim[c].status = StatusFor(claim[c].spec)

(* The Secrets of these subusers. *)
HasSecrets(c, subusers) ==
    \A u \in subusers : Holds(SubuserSecret[c][u], c, u)

Provisioned(c) ==
    /\ HasUser(c) /\ HasQuota(c) /\ HasSubusers(c)
    /\ Holds(claim[c].spec.admin, c, Admin)
    /\ Holds(claim[c].spec.readonly, c, Readonly)
    /\ HasSecrets(c, claim[c].spec.subusers)
    /\ HasS3User(c) /\ HasStatus(c) /\ claim[c].fin

(* Whatever was edited, failed or crashed on the way, once there is nothing *)
(* left to do a live claim has what its spec asks for: the Ceph user with   *)
(* quota, subusers and keys, a Secret for each key, the S3User, the status  *)
(* and the finalizer (Provision).                                           *)
ProvisionedWhenSettled ==
    Settled => \A c \in Claims : claim[c].state = "live" => Provisioned(c)

(* Once there is nothing left to do a claim that is gone has left no S3User *)
(* behind, even after crashes and finalizers removed by hand (Cleanup on a  *)
(* claim that is not found).                                                *)
NoS3UserLeftBehind ==
    Settled => \A c \in Claims : claim[c].state # "live" => ~ s3user[c].exists

(* The same for the Ceph user.  It holds as long as the operator does not   *)
(* crash: the Delete event, or the event of a Secret written after it,      *)
(* leads to a Cleanup even when the claim never had its finalizer.  A crash *)
(* between the deletion of such a claim and its Cleanup loses the event.    *)
NoCephUserLeftBehind ==
    Settled => \A c \in Claims : claim[c].state # "live" => ~ ceph[c].exists

(* A Cleanup never purges the account of a claim that is live: it may run   *)
(* on a stale or missing copy of the claim while a claim of the same name   *)
(* has been created again, but then the account is still the old one.       *)
NoLivePurge ==
    [][\A c \in Claims :
         ceph[c].exists /\ ~ ceph'[c].exists =>
             ~ (claim[c].state = "live" /\ claim[c].uid = ceph[c].for)]_vars

(* As long as a claim lives, the keys in its admin and readonly Secrets     *)
(* keep working: no edit, retry or crash makes the operator replace them.   *)
CredentialsStable ==
    [][\A c \in Claims, u \in {Admin, Readonly} :
         /\ claim[c].state = "live" /\ claim[c].uid = ceph[c].for
         /\ ceph[c].keys[u] # 0
         => ceph'[c].keys[u] = ceph[c].keys[u]]_vars

(* The operator lets a claim go only when the account and the S3User are    *)
(* gone (the order of Cleanup).                                             *)
ReleasedWhenClean ==
    [][\A c \in Claims :
         claim[c].state = "terminating" /\ claim'[c].state = "absent"
                                        /\ cur = c /\ cur' = NoKey
         => ~ ceph'[c].exists /\ ~ s3user'[c].exists]_vars

(* When there is nothing left to do the ResourceQuota's status has the sum  *)
(* of the quotas of the claims in the namespace, although each request sums *)
(* and writes in two steps, from copies of its claim that may be stale.     *)
UsedQuotaAccurate ==
    Settled => used = SumFunctionOnSet(Quota, Claims)

(* Once there is nothing left to do and no claim is left, none of the quota *)
(* counts as used (testing/e2e/10-assert.yaml:11).                          *)
QuotaReleased ==
    Settled /\ (\A c \in Claims : claim[c].state = "absent") => used = 0

(* "Subusers which are not in the spec list but are in the current ceph     *)
(* users list will be removed with their secrets" (provisioner.go:124):     *)
(* once there is nothing left to do, a live claim's derived Secrets are     *)
(* those of its subusers.                                                   *)
SubuserSecretsFollowSpec ==
    Settled => \A c \in Claims : claim[c].state = "live" =>
        \A s \in Subusers \ claim[c].spec.subusers :
            ~ secret[SubuserSecret[c][s]].exists

(* A claim is written at most five times for each time it is created (by the *)
(* creation, the deletion, and the operator's status, finalizer and its      *)
(* removal), and twice for each edit and each finalizer removed by hand (by  *)
(* the user, and by the operator in answer).  However often a request is     *)
(* retried, fails, or is started over by a crash, the operator's own writes, *)
(* whose events lead back to it, bring no others (the comparison in          *)
(* updateS3UserClaimStatus, the check in addCleanupFinalizer).               *)
WritesBounded ==
    \A c \in Claims :
        claim[c].rv <= 5 * claim[c].uid + 2 * (spent.edits + spent.strips)

(* An S3User is rewritten only for a newer version of its claim: a request   *)
(* that works with an old copy never takes it back, nor gives it other       *)
(* contents under the same claimRef (ensureS3User).                          *)
ClaimRefAdvances ==
    [][\A c \in Claims :
         s3user[c].exists /\ s3user'[c].exists /\ s3user'[c] # s3user[c] =>
             s3user[c].rv < s3user'[c].rv]_vars

(* The controller comes to rest: its own writes, whose events lead back to  *)
(* it, do not keep it going.                                                *)
Converges == <>[]Settled

(* A claim marked for deletion goes away. *)
DeletionCompletes ==
    \A c \in Claims :
        claim[c].state = "terminating" ~> claim[c].state = "absent"

-----------------------------------------------------------------------------
(* The inductive invariant of the proofs. *)

(* a is b or an earlier version of it; the uid grows with each creation, and *)
(* a claim that is no longer live is not live again under the same uid.      *)
Advances(a, b) == \/ a.uid < b.uid
                  \/ a.uid = b.uid /\ (a.state # "live" => b.state # "live")

Older(a, b) == /\ a.rv <= b.rv
               /\ a.rv = b.rv => a = b
               /\ Advances(a, b)

(* The cache and what is on its way to it are versions of the claim, in the *)
(* order they were written.                                                 *)
CopiesInv ==
    /\ \A c \in Claims : Older(cache[c], claim[c])
    /\ \A c \in Claims : \A i \in 1 .. Len(watch[c]) :
         /\ Older(watch[c][i], claim[c])
         /\ cache[c].uid <= watch[c][i].uid
         /\ \A j \in 1 .. Len(watch[c]) :
              i <= j => watch[c][i].uid <= watch[c][j].uid
    /\ ~ up => \A c \in Claims : watch[c] = <<>>

(* The account was provisioned for no later claim than the cached one.  Keys *)
(* come with the account and with its subusers.                             *)
AccountInv ==
    \A c \in Claims :
        /\ ceph[c].for <= cache[c].uid
        /\ Admin \notin ceph[c].subusers
        /\ ~ ceph[c].exists => /\ ceph[c].keys[Admin] = 0
                               /\ ceph[c].keys[Readonly] = 0
        /\ Readonly \notin ceph[c].subusers => ceph[c].keys[Readonly] = 0

(* Nor was it provisioned for a later claim than the one being reconciled,   *)
(* and the loop over the subusers meets neither the user itself nor a        *)
(* readonly subuser that is there already.                                  *)
ProgressInv ==
    /\ pc # "idle" => ceph[cur].for <= obj.uid
    /\ pc \in {"cephQuota", "subuserAccess", "subusers", "subuserSecret"} =>
         ceph[cur].exists
    /\ pc \in {"subusers", "subuserSecret"} =>
         /\ Admin \notin todo
         /\ Readonly \in todo => Readonly \notin ceph[cur].subusers

RequestInv ==
    /\ pc # "idle" => /\ Older(obj, claim[cur])
                      /\ obj.uid <= cache[cur].uid
    /\ pc \in ProvisionSteps => obj.state = "live"
    /\ pc \in CleanupSteps => obj.state # "live"

CleanupInv ==
    /\ pc = "removeS3User" => ~ ceph[cur].exists
    /\ (pc \in QuotaSteps /\ obj.state # "live") \/ pc = "removeFinalizer" =>
         ~ ceph[cur].exists /\ ~ s3user[cur].exists

(* While a request is processed it is known which one, and while the Secret  *)
(* of a subuser is to be deleted it is known whose.                          *)
Active == /\ pc # "idle" => cur \in Claims
          /\ pc = "subuserSecret" => sub \in Users

TypeInv == TypeOK /\ Active

(* What the worker knows of the cluster is old, never wrong: the copies of a *)
(* claim are earlier versions of it, an account is of no later claim than    *)
(* the one being reconciled, and a Cleanup finds its earlier steps done.     *)
SafetyInv == /\ TypeInv /\ CopiesInv /\ AccountInv /\ ProgressInv
             /\ RequestInv /\ CleanupInv

-----------------------------------------------------------------------------
(* Why nothing is forgotten: the invariants behind what holds when all has   *)
(* settled.                                                                 *)

(* A copy of a claim that is there has a spec users may give to it. *)
Specified(c, v) == v.state = "absent" \/ v.spec \in SpecsOf[c]

SpecsInv ==
    /\ \A c \in Claims :
         /\ Specified(c, claim[c]) /\ Specified(c, cache[c])
         /\ \A i \in 1 .. Len(watch[c]) : Specified(c, watch[c][i])
    /\ pc # "idle" => Specified(cur, obj)

(* Something will make the operator look at claim c again. *)
Pending(c) == ~ up \/ watch[c] # <<>> \/ c \in queue

Working(c) == pc # "idle" /\ cur = c

(* The newest copy on its way is the claim as it is, and a worker that does  *)
(* not have it will look again.                                             *)
FreshInv ==
    /\ up => \A c \in Claims :
         IF watch[c] = <<>> THEN cache[c] = claim[c]
                            ELSE watch[c][Len(watch[c])] = claim[c]
    /\ ~ up => pc = "idle" /\ queue = {}
    /\ pc # "idle" => obj = claim[cur] \/ Pending(cur)

(* An S3User without a live claim will be met by a Cleanup, or is. *)
LeftoverInv ==
    \A c \in Claims : claim[c].state # "live" /\ s3user[c].exists =>
        \/ Pending(c)
        \/ (Working(c) /\ pc \in {"removeCephUser", "removeS3User"})

(* So is a Ceph user, unless a crash loses the Delete event of its claim. *)
OrphanInv ==
    /\ up
    /\ \A c \in Claims : claim[c].state # "live" /\ ceph[c].exists =>
         Pending(c) \/ (Working(c) /\ pc = "removeCephUser")

AccountSteps == {"cephUser", "cephQuota", "subuserAccess", "subusers",
                 "subuserSecret", "retrieve"}
SecretSteps == {"adminSecret", "readonlySecret", "otherSecrets"}
LastSteps == {"sumUsed", "writeUsed", "addFinalizer"}

(* What Provision has done for claim c by the step it has come to. *)
ProvisionedSoFar(c) ==
    /\ obj = claim[c]
    /\ pc # "cephUser" => HasUser(c)
    /\ pc \notin {"cephUser", "cephQuota"} => HasQuota(c)
    /\ pc \in {"subusers", "subuserSecret"} =>
         todo = SubuserAccess(DesiredSubusers, ceph[c].subusers)
    /\ pc \notin AccountSteps \ {"retrieve"} => HasSubusers(c)
    /\ pc \in SecretSteps => cephUser = ceph[c].keys
    /\ pc \notin AccountSteps \cup {"adminSecret"} =>
         Holds(obj.spec.admin, c, Admin)
    /\ pc \notin AccountSteps \cup {"adminSecret", "readonlySecret"} =>
         Holds(obj.spec.readonly, c, Readonly)
    /\ pc = "otherSecrets" => HasSecrets(c, obj.spec.subusers \ todo)
    /\ pc \notin AccountSteps \cup SecretSteps =>
         HasSecrets(c, obj.spec.subusers)
    /\ pc \in {"status"} \cup LastSteps => HasS3User(c)
    /\ pc \in LastSteps => HasStatus(c)

(* A live claim that nothing will make the operator look at again has all    *)
(* its spec asks for, or is being given it.                                 *)
ProvisionInv ==
    \A c \in Claims : claim[c].state = "live" /\ ~ Pending(c) =>
        IF Working(c) THEN ProvisionedSoFar(c) ELSE Provisioned(c)

(* No request is forgotten: the operator's newest copies are the claims as    *)
(* they are, and whoever still lacks something or is left over will be       *)
(* looked at again (the watches of SetupWithManager).                        *)
SettlingInv == FreshInv /\ LeftoverInv /\ ProvisionInv

(* The sum in use is right, is about to be taken anew, or will be because a  *)
(* claim is looked at again or is about to change.                          *)
Resumes == \/ queue # {} \/ \E c \in Claims : watch[c] # <<>>
           \/ pc # "idle" /\ obj.state = "terminating"

Total == SumFunctionOnSet(Quota, Claims)

(* A claim that is marked for deletion has the finalizer, and so has each    *)
(* copy that says it is.                                                    *)
Finalized(v) == v.state = "terminating" => v.fin

FinalizedInv ==
    /\ \A c \in Claims :
         /\ Finalized(claim[c]) /\ Finalized(cache[c])
         /\ \A i \in 1 .. Len(watch[c]) : Finalized(watch[c][i])
    /\ pc # "idle" => Finalized(obj)

(* A sum taken from an old copy is taken again (updateNamespaceQuotaStatus). *)
UsedInv ==
    /\ FinalizedInv
    /\ up /\ cachedUsed = used
    /\ pc = "writeUsed" => sum = Total \/ Resumes
    /\ pc \in {"idle", "addFinalizer", "removeFinalizer"} =>
         used = Total \/ Resumes

(* The writes to a claim that are still to come if users do nothing but      *)
(* delete it: the status, the finalizer, the deletion, the removal of the    *)
(* finalizer.                                                               *)
Owed(v) ==
    IF v.state = "absent" THEN 0
    ELSE (IF v.status = StatusFor(v.spec) THEN 0 ELSE 1)
         + (CASE v.state = "terminating" -> 1
              [] v.state = "live" /\ v.fin -> 2
              [] OTHER -> 3)

Budget(c) == 5 * claim[c].uid + 2 * (spent.edits + spent.strips)

WritesInv == \A c \in Claims : claim[c].rv + Owed(claim[c]) <= Budget(c)

(* v is w or an earlier version of the same claim. *)
NotNewer(v, w) == v.rv <= w.rv /\ (v.rv = w.rv => v = w)

(* What is on its way to the cache is in the order it was written. *)
OrderInv ==
    \A c \in Claims : \A i \in 1 .. Len(watch[c]) :
        /\ cache[c].rv < watch[c][i].rv
        /\ \A j \in 1 .. Len(watch[c]) :
             i < j => watch[c][i].rv < watch[c][j].rv

(* S3User s was made from version v of its claim, or from an earlier one. *)
MadeBy(s, v) ==
    s.exists => /\ s.rv <= v.rv
                /\ s.rv = v.rv => s = [exists |-> TRUE, uid |-> v.uid,
                                      rv |-> v.rv, quota |-> v.spec.quota]

(* Until a request has come to the S3User, it has no older a copy of the     *)
(* claim than the one the S3User was made from.                              *)
ClaimRefInv ==
    /\ OrderInv
    /\ \A c \in Claims : MadeBy(s3user[c], cache[c])
    /\ pc \in AccountSteps \cup SecretSteps \cup {"s3User"} =>
         MadeBy(s3user[cur], obj) /\ NotNewer(obj, cache[cur])
=============================================================================
