------------------------ MODULE ClaimReconcilerProofs ------------------------
(****************************************************************************)
(* Proofs about ClaimReconciler, for any number of claims, subusers and     *)
(* Secrets, any specs, any number of edits, failures and crashes.           *)
(****************************************************************************)
EXTENDS ClaimReconciler, SumLemmas

LEMMA NullTypes ==
    /\ NoSpec \in SpecRec
    /\ NoStatus \in StatusRec
    /\ NoObject \in ClaimRec
    /\ NoS3User \in S3UserRec
    /\ NoData \in SecretRec
    /\ NoKeys \in [Users -> Nat]
    /\ NoUser \in CephRec
<1>1. NoSpec \in SpecRec
  BY DEF NoSpec, SpecRec
<1>2. NoStatus \in StatusRec
  BY DEF NoStatus, StatusRec
<1>3. NoObject \in ClaimRec
  BY <1>1, <1>2 DEF NoObject, ClaimRec
<1>4. NoKeys \in [Users -> Nat]
  BY DEF NoKeys
<1>5. NoUser \in CephRec
  BY <1>4 DEF NoUser, CephRec
<1>6. NoS3User \in S3UserRec
  BY DEF NoS3User, S3UserRec
<1>7. NoData \in SecretRec
  BY DEF NoData, SecretRec
<1> QED BY <1>1, <1>2, <1>3, <1>4, <1>5, <1>6, <1>7

LEMMA TypeInit == Init => TypeInv
<1>1. <<>> \in Seq(ClaimRec)
  OBVIOUS
<1> QED BY <1>1, NullTypes DEF Init, TypeInv, TypeOK, Active, Counters

LEMMA GoneType ==
    ASSUME TypeOK, NEW c \in Claims
    PROVE  Gone(c) \in ClaimRec
<1>1. claim[c].uid \in Nat
  BY DEF TypeOK, ClaimRec
<1> QED BY <1>1, NullTypes DEF Gone, ClaimRec

(* The shape of a write to a claim. *)
LEMMA StoreClaimType ==
    ASSUME TypeOK, NEW c \in Claims, NEW r \in ClaimRec, StoreClaim(c, r)
    PROVE  /\ NewVersion(c, r) \in ClaimRec
           /\ claim' \in [Claims -> ClaimRec]
           /\ watch' \in [Claims -> Seq(ClaimRec)]
<1>1. NewVersion(c, r) \in ClaimRec
  <2>1. claim[c].rv \in Nat
    BY DEF TypeOK, ClaimRec
  <2> QED BY <2>1 DEF NewVersion, ClaimRec
<1> QED BY <1>1 DEF TypeOK, StoreClaim

LEMMA SpentType ==
    ASSUME NEW s \in Counters
    PROVE  /\ [s EXCEPT !.edits = @ + 1] \in Counters
           /\ [s EXCEPT !.deletes = @ + 1] \in Counters
           /\ [s EXCEPT !.strips = @ + 1] \in Counters
           /\ [s EXCEPT !.fails = @ + 1] \in Counters
           /\ [s EXCEPT !.crashes = @ + 1] \in Counters
BY DEF Counters

(* What a user's request leaves alone. *)
LEMMA TypeRequest ==
    ASSUME TypeInv, NEW c \in Claims, NEW r \in ClaimRec, StoreClaim(c, r),
           UNCHANGED <<s3user, secret, used, ceph, nextKey, up, cache,
                       cachedUsed, queue, pc, cur, obj, cephUser, todo, sub,
                       sum>>,
           spent' \in Counters
    PROVE  TypeInv'
<1>1. /\ claim' \in [Claims -> ClaimRec]
      /\ watch' \in [Claims -> Seq(ClaimRec)]
  BY StoreClaimType DEF TypeInv
<1> QED BY <1>1 DEF TypeInv, TypeOK, Active

LEMMA TypeUser ==
    ASSUME TypeInv, NEW c \in Claims, User(c)
    PROVE  TypeInv'
<1>0. /\ claim[c] \in ClaimRec
      /\ spent \in Counters
  BY DEF TypeInv, TypeOK
<1>1. CASE CreateClaim(c)
  <2>1. PICK s \in SpecsOf[c] :
          StoreClaim(c, [state |-> "live", uid |-> claim[c].uid + 1,
                         rv |-> 0, spec |-> s, status |-> NoStatus,
                         fin |-> FALSE])
    BY <1>1 DEF CreateClaim
  <2>2. s \in SpecRec
    BY SpecsAssumption
  <2>3. [state |-> "live", uid |-> claim[c].uid + 1, rv |-> 0,
         spec |-> s, status |-> NoStatus, fin |-> FALSE] \in ClaimRec
    BY <1>0, <2>2, NullTypes DEF ClaimRec
  <2> QED BY <1>0, <1>1, <2>1, <2>3, TypeRequest
          DEF CreateClaim, rgwVars, reqVars, localVars
<1>2. CASE EditClaim(c)
  <2>1. PICK s \in SpecsOf[c] :
          StoreClaim(c, [claim[c] EXCEPT !.spec = s])
    BY <1>2 DEF EditClaim
  <2>2. s \in SpecRec
    BY SpecsAssumption
  <2>3. [claim[c] EXCEPT !.spec = s] \in ClaimRec
    BY <1>0, <2>2 DEF ClaimRec
  <2>4. spent' \in Counters
    BY <1>0, <1>2, SpentType DEF EditClaim
  <2> QED BY <1>2, <2>1, <2>3, <2>4, TypeRequest
          DEF EditClaim, rgwVars, reqVars, localVars
<1>3. CASE DeleteClaim(c)
  <2> DEFINE r == IF claim[c].fin
                    THEN [claim[c] EXCEPT !.state = "terminating"]
                    ELSE Gone(c)
  <2>1. r \in ClaimRec
    <3>1. [claim[c] EXCEPT !.state = "terminating"] \in ClaimRec
      BY <1>0 DEF ClaimRec
    <3> QED BY <3>1, GoneType DEF TypeInv
  <2>2. StoreClaim(c, r)
    BY <1>3 DEF DeleteClaim
  <2>3. spent' \in Counters
    BY <1>0, <1>3, SpentType DEF DeleteClaim
  <2> HIDE DEF r
  <2> QED BY <1>3, <2>1, <2>2, <2>3, TypeRequest
          DEF DeleteClaim, rgwVars, reqVars, localVars
<1>4. CASE StripFinalizer(c)
  <2> DEFINE r == IF claim[c].state = "terminating"
                    THEN Gone(c)
                    ELSE [claim[c] EXCEPT !.fin = FALSE]
  <2>1. r \in ClaimRec
    <3>1. [claim[c] EXCEPT !.fin = FALSE] \in ClaimRec
      BY <1>0 DEF ClaimRec
    <3> QED BY <3>1, GoneType DEF TypeInv
  <2>2. StoreClaim(c, r)
    BY <1>4 DEF StripFinalizer
  <2>3. spent' \in Counters
    BY <1>0, <1>4, SpentType DEF StripFinalizer
  <2> HIDE DEF r
  <2> QED BY <1>4, <2>1, <2>2, <2>3, TypeRequest
          DEF StripFinalizer, rgwVars, reqVars, localVars
<1> QED BY <1>1, <1>2, <1>3, <1>4 DEF User

(* The end of a reconcile resets the fields of the request. *)
LEMMA TypeEnd ==
    ASSUME EndReconcile
    PROVE  /\ pc' = "idle" /\ cur' = NoKey
           /\ obj' \in ClaimRec
           /\ cephUser' \in [Users -> Nat]
           /\ todo' \subseteq Users
           /\ sub' \in Users \cup {NoKey}
           /\ sum' \in Nat
BY NullTypes DEF EndReconcile

LEMMA TypeAround ==
    ASSUME TypeInv,
           Informer \/ CollectGarbage \/ Fail \/ Crash \/ Restart
    PROVE  TypeInv'
<1> USE DEF TypeInv, TypeOK, Active, apiVars, rgwVars, infVars, reqVars,
            localVars
<1>1. ASSUME NEW c \in Claims, Deliver(c)
      PROVE  TypeInv'
  <2>1. /\ Head(watch[c]) \in ClaimRec
        /\ Tail(watch[c]) \in Seq(ClaimRec)
    BY <1>1 DEF Deliver
  <2> QED BY <1>1, <2>1 DEF Deliver
<1>2. CASE DeliverQuota
  BY <1>2 DEF DeliverQuota
<1>3. ASSUME NEW n \in SecretNames, CollectSecret(n)
      PROVE  TypeInv'
  <2>1. Owners({secret[n]}) \subseteq Claims
    BY DEF Owners, SecretRec
  <2> QED BY <1>3, <2>1, NullTypes DEF CollectSecret
<1>4. CASE Fail
  <2>1. spent' \in Counters
    BY <1>4, SpentType DEF Fail
  <2>2. queue' \subseteq Claims
    BY <1>4 DEF Fail, Requeue
  <2> QED BY <1>4, <2>1, <2>2, TypeEnd DEF Fail, Requeue
<1>5. CASE Crash
  <2>1. spent' \in Counters
    BY <1>5, SpentType DEF Crash
  <2>2. watch' \in [Claims -> Seq(ClaimRec)]
    <3>1. <<>> \in Seq(ClaimRec)
      OBVIOUS
    <3> QED BY <1>5, <3>1 DEF Crash
  <2> QED BY <1>5, <2>1, <2>2, TypeEnd DEF Crash
<1>6. CASE Restart
  <2>1. Owners({secret[n] : n \in SecretNames}) \subseteq Claims
    BY DEF Owners, SecretRec
  <2> QED BY <1>6, <2>1 DEF Restart
<1> QED BY <1>1, <1>2, <1>3, <1>4, <1>5, <1>6 DEF Informer, CollectGarbage

LEMMA TypeReconcile ==
    ASSUME TypeInv, NEW c \in Claims, Reconcile(c)
    PROVE  TypeInv'
BY DEF Reconcile, Goto, TypeInv, TypeOK, Active, ProvisionSteps, CleanupSteps,
       apiVars, rgwVars, infVars, localVars

LEMMA TypeCephUser ==
    ASSUME TypeInv, EnsureCephUser \/ EnsureCephUserQuota
    PROVE  TypeInv'
<1>0. /\ cur \in Claims
      /\ ceph[cur] \in CephRec
      /\ obj.uid \in Nat /\ obj.spec.quota \in Nat
  BY DEF TypeInv, TypeOK, Active, ClaimRec, SpecRec, EnsureCephUser,
         EnsureCephUserQuota
<1>1. CASE EnsureCephUser
  <2> DEFINE keys == IF ceph[cur].exists
                       THEN ceph[cur].keys
                       ELSE [NoKeys EXCEPT ![Admin] = nextKey + 1]
             account == [exists |-> TRUE, for |-> obj.uid,
                         maxBuckets |-> obj.spec.quota,
                         quota |-> ceph[cur].quota,
                         subusers |-> ceph[cur].subusers, keys |-> keys]
  <2>1. keys \in [Users -> Nat]
    <3>1. ceph[cur].keys \in [Users -> Nat]
      BY <1>0 DEF CephRec
    <3>2. nextKey + 1 \in Nat
      BY DEF TypeInv, TypeOK
    <3>3. [NoKeys EXCEPT ![Admin] = nextKey + 1] \in [Users -> Nat]
      BY <3>2, NullTypes
    <3> QED BY <3>1, <3>3
  <2>2. account \in CephRec
    <3> HIDE DEF keys
    <3> QED BY <1>0, <2>1 DEF CephRec
  <2>3. ceph' = [ceph EXCEPT ![cur] = account] /\ nextKey' \in Nat
    BY <1>1 DEF EnsureCephUser, TypeInv, TypeOK
  <2> HIDE DEF account
  <2> QED BY <1>1, <2>2, <2>3
          DEF EnsureCephUser, Goto, TypeInv, TypeOK, Active, ProvisionSteps,
              apiVars, infVars, reqVars, localVars
<1>2. CASE EnsureCephUserQuota
  <2>1. [ceph[cur] EXCEPT !.quota = obj.spec.quota] \in CephRec
    BY <1>0 DEF CephRec
  <2> QED BY <1>2, <2>1
          DEF EnsureCephUserQuota, Goto, TypeInv, TypeOK, Active,
              ProvisionSteps, apiVars, infVars, reqVars, localVars
<1> QED BY <1>1, <1>2

LEMMA TypeSubusers ==
    ASSUME TypeInv, NEW s \in Users, GenerateSubuser(s) \/ RemoveSubuser(s)
    PROVE  TypeInv'
<1>0. /\ cur \in Claims
      /\ ceph[cur] \in CephRec
      /\ ceph[cur].keys \in [Users -> Nat]
      /\ ceph[cur].subusers \subseteq Users
      /\ nextKey + 1 \in Nat
  BY DEF TypeInv, TypeOK, Active, CephRec, GenerateSubuser, RemoveSubuser
<1>1. \A subs \in SUBSET Users, keys \in [Users -> Nat] :
        WithSubusers(ceph[cur], subs, keys) \in CephRec
  BY <1>0 DEF WithSubusers, CephRec
<1>2. CASE GenerateSubuser(s)
  <2> DEFINE account ==
        WithSubusers(ceph[cur], ceph[cur].subusers \cup {s},
                     [ceph[cur].keys EXCEPT ![s] = nextKey + 1])
  <2>1. account \in CephRec
    <3>1. [ceph[cur].keys EXCEPT ![s] = nextKey + 1] \in [Users -> Nat]
      BY <1>0
    <3> QED BY <1>0, <1>1, <3>1
  <2>2. ceph' = [ceph EXCEPT ![cur] = account]
    BY <1>2 DEF GenerateSubuser
  <2> HIDE DEF account
  <2> QED BY <1>0, <1>2, <2>1, <2>2
          DEF GenerateSubuser, TypeInv, TypeOK, Active, apiVars, infVars,
              reqVars
<1>3. CASE RemoveSubuser(s)
  <2> DEFINE account ==
        WithSubusers(ceph[cur], ceph[cur].subusers \ {s},
                     [ceph[cur].keys EXCEPT ![s] = 0])
  <2>1. account \in CephRec
    <3>1. [ceph[cur].keys EXCEPT ![s] = 0] \in [Users -> Nat]
      BY <1>0
    <3> QED BY <1>0, <1>1, <3>1
  <2>2. ceph' = [ceph EXCEPT ![cur] = account]
    BY <1>3 DEF RemoveSubuser
  <2> HIDE DEF account
  <2> QED BY <1>3, <2>1, <2>2
          DEF RemoveSubuser, Goto, TypeInv, TypeOK, Active, ProvisionSteps,
              apiVars, infVars, reqVars
<1> QED BY <1>2, <1>3

LEMMA TypeLoops ==
    ASSUME TypeInv,
           \/ GenerateSubuserAccess \/ RemoveSubuserSecret \/ SubusersSynced
           \/ RetrieveCephUser \/ SecretsEnsured
    PROVE  TypeInv'
<1> USE DEF TypeInv, TypeOK, Active, ProvisionSteps, Goto, apiVars, rgwVars,
            infVars, reqVars, localVars
<1>1. CASE GenerateSubuserAccess
  <2>1. /\ ceph[cur].subusers \subseteq Users
        /\ obj.spec.subusers \subseteq Users
    BY <1>1 DEF GenerateSubuserAccess, CephRec, ClaimRec, SpecRec, Users
  <2>2. todo' \subseteq Users
    BY <1>1, <2>1 DEF GenerateSubuserAccess, SubuserAccess, DesiredSubusers,
       Users
  <2> QED BY <1>1, <2>2 DEF GenerateSubuserAccess
<1>2. CASE RemoveSubuserSecret
  <2>1. \A n \in SecretNames : Owners({secret[n]}) \subseteq Claims
    BY DEF Owners, SecretRec
  <2>2. SubuserSecret[cur][sub] \in SecretNames
    BY <1>2, NamesAssumption DEF RemoveSubuserSecret
  <2>3. queue' \subseteq Claims
    BY <1>2, <2>1, <2>2 DEF RemoveSubuserSecret
  <2> QED BY <1>2, <2>3, NullTypes DEF RemoveSubuserSecret
<1>3. CASE SubusersSynced
  BY <1>3 DEF SubusersSynced
<1>4. CASE RetrieveCephUser
  <2>1. ceph[cur].keys \in [Users -> Nat]
    BY <1>4 DEF RetrieveCephUser, CephRec
  <2> QED BY <1>4, <2>1 DEF RetrieveCephUser
<1>5. CASE SecretsEnsured
  BY <1>5 DEF SecretsEnsured
<1> QED BY <1>1, <1>2, <1>3, <1>4, <1>5

LEMMA TypeEnsureSecret ==
    ASSUME TypeInv, pc # "idle", NEW n, NEW u \in Users,
           NEW next \in ProvisionSteps \ {"subuserSecret"},
           NEW rest \in SUBSET Users,
           EnsureSecret(n, u, next, rest),
           UNCHANGED <<claim, s3user, used, rgwVars, up, infVars, spent>>
    PROVE  TypeInv'
<1> DEFINE fresh == [exists |-> TRUE, key |-> cephUser[u], owner |-> cur,
                     uid |-> obj.uid]
<1>1. fresh \in SecretRec
  BY DEF TypeInv, TypeOK, Active, ClaimRec, SecretRec
<1>2. CASE Requeue /\ UNCHANGED secret
  BY <1>2, TypeEnd DEF Requeue, TypeInv, TypeOK, Active, rgwVars, infVars
<1>3. CASE /\ secret' = [secret EXCEPT ![n] = fresh]
           /\ queue' = IF secret[n] = fresh THEN queue ELSE queue \cup {cur}
           /\ todo' = rest
           /\ Goto(next)
           /\ UNCHANGED <<reqVars, cephUser, sub, sum>>
  <2> HIDE DEF fresh
  <2> QED BY <1>1, <1>3
          DEF Goto, TypeInv, TypeOK, Active, rgwVars, infVars, reqVars
<1> QED BY <1>2, <1>3 DEF EnsureSecret

LEMMA TypeSecrets ==
    ASSUME TypeInv,
           \/ EnsureAdminSecret \/ EnsureReadonlySecret
           \/ \E s \in Users : EnsureSubuserSecret(s)
    PROVE  TypeInv'
<1>1. CASE EnsureAdminSecret
  <2>1. Admin \in Users
    BY DEF Users
  <2> QED BY <1>1, <2>1, TypeEnsureSecret
          DEF EnsureAdminSecret, ProvisionSteps
<1>2. CASE EnsureReadonlySecret
  <2>1. Readonly \in Users /\ obj.spec.subusers \subseteq Users
    BY DEF Users, TypeInv, TypeOK, ClaimRec, SpecRec
  <2> QED BY <1>2, <2>1, TypeEnsureSecret
          DEF EnsureReadonlySecret, ProvisionSteps
<1>3. ASSUME NEW s \in Users, EnsureSubuserSecret(s)
      PROVE  TypeInv'
  <2>1. todo \ {s} \in SUBSET Users
    BY DEF TypeInv, TypeOK
  <2> QED BY <1>3, <2>1, TypeEnsureSecret
          DEF EnsureSubuserSecret, ProvisionSteps
<1> QED BY <1>1, <1>2, <1>3

LEMMA TypeS3User ==
    ASSUME TypeInv, EnsureS3User \/ RemoveS3User \/ RemoveCephUser
    PROVE  TypeInv'
<1> USE NullTypes DEF Goto, TypeInv, TypeOK, Active, ProvisionSteps,
    CleanupSteps, QuotaSteps, apiVars, rgwVars, infVars, reqVars, localVars
<1>1. CASE EnsureS3User
  <2> DEFINE fresh == [exists |-> TRUE, uid |-> obj.uid, rv |-> obj.rv,
                       quota |-> obj.spec.quota]
  <2>1. fresh \in S3UserRec
    BY DEF ClaimRec, SpecRec, S3UserRec
  <2>2. /\ s3user' = [s3user EXCEPT ![cur] = fresh]
        /\ queue' \subseteq Claims
    BY <1>1 DEF EnsureS3User
  <2> HIDE DEF fresh
  <2> QED BY <1>1, <2>1, <2>2 DEF EnsureS3User
<1>2. CASE RemoveS3User
  BY <1>2 DEF RemoveS3User
<1>3. CASE RemoveCephUser
  BY <1>3 DEF RemoveCephUser
<1> QED BY <1>1, <1>2, <1>3

(* What a set of claims is given is a number. *)
LEMMA UsedType ==
    ASSUME TypeOK, NEW S \in SUBSET Claims
    PROVE  /\ IsFiniteSet(S)
           /\ \A d \in S : Quota[d] \in Nat
           /\ SumFunctionOnSet(Quota, S) \in Nat
<1>1. IsFiniteSet(S)
  BY ClaimsAssumption, FS_Subset
<1>2. \A d \in S : Quota[d] \in Nat
  BY DEF Quota, TypeOK, ClaimRec, SpecRec
<1> QED BY <1>1, <1>2, SumType

LEMMA TypeQuota ==
    ASSUME TypeInv, SumNamespaceUsedQuota \/ UpdateNamespaceQuotaStatus
    PROVE  TypeInv'
<1> USE DEF Goto, TypeInv, TypeOK, Active, ProvisionSteps, CleanupSteps,
    QuotaSteps, apiVars, rgwVars, infVars, reqVars, localVars
<1>1. CASE SumNamespaceUsedQuota
  <2>1. NamespaceUsedQuota \in Nat
    <3>1. obj.spec.quota \in Nat
      BY DEF ClaimRec, SpecRec
    <3>2. /\ SumFunctionOnSet(Quota, Claims) \in Nat
          /\ SumFunctionOnSet(Quota, Claims \ {cur}) \in Nat
      BY UsedType
    <3> QED BY <3>1, <3>2 DEF NamespaceUsedQuota
  <2> QED BY <1>1, <2>1 DEF SumNamespaceUsedQuota
<1>2. CASE UpdateNamespaceQuotaStatus
  BY <1>2, TypeEnd DEF UpdateNamespaceQuotaStatus, Requeue
<1> QED BY <1>1, <1>2

LEMMA TypeClaimWrites ==
    ASSUME TypeInv,
           \/ UpdateS3UserClaimStatus \/ AddCleanupFinalizer
           \/ RemoveCleanupFinalizer
    PROVE  TypeInv'
<1>0. /\ cur \in Claims
      /\ obj \in ClaimRec
  BY DEF TypeInv, TypeOK, Active, UpdateS3UserClaimStatus,
         AddCleanupFinalizer, RemoveCleanupFinalizer
<1> USE DEF Goto, TypeInv, TypeOK, Active, ProvisionSteps, CleanupSteps,
    QuotaSteps, rgwVars, reqVars, localVars
<1>1. CASE UpdateS3UserClaimStatus
  <2> DEFINE r == [obj EXCEPT !.status = StatusFor(obj.spec)]
  <2>1. r \in ClaimRec
    <3>1. StatusFor(obj.spec) \in StatusRec
      BY <1>0 DEF StatusFor, StatusRec, ClaimRec, SpecRec
    <3> QED BY <1>0, <3>1 DEF ClaimRec
  <2>2. CASE /\ obj.status = StatusFor(obj.spec)
             /\ Goto("sumUsed")
             /\ UNCHANGED <<claim, watch, queue, reqVars, localVars>>
    BY <1>1, <2>2 DEF UpdateS3UserClaimStatus
  <2>3. CASE /\ StoreClaim(cur, r)
             /\ obj' = NewVersion(cur, r)
             /\ Goto("sumUsed")
             /\ UNCHANGED <<queue, cur, localVars>>
    <3> HIDE DEF r
    <3> QED BY <1>0, <1>1, <2>1, <2>3, StoreClaimType
            DEF UpdateS3UserClaimStatus
  <2>4. CASE Requeue /\ UNCHANGED <<claim, watch>>
    BY <1>0, <1>1, <2>4, TypeEnd DEF UpdateS3UserClaimStatus, Requeue
  <2> QED BY <1>1, <2>2, <2>3, <2>4 DEF UpdateS3UserClaimStatus
<1>2. CASE AddCleanupFinalizer
  <2> DEFINE r == [obj EXCEPT !.fin = TRUE]
  <2>1. r \in ClaimRec
    BY <1>0 DEF ClaimRec
  <2>2. CASE EndReconcile /\ UNCHANGED <<claim, watch, queue>>
    BY <1>2, <2>2, TypeEnd DEF AddCleanupFinalizer
  <2>3. CASE StoreClaim(cur, r) /\ EndReconcile /\ UNCHANGED queue
    <3> HIDE DEF r
    <3> QED BY <1>0, <1>2, <2>1, <2>3, TypeEnd, StoreClaimType
            DEF AddCleanupFinalizer
  <2>4. CASE Requeue /\ UNCHANGED <<claim, watch>>
    BY <1>0, <1>2, <2>4, TypeEnd DEF AddCleanupFinalizer, Requeue
  <2> QED BY <1>2, <2>2, <2>3, <2>4 DEF AddCleanupFinalizer
<1>3. CASE RemoveCleanupFinalizer
  <2>1. Gone(cur) \in ClaimRec
    BY <1>0, GoneType
  <2>2. CASE EndReconcile /\ UNCHANGED <<claim, watch, queue>>
    BY <1>3, <2>2, TypeEnd DEF RemoveCleanupFinalizer
  <2>3. CASE StoreClaim(cur, Gone(cur)) /\ EndReconcile /\ UNCHANGED queue
    BY <1>0, <1>3, <2>1, <2>3, TypeEnd, StoreClaimType
       DEF RemoveCleanupFinalizer
  <2>4. CASE Requeue /\ UNCHANGED <<claim, watch>>
    BY <1>0, <1>3, <2>4, TypeEnd DEF RemoveCleanupFinalizer, Requeue
  <2> QED BY <1>3, <2>2, <2>3, <2>4 DEF RemoveCleanupFinalizer
<1> QED BY <1>1, <1>2, <1>3

LEMMA TypeStep == TypeInv /\ [Next]_vars => TypeInv'
<1> SUFFICES ASSUME TypeInv, [Next]_vars
             PROVE  TypeInv'
  OBVIOUS
<1>1. CASE \E c \in Claims : User(c)
  BY <1>1, TypeUser
<1>2. CASE \E c \in Claims : Reconcile(c)
  BY <1>2, TypeReconcile
<1>3. CASE Provision
  BY <1>3, TypeCephUser, TypeSubusers, TypeLoops, TypeSecrets, TypeS3User,
     TypeClaimWrites DEF Provision
<1>4. CASE Cleanup
  BY <1>4, TypeS3User, TypeClaimWrites DEF Cleanup
<1>5. CASE UpdateQuota
  BY <1>5, TypeQuota DEF UpdateQuota
<1>6. CASE Informer \/ CollectGarbage \/ Fail \/ Crash \/ Restart
  BY <1>6, TypeAround
<1>7. CASE UNCHANGED vars
  BY <1>7 DEF vars, TypeInv, TypeOK, Active
<1> QED BY <1>1, <1>2, <1>3, <1>4, <1>5, <1>6, <1>7 DEF Next, Worker

(* Every variable keeps its type and a request in progress is always known. *)
THEOREM TypeCorrect == Spec => [](TypeOK /\ Active)
<1>1. Init => TypeInv
  BY TypeInit
<1>2. TypeInv /\ [Next]_vars => TypeInv'
  BY TypeStep
<1> QED BY <1>1, <1>2, PTL DEF Spec, TypeInv

-----------------------------------------------------------------------------
(* Versions. *)

LEMMA OlderSelf ==
    ASSUME NEW a \in ClaimRec
    PROVE  Older(a, a)
BY DEF Older, Advances, ClaimRec

LEMMA OlderStep ==
    ASSUME NEW a \in ClaimRec, NEW b \in ClaimRec, NEW d \in ClaimRec,
           Older(a, b), Advances(b, d), d.rv = b.rv + 1
    PROVE  Older(a, d)
BY DEF Older, Advances, ClaimRec

LEMMA NewVersionFields ==
    ASSUME NEW c, NEW r \in ClaimRec
    PROVE  /\ NewVersion(c, r).rv = claim[c].rv + 1
           /\ NewVersion(c, r).uid = r.uid
           /\ NewVersion(c, r).state = r.state
BY DEF NewVersion, ClaimRec

(* A claim is written only to advance. *)
Written(c, r) == /\ StoreClaim(c, r)
                 /\ Advances(claim[c], r)
                 /\ UNCHANGED <<cache, up>>

LEMMA WrittenVersion ==
    ASSUME TypeInv, NEW c \in Claims, NEW r \in ClaimRec, Written(c, r)
    PROVE  /\ NewVersion(c, r) \in ClaimRec
           /\ claim[c] \in ClaimRec
           /\ claim' = [claim EXCEPT ![c] = NewVersion(c, r)]
           /\ \A a \in ClaimRec :
                Older(a, claim[c]) => Older(a, NewVersion(c, r))
<1>1. NewVersion(c, r) \in ClaimRec /\ claim[c] \in ClaimRec
  BY StoreClaimType DEF Written, TypeInv, TypeOK
<1>2. /\ NewVersion(c, r).rv = claim[c].rv + 1
      /\ Advances(claim[c], NewVersion(c, r))
  BY NewVersionFields DEF Written, Advances
<1> QED BY <1>1, <1>2, OlderStep DEF Written, StoreClaim

LEMMA CopiesWritten ==
    ASSUME TypeInv, CopiesInv, NEW c \in Claims, NEW r \in ClaimRec,
           Written(c, r)
    PROVE  CopiesInv'
<1> DEFINE n == NewVersion(c, r)
<1>1. /\ n \in ClaimRec
      /\ claim' = [claim EXCEPT ![c] = n]
      /\ claim'[c] = n
      /\ \A a \in ClaimRec : Older(a, claim[c]) => Older(a, n)
  BY WrittenVersion DEF TypeInv, TypeOK
<1>2. cache' = cache /\ up' = up
  BY DEF Written
<1>3. cache[c] \in ClaimRec /\ Older(cache[c], n)
  BY <1>1 DEF CopiesInv, TypeInv, TypeOK
<1>4. ASSUME NEW d \in Claims
      PROVE  Older(cache'[d], claim'[d])
  BY <1>1, <1>2, <1>3 DEF CopiesInv, TypeInv, TypeOK
<1>5. watch' = IF up THEN [watch EXCEPT ![c] = Append(@, n)] ELSE watch
  BY DEF Written, StoreClaim
<1> HIDE DEF n
<1>6. ASSUME NEW d \in Claims, NEW i \in 1 .. Len(watch'[d])
      PROVE  /\ Older(watch'[d][i], claim'[d])
             /\ cache'[d].uid <= watch'[d][i].uid
             /\ \A j \in 1 .. Len(watch'[d]) :
                  i <= j => watch'[d][i].uid <= watch'[d][j].uid
  <2>1. CASE watch'[d] = watch[d]
    <3>1. watch[d][i] \in ClaimRec
      BY <1>6, <2>1 DEF TypeInv, TypeOK
    <3>2. Older(watch[d][i], claim'[d])
      BY <1>1, <1>6, <2>1, <3>1 DEF CopiesInv, TypeInv, TypeOK
    <3> QED BY <1>2, <1>6, <2>1, <3>2 DEF CopiesInv
  <2>2. CASE up /\ d = c /\ watch'[d] = Append(watch[c], n)
    <3>1. watch[c] \in Seq(ClaimRec)
      BY DEF TypeInv, TypeOK
    <3>2. Len(watch'[d]) = Len(watch[c]) + 1 /\ Len(watch[c]) \in Nat
      BY <1>1, <2>2, <3>1
    <3>3. \A k \in 1 .. Len(watch[c]) : /\ watch'[d][k] = watch[c][k]
                                        /\ watch[c][k] \in ClaimRec
                                        /\ Older(watch[c][k], claim[c])
                                        /\ Older(watch[c][k], n)
      BY <1>1, <2>2, <3>1 DEF CopiesInv
    <3>4. watch'[d][Len(watch[c]) + 1] = n
      BY <1>1, <2>2, <3>1
    <3>5. Older(n, n)
      BY <1>1, OlderSelf
    <3>6. \A k \in 1 .. Len(watch'[d]) :
            /\ watch'[d][k] \in ClaimRec /\ Older(watch'[d][k], n)
      <4> TAKE k \in 1 .. Len(watch'[d])
      <4>1. CASE k \in 1 .. Len(watch[c])
        BY <3>3, <4>1
      <4>2. CASE k = Len(watch[c]) + 1
        BY <1>1, <3>4, <3>5, <4>2
      <4> QED BY <3>2, <4>1, <4>2
    <3>7. \A a \in ClaimRec : Older(a, n) => a.uid <= n.uid
      BY <1>1 DEF Older, Advances, ClaimRec
    <3>8. cache'[d].uid <= watch'[d][i].uid
      BY <1>2, <1>3, <1>6, <2>2, <3>2, <3>3, <3>4, <3>7 DEF CopiesInv
    <3>9. ASSUME NEW j \in 1 .. Len(watch'[d]), i <= j
          PROVE  watch'[d][i].uid <= watch'[d][j].uid
      <4>1. CASE j \in 1 .. Len(watch[c])
        <5>1. i \in 1 .. Len(watch[c])
          BY <1>6, <3>2, <3>9, <4>1
        <5> QED BY <3>3, <3>9, <4>1, <5>1 DEF CopiesInv
      <4>2. CASE j = Len(watch[c]) + 1
        BY <1>6, <3>4, <3>6, <3>7, <4>2
      <4> QED BY <3>2, <3>9, <4>1, <4>2
    <3>10. Older(watch'[d][i], claim'[d])
      BY <1>1, <1>6, <2>2, <3>6
    <3> QED BY <3>8, <3>9, <3>10
  <2> QED BY <1>5, <2>1, <2>2 DEF TypeInv, TypeOK
<1>7. ~ up' => \A d \in Claims : watch'[d] = <<>>
  BY <1>2, <1>5 DEF CopiesInv
<1> QED BY <1>4, <1>6, <1>7 DEF CopiesInv

-----------------------------------------------------------------------------
(* Every step either leaves the claims and their copies alone, writes one    *)
(* claim, or moves copies.                                                  *)

LEMMA UserWrites ==
    ASSUME TypeInv, NEW c \in Claims, User(c)
    PROVE  \E r \in ClaimRec : Written(c, r)
<1>0. claim[c] \in ClaimRec /\ Gone(c) \in ClaimRec
  BY GoneType DEF TypeInv, TypeOK
<1>1. CASE CreateClaim(c)
  <2>1. PICK s \in SpecsOf[c] :
          StoreClaim(c, [state |-> "live", uid |-> claim[c].uid + 1,
                         rv |-> 0, spec |-> s, status |-> NoStatus,
                         fin |-> FALSE])
    BY <1>1 DEF CreateClaim
  <2> DEFINE r == [state |-> "live", uid |-> claim[c].uid + 1, rv |-> 0,
                   spec |-> s, status |-> NoStatus, fin |-> FALSE]
  <2>2. r \in ClaimRec
    BY <1>0, SpecsAssumption, NullTypes DEF ClaimRec
  <2>3. Advances(claim[c], r)
    BY <1>0 DEF Advances, ClaimRec
  <2> QED BY <1>1, <2>1, <2>2, <2>3 DEF CreateClaim, Written
<1>2. CASE EditClaim(c)
  <2>1. PICK s \in SpecsOf[c] : StoreClaim(c, [claim[c] EXCEPT !.spec = s])
    BY <1>2 DEF EditClaim
  <2> DEFINE r == [claim[c] EXCEPT !.spec = s]
  <2>2. r \in ClaimRec
    BY <1>0, SpecsAssumption DEF ClaimRec
  <2>3. Advances(claim[c], r)
    BY <1>0 DEF Advances, ClaimRec
  <2> QED BY <1>2, <2>1, <2>2, <2>3 DEF EditClaim, Written
<1>3. CASE DeleteClaim(c)
  <2> DEFINE r == IF claim[c].fin
                    THEN [claim[c] EXCEPT !.state = "terminating"]
                    ELSE Gone(c)
  <2>1. [claim[c] EXCEPT !.state = "terminating"] \in ClaimRec
    BY <1>0 DEF ClaimRec
  <2>2. Advances(claim[c], r)
    <3>1. r.uid = claim[c].uid /\ claim[c].state = "live"
      BY <1>0, <1>3 DEF DeleteClaim, Gone, NoObject, ClaimRec
    <3> QED BY <3>1 DEF Advances
  <2>3. r \in ClaimRec /\ StoreClaim(c, r)
    BY <1>0, <1>3, <2>1 DEF DeleteClaim
  <2> HIDE DEF r
  <2> QED BY <1>3, <2>2, <2>3 DEF DeleteClaim, Written
<1>4. CASE StripFinalizer(c)
  <2> DEFINE r == IF claim[c].state = "terminating"
                    THEN Gone(c)
                    ELSE [claim[c] EXCEPT !.fin = FALSE]
  <2>1. [claim[c] EXCEPT !.fin = FALSE] \in ClaimRec
    BY <1>0 DEF ClaimRec
  <2>2. Advances(claim[c], r)
    <3>1. /\ r.uid = claim[c].uid
          /\ r.state = claim[c].state \/ r.state = "absent"
          /\ claim[c].state = "terminating" \/ r.state = claim[c].state
      BY <1>0 DEF Gone, NoObject, ClaimRec
    <3>2. CASE claim[c].state = "terminating"
      <4>1. r.state = "absent"
        BY <3>2 DEF Gone, NoObject
      <4> QED BY <3>1, <4>1, <3>2 DEF Advances
    <3>3. CASE r.state = claim[c].state
      BY <3>1, <3>3 DEF Advances
    <3> QED BY <3>1, <3>2, <3>3
  <2>3. r \in ClaimRec /\ StoreClaim(c, r)
    BY <1>0, <1>4, <2>1 DEF StripFinalizer
  <2> HIDE DEF r
  <2> QED BY <1>4, <2>2, <2>3 DEF StripFinalizer, Written
<1> QED BY <1>1, <1>2, <1>3, <1>4 DEF User

(* An update that is accepted was made from the current version. *)
LEMMA AcceptedUpdate ==
    ASSUME SafetyInv, pc # "idle", UpToDate
    PROVE  obj = claim[cur] /\ cur \in Claims
BY DEF SafetyInv, TypeInv, Active, RequestInv, UpToDate, Older

LEMMA WorkerWrites ==
    ASSUME SafetyInv,
           \/ UpdateS3UserClaimStatus \/ AddCleanupFinalizer
           \/ RemoveCleanupFinalizer
    PROVE  \/ UNCHANGED <<claim, cache, watch, up>>
           \/ \E r \in ClaimRec : Written(cur, r)
<1>0. obj \in ClaimRec /\ cur \in Claims /\ pc # "idle"
  BY DEF SafetyInv, TypeInv, TypeOK, Active, UpdateS3UserClaimStatus,
         AddCleanupFinalizer, RemoveCleanupFinalizer
<1>1. CASE UpdateS3UserClaimStatus
  <2> DEFINE r == [obj EXCEPT !.status = StatusFor(obj.spec)]
  <2>1. CASE UpToDate /\ StoreClaim(cur, r)
    <3>1. StatusFor(obj.spec) \in StatusRec
      BY <1>0 DEF StatusFor, StatusRec, ClaimRec, SpecRec
    <3>2. r \in ClaimRec
      BY <1>0, <3>1 DEF ClaimRec
    <3>3. Advances(claim[cur], r)
      BY <1>0, <2>1, AcceptedUpdate DEF Advances, ClaimRec
    <3> QED BY <1>1, <2>1, <3>2, <3>3 DEF UpdateS3UserClaimStatus, Written
  <2> QED BY <1>1, <2>1 DEF UpdateS3UserClaimStatus
<1>2. CASE AddCleanupFinalizer
  <2> DEFINE r == [obj EXCEPT !.fin = TRUE]
  <2>1. CASE UpToDate /\ StoreClaim(cur, r)
    <3>1. r \in ClaimRec
      BY <1>0 DEF ClaimRec
    <3>2. Advances(claim[cur], r)
      BY <1>0, <2>1, AcceptedUpdate DEF Advances, ClaimRec
    <3> QED BY <1>2, <2>1, <3>1, <3>2 DEF AddCleanupFinalizer, Written
  <2> QED BY <1>2, <2>1 DEF AddCleanupFinalizer
<1>3. CASE RemoveCleanupFinalizer
  <2>1. CASE UpToDate /\ StoreClaim(cur, Gone(cur))
    <3>1. Gone(cur) \in ClaimRec
      BY <1>0, GoneType DEF SafetyInv, TypeInv
    <3>2. claim[cur].state # "live"
      BY <1>0, <1>3, <2>1, AcceptedUpdate
         DEF RemoveCleanupFinalizer, SafetyInv, RequestInv, CleanupSteps
    <3>3. Advances(claim[cur], Gone(cur))
      BY <3>2 DEF Advances, Gone, NoObject
    <3> QED BY <1>3, <2>1, <3>1, <3>3 DEF RemoveCleanupFinalizer, Written
  <2> QED BY <1>3, <2>1 DEF RemoveCleanupFinalizer
<1> QED BY <1>1, <1>2, <1>3

LEMMA StepKinds ==
    ASSUME SafetyInv, Next
    PROVE  \/ UNCHANGED <<claim, cache, watch, up>>
           \/ \E c \in Claims, r \in ClaimRec : Written(c, r)
           \/ \E c \in Claims : Deliver(c)
           \/ Crash
           \/ Restart
<1> USE DEF apiVars, infVars
<1>1. CASE \E c \in Claims : User(c)
  BY <1>1, UserWrites DEF SafetyInv
<1>2. CASE \E c \in Claims : Reconcile(c)
  BY <1>2 DEF Reconcile
<1>3. CASE UpdateS3UserClaimStatus \/ AddCleanupFinalizer
                                   \/ RemoveCleanupFinalizer
  <2>1. cur \in Claims
    BY <1>3 DEF SafetyInv, TypeInv, Active, UpdateS3UserClaimStatus,
       AddCleanupFinalizer, RemoveCleanupFinalizer
  <2> QED BY <1>3, <2>1, WorkerWrites
<1>4. CASE Provision /\ ~ UpdateS3UserClaimStatus /\ ~ AddCleanupFinalizer
  BY <1>4 DEF Provision, EnsureCephUser, EnsureCephUserQuota,
     GenerateSubuserAccess, GenerateSubuser, RemoveSubuser,
     RemoveSubuserSecret, SubusersSynced, RetrieveCephUser,
     EnsureAdminSecret, EnsureReadonlySecret, EnsureSubuserSecret,
     SecretsEnsured, EnsureS3User
<1>5. CASE RemoveCephUser \/ RemoveS3User
  BY <1>5 DEF RemoveCephUser, RemoveS3User
<1>6. CASE UpdateQuota
  BY <1>6 DEF UpdateQuota, SumNamespaceUsedQuota, UpdateNamespaceQuotaStatus
<1>7. CASE DeliverQuota \/ CollectGarbage \/ Fail
  BY <1>7 DEF DeliverQuota, CollectGarbage, CollectSecret, Fail
<1> QED BY <1>1, <1>2, <1>3, <1>4, <1>5, <1>6, <1>7
        DEF Next, Worker, Cleanup, Informer

-----------------------------------------------------------------------------
(* The copies. *)

LEMMA CopiesStep ==
    ASSUME SafetyInv, Next
    PROVE  CopiesInv'
<1>1. CASE UNCHANGED <<claim, cache, watch, up>>
  BY <1>1 DEF SafetyInv, CopiesInv
<1>2. CASE \E c \in Claims, r \in ClaimRec : Written(c, r)
  BY <1>2, CopiesWritten DEF SafetyInv
<1>3. ASSUME NEW c \in Claims, Deliver(c)
      PROVE  CopiesInv'
  <2>1. /\ watch[c] \in Seq(ClaimRec) /\ watch[c] # <<>>
        /\ 1 \in 1 .. Len(watch[c])
        /\ cache' = [cache EXCEPT ![c] = watch[c][1]]
        /\ watch' = [watch EXCEPT ![c] = Tail(watch[c])]
        /\ claim' = claim /\ up
        /\ up' = up
    BY <1>3 DEF Deliver, SafetyInv, TypeInv, TypeOK, apiVars
  <2>2. /\ Len(Tail(watch[c])) = Len(watch[c]) - 1
        /\ \A i \in 1 .. Len(Tail(watch[c])) :
             /\ Tail(watch[c])[i] = watch[c][i + 1]
             /\ i + 1 \in 1 .. Len(watch[c])
    BY <2>1
  <2>3. \A d \in Claims : Older(cache'[d], claim'[d])
    BY <2>1 DEF CopiesInv, SafetyInv, TypeInv, TypeOK
  <2>4. ASSUME NEW d \in Claims, NEW i \in 1 .. Len(watch'[d])
        PROVE  /\ Older(watch'[d][i], claim'[d])
               /\ cache'[d].uid <= watch'[d][i].uid
               /\ \A j \in 1 .. Len(watch'[d]) :
                    i <= j => watch'[d][i].uid <= watch'[d][j].uid
    <3>1. CASE d # c
      BY <2>1, <2>4, <3>1 DEF CopiesInv, SafetyInv, TypeInv, TypeOK
    <3>2. CASE d = c
      <4>1. watch'[d] = Tail(watch[c]) /\ cache'[d] = watch[c][1]
        BY <2>1, <3>2 DEF SafetyInv, TypeInv, TypeOK
      <4>2. /\ watch'[d][i] = watch[c][i + 1]
            /\ i + 1 \in 1 .. Len(watch[c]) /\ 1 <= i + 1
        BY <2>2, <2>4, <4>1
      <4>3. Older(watch'[d][i], claim'[d])
        BY <2>1, <3>2, <4>2 DEF CopiesInv, SafetyInv
      <4>4. cache'[d].uid <= watch'[d][i].uid
        BY <2>1, <4>1, <4>2 DEF CopiesInv, SafetyInv
      <4>5. ASSUME NEW j \in 1 .. Len(watch'[d]), i <= j
            PROVE  watch'[d][i].uid <= watch'[d][j].uid
        <5>1. /\ watch'[d][j] = watch[c][j + 1]
              /\ j + 1 \in 1 .. Len(watch[c]) /\ i + 1 <= j + 1
          BY <2>2, <2>4, <4>1, <4>5
        <5> QED BY <4>2, <5>1 DEF CopiesInv, SafetyInv
      <4> QED BY <4>3, <4>4, <4>5
    <3> QED BY <3>1, <3>2
  <2> QED BY <2>1, <2>3, <2>4 DEF CopiesInv
<1>4. CASE Crash
  <2>1. /\ \A c \in Claims : watch'[c] = <<>>
        /\ claim' = claim /\ cache' = cache
    BY <1>4 DEF Crash, apiVars
  <2>2. \A c \in Claims : 1 .. Len(watch'[c]) = {}
    BY <2>1
  <2> QED BY <2>1, <2>2 DEF CopiesInv, SafetyInv
<1>5. CASE Restart
  <2>1. /\ \A c \in Claims : watch'[c] = <<>>
        /\ claim' = claim /\ cache' = claim
    BY <1>5 DEF Restart, apiVars, SafetyInv, CopiesInv
  <2>2. \A c \in Claims : 1 .. Len(watch'[c]) = {}
    BY <2>1
  <2>3. \A c \in Claims : Older(cache'[c], claim'[c])
    BY <2>1, OlderSelf DEF SafetyInv, TypeInv, TypeOK
  <2> QED BY <2>1, <2>2, <2>3 DEF CopiesInv
<1> QED BY <1>1, <1>2, <1>3, <1>4, <1>5, StepKinds

LEMMA Monotone ==
    ASSUME SafetyInv, Next, NEW d \in Claims
    PROVE  /\ \A a \in ClaimRec : Older(a, claim[d]) => Older(a, claim'[d])
           /\ cache[d].uid \in Nat /\ cache'[d].uid \in Nat
           /\ cache[d].uid <= cache'[d].uid
<1>0. TypeInv'
  BY TypeStep DEF SafetyInv
<1>1. cache[d].uid \in Nat /\ cache'[d].uid \in Nat
  BY <1>0 DEF SafetyInv, TypeInv, TypeOK, ClaimRec
<1>2. CASE UNCHANGED <<claim, cache, watch, up>>
  BY <1>1, <1>2
<1>3. ASSUME NEW c \in Claims, NEW r \in ClaimRec, Written(c, r)
      PROVE  /\ \A a \in ClaimRec : Older(a, claim[d]) => Older(a, claim'[d])
             /\ cache[d].uid <= cache'[d].uid
  <2>1. /\ claim' = [claim EXCEPT ![c] = NewVersion(c, r)]
        /\ \A a \in ClaimRec :
             Older(a, claim[c]) => Older(a, NewVersion(c, r))
    BY <1>3, WrittenVersion DEF SafetyInv
  <2>2. claim'[d] = IF d = c THEN NewVersion(c, r) ELSE claim[d]
    BY <2>1 DEF SafetyInv, TypeInv, TypeOK
  <2>3. cache' = cache
    BY <1>3 DEF Written
  <2> QED BY <1>1, <2>1, <2>2, <2>3
<1>4. ASSUME NEW c \in Claims, Deliver(c)
      PROVE  /\ claim' = claim
             /\ cache[d].uid <= cache'[d].uid
  <2>1. /\ watch[c] \in Seq(ClaimRec) /\ watch[c] # <<>>
        /\ 1 \in 1 .. Len(watch[c])
        /\ cache' = [cache EXCEPT ![c] = watch[c][1]]
        /\ claim' = claim
    BY <1>4 DEF Deliver, SafetyInv, TypeInv, TypeOK, apiVars
  <2> QED BY <1>1, <2>1 DEF SafetyInv, CopiesInv, TypeInv, TypeOK
<1>5. CASE Crash
  BY <1>1, <1>5 DEF Crash, apiVars
<1>6. CASE Restart
  <2>1. cache[d].uid <= claim[d].uid
    <3>1. /\ Older(cache[d], claim[d])
          /\ cache[d] \in ClaimRec /\ claim[d] \in ClaimRec
      BY DEF SafetyInv, CopiesInv, TypeInv, TypeOK
    <3> QED BY <3>1 DEF Older, Advances, ClaimRec
  <2> QED BY <1>1, <1>6, <2>1 DEF Restart, apiVars
<1> QED BY <1>1, <1>2, <1>3, <1>4, <1>5, <1>6, StepKinds

-----------------------------------------------------------------------------
(* The request. *)

(* The steps of the worker after the first. *)
WorkerStep == Provision \/ Cleanup \/ UpdateQuota

(* What a step does to the request. *)
LEMMA RequestKinds ==
    ASSUME SafetyInv, Next
    PROVE  \/ pc' = "idle"
           \/ UNCHANGED <<pc, cur, obj>>
           \/ WorkerStep /\ UNCHANGED <<cur, obj>> /\ pc # "idle"
           \/ /\ WorkerStep /\ pc = "status" /\ pc' = "sumUsed" /\ cur' = cur
              /\ obj' = claim'[cur] /\ obj'.uid = obj.uid
              /\ obj'.state = obj.state
           \/ \E c \in Claims : Reconcile(c)
<1> USE DEF reqVars, EndReconcile, Requeue, WorkerStep
<1>1. CASE \E c \in Claims : User(c)
  BY <1>1 DEF User, CreateClaim, EditClaim, DeleteClaim, StripFinalizer
<1>2. CASE UpdateS3UserClaimStatus
  <2> DEFINE r == [obj EXCEPT !.status = StatusFor(obj.spec)]
  <2>0. /\ cur \in Claims /\ r.uid = obj.uid /\ r.state = obj.state
        /\ r \in ClaimRec
    <3>1. StatusFor(obj.spec) \in StatusRec
      BY DEF StatusFor, StatusRec, ClaimRec, SpecRec, SafetyInv, TypeInv,
         TypeOK
    <3> QED BY <1>2, <3>1 DEF UpdateS3UserClaimStatus, SafetyInv, TypeInv,
            TypeOK, Active, ClaimRec
  <2>1. CASE /\ StoreClaim(cur, r) /\ obj' = NewVersion(cur, r)
             /\ Goto("sumUsed") /\ UNCHANGED cur
    <3> HIDE DEF r
    <3>1. obj' = claim'[cur]
      BY <2>0, <2>1 DEF StoreClaim, SafetyInv, TypeInv, TypeOK
    <3>2. obj'.uid = r.uid /\ obj'.state = r.state
      BY <2>0, <2>1, NewVersionFields
    <3> QED BY <1>2, <2>0, <2>1, <3>1, <3>2
            DEF Goto, UpdateS3UserClaimStatus, Provision
  <2> QED BY <1>2, <2>1 DEF UpdateS3UserClaimStatus, Provision
<1>3. CASE Provision /\ ~ UpdateS3UserClaimStatus
  BY <1>3 DEF Provision, EnsureCephUser, EnsureCephUserQuota,
     GenerateSubuserAccess, GenerateSubuser, RemoveSubuser,
     RemoveSubuserSecret, SubusersSynced, RetrieveCephUser,
     EnsureAdminSecret, EnsureReadonlySecret, EnsureSubuserSecret,
     EnsureSecret, SecretsEnsured, EnsureS3User, AddCleanupFinalizer
<1>4. CASE Cleanup
  BY <1>4 DEF Cleanup, RemoveCephUser, RemoveS3User, RemoveCleanupFinalizer
<1>5. CASE UpdateQuota
  BY <1>5 DEF UpdateQuota, SumNamespaceUsedQuota, UpdateNamespaceQuotaStatus
<1>6. CASE Informer \/ CollectGarbage \/ Restart
  BY <1>6 DEF Informer, Deliver, DeliverQuota, CollectGarbage, CollectSecret,
     Restart
<1>7. CASE Fail \/ Crash
  BY <1>7 DEF Fail, Crash
<1> QED BY <1>1, <1>2, <1>3, <1>4, <1>5, <1>6, <1>7 DEF Next, Worker

(* Provision reconciles a live claim, Cleanup any other. *)
LEMMA PhaseStep ==
    ASSUME SafetyInv, Next
    PROVE  /\ (pc \in ProvisionSteps)' => obj'.state = "live"
           /\ (pc \in CleanupSteps)' => obj'.state # "live"
<1> USE DEF ProvisionSteps, CleanupSteps, SafetyInv, RequestInv
<1>1. CASE pc' = "idle"
  BY <1>1
<1>2. CASE UNCHANGED <<pc, cur, obj>>
  BY <1>2
<1>3. CASE pc' = "sumUsed"
  BY <1>3
<1>4. CASE \E c \in Claims : Reconcile(c)
  BY <1>4 DEF Reconcile, Goto
<1>5. CASE WorkerStep /\ UNCHANGED <<cur, obj>> /\ pc # "idle"
  <2>1. CASE Provision
    <3>1. pc \in ProvisionSteps
      BY <2>1 DEF Provision, EnsureCephUser, EnsureCephUserQuota,
         GenerateSubuserAccess, GenerateSubuser, RemoveSubuser,
         RemoveSubuserSecret, SubusersSynced, RetrieveCephUser,
         EnsureAdminSecret, EnsureReadonlySecret, EnsureSubuserSecret,
         SecretsEnsured, EnsureS3User, UpdateS3UserClaimStatus,
         AddCleanupFinalizer
    <3>2. pc' \notin CleanupSteps
      BY <2>1 DEF Goto, Requeue, EndReconcile, EnsureSecret,
         Provision, EnsureCephUser, EnsureCephUserQuota,
         GenerateSubuserAccess, GenerateSubuser, RemoveSubuser,
         RemoveSubuserSecret, SubusersSynced, RetrieveCephUser,
         EnsureAdminSecret, EnsureReadonlySecret, EnsureSubuserSecret,
         SecretsEnsured, EnsureS3User, UpdateS3UserClaimStatus,
         AddCleanupFinalizer
    <3> QED BY <1>5, <3>1, <3>2
  <2>2. CASE Cleanup
    <3>1. pc \in CleanupSteps /\ pc' \notin ProvisionSteps
      BY <2>2 DEF Goto, Requeue, EndReconcile, Cleanup, RemoveCephUser,
         RemoveS3User, RemoveCleanupFinalizer
    <3> QED BY <1>5, <3>1
  <2>3. CASE UpdateQuota
    BY <1>5, <2>3 DEF Goto, Requeue, EndReconcile, UpdateQuota,
       SumNamespaceUsedQuota, UpdateNamespaceQuotaStatus
  <2> QED BY <1>5, <2>1, <2>2, <2>3 DEF WorkerStep
<1> QED BY <1>1, <1>2, <1>3, <1>4, <1>5, RequestKinds

LEMMA RequestStep ==
    ASSUME SafetyInv, Next
    PROVE  RequestInv'
<1>0. TypeInv'
  BY TypeStep DEF SafetyInv
<1>1. CASE pc' = "idle"
  BY <1>1, PhaseStep DEF RequestInv
<1>2. CASE pc # "idle" /\ UNCHANGED <<cur, obj>>
  <2>1. cur \in Claims /\ obj \in ClaimRec /\ obj.uid \in Nat
    BY <1>2 DEF SafetyInv, TypeInv, TypeOK, Active, ClaimRec
  <2>2. Older(obj, claim'[cur]) /\ obj.uid <= cache'[cur].uid
    BY <1>2, <2>1, Monotone DEF SafetyInv, RequestInv
  <2> QED BY <1>2, <2>2, PhaseStep DEF RequestInv
<1>3. CASE /\ pc = "status" /\ cur' = cur
           /\ obj' = claim'[cur] /\ obj'.uid = obj.uid
  <2>1. cur \in Claims /\ obj.uid \in Nat /\ claim'[cur] \in ClaimRec
    BY <1>0, <1>3 DEF SafetyInv, TypeInv, TypeOK, Active, ClaimRec
  <2>2. Older(obj', claim'[cur])
    BY <1>3, <2>1, OlderSelf
  <2>3. obj.uid <= cache'[cur].uid
    BY <1>3, <2>1, Monotone DEF SafetyInv, RequestInv
  <2> QED BY <1>3, <2>2, <2>3, PhaseStep DEF RequestInv
<1>4. ASSUME NEW c \in Claims, Reconcile(c)
      PROVE  RequestInv'
  <2>1. /\ cur' = c /\ obj' = cache[c] /\ claim' = claim
        /\ cache' = cache
    BY <1>4 DEF Reconcile, apiVars, infVars
  <2>2. Older(cache[c], claim[c]) /\ cache[c].uid \in Nat
    BY DEF SafetyInv, CopiesInv, TypeInv, TypeOK, ClaimRec
  <2> QED BY <2>1, <2>2, PhaseStep DEF RequestInv
<1> QED BY <1>1, <1>2, <1>3, <1>4, RequestKinds

-----------------------------------------------------------------------------
(* The accounts. *)

(* The steps that write an account. *)
AccountWrite ==
    \/ EnsureCephUser \/ EnsureCephUserQuota \/ RemoveCephUser
    \/ \E s \in Users : GenerateSubuser(s) \/ RemoveSubuser(s)

LEMMA AccountsKept ==
    ASSUME Next, ~ AccountWrite
    PROVE  ceph' = ceph
<1> USE DEF rgwVars, AccountWrite
<1>1. CASE \E c \in Claims : User(c)
  BY <1>1 DEF User, CreateClaim, EditClaim, DeleteClaim, StripFinalizer
<1>2. CASE \E c \in Claims : Reconcile(c)
  BY <1>2 DEF Reconcile
<1>3. CASE Provision
  BY <1>3 DEF Provision, GenerateSubuserAccess, RemoveSubuserSecret,
     SubusersSynced, RetrieveCephUser, EnsureAdminSecret,
     EnsureReadonlySecret, EnsureSubuserSecret, SecretsEnsured, EnsureS3User,
     UpdateS3UserClaimStatus, AddCleanupFinalizer
<1>4. CASE Cleanup
  BY <1>4 DEF Cleanup, RemoveS3User, RemoveCleanupFinalizer
<1>5. CASE UpdateQuota
  BY <1>5 DEF UpdateQuota, SumNamespaceUsedQuota, UpdateNamespaceQuotaStatus
<1>6. CASE Informer \/ CollectGarbage \/ Fail \/ Crash \/ Restart
  BY <1>6 DEF Informer, Deliver, DeliverQuota, CollectGarbage, CollectSecret,
     Fail, Crash, Restart
<1> QED BY <1>1, <1>2, <1>3, <1>4, <1>5, <1>6 DEF Next, Worker

(* The steps that write a Secret. *)
SecretAction ==
    \/ EnsureAdminSecret \/ EnsureReadonlySecret \/ RemoveSubuserSecret
    \/ \E s \in Users : EnsureSubuserSecret(s)
    \/ \E n \in SecretNames : CollectSecret(n)

LEMMA SecretsKept ==
    ASSUME Next, ~ SecretAction
    PROVE  secret' = secret
<1> USE DEF apiVars, SecretAction
<1>1. CASE \E c \in Claims : User(c)
  BY <1>1 DEF User, CreateClaim, EditClaim, DeleteClaim, StripFinalizer
<1>2. CASE \E c \in Claims : Reconcile(c)
  BY <1>2 DEF Reconcile
<1>3. CASE Provision
  BY <1>3 DEF Provision, EnsureCephUser, EnsureCephUserQuota,
     GenerateSubuserAccess, GenerateSubuser, RemoveSubuser, SubusersSynced,
     RetrieveCephUser, SecretsEnsured, EnsureS3User, UpdateS3UserClaimStatus,
     AddCleanupFinalizer
<1>4. CASE Cleanup \/ UpdateQuota
  BY <1>4 DEF Cleanup, RemoveCephUser, RemoveS3User, RemoveCleanupFinalizer,
     UpdateQuota, SumNamespaceUsedQuota, UpdateNamespaceQuotaStatus
<1>5. CASE Informer \/ CollectGarbage \/ Fail \/ Crash \/ Restart
  BY <1>5 DEF Informer, Deliver, DeliverQuota, CollectGarbage, Fail, Crash,
     Restart
<1> QED BY <1>1, <1>2, <1>3, <1>4, <1>5 DEF Next, Worker

(* What a write may do to the account of the request. *)
LEMMA AccountWrites ==
    ASSUME SafetyInv, AccountWrite
    PROVE  /\ cur \in Claims /\ pc # "idle" /\ obj' = obj /\ cur' = cur
           /\ \A c \in Claims \ {cur} : ceph'[c] = ceph[c]
           /\ ceph'[cur].for <= obj.uid
           /\ Admin \notin ceph'[cur].subusers
           /\ ~ ceph'[cur].exists => /\ ceph'[cur].keys[Admin] = 0
                                     /\ ceph'[cur].keys[Readonly] = 0
           /\ Readonly \notin ceph'[cur].subusers =>
                ceph'[cur].keys[Readonly] = 0
           /\ ceph[cur].exists /\ ~ RemoveCephUser =>
                \A u \in {Admin, Readonly} :
                  ceph[cur].keys[u] # 0 => ceph'[cur].keys[u] = ceph[cur].keys[u]
           /\ ~ RemoveCephUser => ceph'[cur].exists
           /\ RemoveCephUser => ~ ceph'[cur].exists
<1>0. /\ cur \in Claims /\ pc # "idle" /\ obj' = obj /\ cur' = cur
      /\ pc \in ProvisionSteps \/ RemoveCephUser
  BY DEF AccountWrite, EnsureCephUser, EnsureCephUserQuota, GenerateSubuser,
     RemoveSubuser, RemoveCephUser, SafetyInv, TypeInv, Active, reqVars,
     ProvisionSteps
<1>1. /\ ceph \in [Claims -> CephRec]
      /\ ceph[cur] \in CephRec
      /\ ceph[cur].keys \in [Users -> Nat]
      /\ obj.uid \in Nat
      /\ Admin \in Users /\ Readonly \in Users /\ Admin # Readonly
  BY <1>0, NamesAssumption
     DEF SafetyInv, TypeInv, TypeOK, CephRec, ClaimRec, Users
<1>2. /\ ceph[cur].for <= obj.uid
      /\ Admin \notin ceph[cur].subusers
      /\ ~ ceph[cur].exists => /\ ceph[cur].keys[Admin] = 0
                               /\ ceph[cur].keys[Readonly] = 0
      /\ Readonly \notin ceph[cur].subusers => ceph[cur].keys[Readonly] = 0
  BY <1>0 DEF SafetyInv, AccountInv, ProgressInv
<1>3. CASE EnsureCephUser
  <2>1. pc = "cephUser" /\ pc' = "cephQuota"
    BY <1>3 DEF EnsureCephUser, Goto
  <2>2. /\ ceph'[cur].exists /\ ceph'[cur].for = obj.uid
        /\ ceph'[cur].subusers = ceph[cur].subusers
        /\ ceph'[cur].keys = IF ceph[cur].exists
                               THEN ceph[cur].keys
                               ELSE [NoKeys EXCEPT ![Admin] = nextKey + 1]
        /\ \A c \in Claims \ {cur} : ceph'[c] = ceph[c]
    BY <1>0, <1>1, <1>3 DEF EnsureCephUser
  <2>3. [NoKeys EXCEPT ![Admin] = nextKey + 1][Readonly] = 0
    BY <1>1 DEF NoKeys
  <2>4. ~ RemoveCephUser
    BY <2>1 DEF RemoveCephUser
  <2> QED BY <1>0, <1>1, <1>2, <2>2, <2>3, <2>4
<1>4. CASE EnsureCephUserQuota
  <2>1. /\ ceph'[cur].exists = ceph[cur].exists
        /\ ceph'[cur].for = ceph[cur].for
        /\ ceph'[cur].subusers = ceph[cur].subusers
        /\ ceph'[cur].keys = ceph[cur].keys
        /\ \A c \in Claims \ {cur} : ceph'[c] = ceph[c]
    BY <1>0, <1>1, <1>4 DEF EnsureCephUserQuota, CephRec
  <2>2. ~ RemoveCephUser /\ ceph[cur].exists
    BY <1>4 DEF RemoveCephUser, EnsureCephUserQuota, SafetyInv, ProgressInv
  <2> QED BY <1>0, <1>2, <2>1, <2>2
<1>5. ASSUME NEW s \in Users, GenerateSubuser(s)
      PROVE  /\ \A c \in Claims \ {cur} : ceph'[c] = ceph[c]
             /\ ceph'[cur].exists = ceph[cur].exists
             /\ ceph'[cur].for = ceph[cur].for
             /\ Admin \notin ceph'[cur].subusers
             /\ Readonly \notin ceph'[cur].subusers =>
                  ceph'[cur].keys[Readonly] = 0
             /\ \A u \in {Admin, Readonly} :
                  ceph[cur].keys[u] # 0 => ceph'[cur].keys[u] = ceph[cur].keys[u]
             /\ ceph[cur].exists /\ ~ RemoveCephUser
  <2>1. /\ \A c \in Claims \ {cur} : ceph'[c] = ceph[c]
        /\ ceph'[cur].exists = ceph[cur].exists
        /\ ceph'[cur].for = ceph[cur].for
        /\ ceph'[cur].subusers = ceph[cur].subusers \cup {s}
        /\ ceph'[cur].keys = [ceph[cur].keys EXCEPT ![s] = nextKey + 1]
    BY <1>0, <1>1, <1>5 DEF GenerateSubuser, WithSubusers
  <2>2. /\ s \in todo /\ s # Admin
        /\ s = Readonly => ceph[cur].keys[Readonly] = 0
        /\ ceph[cur].exists
    BY <1>2, <1>5 DEF GenerateSubuser, SafetyInv, ProgressInv
  <2>3. ~ RemoveCephUser
    BY <1>5 DEF GenerateSubuser, RemoveCephUser
  <2> QED BY <1>1, <1>2, <2>1, <2>2, <2>3
<1>6. ASSUME NEW s \in Users, RemoveSubuser(s)
      PROVE  /\ \A c \in Claims \ {cur} : ceph'[c] = ceph[c]
             /\ ceph'[cur].exists = ceph[cur].exists
             /\ ceph'[cur].for = ceph[cur].for
             /\ Admin \notin ceph'[cur].subusers
             /\ Readonly \notin ceph'[cur].subusers =>
                  ceph'[cur].keys[Readonly] = 0
             /\ \A u \in {Admin, Readonly} :
                  ceph'[cur].keys[u] = ceph[cur].keys[u]
             /\ ceph[cur].exists /\ ~ RemoveCephUser
  <2>1. /\ \A c \in Claims \ {cur} : ceph'[c] = ceph[c]
        /\ ceph'[cur].exists = ceph[cur].exists
        /\ ceph'[cur].for = ceph[cur].for
        /\ ceph'[cur].subusers = ceph[cur].subusers \ {s}
        /\ ceph'[cur].keys = [ceph[cur].keys EXCEPT ![s] = 0]
    BY <1>0, <1>1, <1>6 DEF RemoveSubuser, WithSubusers
  <2>2. /\ s \in todo /\ s # Admin /\ s # Readonly
        /\ ceph[cur].exists
    BY <1>6 DEF RemoveSubuser, DesiredSubusers, SafetyInv, ProgressInv
  <2>3. ~ RemoveCephUser
    BY <1>6 DEF RemoveSubuser, RemoveCephUser
  <2> QED BY <1>1, <1>2, <2>1, <2>2, <2>3
<1>7. CASE RemoveCephUser
  <2>1. ceph'[cur] = NoUser /\ \A c \in Claims \ {cur} : ceph'[c] = ceph[c]
    BY <1>0, <1>1, <1>7 DEF RemoveCephUser
  <2> QED BY <1>0, <1>1, <1>7, <2>1 DEF NoUser, NoKeys
<1> QED BY <1>0, <1>2, <1>3, <1>4, <1>5, <1>6, <1>7 DEF AccountWrite

LEMMA AccountStep ==
    ASSUME SafetyInv, Next
    PROVE  AccountInv'
<1>0. \A c \in Claims : /\ ceph[c].for \in Nat
                        /\ cache[c].uid \in Nat /\ cache'[c].uid \in Nat
                        /\ cache[c].uid <= cache'[c].uid
  BY Monotone DEF SafetyInv, TypeInv, TypeOK, CephRec
<1>1. CASE ~ AccountWrite
  BY <1>0, <1>1, AccountsKept DEF SafetyInv, AccountInv
<1>2. CASE AccountWrite
  <2>1. cur \in Claims /\ obj.uid <= cache[cur].uid /\ obj.uid \in Nat
    BY <1>2, AccountWrites DEF SafetyInv, RequestInv, TypeInv, TypeOK, ClaimRec
  <2>2. ceph'[cur].for \in Nat
    BY <2>1, TypeStep DEF SafetyInv, TypeInv, TypeOK, CephRec
  <2>3. ceph'[cur].for <= cache'[cur].uid
    BY <1>0, <1>2, <2>1, <2>2, AccountWrites
  <2> QED BY <1>0, <1>2, <2>1, <2>3, AccountWrites DEF SafetyInv, AccountInv
<1> QED BY <1>1, <1>2

-----------------------------------------------------------------------------
(* The progress of a reconcile. *)

LoopSteps == {"cephQuota", "subuserAccess", "subusers", "subuserSecret"}

(* The steps that lead into or stay in the loop over the subusers. *)
LoopAction ==
    \/ EnsureCephUser \/ EnsureCephUserQuota \/ GenerateSubuserAccess
    \/ \E s \in Users : GenerateSubuser(s) \/ RemoveSubuser(s)
    \/ RemoveSubuserSecret

LEMMA LoopKinds ==
    ASSUME SafetyInv, Next
    PROVE  \/ pc' \notin LoopSteps
           \/ UNCHANGED <<pc, cur, todo, ceph>>
           \/ LoopAction
<1> USE DEF LoopSteps, LoopAction, Goto, EndReconcile, Requeue, reqVars,
            localVars, rgwVars
<1>1. CASE \E c \in Claims : User(c)
  BY <1>1 DEF User, CreateClaim, EditClaim, DeleteClaim, StripFinalizer
<1>2. CASE \E c \in Claims : Reconcile(c)
  BY <1>2 DEF Reconcile
<1>3. CASE Provision
  BY <1>3 DEF Provision, SubusersSynced, RetrieveCephUser, EnsureAdminSecret,
     EnsureReadonlySecret, EnsureSubuserSecret, EnsureSecret, SecretsEnsured,
     EnsureS3User, UpdateS3UserClaimStatus, AddCleanupFinalizer
<1>4. CASE Cleanup
  BY <1>4 DEF Cleanup, RemoveCephUser, RemoveS3User, RemoveCleanupFinalizer
<1>5. CASE UpdateQuota
  BY <1>5 DEF UpdateQuota, SumNamespaceUsedQuota, UpdateNamespaceQuotaStatus
<1>6. CASE Informer \/ CollectGarbage \/ Restart
  BY <1>6 DEF Informer, Deliver, DeliverQuota, CollectGarbage, CollectSecret,
     Restart
<1>7. CASE Fail \/ Crash
  BY <1>7 DEF Fail, Crash
<1> QED BY <1>1, <1>2, <1>3, <1>4, <1>5, <1>6, <1>7 DEF Next, Worker

(* The account was provisioned for no later claim than the request's. *)
LEMMA ForStep ==
    ASSUME SafetyInv, Next
    PROVE  pc' # "idle" => ceph'[cur'].for <= obj'.uid
<1>1. CASE AccountWrite
  BY <1>1, AccountWrites
<1>2. CASE ~ AccountWrite /\ pc' # "idle"
  <2>0. ceph' = ceph
    BY <1>2, AccountsKept
  <2>1. CASE cur' = cur /\ obj'.uid = obj.uid /\ pc # "idle"
    BY <2>0, <2>1 DEF SafetyInv, ProgressInv
  <2>2. ASSUME NEW c \in Claims, Reconcile(c)
        PROVE  ceph'[cur'].for <= obj'.uid
    BY <2>0, <2>2 DEF Reconcile, SafetyInv, AccountInv
  <2> QED BY <1>2, <2>1, <2>2, RequestKinds
<1> QED BY <1>1, <1>2

LEMMA LoopStep ==
    ASSUME SafetyInv, Next
    PROVE  /\ (pc \in LoopSteps)' => ceph'[cur'].exists
           /\ (pc \in {"subusers", "subuserSecret"})' =>
                /\ Admin \notin todo'
                /\ Readonly \in todo' => Readonly \notin ceph'[cur'].subusers
<1> USE DEF LoopSteps
<1>1. CASE pc' \notin LoopSteps
  BY <1>1
<1>2. CASE UNCHANGED <<pc, cur, todo, ceph>>
  BY <1>2 DEF SafetyInv, ProgressInv
<1>3. CASE EnsureCephUser \/ EnsureCephUserQuota
  <2>1. pc' \in {"cephQuota", "subuserAccess"}
    BY <1>3 DEF EnsureCephUser, EnsureCephUserQuota, Goto
  <2>2. ~ RemoveCephUser /\ AccountWrite
    BY <1>3 DEF EnsureCephUser, EnsureCephUserQuota, RemoveCephUser,
       AccountWrite
  <2> QED BY <2>1, <2>2, AccountWrites
<1>4. CASE GenerateSubuserAccess
  <2>1. /\ ceph' = ceph /\ cur' = cur /\ pc = "subuserAccess"
        /\ todo' = SubuserAccess(DesiredSubusers, ceph[cur].subusers)
    BY <1>4 DEF GenerateSubuserAccess, rgwVars, reqVars
  <2>2. /\ cur \in Claims /\ ceph[cur].exists
        /\ Admin \notin ceph[cur].subusers
    BY <2>1 DEF SafetyInv, TypeInv, Active, ProgressInv, AccountInv
  <2>3. Admin \notin DesiredSubusers /\ Readonly \in DesiredSubusers
    BY NamesAssumption
       DEF DesiredSubusers, SafetyInv, TypeInv, TypeOK, ClaimRec, SpecRec
  <2>4. Admin \notin todo' /\ (Readonly \in todo' =>
                                Readonly \notin ceph[cur].subusers)
    BY <2>1, <2>2, <2>3 DEF SubuserAccess
  <2> QED BY <2>1, <2>2, <2>4
<1>5. ASSUME NEW s \in Users, GenerateSubuser(s) \/ RemoveSubuser(s)
      PROVE  /\ ceph'[cur'].exists
             /\ Admin \notin todo'
             /\ Readonly \in todo' => Readonly \notin ceph'[cur'].subusers
  <2>1. /\ pc = "subusers" /\ cur' = cur /\ cur \in Claims
        /\ s \in todo /\ todo' = todo \ {s}
        /\ ceph[cur].exists
        /\ Admin \notin todo
        /\ Readonly \in todo => Readonly \notin ceph[cur].subusers
    BY <1>5 DEF GenerateSubuser, RemoveSubuser, reqVars, SafetyInv, TypeInv,
       Active, ProgressInv
  <2>2. \E S \in SUBSET (ceph[cur].subusers \cup {s}), k \in [Users -> Nat] :
          ceph' = [ceph EXCEPT ![cur] = WithSubusers(ceph[cur], S, k)]
    <3>1. /\ ceph[cur].keys \in [Users -> Nat] /\ nextKey \in Nat
          /\ ceph[cur].subusers \subseteq Users
      BY <2>1 DEF SafetyInv, TypeInv, TypeOK, CephRec
    <3>2. CASE GenerateSubuser(s)
      <4>1. /\ [ceph[cur].keys EXCEPT ![s] = nextKey + 1] \in [Users -> Nat]
            /\ ceph[cur].subusers \cup {s} \subseteq ceph[cur].subusers \cup {s}
        BY <3>1
      <4>2. ceph' = [ceph EXCEPT ![cur] =
                       WithSubusers(ceph[cur], ceph[cur].subusers \cup {s},
                                    [ceph[cur].keys EXCEPT ![s] = nextKey + 1])]
        BY <3>2 DEF GenerateSubuser
      <4> QED BY <4>1, <4>2
    <3>3. CASE RemoveSubuser(s)
      <4>1. /\ [ceph[cur].keys EXCEPT ![s] = 0] \in [Users -> Nat]
            /\ ceph[cur].subusers \ {s} \subseteq ceph[cur].subusers \cup {s}
        BY <3>1
      <4>2. ceph' = [ceph EXCEPT ![cur] =
                       WithSubusers(ceph[cur], ceph[cur].subusers \ {s},
                                    [ceph[cur].keys EXCEPT ![s] = 0])]
        BY <3>3 DEF RemoveSubuser
      <4> QED BY <4>1, <4>2
    <3> QED BY <1>5, <3>2, <3>3
  <2>3. PICK S \in SUBSET (ceph[cur].subusers \cup {s}), k \in [Users -> Nat] :
          ceph' = [ceph EXCEPT ![cur] = WithSubusers(ceph[cur], S, k)]
    BY <2>2
  <2>4. ceph'[cur] = WithSubusers(ceph[cur], S, k)
    BY <2>1, <2>3 DEF SafetyInv, TypeInv, TypeOK
  <2>5. /\ ceph'[cur].exists = ceph[cur].exists
        /\ ceph'[cur].subusers \subseteq ceph[cur].subusers \cup {s}
    BY <2>4 DEF WithSubusers
  <2> QED BY <2>1, <2>5
<1>6. CASE RemoveSubuserSecret
  BY <1>6 DEF RemoveSubuserSecret, rgwVars, reqVars, SafetyInv, ProgressInv
<1> QED BY <1>1, <1>2, <1>3, <1>4, <1>5, <1>6, LoopKinds DEF LoopAction

LEMMA ProgressStep ==
    ASSUME SafetyInv, Next
    PROVE  ProgressInv'
BY ForStep, LoopStep DEF ProgressInv, LoopSteps

LEMMA CleanupStep ==
    ASSUME SafetyInv, Next
    PROVE  CleanupInv'
<1> USE DEF CleanupInv, QuotaSteps, Goto, EndReconcile, Requeue, apiVars,
            rgwVars, reqVars, localVars
<1>0. pc # "idle" => cur \in Claims
  BY DEF SafetyInv, TypeInv, Active
<1>1. CASE \E c \in Claims : User(c)
  BY <1>1 DEF User, CreateClaim, EditClaim, DeleteClaim, StripFinalizer,
     SafetyInv
<1>2. CASE \E c \in Claims : Reconcile(c)
  BY <1>2 DEF Reconcile
<1>3. CASE Provision
  <2>1. obj.state = "live" /\ pc \in ProvisionSteps
    BY <1>3 DEF Provision, EnsureCephUser, EnsureCephUserQuota,
       GenerateSubuserAccess, GenerateSubuser, RemoveSubuser,
       RemoveSubuserSecret, SubusersSynced, RetrieveCephUser,
       EnsureAdminSecret, EnsureReadonlySecret, EnsureSubuserSecret,
       SecretsEnsured, EnsureS3User, UpdateS3UserClaimStatus,
       AddCleanupFinalizer, ProvisionSteps, SafetyInv, RequestInv
  <2>2. pc' \notin {"removeS3User", "removeFinalizer", "writeUsed"}
    BY <1>3 DEF Provision, EnsureCephUser, EnsureCephUserQuota,
       GenerateSubuserAccess, GenerateSubuser, RemoveSubuser,
       RemoveSubuserSecret, SubusersSynced, RetrieveCephUser,
       EnsureAdminSecret, EnsureReadonlySecret, EnsureSubuserSecret,
       EnsureSecret, SecretsEnsured, EnsureS3User, UpdateS3UserClaimStatus,
       AddCleanupFinalizer
  <2>3. pc' = "sumUsed" => obj'.state = "live"
    <3>1. CASE \E c \in Claims : Reconcile(c)
      BY <2>1, <3>1 DEF Reconcile, ProvisionSteps
    <3>2. CASE UNCHANGED <<pc, cur, obj>>
      BY <2>1, <3>2
    <3> QED BY <2>1, <3>1, <3>2, RequestKinds
  <2> QED BY <2>2, <2>3
<1>4. CASE RemoveCephUser
  <2>1. ceph'[cur] = NoUser /\ cur' = cur /\ pc' = "removeS3User"
    BY <1>0, <1>4 DEF RemoveCephUser, SafetyInv, TypeInv, TypeOK
  <2> QED BY <2>1 DEF NoUser
<1>5. CASE RemoveS3User
  <2>1. /\ s3user'[cur] = NoS3User /\ ceph' = ceph /\ cur' = cur
        /\ pc = "removeS3User" /\ pc' = "sumUsed"
    BY <1>0, <1>5 DEF RemoveS3User, SafetyInv, TypeInv, TypeOK
  <2> QED BY <2>1 DEF NoS3User, SafetyInv
<1>6. CASE RemoveCleanupFinalizer
  BY <1>6 DEF RemoveCleanupFinalizer
<1>7. CASE UpdateQuota
  BY <1>7 DEF UpdateQuota, SumNamespaceUsedQuota, UpdateNamespaceQuotaStatus,
     SafetyInv
<1>8. CASE Informer \/ CollectGarbage \/ Restart
  BY <1>8 DEF Informer, Deliver, DeliverQuota, CollectGarbage, CollectSecret,
     Restart, SafetyInv
<1>9. CASE Fail \/ Crash
  BY <1>9 DEF Fail, Crash
<1> QED BY <1>1, <1>2, <1>3, <1>4, <1>5, <1>6, <1>7, <1>8, <1>9
        DEF Next, Worker, Cleanup
-----------------------------------------------------------------------------
(* The inductive invariant and what follows from it. *)

LEMMA SafetyInit == Init => SafetyInv
<1> SUFFICES ASSUME Init
             PROVE  SafetyInv
  OBVIOUS
<1>1. TypeInv
  BY TypeInit
<1>2. CopiesInv
  <2>1. \A c \in Claims : Len(watch[c]) = 0
    BY DEF Init
  <2>2. \A c \in Claims : cache[c] = NoObject /\ claim[c] = NoObject
    BY DEF Init
  <2>3. NoObject \in ClaimRec
    BY NullTypes
  <2>4. \A c \in Claims : Older(cache[c], claim[c])
    BY <2>2, <2>3, OlderSelf
  <2>5. up
    BY DEF Init
  <2> QED BY <2>1, <2>4, <2>5 DEF CopiesInv
<1>3. AccountInv
  <2>1. Admin \in Users /\ Readonly \in Users
    BY DEF Users
  <2> QED BY <2>1 DEF Init, AccountInv, NoUser, NoObject, NoKeys
<1>4. ProgressInv /\ RequestInv /\ CleanupInv
  BY DEF Init, ProgressInv, RequestInv, CleanupInv, ProvisionSteps,
     CleanupSteps, QuotaSteps
<1> QED BY <1>1, <1>2, <1>3, <1>4 DEF SafetyInv

LEMMA SafetyStep == SafetyInv /\ [Next]_vars => SafetyInv'
<1> SUFFICES ASSUME SafetyInv, [Next]_vars
             PROVE  SafetyInv'
  OBVIOUS
<1>1. CASE Next
  <2>1. TypeInv'
    BY TypeStep DEF SafetyInv
  <2> QED BY <1>1, <2>1, CopiesStep, AccountStep, ProgressStep, RequestStep,
             CleanupStep DEF SafetyInv
<1>2. CASE UNCHANGED vars
  BY <1>2 DEF vars, SafetyInv, TypeInv, TypeOK, Active, CopiesInv, AccountInv,
     ProgressInv, RequestInv, CleanupInv
<1> QED BY <1>1, <1>2

(* The copies of a claim are versions of it in the order they were written, *)
(* no account is of a later claim than the one being reconciled, and the    *)
(* steps of a Cleanup find done what the earlier ones did.                  *)
THEOREM SafetyCorrect == Spec => []SafetyInv
BY SafetyInit, SafetyStep, PTL DEF Spec

(* The account of the request may go only when its claim has gone. *)
LEMMA PurgeStep ==
    ASSUME SafetyInv, RemoveCephUser
    PROVE  ~ (claim[cur].state = "live" /\ claim[cur].uid = ceph[cur].for)
<1>1. /\ cur \in Claims /\ pc = "removeCephUser" /\ obj.state # "live"
      /\ Older(obj, claim[cur]) /\ ceph[cur].for <= obj.uid
  BY DEF RemoveCephUser, SafetyInv, TypeInv, Active, RequestInv, ProgressInv,
     CleanupSteps
<1>2. obj.uid \in Nat /\ claim[cur].uid \in Nat /\ ceph[cur].for \in Nat
  BY <1>1 DEF SafetyInv, TypeInv, TypeOK, ClaimRec, CephRec
<1> QED BY <1>1, <1>2 DEF Older, Advances

(* A Cleanup never purges the account of a claim that is live, however old  *)
(* the copy of the claim it acts on.                                        *)
THEOREM NeverPurged == Spec => NoLivePurge
<1>1. SafetyInv /\ [Next]_vars =>
        [\A c \in Claims :
           ceph[c].exists /\ ~ ceph'[c].exists =>
             ~ (claim[c].state = "live" /\ claim[c].uid = ceph[c].for)]_vars
  <2> SUFFICES ASSUME SafetyInv, Next, NEW c \in Claims,
                      ceph[c].exists, ~ ceph'[c].exists
               PROVE  ~ (claim[c].state = "live" /\ claim[c].uid = ceph[c].for)
    OBVIOUS
  <2>1. AccountWrite
    BY AccountsKept
  <2>2. c = cur /\ RemoveCephUser
    BY <2>1, AccountWrites
  <2> QED BY <2>2, PurgeStep
<1> QED BY <1>1, SafetyCorrect, PTL DEF Spec, NoLivePurge

(* As long as a claim lives, the keys of its user and its readonly subuser  *)
(* are not replaced.                                                        *)
THEOREM KeysKept == Spec => CredentialsStable
<1>1. SafetyInv /\ [Next]_vars =>
        [\A c \in Claims, u \in {Admin, Readonly} :
           /\ claim[c].state = "live" /\ claim[c].uid = ceph[c].for
           /\ ceph[c].keys[u] # 0
           => ceph'[c].keys[u] = ceph[c].keys[u]]_vars
  <2> SUFFICES ASSUME SafetyInv, Next, NEW c \in Claims,
                      NEW u \in {Admin, Readonly},
                      claim[c].state = "live", claim[c].uid = ceph[c].for,
                      ceph[c].keys[u] # 0
               PROVE  ceph'[c].keys[u] = ceph[c].keys[u]
    OBVIOUS
  <2>1. CASE ~ AccountWrite \/ c # cur
    BY <2>1, AccountsKept, AccountWrites
  <2>2. CASE AccountWrite /\ c = cur
    <3>1. ~ RemoveCephUser
      BY <2>2, PurgeStep
    <3>2. ceph[c].exists
      BY DEF SafetyInv, AccountInv
    <3> QED BY <2>2, <3>1, <3>2, AccountWrites
  <2> QED BY <2>1, <2>2
<1> QED BY <1>1, SafetyCorrect, PTL DEF Spec, CredentialsStable

(* Only these steps of the worker write a claim as the request ends. *)
LEMMA ClaimRelease ==
    ASSUME Next, claim' # claim, cur' # cur
    PROVE  RemoveCleanupFinalizer \/ UpdateS3UserClaimStatus \/ AddCleanupFinalizer
<1> USE DEF apiVars, reqVars
<1>1. CASE \E c \in Claims : User(c)
  BY <1>1 DEF User, CreateClaim, EditClaim, DeleteClaim, StripFinalizer
<1>2. CASE \E c \in Claims : Reconcile(c)
  BY <1>2 DEF Reconcile
<1>3. CASE Provision
  BY <1>3 DEF Provision, EnsureCephUser, EnsureCephUserQuota,
     GenerateSubuserAccess, GenerateSubuser, RemoveSubuser,
     RemoveSubuserSecret, SubusersSynced, RetrieveCephUser, EnsureAdminSecret,
     EnsureReadonlySecret, EnsureSubuserSecret, SecretsEnsured, EnsureS3User
<1>4. CASE Cleanup \/ UpdateQuota
  BY <1>4 DEF Cleanup, RemoveCephUser, RemoveS3User, UpdateQuota,
     SumNamespaceUsedQuota, UpdateNamespaceQuotaStatus
<1>5. CASE Informer \/ CollectGarbage \/ Fail \/ Crash \/ Restart
  BY <1>5 DEF Informer, Deliver, DeliverQuota, CollectGarbage, CollectSecret,
     Fail, Crash, Restart
<1> QED BY <1>1, <1>2, <1>3, <1>4, <1>5 DEF Next, Worker

(* The operator lets a claim go only when its account and its S3User are    *)
(* gone.                                                                    *)
THEOREM ReleasedClean == Spec => ReleasedWhenClean
<1>1. SafetyInv /\ [Next]_vars =>
        [\A c \in Claims :
           claim[c].state = "terminating" /\ claim'[c].state = "absent"
                                          /\ cur = c /\ cur' = NoKey
           => ~ ceph'[c].exists /\ ~ s3user'[c].exists]_vars
  <2> SUFFICES ASSUME SafetyInv, Next, NEW c \in Claims,
                      claim[c].state = "terminating",
                      claim'[c].state = "absent", cur = c, cur' = NoKey
               PROVE  ~ ceph'[c].exists /\ ~ s3user'[c].exists
    OBVIOUS
  <2>1. c # NoKey /\ claim' # claim /\ cur' # cur
    BY NamesAssumption
  <2>2. RemoveCleanupFinalizer \/ UpdateS3UserClaimStatus \/ AddCleanupFinalizer
    BY <2>1, ClaimRelease
  <2>3. pc \in ProvisionSteps => obj.state = "live"
    BY DEF SafetyInv, RequestInv
  <2>4. CASE RemoveCleanupFinalizer
    BY <2>4 DEF RemoveCleanupFinalizer, SafetyInv, CleanupInv, rgwVars
  <2>5. CASE UpdateS3UserClaimStatus
    BY <2>1, <2>5 DEF UpdateS3UserClaimStatus, Requeue, EndReconcile, reqVars
  <2>6. CASE AddCleanupFinalizer
    <3>1. UpToDate /\ obj.state = "live" /\ pc # "idle"
      BY <2>1, <2>3, <2>6 DEF AddCleanupFinalizer, ProvisionSteps
    <3> QED BY <3>1, AcceptedUpdate
  <2> QED BY <2>2, <2>4, <2>5, <2>6
<1> QED BY <1>1, SafetyCorrect, PTL DEF Spec, ReleasedWhenClean

-----------------------------------------------------------------------------
(* What a step does to the claims, as far as their owners can see.           *)

Same(c) == /\ claim'[c].state = claim[c].state
           /\ claim'[c].uid = claim[c].uid
           /\ claim'[c].spec = claim[c].spec

Created(c) == /\ claim[c].state = "absent" /\ claim'[c].state = "live"
              /\ claim'[c].uid = claim[c].uid + 1
              /\ claim'[c].spec \in SpecsOf[c]

Edited(c) == /\ claim[c].state # "absent" /\ claim'[c].state = claim[c].state
             /\ claim'[c].uid = claim[c].uid
             /\ claim'[c].spec \in SpecsOf[c]

Terminated(c) == /\ claim[c].state = "live" /\ claim'[c].state = "terminating"
                 /\ claim'[c].uid = claim[c].uid
                 /\ claim'[c].spec = claim[c].spec

Left(c) == /\ claim[c].state # "absent" /\ claim'[c].state = "absent"
           /\ claim[c].state = "terminating" =>
                ~ ceph[c].exists \/ MaxStrips > 0

(* A step that writes claim c and no Secret and no account. *)
OneClaim(c) == /\ \A d \in Claims \ {c} : Same(d)
               /\ UNCHANGED <<secret, ceph, nextKey>>
               /\ Same(c) \/ Created(c) \/ Edited(c) \/ Terminated(c) \/ Left(c)

LEMMA StoredClaim ==
    ASSUME TypeInv, NEW c \in Claims, NEW r \in ClaimRec, StoreClaim(c, r)
    PROVE  /\ claim'[c].state = r.state /\ claim'[c].uid = r.uid
           /\ claim'[c].spec = r.spec
           /\ \A d \in Claims \ {c} : claim'[d] = claim[d]
<1>1. claim' = [claim EXCEPT ![c] = NewVersion(c, r)]
  BY DEF StoreClaim
<1>2. claim'[c] = NewVersion(c, r) /\ \A d \in Claims \ {c} : claim'[d] = claim[d]
  BY <1>1 DEF TypeInv, TypeOK
<1>3. NewVersion(c, r).spec = r.spec
  BY DEF NewVersion, ClaimRec
<1> QED BY <1>2, <1>3, NewVersionFields

LEMMA UserKinds ==
    ASSUME TypeInv, NEW c \in Claims, User(c)
    PROVE  OneClaim(c)
<1>0. /\ claim[c] \in ClaimRec /\ Gone(c) \in ClaimRec
      /\ spent.strips \in Nat
      /\ Gone(c).state = "absent" /\ Gone(c).uid = claim[c].uid
  <2>1. claim[c] \in ClaimRec /\ Gone(c) \in ClaimRec /\ spent.strips \in Nat
    BY GoneType DEF TypeInv, TypeOK, Counters
  <2> QED BY <2>1 DEF Gone, NoObject
<1>1. UNCHANGED <<secret, ceph, nextKey>>
  BY DEF User, CreateClaim, EditClaim, DeleteClaim, StripFinalizer, rgwVars
<1>2. CASE CreateClaim(c)
  <2>1. PICK s \in SpecsOf[c] :
          StoreClaim(c, [state |-> "live", uid |-> claim[c].uid + 1,
                         rv |-> 0, spec |-> s, status |-> NoStatus,
                         fin |-> FALSE])
    BY <1>2 DEF CreateClaim
  <2> DEFINE r == [state |-> "live", uid |-> claim[c].uid + 1, rv |-> 0,
                   spec |-> s, status |-> NoStatus, fin |-> FALSE]
  <2>2. r \in ClaimRec
    BY <1>0, SpecsAssumption, NullTypes DEF ClaimRec
  <2>3. r.state = "live" /\ r.uid = claim[c].uid + 1 /\ r.spec = s
    OBVIOUS
  <2>4. StoreClaim(c, r)
    BY <2>1
  <2> HIDE DEF r
  <2>5. claim[c].state = "absent"
    BY <1>2 DEF CreateClaim
  <2> QED BY <1>1, <2>2, <2>3, <2>4, <2>5, StoredClaim
          DEF OneClaim, Created, Same
<1>3. CASE EditClaim(c)
  <2>1. PICK s \in SpecsOf[c] : StoreClaim(c, [claim[c] EXCEPT !.spec = s])
    BY <1>3 DEF EditClaim
  <2> DEFINE r == [claim[c] EXCEPT !.spec = s]
  <2>2. r \in ClaimRec
    BY <1>0, SpecsAssumption DEF ClaimRec
  <2>3. r.state = claim[c].state /\ r.uid = claim[c].uid /\ r.spec = s
    BY <1>0 DEF ClaimRec
  <2>4. StoreClaim(c, r)
    BY <2>1
  <2> HIDE DEF r
  <2>5. claim[c].state # "absent"
    BY <1>3 DEF EditClaim
  <2> QED BY <1>1, <2>2, <2>3, <2>4, <2>5, StoredClaim
          DEF OneClaim, Edited, Same
<1>4. CASE DeleteClaim(c)
  <2>1. claim[c].state = "live"
    BY <1>4 DEF DeleteClaim
  <2>2. CASE claim[c].fin
    <3> DEFINE r == [claim[c] EXCEPT !.state = "terminating"]
    <3>1. /\ r \in ClaimRec /\ r.state = "terminating"
          /\ r.uid = claim[c].uid /\ r.spec = claim[c].spec
      BY <1>0 DEF ClaimRec
    <3>2. StoreClaim(c, r)
      BY <1>4, <2>2 DEF DeleteClaim
    <3> HIDE DEF r
    <3> QED BY <1>1, <2>1, <3>1, <3>2, StoredClaim
            DEF OneClaim, Terminated, Same
  <2>3. CASE ~ claim[c].fin
    <3>1. StoreClaim(c, Gone(c))
      BY <1>4, <2>3 DEF DeleteClaim
    <3> QED BY <1>0, <1>1, <2>1, <3>1, StoredClaim DEF OneClaim, Left, Same
  <2> QED BY <2>2, <2>3
<1>5. CASE StripFinalizer(c)
  <2>1. MaxStrips > 0
    BY <1>0, <1>5, BoundsAssumption DEF StripFinalizer
  <2>2. CASE claim[c].state = "terminating"
    <3>1. StoreClaim(c, Gone(c))
      BY <1>5, <2>2 DEF StripFinalizer
    <3> QED BY <1>0, <1>1, <2>1, <2>2, <3>1, StoredClaim
            DEF OneClaim, Left, Same
  <2>3. CASE claim[c].state # "terminating"
    <3> DEFINE r == [claim[c] EXCEPT !.fin = FALSE]
    <3>1. /\ r \in ClaimRec /\ r.state = claim[c].state
          /\ r.uid = claim[c].uid /\ r.spec = claim[c].spec
      BY <1>0 DEF ClaimRec
    <3>2. StoreClaim(c, r)
      BY <1>5, <2>3 DEF StripFinalizer
    <3> HIDE DEF r
    <3> QED BY <1>1, <3>1, <3>2, StoredClaim DEF OneClaim, Same
  <2> QED BY <2>2, <2>3
<1> QED BY <1>2, <1>3, <1>4, <1>5 DEF User

LEMMA WorkerKinds ==
    ASSUME SafetyInv,
           \/ UpdateS3UserClaimStatus \/ AddCleanupFinalizer
           \/ RemoveCleanupFinalizer
    PROVE  cur \in Claims /\ OneClaim(cur)
<1>0. obj \in ClaimRec /\ cur \in Claims /\ pc # "idle"
  BY DEF SafetyInv, TypeInv, TypeOK, Active, UpdateS3UserClaimStatus,
         AddCleanupFinalizer, RemoveCleanupFinalizer
<1>1. UNCHANGED <<secret, ceph, nextKey>>
  BY DEF UpdateS3UserClaimStatus, AddCleanupFinalizer, RemoveCleanupFinalizer,
         rgwVars
<1>2. CASE claim' = claim
  BY <1>0, <1>1, <1>2 DEF OneClaim, Same
<1>3. CASE UpdateS3UserClaimStatus /\ claim' # claim
  <2> DEFINE r == [obj EXCEPT !.status = StatusFor(obj.spec)]
  <2>1. UpToDate /\ StoreClaim(cur, r)
    BY <1>3 DEF UpdateS3UserClaimStatus
  <2>2. StatusFor(obj.spec) \in StatusRec
    BY <1>0 DEF StatusFor, StatusRec, ClaimRec, SpecRec
  <2>3. /\ r \in ClaimRec /\ r.state = obj.state /\ r.uid = obj.uid
        /\ r.spec = obj.spec
    BY <1>0, <2>2 DEF ClaimRec
  <2>4. obj = claim[cur]
    BY <1>0, <2>1, AcceptedUpdate
  <2> HIDE DEF r
  <2> QED BY <1>0, <1>1, <2>1, <2>3, <2>4, StoredClaim
          DEF OneClaim, Same, SafetyInv
<1>4. CASE AddCleanupFinalizer /\ claim' # claim
  <2> DEFINE r == [obj EXCEPT !.fin = TRUE]
  <2>1. UpToDate /\ StoreClaim(cur, r)
    BY <1>4 DEF AddCleanupFinalizer
  <2>2. /\ r \in ClaimRec /\ r.state = obj.state /\ r.uid = obj.uid
        /\ r.spec = obj.spec
    BY <1>0 DEF ClaimRec
  <2>3. obj = claim[cur]
    BY <1>0, <2>1, AcceptedUpdate
  <2> HIDE DEF r
  <2> QED BY <1>0, <1>1, <2>1, <2>2, <2>3, StoredClaim
          DEF OneClaim, Same, SafetyInv
<1>5. CASE RemoveCleanupFinalizer /\ claim' # claim
  <2>1. UpToDate /\ StoreClaim(cur, Gone(cur)) /\ pc = "removeFinalizer"
    BY <1>5 DEF RemoveCleanupFinalizer
  <2>2. Gone(cur) \in ClaimRec /\ Gone(cur).state = "absent"
    BY <1>0, GoneType DEF SafetyInv, TypeInv, Gone, NoObject
  <2>3. claim[cur].state # "absent" /\ ~ ceph[cur].exists
    BY <2>1 DEF UpToDate, SafetyInv, CleanupInv
  <2> QED BY <1>0, <1>1, <2>1, <2>2, <2>3, StoredClaim
          DEF OneClaim, Left, Same, SafetyInv
<1> QED BY <1>2, <1>3, <1>4, <1>5

LEMMA ClaimKinds ==
    ASSUME SafetyInv, Next
    PROVE  \/ claim' = claim
           \/ \E c \in Claims : OneClaim(c)
<1> USE DEF apiVars
<1>1. CASE \E c \in Claims : User(c)
  BY <1>1, UserKinds DEF SafetyInv
<1>2. CASE UpdateS3UserClaimStatus \/ AddCleanupFinalizer
                                   \/ RemoveCleanupFinalizer
  BY <1>2, WorkerKinds
<1>3. CASE \E c \in Claims : Reconcile(c)
  BY <1>3 DEF Reconcile
<1>4. CASE Provision /\ ~ UpdateS3UserClaimStatus /\ ~ AddCleanupFinalizer
  BY <1>4 DEF Provision, EnsureCephUser, EnsureCephUserQuota,
     GenerateSubuserAccess, GenerateSubuser, RemoveSubuser,
     RemoveSubuserSecret, SubusersSynced, RetrieveCephUser,
     EnsureAdminSecret, EnsureReadonlySecret, EnsureSubuserSecret,
     SecretsEnsured, EnsureS3User
<1>5. CASE RemoveCephUser \/ RemoveS3User
  BY <1>5 DEF RemoveCephUser, RemoveS3User
<1>6. CASE UpdateQuota
  BY <1>6 DEF UpdateQuota, SumNamespaceUsedQuota, UpdateNamespaceQuotaStatus
<1>7. CASE Informer \/ CollectGarbage \/ Fail \/ Crash \/ Restart
  BY <1>7 DEF Informer, Deliver, DeliverQuota, CollectGarbage, CollectSecret,
     Fail, Crash, Restart
<1> QED BY <1>1, <1>2, <1>3, <1>4, <1>5, <1>6, <1>7 DEF Next, Worker, Cleanup

(* The copies of a claim stay in any set its versions are in. *)
LEMMA CopiesStay ==
    ASSUME SafetyInv, Next, NEW c \in Claims, NEW S,
           claim[c] \in S, claim'[c] \in S, cache[c] \in S,
           \A i \in 1 .. Len(watch[c]) : watch[c][i] \in S
    PROVE  /\ cache'[c] \in S
           /\ \A i \in 1 .. Len(watch'[c]) : watch'[c][i] \in S
<1>0. watch[c] \in Seq(ClaimRec)
  BY DEF SafetyInv, TypeInv, TypeOK
<1>1. CASE UNCHANGED <<claim, cache, watch, up>>
  BY <1>1
<1>2. ASSUME NEW d \in Claims, NEW r \in ClaimRec, Written(d, r)
      PROVE  /\ cache'[c] \in S
             /\ \A i \in 1 .. Len(watch'[c]) : watch'[c][i] \in S
  <2>1. /\ watch' = IF up THEN [watch EXCEPT ![d] =
                                   Append(watch[d], NewVersion(d, r))]
                         ELSE watch
        /\ claim'[d] = NewVersion(d, r)
        /\ cache' = cache
    BY <1>2 DEF Written, StoreClaim, SafetyInv, TypeInv, TypeOK
  <2>2. CASE watch'[c] = watch[c]
    BY <2>1, <2>2
  <2>3. CASE watch'[c] = Append(watch[c], claim'[c])
    <3>1. ASSUME NEW i \in 1 .. Len(watch'[c])
          PROVE  watch'[c][i] \in S
      <4>1. CASE i \in 1 .. Len(watch[c])
        BY <1>0, <2>3, <4>1
      <4>2. CASE i = Len(watch[c]) + 1
        BY <1>0, <2>3, <4>2
      <4> QED BY <1>0, <2>3, <3>1, <4>1, <4>2
    <3> QED BY <2>1, <3>1
  <2> QED BY <2>1, <2>2, <2>3 DEF SafetyInv, TypeInv, TypeOK
<1>3. ASSUME NEW d \in Claims, Deliver(d)
      PROVE  /\ cache'[c] \in S
             /\ \A i \in 1 .. Len(watch'[c]) : watch'[c][i] \in S
  <2>1. /\ watch[d] # <<>>
        /\ cache' = [cache EXCEPT ![d] = Head(watch[d])]
        /\ watch' = [watch EXCEPT ![d] = Tail(watch[d])]
    BY <1>3 DEF Deliver
  <2>2. CASE c # d
    BY <2>1, <2>2 DEF SafetyInv, TypeInv, TypeOK
  <2>3. CASE c = d
    <3>1. cache'[c] = watch[c][1] /\ watch'[c] = Tail(watch[c])
          /\ 1 \in 1 .. Len(watch[c])
      BY <1>0, <2>1, <2>3 DEF SafetyInv, TypeInv, TypeOK
    <3>2. \A i \in 1 .. Len(Tail(watch[c])) :
            /\ Tail(watch[c])[i] = watch[c][i + 1]
            /\ i + 1 \in 1 .. Len(watch[c])
      BY <1>0, <2>1, <2>3
    <3> QED BY <3>1, <3>2
  <2> QED BY <2>2, <2>3
<1>4. CASE Crash
  <2>1. watch'[c] = <<>> /\ 1 .. Len(watch'[c]) = {} /\ cache' = cache
    BY <1>4 DEF Crash
  <2> QED BY <2>1
<1>5. CASE Restart
  BY <1>5 DEF Restart
<1> QED BY <1>1, <1>2, <1>3, <1>4, <1>5, StepKinds

LEMMA SpecsInit == Init => SpecsInv
<1> SUFFICES ASSUME Init
             PROVE  SpecsInv
  OBVIOUS
<1>1. \A c \in Claims : Len(watch[c]) = 0 /\ 1 .. Len(watch[c]) = {}
  BY DEF Init
<1> QED BY <1>1 DEF Init, SpecsInv, Specified, NoObject

LEMMA SpecsStep ==
    ASSUME SafetyInv, SpecsInv, Next
    PROVE  SpecsInv'
<1>0. SafetyInv'
  BY SafetyStep
<1>1. \A c \in Claims : Specified(c, claim'[c])
  <2>1. CASE claim' = claim
    BY <2>1 DEF SpecsInv
  <2>2. ASSUME NEW d \in Claims, OneClaim(d)
        PROVE  \A c \in Claims : Specified(c, claim'[c])
    BY <2>2 DEF OneClaim, Same, Created, Edited, Terminated, Left, SpecsInv,
       Specified
  <2> QED BY <2>1, <2>2, ClaimKinds
<1>2. ASSUME NEW c \in Claims
      PROVE  /\ Specified(c, cache'[c])
             /\ \A i \in 1 .. Len(watch'[c]) : Specified(c, watch'[c][i])
  <2> DEFINE S == {v \in ClaimRec : Specified(c, v)}
  <2>1. /\ claim[c] \in S /\ cache[c] \in S
        /\ \A i \in 1 .. Len(watch[c]) : watch[c][i] \in S
    BY DEF SpecsInv, SafetyInv, TypeInv, TypeOK
  <2>2. claim'[c] \in S
    BY <1>0, <1>1 DEF SafetyInv, TypeInv, TypeOK
  <2>3. \A v \in S : Specified(c, v)
    OBVIOUS
  <2> HIDE DEF S
  <2> QED BY <2>1, <2>2, <2>3, CopiesStay
<1>3. pc' # "idle" => Specified(cur', obj')
  <2>1. CASE UNCHANGED <<cur, obj>> /\ (pc # "idle" \/ pc' = pc)
    BY <2>1 DEF SpecsInv
  <2>2. CASE pc = "status" /\ cur' = cur /\ obj' = claim'[cur]
    BY <1>1, <2>2 DEF SafetyInv, TypeInv, Active
  <2>3. ASSUME NEW c \in Claims, Reconcile(c)
        PROVE  Specified(cur', obj')
    BY <2>3 DEF Reconcile, SpecsInv
  <2> QED BY <2>1, <2>2, <2>3, RequestKinds
<1> QED BY <1>1, <1>2, <1>3 DEF SpecsInv
=============================================================================
