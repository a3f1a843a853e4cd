-------------------------- MODULE ClaimSettledProofs --------------------------
(****************************************************************************)
(* Proofs of what holds when the controller of the S3UserClaims has nothing  *)
(* left to do, for any number of claims, subusers and Secrets, any specs,    *)
(* edits and failures.                                                      *)
(****************************************************************************)
EXTENDS ClaimReconcilerProofs, SequenceTheorems

-----------------------------------------------------------------------------
(* Requests are not forgotten.                                               *)

(* Only taking a request, a crash and a restart take one off the queue. *)
LEMMA QueueGrows ==
    ASSUME Next, ~ Crash, ~ Restart, \A c \in Claims : ~ Reconcile(c)
    PROVE  queue \subseteq queue'
<1> USE DEF Requeue
<1>1. CASE \E c \in Claims : User(c)
  BY <1>1 DEF User, CreateClaim, EditClaim, DeleteClaim, StripFinalizer
<1>2. CASE Provision
  BY <1>2 DEF Provision, EnsureCephUser, EnsureCephUserQuota,
     GenerateSubuserAccess, GenerateSubuser, RemoveSubuser,
     RemoveSubuserSecret, SubusersSynced, RetrieveCephUser,
     EnsureAdminSecret, EnsureReadonlySecret, EnsureSubuserSecret,
     EnsureSecret, SecretsEnsured, EnsureS3User, UpdateS3UserClaimStatus,
     AddCleanupFinalizer
<1>3. CASE Cleanup
  BY <1>3 DEF Cleanup, RemoveCephUser, RemoveS3User, RemoveCleanupFinalizer
<1>4. CASE UpdateQuota
  BY <1>4 DEF UpdateQuota, SumNamespaceUsedQuota, UpdateNamespaceQuotaStatus
<1>5. CASE Informer \/ CollectGarbage \/ Fail
  BY <1>5 DEF Informer, Deliver, DeliverQuota, CollectGarbage, CollectSecret,
     Fail
<1> QED BY <1>1, <1>2, <1>3, <1>4, <1>5 DEF Next, Worker

LEMMA ReconcileTakes ==
    ASSUME TypeInv, NEW c \in Claims, Reconcile(c)
    PROVE  /\ pc = "idle" /\ c \in queue /\ queue' = queue \ {c}
           /\ cur' = c /\ obj' = cache[c]
           /\ pc' = IF cache[c].state = "live" THEN "cephUser"
                                               ELSE "removeCephUser"
           /\ UNCHANGED <<claim, s3user, secret, used, ceph, cache, watch, up,
                          cachedUsed, sum>>
BY DEF Reconcile, Goto, apiVars, rgwVars, infVars, localVars

(* A write to a claim is on its way to the operator, if that runs. *)
LEMMA WrittenPending ==
    ASSUME TypeInv, NEW c \in Claims, NEW r, StoreClaim(c, r), up
    PROVE  /\ watch'[c] = Append(watch[c], claim'[c])
           /\ watch'[c] # <<>>
           /\ \A d \in Claims \ {c} :
                claim'[d] = claim[d] /\ watch'[d] = watch[d]
<1>1. watch[c] \in Seq(ClaimRec)
  BY DEF TypeInv, TypeOK
<1>2. watch' = [watch EXCEPT ![c] = Append(@, NewVersion(c, r))]
  BY DEF StoreClaim
<1>3. /\ claim'[c] = NewVersion(c, r)
      /\ watch'[c] = Append(watch[c], NewVersion(c, r))
      /\ \A d \in Claims \ {c} :
           claim'[d] = claim[d] /\ watch'[d] = watch[d]
  BY <1>2 DEF StoreClaim, TypeInv, TypeOK
<1>4. Append(watch[c], NewVersion(c, r)) # <<>>
  BY <1>1
<1> QED BY <1>3, <1>4

(* When nothing makes the operator look at a claim again, either nothing did *)
(* before the step and the claim is as it was, or its worker has taken the   *)
(* request and has the claim as it is, or there is nothing to look at.       *)
LEMMA PendingStep ==
    ASSUME SafetyInv, FreshInv, Next, NEW c \in Claims, ~ Pending(c)'
    PROVE  \/ ~ Pending(c) /\ claim'[c] = claim[c]
           \/ Reconcile(c) /\ cache[c] = claim[c] /\ claim'[c] = claim[c]
           \/ Restart /\ claim'[c].state = "absent" /\ ~ s3user'[c].exists
<1>1. up' /\ watch'[c] = <<>> /\ c \notin queue'
  BY DEF Pending
<1>2. ~ Crash
  BY <1>1 DEF Crash
<1>3. CASE Restart
  BY <1>1, <1>3 DEF Restart, apiVars
<1>4. ASSUME NEW d \in Claims, Reconcile(d)
      PROVE  \/ ~ Pending(c) /\ claim'[c] = claim[c]
             \/ d = c /\ cache[c] = claim[c] /\ claim'[c] = claim[c]
  <2>1. /\ queue' = queue \ {d} /\ UNCHANGED <<claim, cache, watch, up>>
    BY <1>4, ReconcileTakes DEF SafetyInv
  <2>2. up /\ watch[c] = <<>>
    BY <1>1, <2>1
  <2>3. cache[c] = claim[c]
    BY <2>2 DEF FreshInv
  <2> QED BY <1>1, <2>1, <2>2, <2>3 DEF Pending
<1>5. CASE ~ Restart /\ \A d \in Claims : ~ Reconcile(d)
  <2>1. c \notin queue
    BY <1>1, <1>2, <1>5, QueueGrows
  <2>2. CASE UNCHANGED <<claim, cache, watch, up>>
    BY <1>1, <2>1, <2>2 DEF Pending
  <2>3. ASSUME NEW d \in Claims, NEW r \in ClaimRec, Written(d, r)
        PROVE  ~ Pending(c) /\ claim'[c] = claim[c]
    <3>1. up
      BY <1>1, <2>3 DEF Written
    <3> QED BY <1>1, <2>1, <2>3, <3>1, WrittenPending
            DEF Written, Pending, SafetyInv
  <2>4. ASSUME NEW d \in Claims, Deliver(d)
        PROVE  ~ Pending(c) /\ claim'[c] = claim[c]
    <3>1. d # c /\ up /\ claim' = claim
      BY <1>1, <2>4 DEF Deliver, apiVars
    <3>2. watch'[c] = watch[c]
      BY <2>4, <3>1 DEF Deliver, SafetyInv, TypeInv, TypeOK
    <3> QED BY <1>1, <2>1, <3>1, <3>2 DEF Pending
  <2> QED BY <1>2, <1>5, <2>2, <2>3, <2>4, StepKinds
<1> QED BY <1>3, <1>4, <1>5

LEMMA LastOfTail ==
    ASSUME NEW S, NEW s \in Seq(S), s # <<>>
    PROVE  IF Tail(s) = <<>> THEN s[1] = s[Len(s)]
                             ELSE Tail(s)[Len(Tail(s))] = s[Len(s)]
<1>1. Len(s) \in Nat /\ Len(s) # 0
  BY EmptySeq
<1>2. /\ Tail(s) \in Seq(S) /\ Len(Tail(s)) = Len(s) - 1
      /\ \A i \in 1 .. Len(Tail(s)) : Tail(s)[i] = s[i + 1]
  BY HeadTailProperties
<1>3. CASE Tail(s) = <<>>
  <2>1. Len(Tail(s)) = 0
    BY <1>3, EmptySeq
  <2>2. Len(s) - 1 = 0
    BY <1>2, <2>1, Zenon
  <2>3. Len(s) = 1
    BY <1>1, <2>2
  <2> QED BY <1>3, <2>3
<1>4. CASE Tail(s) # <<>>
  <2>1. Len(Tail(s)) \in Nat /\ Len(Tail(s)) # 0
    BY <1>2, <1>4, EmptySeq
  <2>2. Len(Tail(s)) \in 1 .. Len(Tail(s)) /\ Len(Tail(s)) + 1 = Len(s)
    BY <1>1, <1>2, <2>1
  <2> QED BY <1>2, <1>4, <2>2
<1> QED BY <1>3, <1>4

LEMMA FreshCopies ==
    ASSUME SafetyInv, FreshInv, Next, up', NEW c \in Claims
    PROVE  IF watch'[c] = <<>> THEN cache'[c] = claim'[c]
                               ELSE watch'[c][Len(watch'[c])] = claim'[c]
<1>0. watch[c] \in Seq(ClaimRec)
  BY DEF SafetyInv, TypeInv, TypeOK
<1>1. CASE UNCHANGED <<claim, cache, watch, up>>
  BY <1>1 DEF FreshInv
<1>2. ASSUME NEW d \in Claims, NEW r \in ClaimRec, Written(d, r)
      PROVE  IF watch'[c] = <<>> THEN cache'[c] = claim'[c]
                                 ELSE watch'[c][Len(watch'[c])] = claim'[c]
  <2>1. up /\ cache' = cache
    BY <1>2 DEF Written
  <2>2. /\ watch'[d] = Append(watch[d], claim'[d]) /\ watch'[d] # <<>>
        /\ c # d => claim'[c] = claim[c] /\ watch'[c] = watch[c]
    BY <1>2, <2>1, WrittenPending DEF Written, SafetyInv
  <2>3. CASE c # d
    BY <2>1, <2>2, <2>3 DEF FreshInv
  <2>4. CASE c = d
    <3>1. /\ Len(Append(watch[c], claim'[c])) = Len(watch[c]) + 1
          /\ Append(watch[c], claim'[c])[Len(watch[c]) + 1] = claim'[c]
      BY <1>0
    <3> QED BY <2>2, <2>4, <3>1
  <2> QED BY <2>3, <2>4
<1>3. ASSUME NEW d \in Claims, Deliver(d)
      PROVE  IF watch'[c] = <<>> THEN cache'[c] = claim'[c]
                                 ELSE watch'[c][Len(watch'[c])] = claim'[c]
  <2>1. /\ up /\ watch[d] # <<>> /\ claim' = claim
        /\ cache' = [cache EXCEPT ![d] = Head(watch[d])]
        /\ watch' = [watch EXCEPT ![d] = Tail(watch[d])]
    BY <1>3 DEF Deliver, apiVars
  <2>2. CASE c # d
    BY <2>1, <2>2 DEF FreshInv, SafetyInv, TypeInv, TypeOK
  <2>3. CASE c = d
    <3>1. cache'[c] = watch[c][1] /\ watch'[c] = Tail(watch[c])
      BY <1>0, <2>1, <2>3 DEF SafetyInv, TypeInv, TypeOK
    <3>2. watch[c][Len(watch[c])] = claim'[c]
      BY <2>1, <2>3 DEF FreshInv
    <3> QED BY <1>0, <2>1, <2>3, <3>1, <3>2, LastOfTail
  <2> QED BY <2>2, <2>3
<1>4. ~ Crash
  BY DEF Crash
<1>5. CASE Restart
  <2>1. watch'[c] = <<>> /\ cache' = claim /\ claim' = claim
    BY <1>5 DEF Restart, apiVars, SafetyInv, CopiesInv
  <2> QED BY <2>1
<1> QED BY <1>1, <1>2, <1>3, <1>4, <1>5, StepKinds

(* While the operator is down there is no request. *)
LEMMA DownStep ==
    ASSUME SafetyInv, FreshInv, Next, ~ up'
    PROVE  pc' = "idle" /\ queue' = {}
<1>1. CASE Crash
  BY <1>1 DEF Crash, EndReconcile
<1>2. CASE ~ Crash
  <2>1. ~ up
    BY <1>2, StepKinds DEF Written, Deliver, Restart
  <2>2. pc = "idle" /\ queue = {}
    BY <2>1 DEF FreshInv
  <2>3. CASE \E c \in Claims : User(c)
    BY <2>2, <2>3 DEF User, CreateClaim, EditClaim, DeleteClaim,
       StripFinalizer
  <2>4. CASE CollectGarbage
    BY <2>1, <2>2, <2>4 DEF CollectGarbage, CollectSecret
  <2>5. ~ WorkerStep /\ ~ Fail
    BY <2>2 DEF WorkerStep, Provision, EnsureCephUser, EnsureCephUserQuota,
       GenerateSubuserAccess, GenerateSubuser, RemoveSubuser,
       RemoveSubuserSecret, SubusersSynced, RetrieveCephUser,
       EnsureAdminSecret, EnsureReadonlySecret, EnsureSubuserSecret,
       SecretsEnsured, EnsureS3User, UpdateS3UserClaimStatus,
       AddCleanupFinalizer, Cleanup, RemoveCephUser, RemoveS3User,
       RemoveCleanupFinalizer, UpdateQuota, SumNamespaceUsedQuota,
       UpdateNamespaceQuotaStatus, Fail
  <2>6. ~ Informer /\ \A c \in Claims : ~ Reconcile(c)
    BY <2>1, <2>2 DEF Informer, Deliver, DeliverQuota, Reconcile
  <2>7. ~ Restart
    BY DEF Restart
  <2> QED BY <1>2, <2>3, <2>4, <2>5, <2>6, <2>7 DEF Next, Worker, WorkerStep
<1> QED BY <1>1, <1>2

LEMMA FreshRequest ==
    ASSUME SafetyInv, FreshInv, Next, pc' # "idle", ~ Pending(cur)'
    PROVE  obj' = claim'[cur']
<1>0. /\ cur' \in Claims
      /\ up'
  BY TypeStep DEF SafetyInv, TypeInv, Active, Pending
<1>1. PICK c \in Claims : c = cur'
  BY <1>0
<1>2. ~ Pending(c)'
  BY <1>1 DEF Pending
<1>3. CASE pc # "idle" /\ UNCHANGED <<cur, obj>>
  <2>1. up
    BY <1>3 DEF FreshInv
  <2>2. ~ Restart /\ ~ Reconcile(c)
    BY <1>3, <2>1 DEF Restart, Reconcile
  <2>3. ~ Pending(c) /\ claim'[c] = claim[c]
    BY <1>2, <2>2, PendingStep
  <2> QED BY <1>1, <1>3, <2>3 DEF FreshInv
<1>4. ASSUME NEW d \in Claims, Reconcile(d)
      PROVE  obj' = claim'[cur']
  <2>1. d = c /\ c \in queue /\ obj' = cache[c]
    BY <1>1, <1>4, ReconcileTakes DEF SafetyInv
  <2>2. ~ Restart
    BY <2>1 DEF Restart, FreshInv
  <2> QED BY <1>1, <1>2, <2>1, <2>2, PendingStep DEF Pending
<1> QED BY <1>3, <1>4, RequestKinds

LEMMA FreshStep ==
    ASSUME SafetyInv, FreshInv, Next
    PROVE  FreshInv'
BY FreshCopies, DownStep, FreshRequest DEF FreshInv

LEMMA FreshInit == Init => FreshInv
BY DEF Init, FreshInv

-----------------------------------------------------------------------------
(* Nothing of a claim that is gone is left behind.                           *)

(* What a step does while a Cleanup removes the users. *)
LEMMA RemovalKinds ==
    ASSUME SafetyInv, Next, pc \in {"removeCephUser", "removeS3User"}
    PROVE  \/ UNCHANGED <<pc, cur>>
           \/ RemoveCephUser /\ pc' = "removeS3User" /\ cur' = cur
           \/ RemoveS3User
           \/ cur \in Claims /\ cur \in queue'
           \/ Crash \/ Restart
<1>0. cur \in Claims
  BY DEF SafetyInv, TypeInv, Active
<1>1. CASE \E c \in Claims : User(c)
  BY <1>1 DEF User, CreateClaim, EditClaim, DeleteClaim, StripFinalizer,
     reqVars
<1>2. CASE Informer \/ CollectGarbage
  BY <1>2 DEF Informer, Deliver, DeliverQuota, CollectGarbage, CollectSecret,
     reqVars
<1>3. CASE Fail
  BY <1>0, <1>3 DEF Fail, Requeue
<1>4. CASE Cleanup
  BY <1>4 DEF Cleanup, RemoveCephUser, RemoveCleanupFinalizer, Goto, reqVars
<1>5. ~ Provision /\ ~ UpdateQuota /\ \A c \in Claims : ~ Reconcile(c)
  BY DEF Provision, EnsureCephUser, EnsureCephUserQuota,
     GenerateSubuserAccess, GenerateSubuser, RemoveSubuser,
     RemoveSubuserSecret, SubusersSynced, RetrieveCephUser,
     EnsureAdminSecret, EnsureReadonlySecret, EnsureSubuserSecret,
     SecretsEnsured, EnsureS3User, UpdateS3UserClaimStatus,
     AddCleanupFinalizer, UpdateQuota, SumNamespaceUsedQuota,
     UpdateNamespaceQuotaStatus, Reconcile
<1> QED BY <1>1, <1>2, <1>3, <1>4, <1>5 DEF Next, Worker

LEMMA S3UsersKept ==
    ASSUME Next, ~ EnsureS3User, ~ RemoveS3User
    PROVE  s3user' = s3user
<1> USE DEF apiVars
<1>1. CASE \E c \in Claims : User(c)
  BY <1>1 DEF User, CreateClaim, EditClaim, DeleteClaim, StripFinalizer
<1>2. CASE \E c \in Claims : Reconcile(c)
  BY <1>2 DEF Reconcile
<1>3. CASE Provision
  BY <1>3 DEF Provision, EnsureCephUser, EnsureCephUserQuota,
     GenerateSubuserAccess, GenerateSubuser, RemoveSubuser,
     RemoveSubuserSecret, SubusersSynced, RetrieveCephUser,
     EnsureAdminSecret, EnsureReadonlySecret, EnsureSubuserSecret,
     SecretsEnsured, UpdateS3UserClaimStatus, AddCleanupFinalizer
<1>4. CASE Cleanup \/ UpdateQuota
  BY <1>4 DEF Cleanup, RemoveCephUser, RemoveCleanupFinalizer, UpdateQuota,
     SumNamespaceUsedQuota, UpdateNamespaceQuotaStatus
<1>5. CASE Informer \/ CollectGarbage \/ Fail \/ Crash \/ Restart
  BY <1>5 DEF Informer, Deliver, DeliverQuota, CollectGarbage, CollectSecret,
     Fail, Crash, Restart
<1> QED BY <1>1, <1>2, <1>3, <1>4, <1>5 DEF Next, Worker

(* The event of an S3User that is written leads back to its claim, so what   *)
(* nothing is pending for was not written.                                  *)
LEMMA S3UserQuiet ==
    ASSUME SafetyInv, Next, NEW c \in Claims, c \notin queue'
    PROVE  \/ s3user'[c] = s3user[c]
           \/ ~ s3user[c].exists /\ ~ s3user'[c].exists
<1>1. CASE EnsureS3User
  <2> DEFINE fresh == [exists |-> TRUE, uid |-> obj.uid, rv |-> obj.rv,
                       quota |-> obj.spec.quota]
  <2>1. /\ s3user' = [s3user EXCEPT ![cur] = fresh]
        /\ queue' = IF s3user[cur] = fresh THEN queue ELSE queue \cup {cur}
    BY <1>1 DEF EnsureS3User
  <2> HIDE DEF fresh
  <2> QED BY <2>1 DEF SafetyInv, TypeInv, TypeOK
<1>2. CASE RemoveS3User
  <2>1. /\ s3user' = [s3user EXCEPT ![cur] = NoS3User]
        /\ queue' = IF s3user[cur].exists THEN queue \cup {cur} ELSE queue
    BY <1>2 DEF RemoveS3User
  <2>2. ~ NoS3User.exists
    BY DEF NoS3User
  <2> QED BY <2>1, <2>2 DEF SafetyInv, TypeInv, TypeOK
<1>3. CASE ~ EnsureS3User /\ ~ RemoveS3User
  BY <1>3, S3UsersKept
<1> QED BY <1>1, <1>2, <1>3

LEMMA LeftoverStep ==
    ASSUME SafetyInv, FreshInv, LeftoverInv, Next
    PROVE  LeftoverInv'
<1> SUFFICES ASSUME NEW c \in Claims, claim'[c].state # "live",
                    s3user'[c].exists, ~ Pending(c)'
             PROVE  Working(c)' /\ pc' \in {"removeCephUser", "removeS3User"}
  BY DEF LeftoverInv, Pending, Working
<1>1. up' /\ c \notin queue'
  BY DEF Pending
<1>2. s3user[c].exists
  BY <1>1, S3UserQuiet
<1>3. CASE ~ Pending(c) /\ claim'[c] = claim[c]
  <2>1. Working(c) /\ pc \in {"removeCephUser", "removeS3User"} /\ up
    BY <1>2, <1>3 DEF LeftoverInv, Pending
  <2>2. cur = c /\ pc # "idle"
    BY <2>1 DEF Working
  <2>3. ~ Crash /\ ~ Restart
    BY <1>1, <2>1 DEF Crash, Restart
  <2>4. ~ RemoveS3User
    <3>1. ASSUME RemoveS3User
          PROVE  ~ s3user'[c].exists
      BY <2>2, <3>1 DEF RemoveS3User, NoS3User, SafetyInv, TypeInv, TypeOK
    <3> QED BY <3>1
  <2> QED BY <1>1, <2>1, <2>2, <2>3, <2>4, RemovalKinds DEF Working
<1>4. CASE Reconcile(c) /\ cache[c] = claim[c] /\ claim'[c] = claim[c]
  BY <1>4, ReconcileTakes DEF SafetyInv, Working
<1> QED BY <1>3, <1>4, PendingStep

LEMMA LeftoverInit == Init => LeftoverInv
BY DEF Init, LeftoverInv, NoS3User

(* The account of the request is created for a live claim only. *)
LEMMA OrphanStep ==
    ASSUME MaxCrashes = 0, SafetyInv, FreshInv, OrphanInv, Next
    PROVE  OrphanInv'
<1>0. up /\ spent.crashes \in Nat
  BY DEF OrphanInv, SafetyInv, TypeInv, TypeOK, Counters
<1>1. ~ Crash /\ ~ Restart
  BY <1>0 DEF Crash, Restart
<1>2. up'
  BY <1>0, <1>1, StepKinds DEF Written, Deliver
<1> SUFFICES ASSUME NEW c \in Claims, claim'[c].state # "live",
                    ceph'[c].exists, ~ Pending(c)'
             PROVE  Working(c)' /\ pc' = "removeCephUser"
  BY <1>2 DEF OrphanInv, Pending, Working
<1>3. c \notin queue'
  BY DEF Pending
<1>4. CASE ~ Pending(c) /\ claim'[c] = claim[c]
  <2>1. CASE ~ ceph[c].exists
    <3>1. AccountWrite /\ cur = c /\ ~ RemoveCephUser
      BY <2>1, AccountsKept, AccountWrites
    <3>2. pc \in ProvisionSteps /\ pc # "idle"
      BY <3>1 DEF AccountWrite, EnsureCephUser, EnsureCephUserQuota,
         GenerateSubuser, RemoveSubuser, ProvisionSteps
    <3>3. obj = claim[c] /\ obj.state = "live"
      BY <1>4, <3>1, <3>2 DEF FreshInv, SafetyInv, RequestInv
    <3> QED BY <1>4, <3>3
  <2>2. CASE ceph[c].exists
    <3>1. cur = c /\ pc = "removeCephUser"
      BY <1>4, <2>2 DEF OrphanInv, Working
    <3>2. ~ RemoveCephUser
      <4>1. ASSUME RemoveCephUser
            PROVE  ~ ceph'[c].exists
        BY <3>1, <4>1 DEF RemoveCephUser, NoUser, SafetyInv, TypeInv, TypeOK
      <4> QED BY <4>1
    <3>3. ~ RemoveS3User
      BY <3>1 DEF RemoveS3User
    <3> QED BY <1>1, <1>3, <3>1, <3>2, <3>3, RemovalKinds DEF Working
  <2> QED BY <2>1, <2>2
<1>5. CASE Reconcile(c) /\ cache[c] = claim[c] /\ claim'[c] = claim[c]
  BY <1>5, ReconcileTakes DEF SafetyInv, Working
<1> QED BY <1>1, <1>4, <1>5, PendingStep

LEMMA OrphanInit == Init => OrphanInv
BY DEF Init, OrphanInv, NoUser

(* As long as the operator does not crash, no Ceph user is left behind       *)
(* either, even one of a claim that was deleted before it had its finalizer. *)
THEOREM CephUsersRemoved ==
    ASSUME MaxCrashes = 0
    PROVE  Spec => []NoCephUserLeftBehind
<1>1. Init => FreshInv /\ OrphanInv
  BY FreshInit, OrphanInit
<1>2. SafetyInv /\ FreshInv /\ OrphanInv /\ [Next]_vars =>
        FreshInv' /\ OrphanInv'
  <2>1. CASE UNCHANGED vars
    BY <2>1 DEF vars, FreshInv, OrphanInv, Pending, Working
  <2> QED BY <2>1, FreshStep, OrphanStep
<1>3. FreshInv /\ OrphanInv => NoCephUserLeftBehind
  BY DEF NoCephUserLeftBehind, OrphanInv, Settled, Pending, Working
<1> QED BY <1>1, <1>2, <1>3, SafetyCorrect, PTL DEF Spec

-----------------------------------------------------------------------------
(* What a live claim has been given it keeps.                                *)

(* A step after which nothing is pending for claim c, which is as it was.    *)
Quiet(c) == /\ claim[c].state = "live" /\ claim'[c] = claim[c]
            /\ ~ Pending(c)'

(* A Secret of the claim is written by no step: whoever owned it would hear  *)
(* of it.                                                                   *)
LEMMA SecretQuiet ==
    ASSUME SafetyInv, Next, NEW c \in Claims, Quiet(c),
           NEW n \in SecretNames, secret[n].exists, secret[n].owner = c,
           secret[n].uid = claim[c].uid
    PROVE  secret'[n] = secret[n]
<1>0. /\ secret \in [SecretNames -> SecretRec]
      /\ c # NoKey /\ c \notin queue'
  BY NamesAssumption DEF SafetyInv, TypeInv, TypeOK, Quiet, Pending
<1>1. CASE ~ SecretAction
  BY <1>1, SecretsKept
<1>2. ASSUME NEW m \in SecretNames, CollectSecret(m)
      PROVE  secret'[n] = secret[n]
  <2>1. m # n
    BY <1>0, <1>2 DEF CollectSecret, Garbage, Quiet
  <2> QED BY <1>0, <1>2, <2>1 DEF CollectSecret
<1>3. CASE RemoveSubuserSecret
  <2>1. PICK m : m = SubuserSecret[cur][sub]
    OBVIOUS
  <2>2. secret' = [secret EXCEPT ![m] = NoData]
        /\ queue' = queue \cup Owners({secret[m]})
    BY <1>3, <2>1 DEF RemoveSubuserSecret
  <2>3. m # n
    BY <1>0, <2>2 DEF Owners
  <2> QED BY <1>0, <2>2, <2>3
<1>4. ASSUME NEW m, NEW u, NEW next, NEW rest, EnsureSecret(m, u, next, rest)
      PROVE  secret'[n] = secret[n]
  <2> DEFINE fresh == [exists |-> TRUE, key |-> cephUser[u], owner |-> cur,
                       uid |-> obj.uid]
  <2>1. CASE secret' = secret
    BY <2>1
  <2>2. CASE /\ secret[m].owner \in {cur, NoKey}
             /\ secret' = [secret EXCEPT ![m] = fresh]
             /\ queue' = IF secret[m] = fresh THEN queue ELSE queue \cup {cur}
    <3> HIDE DEF fresh
    <3>1. CASE m = n
      <4>1. cur = c
        BY <1>0, <2>2, <3>1
      <4>2. secret[m] = fresh
        BY <1>0, <2>2, <4>1
      <4> QED BY <1>0, <2>2, <3>1, <4>2
    <3>2. CASE m # n
      BY <1>0, <2>2, <3>2
    <3> QED BY <3>1, <3>2
  <2> QED BY <1>4, <2>1, <2>2 DEF EnsureSecret
<1>5. CASE EnsureAdminSecret
  BY <1>4, <1>5 DEF EnsureAdminSecret
<1>6. CASE EnsureReadonlySecret
  BY <1>4, <1>6 DEF EnsureReadonlySecret
<1>7. ASSUME NEW s \in Users, EnsureSubuserSecret(s)
      PROVE  secret'[n] = secret[n]
  BY <1>4, <1>7 DEF EnsureSubuserSecret
<1> QED BY <1>1, <1>2, <1>3, <1>5, <1>6, <1>7 DEF SecretAction

LEMMA HoldsKept ==
    ASSUME SafetyInv, Next, NEW c \in Claims, Quiet(c), ceph'[c] = ceph[c],
           NEW n \in SecretNames, NEW u, Holds(n, c, u)
    PROVE  Holds(n, c, u)'
<1>1. secret'[n] = secret[n]
  <2>1. /\ secret[n].exists /\ secret[n].owner = c
        /\ secret[n].uid = claim[c].uid
    BY DEF Holds
  <2> QED BY <2>1, SecretQuiet
<1>2. claim'[c].uid = claim[c].uid
  BY DEF Quiet
<1> QED BY <1>1, <1>2 DEF Holds

LEMMA SecretNamed ==
    ASSUME SpecsInv, NEW c \in Claims, claim[c].state = "live"
    PROVE  /\ claim[c].spec.admin \in SecretNames
           /\ claim[c].spec.readonly \in SecretNames
           /\ claim[c].spec.subusers \subseteq Subusers
           /\ \A u \in Users : SubuserSecret[c][u] \in SecretNames
<1>1. claim[c].spec \in SpecsOf[c]
  BY DEF SpecsInv, Specified
<1> QED BY <1>1, SpecsAssumption, NamesAssumption DEF SpecRec

LEMMA PartsKept ==
    ASSUME SafetyInv, SpecsInv, Next, NEW c \in Claims, Quiet(c),
           ceph'[c] = ceph[c]
    PROVE  /\ HasUser(c) => HasUser(c)'
           /\ HasQuota(c) => HasQuota(c)'
           /\ HasSubusers(c) => HasSubusers(c)'
           /\ HasS3User(c) => HasS3User(c)'
           /\ HasStatus(c) => HasStatus(c)'
           /\ Holds(claim[c].spec.admin, c, Admin) =>
                Holds(claim[c].spec.admin, c, Admin)'
           /\ Holds(claim[c].spec.readonly, c, Readonly) =>
                Holds(claim[c].spec.readonly, c, Readonly)'
           /\ \A S \in SUBSET Users :
                HasSecrets(c, S) => HasSecrets(c, S)'
<1>1. /\ claim'[c] = claim[c] /\ claim[c].state = "live" /\ c \notin queue'
      /\ ceph'[c] = ceph[c]
  BY DEF Quiet, Pending
<1>2. /\ HasUser(c) => HasUser(c)'
      /\ HasQuota(c) => HasQuota(c)'
      /\ HasSubusers(c) => HasSubusers(c)'
      /\ HasStatus(c) => HasStatus(c)'
  BY <1>1 DEF HasUser, HasQuota, HasSubusers, HasStatus
<1>3. HasS3User(c) => HasS3User(c)'
  BY <1>1, S3UserQuiet DEF HasS3User
<1>4. PICK n : n = claim[c].spec.admin
  OBVIOUS
<1>5. PICK m : m = claim[c].spec.readonly
  OBVIOUS
<1>6. n \in SecretNames /\ m \in SecretNames
  BY <1>1, <1>4, <1>5, SecretNamed
<1>7. /\ Holds(n, c, Admin) => Holds(n, c, Admin)'
      /\ Holds(m, c, Readonly) => Holds(m, c, Readonly)'
  BY <1>6, HoldsKept
<1>8. ASSUME NEW S \in SUBSET Users, HasSecrets(c, S)
      PROVE  HasSecrets(c, S)'
  <2>1. ASSUME NEW u \in S
        PROVE  Holds(SubuserSecret[c][u], c, u)'
    <3>1. SubuserSecret[c][u] \in SecretNames
      BY <1>1, SecretNamed
    <3>2. Holds(SubuserSecret[c][u], c, u)
      BY <1>8 DEF HasSecrets
    <3> QED BY <3>1, <3>2, HoldsKept
  <2> QED BY <2>1 DEF HasSecrets
<1>9. /\ Holds(claim[c].spec.admin, c, Admin) =>
           Holds(claim[c].spec.admin, c, Admin)'
      /\ Holds(claim[c].spec.readonly, c, Readonly) =>
           Holds(claim[c].spec.readonly, c, Readonly)'
  <2>1. n = claim'[c].spec.admin /\ m = claim'[c].spec.readonly
    BY <1>1, <1>4, <1>5
  <2> QED BY <1>4, <1>5, <1>7, <2>1
<1> QED BY <1>2, <1>3, <1>8, <1>9

-----------------------------------------------------------------------------
(* What Provision does for the claim it has been given.                      *)

OnTheWay(c) == IF Working(c) THEN ProvisionedSoFar(c) ELSE Provisioned(c)

(* The worker is at claim c, has it as it is, and ends its step with nothing *)
(* pending for it.                                                          *)
AtWork(c) == Quiet(c) /\ Working(c) /\ ProvisionedSoFar(c)

LEMMA StillWorking ==
    ASSUME NEW c \in Claims, AtWork(c), UNCHANGED <<cur, obj>>, pc' # "idle"
    PROVE  /\ Working(c)' /\ obj' = claim'[c] /\ cur = c /\ obj = claim[c]
           /\ claim'[c] = claim[c]
BY DEF AtWork, Quiet, Working, ProvisionedSoFar

LEMMA AccountMade ==
    ASSUME SafetyInv, NEW c \in Claims, AtWork(c),
           EnsureCephUser \/ EnsureCephUserQuota
    PROVE  OnTheWay(c)'
<1>1. UNCHANGED <<cur, obj>> /\ pc' # "idle"
  BY DEF EnsureCephUser, EnsureCephUserQuota, reqVars, Goto
<1>2. Working(c)' /\ obj' = claim'[c] /\ cur = c /\ obj = claim[c]
      /\ claim'[c] = claim[c]
  BY <1>1, StillWorking
<1>3. CASE EnsureCephUser
  <2> DEFINE keys == IF ceph[cur].exists
                       THEN ceph[cur].keys
                       ELSE [NoKeys EXCEPT ![Admin] = nextKey + 1]
             account == [exists |-> TRUE, for |-> obj.uid,
                         maxBuckets |-> obj.spec.quota,
                         quota |-> ceph[cur].quota,
                         subusers |-> ceph[cur].subusers, keys |-> keys]
  <2>1. ceph' = [ceph EXCEPT ![cur] = account] /\ pc' = "cephQuota"
    BY <1>3 DEF EnsureCephUser, Goto
  <2>2. account.exists /\ account.maxBuckets = obj.spec.quota
    OBVIOUS
  <2> HIDE DEF account
  <2>3. HasUser(c)'
    BY <1>2, <2>1, <2>2 DEF HasUser, SafetyInv, TypeInv, TypeOK
  <2> QED BY <1>2, <2>1, <2>3
          DEF OnTheWay, ProvisionedSoFar, AccountSteps, SecretSteps, LastSteps
<1>4. CASE EnsureCephUserQuota
  <2>1. /\ ceph'[c] = [ceph[c] EXCEPT !.quota = obj.spec.quota]
        /\ pc = "cephQuota" /\ pc' = "subuserAccess"
        /\ ceph[c] \in CephRec
    BY <1>2, <1>4 DEF EnsureCephUserQuota, Goto, SafetyInv, TypeInv, TypeOK
  <2>2. HasUser(c)
    BY <2>1 DEF AtWork, ProvisionedSoFar
  <2>3. HasUser(c)' /\ HasQuota(c)'
    BY <1>2, <2>1, <2>2 DEF HasUser, HasQuota, CephRec
  <2> QED BY <1>2, <2>1, <2>3
          DEF OnTheWay, ProvisionedSoFar, AccountSteps, SecretSteps, LastSteps
<1> QED BY <1>3, <1>4

LEMMA SubusersMade ==
    ASSUME SafetyInv, NEW c \in Claims, AtWork(c), NEW s \in Users,
           GenerateSubuser(s) \/ RemoveSubuser(s)
    PROVE  OnTheWay(c)'
<1>1. UNCHANGED <<cur, obj>> /\ pc' # "idle" /\ pc = "subusers"
      /\ pc' \in {"subusers", "subuserSecret"}
  BY DEF GenerateSubuser, RemoveSubuser, reqVars, Goto
<1>2. Working(c)' /\ obj' = claim'[c] /\ cur = c /\ obj = claim[c]
      /\ claim'[c] = claim[c]
  BY <1>1, StillWorking
<1>3. /\ HasUser(c) /\ HasQuota(c)
      /\ todo = SubuserAccess(DesiredSubusers, ceph[c].subusers)
  BY <1>1 DEF AtWork, ProvisionedSoFar
<1>4. DesiredSubusers' = DesiredSubusers
  BY <1>1 DEF DesiredSubusers
<1>5. CASE GenerateSubuser(s)
  <2>1. /\ ceph'[c].exists = ceph[c].exists
        /\ ceph'[c].maxBuckets = ceph[c].maxBuckets
        /\ ceph'[c].quota = ceph[c].quota
        /\ ceph'[c].subusers = ceph[c].subusers \cup {s}
        /\ s \in todo \cap DesiredSubusers /\ todo' = todo \ {s}
    BY <1>2, <1>5 DEF GenerateSubuser, WithSubusers, SafetyInv, TypeInv,
       TypeOK
  <2>2. todo' = SubuserAccess(DesiredSubusers, ceph'[c].subusers)
    BY <1>3, <2>1 DEF SubuserAccess
  <2>3. HasUser(c)' /\ HasQuota(c)'
    BY <1>2, <1>3, <2>1 DEF HasUser, HasQuota
  <2> QED BY <1>1, <1>2, <1>4, <2>2, <2>3
          DEF OnTheWay, ProvisionedSoFar, AccountSteps, SecretSteps, LastSteps
<1>6. CASE RemoveSubuser(s)
  <2>1. /\ ceph'[c].exists = ceph[c].exists
        /\ ceph'[c].maxBuckets = ceph[c].maxBuckets
        /\ ceph'[c].quota = ceph[c].quota
        /\ ceph'[c].subusers = ceph[c].subusers \ {s}
        /\ s \in todo \ DesiredSubusers /\ todo' = todo \ {s}
    BY <1>2, <1>6 DEF RemoveSubuser, WithSubusers, SafetyInv, TypeInv,
       TypeOK
  <2>2. todo' = SubuserAccess(DesiredSubusers, ceph'[c].subusers)
    BY <1>3, <2>1 DEF SubuserAccess
  <2>3. HasUser(c)' /\ HasQuota(c)'
    BY <1>2, <1>3, <2>1 DEF HasUser, HasQuota
  <2> QED BY <1>1, <1>2, <1>4, <2>2, <2>3
          DEF OnTheWay, ProvisionedSoFar, AccountSteps, SecretSteps, LastSteps
<1> QED BY <1>5, <1>6

LEMMA LoopsMade ==
    ASSUME SafetyInv, SpecsInv, Next, NEW c \in Claims, AtWork(c),
           \/ GenerateSubuserAccess \/ RemoveSubuserSecret \/ SubusersSynced
           \/ RetrieveCephUser
    PROVE  OnTheWay(c)'
<1> USE DEF AccountSteps, SecretSteps, LastSteps, Goto
<1>1. UNCHANGED <<cur, obj, ceph>> /\ pc' # "idle"
  BY DEF GenerateSubuserAccess, RemoveSubuserSecret, SubusersSynced,
     RetrieveCephUser, reqVars, rgwVars
<1>2. Working(c)' /\ obj' = claim'[c] /\ cur = c /\ obj = claim[c]
      /\ claim'[c] = claim[c]
  BY <1>1, StillWorking
<1>3. /\ HasUser(c) => HasUser(c)'
      /\ HasQuota(c) => HasQuota(c)'
      /\ HasSubusers(c) => HasSubusers(c)'
  BY <1>1, PartsKept DEF AtWork
<1>4. DesiredSubusers' = DesiredSubusers
  BY <1>1 DEF DesiredSubusers
<1>5. CASE GenerateSubuserAccess
  <2>1. /\ pc = "subuserAccess" /\ pc' = "subusers"
        /\ todo' = SubuserAccess(DesiredSubusers, ceph[c].subusers)
    BY <1>2, <1>5 DEF GenerateSubuserAccess
  <2>2. HasUser(c)' /\ HasQuota(c)'
    BY <1>3, <2>1 DEF AtWork, ProvisionedSoFar
  <2>3. todo' = SubuserAccess(DesiredSubusers', ceph'[c].subusers)
    BY <1>1, <1>4, <2>1
  <2> QED BY <1>2, <2>1, <2>2, <2>3 DEF OnTheWay, ProvisionedSoFar
<1>6. CASE RemoveSubuserSecret
  <2>1. pc = "subuserSecret" /\ pc' = "subusers" /\ todo' = todo
    BY <1>6 DEF RemoveSubuserSecret
  <2>2. /\ HasUser(c)' /\ HasQuota(c)'
        /\ todo = SubuserAccess(DesiredSubusers, ceph[c].subusers)
    BY <1>3, <2>1 DEF AtWork, ProvisionedSoFar
  <2>3. todo' = SubuserAccess(DesiredSubusers', ceph'[c].subusers)
    BY <1>1, <1>4, <2>1, <2>2
  <2> QED BY <1>2, <2>1, <2>2, <2>3 DEF OnTheWay, ProvisionedSoFar
<1>7. CASE SubusersSynced
  <2>1. pc = "subusers" /\ pc' = "retrieve" /\ todo = {}
    BY <1>7 DEF SubusersSynced
  <2>2. /\ HasUser(c)' /\ HasQuota(c)'
        /\ todo = SubuserAccess(DesiredSubusers, ceph[c].subusers)
    BY <1>3, <2>1 DEF AtWork, ProvisionedSoFar
  <2>3. HasSubusers(c)
    BY <1>2, <2>1, <2>2 DEF HasSubusers, SubuserAccess, DesiredSubusers
  <2> QED BY <1>2, <1>3, <2>1, <2>2, <2>3 DEF OnTheWay, ProvisionedSoFar
<1>8. CASE RetrieveCephUser
  <2>1. pc = "retrieve" /\ pc' = "adminSecret" /\ cephUser' = ceph[c].keys
    BY <1>2, <1>8 DEF RetrieveCephUser
  <2>2. HasUser(c)' /\ HasQuota(c)' /\ HasSubusers(c)'
    BY <1>3, <2>1 DEF AtWork, ProvisionedSoFar
  <2>3. cephUser' = ceph'[c].keys
    BY <1>1, <2>1
  <2> QED BY <1>2, <2>1, <2>2, <2>3 DEF OnTheWay, ProvisionedSoFar
<1> QED BY <1>5, <1>6, <1>7, <1>8

(* A Secret that is ensured without an event to follow was right already.    *)
LEMMA SecretEnsured ==
    ASSUME SafetyInv, SpecsInv, Next, NEW c \in Claims, AtWork(c),
           NEW n \in SecretNames, NEW u, NEW next, NEW rest,
           EnsureSecret(n, u, next, rest), pc \in SecretSteps,
           next # "idle", UNCHANGED ceph
    PROVE  /\ Holds(n, c, u) /\ Holds(n, c, u)'
           /\ pc' = next /\ todo' = rest /\ cephUser' = cephUser
           /\ UNCHANGED <<cur, obj>>
<1>1. /\ cur = c /\ obj = claim[c] /\ c \notin queue'
      /\ cephUser = ceph[c].keys
  BY DEF AtWork, Quiet, Working, ProvisionedSoFar, Pending
<1>2. PICK fresh : fresh = [exists |-> TRUE, key |-> cephUser[u],
                            owner |-> cur, uid |-> obj.uid]
  OBVIOUS
<1>3. CASE Requeue
  BY <1>1, <1>3 DEF Requeue
<1>4. CASE /\ secret' = [secret EXCEPT ![n] = fresh]
           /\ queue' = IF secret[n] = fresh THEN queue ELSE queue \cup {cur}
           /\ todo' = rest
           /\ Goto(next)
           /\ UNCHANGED <<reqVars, cephUser, sub, sum>>
  <2>1. secret[n] = fresh
    BY <1>1, <1>4
  <2>2. Holds(n, c, u)
    BY <1>1, <1>2, <2>1 DEF Holds
  <2>3. Holds(n, c, u)'
    BY <2>2, HoldsKept DEF AtWork
  <2> QED BY <1>4, <2>2, <2>3 DEF Goto, reqVars
<1> QED BY <1>2, <1>3, <1>4 DEF EnsureSecret

LEMMA SecretsMade ==
    ASSUME SafetyInv, SpecsInv, Next, NEW c \in Claims, AtWork(c),
           \/ EnsureAdminSecret \/ EnsureReadonlySecret
           \/ \E s \in Users : EnsureSubuserSecret(s)
    PROVE  OnTheWay(c)'
<1> USE DEF AccountSteps, SecretSteps, LastSteps
<1>0. /\ cur = c /\ obj = claim[c] /\ claim[c].state = "live"
      /\ UNCHANGED ceph /\ pc \in SecretSteps
  BY DEF AtWork, Quiet, Working, ProvisionedSoFar, EnsureAdminSecret,
     EnsureReadonlySecret, EnsureSubuserSecret, rgwVars
<1>1. /\ HasUser(c)' /\ HasQuota(c)' /\ HasSubusers(c)'
      /\ pc # "adminSecret" => Holds(claim[c].spec.admin, c, Admin)'
      /\ pc = "otherSecrets" => Holds(claim[c].spec.readonly, c, Readonly)'
      /\ \A S \in SUBSET Users : HasSecrets(c, S) => HasSecrets(c, S)'
      /\ cephUser = ceph[c].keys
  <2>1. /\ HasUser(c) /\ HasQuota(c) /\ HasSubusers(c)
        /\ pc # "adminSecret" => Holds(claim[c].spec.admin, c, Admin)
        /\ pc = "otherSecrets" => Holds(claim[c].spec.readonly, c, Readonly)
        /\ cephUser = ceph[c].keys
    BY <1>0 DEF AtWork, ProvisionedSoFar
  <2> QED BY <1>0, <2>1, PartsKept DEF AtWork
<1>2. /\ claim[c].spec.admin \in SecretNames
      /\ claim[c].spec.readonly \in SecretNames
      /\ claim[c].spec.subusers \subseteq Users
      /\ \A u \in Users : SubuserSecret[c][u] \in SecretNames
  BY <1>0, SecretNamed DEF Users
<1>3. CASE EnsureAdminSecret
  <2>1. EnsureSecret(claim[c].spec.admin, Admin, "readonlySecret", {})
    BY <1>0, <1>3 DEF EnsureAdminSecret
  <2>2. PICK n \in SecretNames : n = claim[c].spec.admin
    BY <1>2
  <2>3. /\ Holds(n, c, Admin)' /\ pc' = "readonlySecret"
        /\ cephUser' = cephUser /\ UNCHANGED <<cur, obj>>
    BY <1>0, <2>1, <2>2, SecretEnsured
  <2>4. Working(c)' /\ obj' = claim'[c] /\ claim'[c] = claim[c]
    BY <2>3, StillWorking
  <2>5. cephUser' = ceph'[c].keys /\ n = obj'.spec.admin
    BY <1>0, <1>1, <2>2, <2>3
  <2> QED BY <1>1, <2>3, <2>4, <2>5 DEF OnTheWay, ProvisionedSoFar
<1>4. CASE EnsureReadonlySecret
  <2>0. pc = "readonlySecret"
    BY <1>4 DEF EnsureReadonlySecret
  <2>1. EnsureSecret(claim[c].spec.readonly, Readonly, "otherSecrets",
                     claim[c].spec.subusers)
    BY <1>0, <1>4 DEF EnsureReadonlySecret
  <2>2. PICK n \in SecretNames : n = claim[c].spec.readonly
    BY <1>2
  <2>3. /\ Holds(n, c, Readonly)' /\ pc' = "otherSecrets"
        /\ todo' = claim[c].spec.subusers
        /\ cephUser' = cephUser /\ UNCHANGED <<cur, obj>>
    BY <1>0, <2>1, <2>2, SecretEnsured
  <2>4. Working(c)' /\ obj' = claim'[c] /\ claim'[c] = claim[c]
    BY <2>3, StillWorking
  <2>5. cephUser' = ceph'[c].keys /\ n = obj'.spec.readonly
    BY <1>0, <1>1, <2>2, <2>3
  <2>6. Holds(obj.spec.admin, c, Admin)'
    BY <1>0, <1>1, <2>0, <2>3, <2>4
  <2>7. HasSecrets(c, obj.spec.subusers \ todo)'
    BY <1>0, <2>3 DEF HasSecrets
  <2> QED BY <1>1, <2>3, <2>4, <2>5, <2>6, <2>7
          DEF OnTheWay, ProvisionedSoFar
<1>5. ASSUME NEW s \in Users, EnsureSubuserSecret(s)
      PROVE  OnTheWay(c)'
  <2>0. pc = "otherSecrets"
    BY <1>5 DEF EnsureSubuserSecret
  <2>1. EnsureSecret(SubuserSecret[c][s], s, "otherSecrets", todo \ {s})
    BY <1>0, <1>5 DEF EnsureSubuserSecret
  <2>2. /\ Holds(SubuserSecret[c][s], c, s)' /\ pc' = "otherSecrets"
        /\ todo' = todo \ {s}
        /\ cephUser' = cephUser /\ UNCHANGED <<cur, obj>>
    BY <1>0, <1>2, <2>1, SecretEnsured
  <2>3. Working(c)' /\ obj' = claim'[c] /\ claim'[c] = claim[c]
    BY <2>2, StillWorking
  <2>4. /\ cephUser' = ceph'[c].keys
        /\ Holds(obj.spec.admin, c, Admin)'
        /\ Holds(obj.spec.readonly, c, Readonly)'
    BY <1>0, <1>1, <2>0, <2>2, <2>3
  <2>5. HasSecrets(c, obj.spec.subusers \ todo)'
    <3>1. PICK S : S = claim[c].spec.subusers \ todo
      OBVIOUS
    <3>2. HasSecrets(c, S)
      BY <1>0, <2>0, <3>1 DEF AtWork, ProvisionedSoFar
    <3>3. HasSecrets(c, S)' /\ S \subseteq Users
      BY <1>1, <1>2, <3>1, <3>2
    <3>4. obj'.spec.subusers \ todo' \subseteq S \cup {s}
      BY <1>0, <2>2, <3>1
    <3> QED BY <2>2, <3>3, <3>4 DEF HasSecrets
  <2> QED BY <1>1, <2>2, <2>3, <2>4, <2>5 DEF OnTheWay, ProvisionedSoFar
<1> QED BY <1>3, <1>4, <1>5

(* What the account and the Secrets have come to by the last steps.          *)
LEMMA SecretsDone ==
    ASSUME SafetyInv, SpecsInv, Next, NEW c \in Claims, AtWork(c),
           UNCHANGED ceph,
           pc \notin AccountSteps \cup SecretSteps \/ todo = {},
           pc \notin AccountSteps \cup (SecretSteps \ {"otherSecrets"})
    PROVE  /\ obj = claim[c] /\ claim'[c] = claim[c]
           /\ HasUser(c)' /\ HasQuota(c)' /\ HasSubusers(c)'
           /\ Holds(claim[c].spec.admin, c, Admin)'
           /\ Holds(claim[c].spec.readonly, c, Readonly)'
           /\ HasSecrets(c, claim[c].spec.subusers)'
           /\ HasS3User(c) => HasS3User(c)'
           /\ HasStatus(c) => HasStatus(c)'
<1> USE DEF AccountSteps, SecretSteps, LastSteps
<1>0. obj = claim[c] /\ claim'[c] = claim[c] /\ claim[c].state = "live"
  BY DEF AtWork, Quiet, ProvisionedSoFar
<1>1. /\ HasUser(c) /\ HasQuota(c) /\ HasSubusers(c)
      /\ Holds(claim[c].spec.admin, c, Admin)
      /\ Holds(claim[c].spec.readonly, c, Readonly)
  BY <1>0 DEF AtWork, ProvisionedSoFar
<1>2. HasSecrets(c, claim[c].spec.subusers)
  <2>1. pc = "otherSecrets" =>
          claim[c].spec.subusers \ todo = claim[c].spec.subusers
    OBVIOUS
  <2>2. CASE pc = "otherSecrets"
    BY <1>0, <2>1, <2>2 DEF AtWork, ProvisionedSoFar
  <2>3. CASE pc # "otherSecrets"
    BY <1>0, <2>3 DEF AtWork, ProvisionedSoFar
  <2> QED BY <2>2, <2>3
<1>3. PICK S : S = claim[c].spec.subusers
  OBVIOUS
<1>4. S \in SUBSET Users /\ HasSecrets(c, S)
  BY <1>0, <1>2, <1>3, SecretNamed DEF Users
<1>5. HasSecrets(c, S)' /\ S = claim'[c].spec.subusers
  BY <1>0, <1>3, <1>4, PartsKept DEF AtWork
<1>6. HasSecrets(c, claim[c].spec.subusers)'
  BY <1>5
<1> QED BY <1>0, <1>1, <1>6, PartsKept DEF AtWork

LEMMA LastMade ==
    ASSUME SafetyInv, SpecsInv, Next, NEW c \in Claims, AtWork(c),
           \/ SecretsEnsured \/ EnsureS3User \/ UpdateS3UserClaimStatus
           \/ UpdateQuota \/ AddCleanupFinalizer
    PROVE  OnTheWay(c)'
<1> USE DEF AccountSteps, SecretSteps, LastSteps, Goto
<1>0. /\ cur = c /\ claim[c].state = "live" /\ c \notin queue'
      /\ up' /\ watch'[c] = <<>>
  BY DEF AtWork, Quiet, Working, Pending
<1>1. /\ obj = claim[c] /\ claim'[c] = claim[c]
      /\ HasUser(c)' /\ HasQuota(c)' /\ HasSubusers(c)'
      /\ Holds(claim[c].spec.admin, c, Admin)'
      /\ Holds(claim[c].spec.readonly, c, Readonly)'
      /\ HasSecrets(c, claim[c].spec.subusers)'
      /\ HasS3User(c) => HasS3User(c)'
      /\ HasStatus(c) => HasStatus(c)'
  <2>1. /\ UNCHANGED ceph
        /\ pc \notin AccountSteps \cup SecretSteps \/ todo = {}
        /\ pc \notin AccountSteps \cup (SecretSteps \ {"otherSecrets"})
    BY DEF SecretsEnsured, EnsureS3User, UpdateS3UserClaimStatus,
       UpdateQuota, SumNamespaceUsedQuota, UpdateNamespaceQuotaStatus,
       AddCleanupFinalizer, rgwVars
  <2> QED BY <2>1, SecretsDone
<1>2. ASSUME UNCHANGED <<cur, obj>>,
             pc' \in {"s3User", "status"} \cup LastSteps,
             pc' # "s3User" => HasS3User(c)',
             pc' \in LastSteps => HasStatus(c)'
      PROVE  OnTheWay(c)'
  <2>1. pc' # "idle"
    BY <1>2
  <2>2. Working(c)' /\ obj' = claim'[c]
    BY <1>2, <2>1, StillWorking
  <2>3. /\ Holds(obj.spec.admin, c, Admin)'
        /\ Holds(obj.spec.readonly, c, Readonly)'
        /\ HasSecrets(c, obj.spec.subusers)'
    BY <1>1, <2>2
  <2> QED BY <1>1, <1>2, <2>2, <2>3 DEF OnTheWay, ProvisionedSoFar
<1>3. ~ Requeue
  BY <1>0 DEF Requeue
<1>4. ASSUME NEW r, StoreClaim(c, r), up' = up
      PROVE  FALSE
  BY <1>0, <1>4, WrittenPending DEF SafetyInv
<1>5. CASE SecretsEnsured
  BY <1>2, <1>5 DEF SecretsEnsured, reqVars
<1>6. CASE EnsureS3User
  <2> DEFINE fresh == [exists |-> TRUE, uid |-> obj.uid, rv |-> obj.rv,
                       quota |-> obj.spec.quota]
  <2>1. /\ s3user' = [s3user EXCEPT ![cur] = fresh]
        /\ pc' = "status" /\ UNCHANGED <<cur, obj>>
    BY <1>6 DEF EnsureS3User, reqVars
  <2>2. fresh.exists /\ fresh.uid = obj.uid /\ fresh.quota = obj.spec.quota
    OBVIOUS
  <2> HIDE DEF fresh
  <2>3. HasS3User(c)'
    BY <1>0, <1>1, <2>1, <2>2 DEF HasS3User, SafetyInv, TypeInv, TypeOK
  <2> QED BY <1>2, <2>1, <2>3
<1>7. CASE UpdateS3UserClaimStatus
  <2>1. HasS3User(c)'
    BY <1>1, <1>7 DEF UpdateS3UserClaimStatus, AtWork, ProvisionedSoFar
  <2>2. obj.status = StatusFor(obj.spec) /\ pc' = "sumUsed"
        /\ UNCHANGED <<cur, obj>>
    BY <1>0, <1>3, <1>4, <1>7 DEF UpdateS3UserClaimStatus, reqVars
  <2>3. HasStatus(c)'
    BY <1>1, <2>2 DEF HasStatus
  <2> QED BY <1>2, <2>1, <2>2, <2>3
<1>8. CASE UpdateQuota
  <2>1. pc \in LastSteps
    BY <1>8 DEF UpdateQuota, SumNamespaceUsedQuota, UpdateNamespaceQuotaStatus
  <2>2. HasS3User(c)' /\ HasStatus(c)'
    BY <1>1, <2>1 DEF AtWork, ProvisionedSoFar
  <2>3. pc' \in {"writeUsed", "addFinalizer"} /\ UNCHANGED <<cur, obj>>
    BY <1>0, <1>1, <1>3, <1>8
       DEF UpdateQuota, SumNamespaceUsedQuota, UpdateNamespaceQuotaStatus,
           reqVars
  <2> QED BY <1>2, <2>2, <2>3
<1>9. CASE AddCleanupFinalizer
  <2>1. pc = "addFinalizer"
    BY <1>9 DEF AddCleanupFinalizer
  <2>2. HasS3User(c)' /\ HasStatus(c)'
    BY <1>1, <2>1 DEF AtWork, ProvisionedSoFar
  <2>3. obj.fin /\ EndReconcile
    BY <1>0, <1>3, <1>4, <1>9 DEF AddCleanupFinalizer
  <2>4. ~ Working(c)' /\ claim'[c].fin
    BY <1>1, <2>3 DEF EndReconcile, Working
  <2>5. /\ Holds(claim[c].spec.admin, c, Admin)'
        /\ Holds(claim[c].spec.readonly, c, Readonly)'
        /\ HasSecrets(c, claim[c].spec.subusers)'
    BY <1>1
  <2> QED BY <1>1, <2>2, <2>4, <2>5 DEF OnTheWay, Provisioned
<1> QED BY <1>5, <1>6, <1>7, <1>8, <1>9

LEMMA WorkerMakes ==
    ASSUME SafetyInv, SpecsInv, Next, NEW c \in Claims, AtWork(c), WorkerStep
    PROVE  OnTheWay(c)'
<1>1. ~ Cleanup
  <2>1. obj.state = "live" /\ pc \notin CleanupSteps
    BY DEF AtWork, Quiet, ProvisionedSoFar, SafetyInv, RequestInv
  <2> QED BY <2>1 DEF Cleanup, RemoveCephUser, RemoveS3User,
          RemoveCleanupFinalizer, CleanupSteps
<1>2. CASE Provision
  BY <1>2, AccountMade, SubusersMade, LoopsMade, SecretsMade, LastMade
     DEF Provision
<1>3. CASE UpdateQuota
  BY <1>3, LastMade
<1> QED BY <1>1, <1>2, <1>3 DEF WorkerStep

(* The steps around the worker leave alone what it knows. *)
LEMMA AroundKept ==
    ASSUME Next, ~ WorkerStep, ~ Fail, ~ Crash, \A c \in Claims : ~ Reconcile(c)
    PROVE  UNCHANGED <<pc, cur, obj, cephUser, todo>>
<1> USE DEF reqVars, localVars
<1>1. CASE \E c \in Claims : User(c)
  BY <1>1 DEF User, CreateClaim, EditClaim, DeleteClaim, StripFinalizer
<1>2. CASE Informer \/ CollectGarbage \/ Restart
  BY <1>2 DEF Informer, Deliver, DeliverQuota, CollectGarbage, CollectSecret,
     Restart
<1> QED BY <1>1, <1>2 DEF Next, Worker, WorkerStep

(* A claim the worker is not at keeps what it has been given. *)
LEMMA OthersKeep ==
    ASSUME SafetyInv, SpecsInv, FreshInv, Next, NEW c \in Claims, Quiet(c),
           ~ Pending(c), OnTheWay(c), ~ (WorkerStep /\ Working(c))
    PROVE  OnTheWay(c)'
<1>0. /\ claim'[c] = claim[c] /\ claim[c].state = "live"
      /\ c \notin queue /\ c \notin queue' /\ up /\ up'
  BY DEF Quiet, Pending
<1>1. ceph'[c] = ceph[c]
  <2>1. CASE AccountWrite
    <3>1. WorkerStep /\ pc # "idle"
      BY <2>1, AccountWrites DEF AccountWrite, WorkerStep, Provision, Cleanup
    <3> QED BY <2>1, <3>1, AccountWrites DEF Working
  <2> QED BY <2>1, AccountsKept
<1>2. ~ Crash /\ ~ Restart
  BY <1>0 DEF Crash, Restart
<1>3. CASE Working(c)
  <2>1. /\ ~ Fail /\ \A d \in Claims : ~ Reconcile(d)
        /\ pc # "idle" /\ cur = c
    BY <1>0, <1>3 DEF Working, Fail, Requeue, Reconcile
  <2>2. UNCHANGED <<pc, cur, obj, cephUser, todo>>
    BY <1>2, <1>3, <2>1, AroundKept
  <2>3. ProvisionedSoFar(c)
    BY <1>3 DEF OnTheWay
  <2>4. obj = claim[c] /\ obj' = claim'[c]
    BY <1>0, <2>2, <2>3 DEF ProvisionedSoFar
  <2>5. DesiredSubusers' = DesiredSubusers
    BY <2>2 DEF DesiredSubusers
  <2>6. pc = "otherSecrets" => HasSecrets(c, obj.spec.subusers \ todo)'
    <3>1. PICK S : S = obj.spec.subusers \ todo
      OBVIOUS
    <3>2. S \in SUBSET Users
      BY <1>0, <2>4, <3>1, SecretNamed DEF Users
    <3>3. S = obj'.spec.subusers \ todo'
      BY <2>2, <3>1
    <3>4. pc = "otherSecrets" => HasSecrets(c, S)
      BY <2>3, <3>1 DEF ProvisionedSoFar
    <3> QED BY <1>1, <3>2, <3>3, <3>4, PartsKept
  <2>7. pc \notin AccountSteps \cup SecretSteps =>
          HasSecrets(c, obj.spec.subusers)'
    <3>1. PICK S : S = obj.spec.subusers
      OBVIOUS
    <3>2. S \in SUBSET Users
      BY <1>0, <2>4, <3>1, SecretNamed DEF Users
    <3>3. S = obj'.spec.subusers
      BY <2>2, <3>1
    <3>4. pc \notin AccountSteps \cup SecretSteps => HasSecrets(c, S)
      BY <2>3, <3>1 DEF ProvisionedSoFar
    <3> QED BY <1>1, <3>2, <3>3, <3>4, PartsKept
  <2>8. /\ pc \notin AccountSteps \cup {"adminSecret"} =>
             Holds(obj.spec.admin, c, Admin)'
        /\ pc \notin AccountSteps \cup {"adminSecret", "readonlySecret"} =>
             Holds(obj.spec.readonly, c, Readonly)'
    <3>1. /\ pc \notin AccountSteps \cup {"adminSecret"} =>
               Holds(claim[c].spec.admin, c, Admin)
          /\ pc \notin AccountSteps \cup {"adminSecret", "readonlySecret"} =>
               Holds(claim[c].spec.readonly, c, Readonly)
      BY <2>3, <2>4 DEF ProvisionedSoFar
    <3>2. /\ pc \notin AccountSteps \cup {"adminSecret"} =>
               Holds(claim[c].spec.admin, c, Admin)'
          /\ pc \notin AccountSteps \cup {"adminSecret", "readonlySecret"} =>
               Holds(claim[c].spec.readonly, c, Readonly)'
      BY <1>1, <3>1, PartsKept
    <3> QED BY <2>4, <3>2
  <2>9. /\ pc # "cephUser" => HasUser(c)'
        /\ pc \notin {"cephUser", "cephQuota"} => HasQuota(c)'
        /\ pc \notin AccountSteps \ {"retrieve"} => HasSubusers(c)'
        /\ pc \in {"status"} \cup LastSteps => HasS3User(c)'
        /\ pc \in LastSteps => HasStatus(c)'
    BY <1>1, <2>3, PartsKept DEF ProvisionedSoFar
  <2>10. /\ pc \in {"subusers", "subuserSecret"} =>
              todo' = SubuserAccess(DesiredSubusers', ceph'[c].subusers)
         /\ pc \in SecretSteps => cephUser' = ceph'[c].keys
    BY <1>1, <2>2, <2>3, <2>5 DEF ProvisionedSoFar
  <2>11. ProvisionedSoFar(c)'
    BY <2>2, <2>4, <2>6, <2>7, <2>8, <2>9, <2>10 DEF ProvisionedSoFar
  <2>12. Working(c)'
    BY <1>3, <2>2 DEF Working
  <2> QED BY <2>11, <2>12 DEF OnTheWay
<1>4. CASE ~ Working(c)
  <2>1. ~ Working(c)'
    <3>1. ~ Reconcile(c)
      BY <1>0 DEF Reconcile
    <3> QED BY <1>4, <3>1, RequestKinds DEF Working, Reconcile
  <2>2. Provisioned(c)
    BY <1>4 DEF OnTheWay
  <2>3. PICK S : S = claim[c].spec.subusers
    OBVIOUS
  <2>4. S \in SUBSET Users /\ HasSecrets(c, S) /\ S = claim'[c].spec.subusers
    BY <1>0, <2>2, <2>3, SecretNamed DEF Users, Provisioned
  <2>5. HasSecrets(c, claim[c].spec.subusers)'
    BY <1>1, <2>4, PartsKept
  <2>6. Provisioned(c)'
    BY <1>0, <1>1, <2>2, <2>5, PartsKept DEF Provisioned
  <2> QED BY <2>1, <2>6 DEF OnTheWay
<1> QED BY <1>3, <1>4

LEMMA ProvisionInvStep ==
    ASSUME SafetyInv, SpecsInv, FreshInv, ProvisionInv, Next
    PROVE  ProvisionInv'
<1> SUFFICES ASSUME NEW c \in Claims, claim'[c].state = "live", ~ Pending(c)'
             PROVE  OnTheWay(c)'
  BY DEF ProvisionInv, OnTheWay, Pending, Working, Provisioned,
     ProvisionedSoFar
<1>1. CASE ~ Pending(c) /\ claim'[c] = claim[c]
  <2>1. Quiet(c) /\ OnTheWay(c)
    BY <1>1 DEF Quiet, OnTheWay, ProvisionInv
  <2>2. CASE WorkerStep /\ Working(c)
    BY <2>1, <2>2, WorkerMakes DEF AtWork, OnTheWay
  <2>3. CASE ~ (WorkerStep /\ Working(c))
    BY <1>1, <2>1, <2>3, OthersKeep
  <2> QED BY <2>2, <2>3
<1>2. CASE Reconcile(c) /\ cache[c] = claim[c] /\ claim'[c] = claim[c]
  <2>1. pc' = "cephUser" /\ cur' = c /\ obj' = claim'[c]
    BY <1>2, ReconcileTakes DEF SafetyInv
  <2> QED BY <2>1 DEF OnTheWay, Working, ProvisionedSoFar, AccountSteps,
          SecretSteps, LastSteps
<1>3. CASE Restart /\ claim'[c].state = "absent" /\ ~ s3user'[c].exists
  BY <1>3
<1> QED BY <1>1, <1>2, <1>3, PendingStep

LEMMA ProvisionInit == Init => ProvisionInv
BY DEF Init, ProvisionInv, NoObject

(* The operator forgets no request, or lists all of them as it starts: its   *)
(* last copy of a claim is the claim, an S3User without a live claim will be *)
(* met by a Cleanup, and a live claim that it will not look at again has all *)
(* its spec asks for, or is being given it.                                 *)
THEOREM SettlingCorrect == Spec => []SettlingInv
<1>1. Init => SpecsInv /\ SettlingInv
  BY SpecsInit, FreshInit, LeftoverInit, ProvisionInit DEF SettlingInv
<1>2. SafetyInv /\ SpecsInv /\ SettlingInv /\ [Next]_vars =>
        SpecsInv' /\ SettlingInv'
  <2> SUFFICES ASSUME SafetyInv, SpecsInv, FreshInv, LeftoverInv, ProvisionInv,
                      [Next]_vars
               PROVE  SpecsInv' /\ FreshInv' /\ LeftoverInv' /\ ProvisionInv'
    BY DEF SettlingInv
  <2>1. CASE Next
    BY <2>1, SpecsStep, FreshStep, LeftoverStep, ProvisionInvStep
  <2>2. CASE UNCHANGED vars
    <3> USE <2>2 DEF vars
    <3>1. SpecsInv' /\ FreshInv' /\ LeftoverInv'
      BY DEF SpecsInv, Specified, FreshInv, LeftoverInv, Pending, Working
    <3>2. ASSUME NEW c \in Claims
          PROVE  /\ ProvisionedSoFar(c) => ProvisionedSoFar(c)'
                 /\ Provisioned(c) => Provisioned(c)'
      <4>1. /\ HasUser(c) => HasUser(c)'
            /\ HasQuota(c) => HasQuota(c)'
            /\ HasSubusers(c) => HasSubusers(c)'
            /\ HasS3User(c) => HasS3User(c)'
            /\ HasStatus(c) => HasStatus(c)'
        BY DEF HasUser, HasQuota, HasSubusers, HasS3User, HasStatus
      <4>2. \A n, u : Holds(n, c, u) => Holds(n, c, u)'
        BY DEF Holds
      <4>3. /\ Holds(obj.spec.admin, c, Admin) =>
                 Holds(obj.spec.admin, c, Admin)'
            /\ Holds(obj.spec.readonly, c, Readonly) =>
                 Holds(obj.spec.readonly, c, Readonly)'
            /\ Holds(claim[c].spec.admin, c, Admin) =>
                 Holds(claim[c].spec.admin, c, Admin)'
            /\ Holds(claim[c].spec.readonly, c, Readonly) =>
                 Holds(claim[c].spec.readonly, c, Readonly)'
        BY <4>2
      <4>4. /\ HasSecrets(c, obj.spec.subusers \ todo) =>
                 HasSecrets(c, obj.spec.subusers \ todo)'
            /\ HasSecrets(c, obj.spec.subusers) =>
                 HasSecrets(c, obj.spec.subusers)'
            /\ HasSecrets(c, claim[c].spec.subusers) =>
                 HasSecrets(c, claim[c].spec.subusers)'
        BY <4>2 DEF HasSecrets
      <4>5. DesiredSubusers' = DesiredSubusers
        BY DEF DesiredSubusers
      <4>6. Provisioned(c) => Provisioned(c)'
        BY <4>1, <4>3, <4>4 DEF Provisioned
      <4>7. ProvisionedSoFar(c) => ProvisionedSoFar(c)'
        BY <4>1, <4>3, <4>4, <4>5 DEF ProvisionedSoFar
      <4> QED BY <4>6, <4>7
    <3>3. ProvisionInv'
      BY <3>2 DEF ProvisionInv, Pending, Working
    <3> QED BY <3>1, <3>3
  <2> QED BY <2>1, <2>2
<1> QED BY <1>1, <1>2, SafetyCorrect, PTL DEF Spec

(* Once there is nothing left to do, every live claim has all that its spec  *)
(* asks for, whatever was edited, failed or crashed on the way.              *)
THEOREM ClaimsProvisioned == Spec => []ProvisionedWhenSettled
<1>1. SettlingInv => ProvisionedWhenSettled
  BY DEF SettlingInv, ProvisionInv, ProvisionedWhenSettled, Settled, Pending,
     Working
<1> QED BY <1>1, SettlingCorrect, PTL

(* And no S3User of a claim that is gone is left behind.                     *)
THEOREM S3UsersRemoved == Spec => []NoS3UserLeftBehind
<1>1. SettlingInv => NoS3UserLeftBehind
  BY DEF SettlingInv, LeftoverInv, NoS3UserLeftBehind, Settled, Pending,
     Working
<1> QED BY <1>1, SettlingCorrect, PTL

-----------------------------------------------------------------------------
(* The quota in use is summed again whenever it has changed.                 *)

LEMMA UserFinalized ==
    ASSUME TypeInv, NEW c \in Claims, User(c), Finalized(claim[c])
    PROVE  /\ Finalized(claim'[c])
           /\ \A d \in Claims \ {c} : claim'[d] = claim[d]
<1>0. claim[c] \in ClaimRec /\ claim \in [Claims -> ClaimRec]
  BY DEF TypeInv, TypeOK
<1>1. ASSUME NEW r \in ClaimRec, StoreClaim(c, r), Finalized(r)
      PROVE  /\ Finalized(claim'[c])
             /\ \A d \in Claims \ {c} : claim'[d] = claim[d]
  <2>1. NewVersion(c, r).state = r.state /\ NewVersion(c, r).fin = r.fin
    BY DEF NewVersion, ClaimRec
  <2>2. claim'[c] = NewVersion(c, r)
        /\ \A d \in Claims \ {c} : claim'[d] = claim[d]
    BY <1>0, <1>1 DEF StoreClaim
  <2> QED BY <1>1, <2>1, <2>2 DEF Finalized
<1>2. Gone(c) \in ClaimRec /\ Finalized(Gone(c))
  BY GoneType DEF TypeInv, Gone, NoObject, Finalized
<1>3. CASE CreateClaim(c)
  <2>1. PICK s \in SpecsOf[c] :
          StoreClaim(c, [state |-> "live", uid |-> claim[c].uid + 1,
                         rv |-> 0, spec |-> s, status |-> NoStatus,
                         fin |-> FALSE])
    BY <1>3 DEF CreateClaim
  <2> DEFINE r == [state |-> "live", uid |-> claim[c].uid + 1, rv |-> 0,
                   spec |-> s, status |-> NoStatus, fin |-> FALSE]
  <2>2. r \in ClaimRec /\ r.state = "live"
    BY <1>0, SpecsAssumption, NullTypes DEF ClaimRec
  <2>3. StoreClaim(c, r)
    BY <2>1
  <2> HIDE DEF r
  <2> QED BY <1>1, <2>2, <2>3 DEF Finalized
<1>4. CASE EditClaim(c)
  <2>1. PICK s \in SpecsOf[c] : StoreClaim(c, [claim[c] EXCEPT !.spec = s])
    BY <1>4 DEF EditClaim
  <2> DEFINE r == [claim[c] EXCEPT !.spec = s]
  <2>2. r \in ClaimRec /\ r.state = claim[c].state /\ r.fin = claim[c].fin
    BY <1>0, SpecsAssumption DEF ClaimRec
  <2>3. StoreClaim(c, r)
    BY <2>1
  <2> HIDE DEF r
  <2> QED BY <1>1, <2>2, <2>3 DEF Finalized
<1>5. CASE DeleteClaim(c)
  <2>1. CASE claim[c].fin
    <3> DEFINE r == [claim[c] EXCEPT !.state = "terminating"]
    <3>1. r \in ClaimRec /\ r.fin
      BY <1>0, <2>1 DEF ClaimRec
    <3>2. StoreClaim(c, r)
      BY <1>5, <2>1 DEF DeleteClaim
    <3> HIDE DEF r
    <3> QED BY <1>1, <3>1, <3>2 DEF Finalized
  <2>2. CASE ~ claim[c].fin
    BY <1>1, <1>2, <1>5, <2>2 DEF DeleteClaim
  <2> QED BY <2>1, <2>2
<1>6. CASE StripFinalizer(c)
  <2>1. CASE claim[c].state = "terminating"
    BY <1>1, <1>2, <1>6, <2>1 DEF StripFinalizer
  <2>2. CASE claim[c].state # "terminating"
    <3> DEFINE r == [claim[c] EXCEPT !.fin = FALSE]
    <3>1. r \in ClaimRec /\ r.state = claim[c].state
      BY <1>0 DEF ClaimRec
    <3>2. StoreClaim(c, r)
      BY <1>6, <2>2 DEF StripFinalizer
    <3> HIDE DEF r
    <3> QED BY <1>1, <2>2, <3>1, <3>2 DEF Finalized
  <2> QED BY <2>1, <2>2
<1> QED BY <1>3, <1>4, <1>5, <1>6 DEF User

LEMMA WorkerFinalized ==
    ASSUME SafetyInv, FinalizedInv,
           \/ UpdateS3UserClaimStatus \/ AddCleanupFinalizer
           \/ RemoveCleanupFinalizer
    PROVE  \A c \in Claims : Finalized(claim'[c])
<1>0. /\ obj \in ClaimRec /\ cur \in Claims /\ pc # "idle"
      /\ claim \in [Claims -> ClaimRec]
      /\ \A c \in Claims : Finalized(claim[c])
  BY DEF SafetyInv, TypeInv, TypeOK, Active, UpdateS3UserClaimStatus,
         AddCleanupFinalizer, RemoveCleanupFinalizer, FinalizedInv
<1>1. ASSUME NEW r \in ClaimRec, StoreClaim(cur, r), Finalized(r)
      PROVE  \A c \in Claims : Finalized(claim'[c])
  <2>1. NewVersion(cur, r).state = r.state /\ NewVersion(cur, r).fin = r.fin
    BY DEF NewVersion, ClaimRec
  <2>2. claim'[cur] = NewVersion(cur, r)
        /\ \A d \in Claims \ {cur} : claim'[d] = claim[d]
    BY <1>0, <1>1 DEF StoreClaim
  <2> QED BY <1>0, <1>1, <2>1, <2>2 DEF Finalized
<1>2. CASE claim' = claim
  BY <1>0, <1>2
<1>3. CASE UpdateS3UserClaimStatus /\ claim' # claim
  <2> DEFINE r == [obj EXCEPT !.status = StatusFor(obj.spec)]
  <2>1. UpToDate /\ StoreClaim(cur, r)
    BY <1>3 DEF UpdateS3UserClaimStatus
  <2>2. StatusFor(obj.spec) \in StatusRec
    BY <1>0 DEF StatusFor, StatusRec, ClaimRec, SpecRec
  <2>3. r \in ClaimRec /\ r.state = obj.state /\ r.fin = obj.fin
    BY <1>0, <2>2 DEF ClaimRec
  <2>4. Finalized(obj)
    BY <1>0 DEF FinalizedInv
  <2> HIDE DEF r
  <2> QED BY <1>1, <2>1, <2>3, <2>4 DEF Finalized
<1>4. CASE AddCleanupFinalizer /\ claim' # claim
  <2> DEFINE r == [obj EXCEPT !.fin = TRUE]
  <2>1. StoreClaim(cur, r)
    BY <1>4 DEF AddCleanupFinalizer
  <2>2. r \in ClaimRec /\ r.fin
    BY <1>0 DEF ClaimRec
  <2> HIDE DEF r
  <2> QED BY <1>1, <2>1, <2>2 DEF Finalized
<1>5. CASE RemoveCleanupFinalizer /\ claim' # claim
  <2>1. StoreClaim(cur, Gone(cur))
    BY <1>5 DEF RemoveCleanupFinalizer
  <2>2. Gone(cur) \in ClaimRec /\ Finalized(Gone(cur))
    BY <1>0, GoneType DEF SafetyInv, TypeInv, Gone, NoObject, Finalized
  <2> QED BY <1>1, <2>1, <2>2
<1> QED BY <1>2, <1>3, <1>4, <1>5

LEMMA FinalizedStep ==
    ASSUME SafetyInv, FinalizedInv, Next
    PROVE  FinalizedInv'
<1>0. SafetyInv'
  BY SafetyStep
<1>1. \A c \in Claims : Finalized(claim'[c])
  <2> USE DEF apiVars
  <2>1. CASE claim' = claim
    BY <2>1 DEF FinalizedInv
  <2>2. CASE \E c \in Claims : User(c)
    BY <2>2, UserFinalized DEF FinalizedInv, SafetyInv
  <2>3. CASE \/ UpdateS3UserClaimStatus \/ AddCleanupFinalizer
             \/ RemoveCleanupFinalizer
    BY <2>3, WorkerFinalized
  <2>4. CASE \E c \in Claims : Reconcile(c)
    BY <2>1, <2>4 DEF Reconcile
  <2>5. CASE Provision /\ ~ UpdateS3UserClaimStatus /\ ~ AddCleanupFinalizer
    BY <2>1, <2>5 DEF Provision, EnsureCephUser, EnsureCephUserQuota,
       GenerateSubuserAccess, GenerateSubuser, RemoveSubuser,
       RemoveSubuserSecret, SubusersSynced, RetrieveCephUser,
       EnsureAdminSecret, EnsureReadonlySecret, EnsureSubuserSecret,
       SecretsEnsured, EnsureS3User
  <2>6. CASE RemoveCephUser \/ RemoveS3User \/ UpdateQuota
    BY <2>1, <2>6 DEF RemoveCephUser, RemoveS3User, UpdateQuota,
       SumNamespaceUsedQuota, UpdateNamespaceQuotaStatus
  <2>7. CASE Informer \/ CollectGarbage \/ Fail \/ Crash \/ Restart
    BY <2>1, <2>7 DEF Informer, Deliver, DeliverQuota, CollectGarbage,
       CollectSecret, Fail, Crash, Restart
  <2> QED BY <2>2, <2>3, <2>4, <2>5, <2>6, <2>7 DEF Next, Worker, Cleanup
<1>2. ASSUME NEW c \in Claims
      PROVE  /\ Finalized(cache'[c])
             /\ \A i \in 1 .. Len(watch'[c]) : Finalized(watch'[c][i])
  <2> DEFINE S == {v \in ClaimRec : Finalized(v)}
  <2>1. /\ claim[c] \in S /\ cache[c] \in S
        /\ \A i \in 1 .. Len(watch[c]) : watch[c][i] \in S
    BY DEF FinalizedInv, SafetyInv, TypeInv, TypeOK
  <2>2. claim'[c] \in S
    BY <1>0, <1>1 DEF SafetyInv, TypeInv, TypeOK
  <2>3. \A v \in S : Finalized(v)
    OBVIOUS
  <2> HIDE DEF S
  <2> QED BY <2>1, <2>2, <2>3, CopiesStay
<1>3. pc' # "idle" => Finalized(obj')
  <2>1. CASE UNCHANGED <<cur, obj>> /\ (pc # "idle" \/ pc' = pc)
    BY <2>1 DEF FinalizedInv
  <2>2. CASE pc = "status" /\ cur' = cur /\ obj' = claim'[cur]
    BY <1>1, <2>2 DEF SafetyInv, TypeInv, Active
  <2>3. ASSUME NEW c \in Claims, Reconcile(c)
        PROVE  Finalized(obj')
    BY <2>3 DEF Reconcile, FinalizedInv
  <2> QED BY <2>1, <2>2, <2>3, RequestKinds
<1> QED BY <1>1, <1>2, <1>3 DEF FinalizedInv

(* A step after which nothing is to resume has changed no claim. *)
LEMMA RestingStep ==
    ASSUME SafetyInv, FreshInv, Next, up, up', ~ Resumes'
    PROVE  /\ claim' = claim /\ Total' = Total
           /\ (\A c \in Claims : ~ Pending(c)) \/ \E c \in Claims : Reconcile(c)
<1>1. \A c \in Claims : ~ Pending(c)'
  BY DEF Resumes, Pending
<1>2. ~ Restart
  BY DEF Restart
<1>3. \A c \in Claims : /\ claim'[c] = claim[c]
                        /\ ~ Pending(c) \/ Reconcile(c)
  BY <1>1, <1>2, PendingStep
<1>4. claim' = claim
  <2>1. claim \in [Claims -> ClaimRec] /\ claim' \in [Claims -> ClaimRec]
    BY SafetyStep DEF SafetyInv, TypeInv, TypeOK
  <2> QED BY <1>3, <2>1
<1>5. Total' = Total
  BY <1>4 DEF Total, Quota
<1> QED BY <1>3, <1>4, <1>5

(* The steps that leave the worker about to write the sum. *)
LEMMA SumKinds ==
    ASSUME Next, pc' = "writeUsed"
    PROVE  SumNamespaceUsedQuota \/ UNCHANGED <<pc, obj, sum>>
<1> USE DEF Goto, reqVars, localVars, Requeue, EndReconcile
<1>1. CASE \E c \in Claims : User(c)
  BY <1>1 DEF User, CreateClaim, EditClaim, DeleteClaim, StripFinalizer
<1>2. CASE \E c \in Claims : Reconcile(c)
  BY <1>2 DEF Reconcile
<1>3. CASE Provision
  BY <1>3 DEF Provision, EnsureCephUser, EnsureCephUserQuota,
     GenerateSubuserAccess, GenerateSubuser, RemoveSubuser,
     RemoveSubuserSecret, SubusersSynced, RetrieveCephUser,
     EnsureAdminSecret, EnsureReadonlySecret, EnsureSubuserSecret,
     EnsureSecret, SecretsEnsured, EnsureS3User, UpdateS3UserClaimStatus,
     AddCleanupFinalizer
<1>4. CASE Cleanup
  BY <1>4 DEF Cleanup, RemoveCephUser, RemoveS3User, RemoveCleanupFinalizer
<1>5. CASE UpdateQuota
  BY <1>5 DEF UpdateQuota, UpdateNamespaceQuotaStatus
<1>6. CASE Informer \/ CollectGarbage \/ Fail \/ Crash \/ Restart
  BY <1>6 DEF Informer, Deliver, DeliverQuota, CollectGarbage, CollectSecret,
     Fail, Crash, Restart
<1> QED BY <1>1, <1>2, <1>3, <1>4, <1>5, <1>6 DEF Next, Worker

(* The steps that leave it past that write. *)
LEMMA RestKinds ==
    ASSUME Next, ~ Crash, pc' \in {"idle", "addFinalizer", "removeFinalizer"}
    PROVE  \/ UNCHANGED <<pc, obj, used>>
           \/ cur \in queue'
           \/ UpdateNamespaceQuotaStatus
           \/ AddCleanupFinalizer
           \/ RemoveCleanupFinalizer
<1> USE DEF Goto, apiVars, reqVars, localVars, Requeue
<1>1. CASE \E c \in Claims : User(c)
  BY <1>1 DEF User, CreateClaim, EditClaim, DeleteClaim, StripFinalizer
<1>2. CASE \E c \in Claims : Reconcile(c)
  BY <1>2 DEF Reconcile
<1>3. CASE Provision
  BY <1>3 DEF Provision, EnsureCephUser, EnsureCephUserQuota,
     GenerateSubuserAccess, GenerateSubuser, RemoveSubuser,
     RemoveSubuserSecret, SubusersSynced, RetrieveCephUser,
     EnsureAdminSecret, EnsureReadonlySecret, EnsureSubuserSecret,
     EnsureSecret, SecretsEnsured, EnsureS3User, UpdateS3UserClaimStatus
<1>4. CASE Cleanup
  BY <1>4 DEF Cleanup, RemoveCephUser, RemoveS3User
<1>5. CASE UpdateQuota
  BY <1>5 DEF UpdateQuota, SumNamespaceUsedQuota
<1>6. CASE Informer \/ CollectGarbage \/ Fail \/ Restart
  BY <1>6 DEF Informer, Deliver, DeliverQuota, CollectGarbage, CollectSecret,
     Fail, Restart
<1> QED BY <1>1, <1>2, <1>3, <1>4, <1>5, <1>6 DEF Next, Worker

(* What a request sums, from its own copy and the list, is the sum over all  *)
(* claims when its copy is not out of date.                                 *)
LEMMA SummedTotal ==
    ASSUME TypeOK, cur \in Claims, obj = claim[cur], obj.state # "terminating"
    PROVE  NamespaceUsedQuota = Total
<1>1. CASE obj.state = "absent"
  <2>1. Total \in Nat
    BY UsedType DEF Total
  <2> QED BY <1>1, <2>1 DEF NamespaceUsedQuota, Total
<1>2. CASE obj.state # "absent"
  <2>1. obj.state = "live"
    BY <1>2 DEF TypeOK, ClaimRec
  <2>2. Total = Quota[cur] + SumFunctionOnSet(Quota, Claims \ {cur})
    BY UsedType, SumRemove DEF Total
  <2>3. Quota[cur] = obj.spec.quota
    BY DEF Quota
  <2> QED BY <2>1, <2>2, <2>3 DEF NamespaceUsedQuota
<1> QED BY <1>1, <1>2

(* The operator's copy of the ResourceQuota is never behind. *)
LEMMA QuotaCopyStep ==
    ASSUME LaggingQuotaCache = FALSE, up, cachedUsed = used, Next
    PROVE  cachedUsed' = used'
<1> USE DEF apiVars, infVars
<1>1. CASE \E c \in Claims : User(c)
  BY <1>1 DEF User, CreateClaim, EditClaim, DeleteClaim, StripFinalizer
<1>2. CASE \E c \in Claims : Reconcile(c)
  BY <1>2 DEF Reconcile
<1>3. CASE Provision
  BY <1>3 DEF Provision, EnsureCephUser, EnsureCephUserQuota,
     GenerateSubuserAccess, GenerateSubuser, RemoveSubuser,
     RemoveSubuserSecret, SubusersSynced, RetrieveCephUser,
     EnsureAdminSecret, EnsureReadonlySecret, EnsureSubuserSecret,
     SecretsEnsured, EnsureS3User, UpdateS3UserClaimStatus,
     AddCleanupFinalizer
<1>4. CASE Cleanup
  BY <1>4 DEF Cleanup, RemoveCephUser, RemoveS3User, RemoveCleanupFinalizer
<1>5. CASE UpdateQuota
  BY <1>5 DEF UpdateQuota, SumNamespaceUsedQuota, UpdateNamespaceQuotaStatus
<1>6. CASE Informer \/ CollectGarbage \/ Fail \/ Crash \/ Restart
  BY <1>6 DEF Informer, Deliver, DeliverQuota, CollectGarbage, CollectSecret,
     Fail, Crash, Restart
<1> QED BY <1>1, <1>2, <1>3, <1>4, <1>5, <1>6 DEF Next, Worker

LEMMA UsedStep ==
    ASSUME MaxCrashes = 0, LaggingQuotaCache = FALSE,
           SafetyInv, FreshInv, UsedInv, Next
    PROVE  UsedInv'
<1>0. /\ up /\ cachedUsed = used /\ FinalizedInv /\ spent.crashes \in Nat
      /\ SafetyInv'
  BY SafetyStep DEF UsedInv, SafetyInv, TypeInv, TypeOK, Counters
<1>1. ~ Crash /\ ~ Restart
  BY <1>0 DEF Crash, Restart
<1>2. up'
  BY <1>0, <1>1, StepKinds DEF Written, Deliver
<1>3. pc # "idle" => cur \in Claims
  BY DEF SafetyInv, TypeInv, Active
<1>4. ASSUME pc' = "writeUsed", ~ Resumes'
      PROVE  sum' = Total'
  <2>1. \A c \in Claims : ~ Reconcile(c)
    BY <1>4 DEF Reconcile, Goto
  <2>2. Total' = Total /\ \A c \in Claims : ~ Pending(c)
    BY <1>0, <1>2, <1>4, <2>1, RestingStep
  <2>3. CASE SumNamespaceUsedQuota
    <3>1. sum' = NamespaceUsedQuota /\ pc # "idle" /\ obj' = obj
      BY <2>3 DEF SumNamespaceUsedQuota, reqVars
    <3>2. cur \in Claims /\ obj = claim[cur] /\ obj.state # "terminating"
      BY <1>3, <1>4, <2>2, <3>1 DEF FreshInv, Resumes
    <3> QED BY <2>2, <3>1, <3>2, SummedTotal DEF SafetyInv, TypeInv
  <2>4. CASE UNCHANGED <<pc, obj, sum>>
    <3>1. ~ Resumes
      BY <1>0, <1>4, <2>2, <2>4 DEF Resumes, Pending, SafetyInv, TypeInv,
         TypeOK
    <3> QED BY <1>4, <2>2, <2>4, <3>1 DEF UsedInv
  <2> QED BY <1>4, <2>3, <2>4, SumKinds
<1>5. ASSUME pc' \in {"idle", "addFinalizer", "removeFinalizer"}, ~ Resumes'
      PROVE  used' = Total'
  <2>1. \A c \in Claims : ~ Reconcile(c)
    BY <1>5 DEF Reconcile, Goto
  <2>2. Total' = Total /\ \A c \in Claims : ~ Pending(c)
    BY <1>0, <1>2, <1>5, <2>1, RestingStep
  <2>3. queue = {} /\ \A c \in Claims : watch[c] = <<>>
    BY <2>2 DEF Pending, SafetyInv, TypeInv, TypeOK
  <2>4. queue' = {} /\ \A c \in Claims : watch'[c] = <<>>
    BY <1>5 DEF Resumes
  <2>5. CASE UNCHANGED <<pc, obj, used>>
    <3>1. ~ Resumes
      BY <1>5, <2>3, <2>5 DEF Resumes
    <3> QED BY <1>5, <2>2, <2>5, <3>1 DEF UsedInv
  <2>6. CASE UpdateNamespaceQuotaStatus
    <3>1. pc = "writeUsed" /\ ~ Requeue
      BY <2>4, <2>6 DEF UpdateNamespaceQuotaStatus, Requeue
    <3>2. used' = sum /\ obj' = obj /\ pc' # "idle"
      BY <1>0, <2>6, <3>1 DEF UpdateNamespaceQuotaStatus, reqVars, Goto
    <3>3. ~ Resumes
      BY <1>5, <2>3, <3>2 DEF Resumes
    <3> QED BY <2>2, <3>1, <3>2, <3>3 DEF UsedInv
  <2>7. CASE AddCleanupFinalizer
    <3>1. pc = "addFinalizer" /\ obj.state = "live" /\ used' = used
      BY <2>7 DEF AddCleanupFinalizer, SafetyInv, RequestInv, ProvisionSteps
    <3>2. ~ Resumes
      BY <2>3, <3>1 DEF Resumes
    <3> QED BY <2>2, <3>1, <3>2 DEF UsedInv
  <2>8. CASE RemoveCleanupFinalizer
    <3>1. pc = "removeFinalizer" /\ used' = used /\ ~ Requeue
          /\ cur \in Claims
      BY <1>3, <2>4, <2>8 DEF RemoveCleanupFinalizer, Requeue
    <3>2. \A r : ~ StoreClaim(cur, r)
      BY <1>0, <2>4, <3>1, WrittenPending DEF SafetyInv
    <3>3. ~ obj.fin
      BY <2>8, <3>1, <3>2 DEF RemoveCleanupFinalizer
    <3>4. ~ Resumes
      BY <1>0, <2>3, <3>1, <3>3 DEF Resumes, FinalizedInv, Finalized
    <3> QED BY <2>2, <3>1, <3>4 DEF UsedInv
  <2> QED BY <1>1, <1>5, <2>4, <2>5, <2>6, <2>7, <2>8, RestKinds
<1>6. cachedUsed' = used'
  BY <1>0, QuotaCopyStep
<1> QED BY <1>0, <1>2, <1>4, <1>5, <1>6, FinalizedStep DEF UsedInv

LEMMA UsedInit == Init => UsedInv
<1> SUFFICES ASSUME Init
             PROVE  UsedInv
  OBVIOUS
<1>1. \A c \in Claims : /\ watch[c] = <<>> /\ Len(watch[c]) = 0
                        /\ claim[c] = NoObject /\ cache[c] = NoObject
  BY DEF Init
<1>2. Total = 0
  <2>1. \A c \in Claims : Quota[c] = 0
    BY <1>1 DEF Quota, NoObject, NoSpec
  <2> QED BY <2>1, ClaimsAssumption, SumZero DEF Total
<1>3. FinalizedInv
  BY <1>1 DEF Init, FinalizedInv, Finalized, NoObject
<1> QED BY <1>2, <1>3 DEF Init, UsedInv

(* At every moment the sum in use is right or something will take it anew:   *)
(* the request being processed or a later one.  As long as the operator does *)
(* not crash, and reads its own write to the ResourceQuota.                  *)
THEOREM UsedCorrect ==
    ASSUME MaxCrashes = 0, LaggingQuotaCache = FALSE
    PROVE  Spec => []UsedInv
<1>1. Init => FreshInv /\ UsedInv
  BY FreshInit, UsedInit
<1>2. SafetyInv /\ FreshInv /\ UsedInv /\ [Next]_vars => FreshInv' /\ UsedInv'
  <2>1. CASE UNCHANGED vars
    BY <2>1 DEF vars, FreshInv, UsedInv, FinalizedInv, Finalized, Pending,
       Resumes, Total, Quota
  <2> QED BY <2>1, FreshStep, UsedStep
<1> QED BY <1>1, <1>2, SafetyCorrect, PTL DEF Spec

(* Two steps of one request, summing and writing, from copies that may be    *)
(* out of date, still leave the sum over the claims as they are: a request   *)
(* whose copy was out of date is followed by another.  As long as the        *)
(* operator does not crash, and reads its own write to the ResourceQuota.    *)
THEOREM UsedQuotaCorrect ==
    ASSUME MaxCrashes = 0, LaggingQuotaCache = FALSE
    PROVE  Spec => []UsedQuotaAccurate
<1>1. UsedInv => UsedQuotaAccurate
  BY DEF UsedInv, UsedQuotaAccurate, Settled, Resumes, Total
<1> QED BY <1>1, UsedCorrect, PTL

-----------------------------------------------------------------------------
(* The operator's own writes bring no others.                                *)

LEMMA OwedType ==
    ASSUME NEW v \in ClaimRec
    PROVE  /\ Owed(v) \in Nat
           /\ v.state = "absent" => Owed(v) = 0
           /\ v.state = "terminating" => Owed(v) >= 1
           /\ v.state # "absent" /\ v.status # StatusFor(v.spec) => Owed(v) >= 1
BY DEF Owed, ClaimRec

(* A write that takes from what is still to come, or is charged to a user.   *)
LEMMA WritesStored ==
    ASSUME TypeInv, TypeInv', WritesInv, NEW c \in Claims, NEW r \in ClaimRec,
           StoreClaim(c, r), claim[c].uid <= r.uid,
           spent.edits <= spent'.edits, spent.strips <= spent'.strips,
           1 + Owed(r) + 5 * claim[c].uid + 2 * (spent.edits + spent.strips)
             <= Owed(claim[c]) + 5 * r.uid + 2 * (spent'.edits + spent'.strips)
    PROVE  WritesInv'
<1>1. /\ claim \in [Claims -> ClaimRec] /\ claim' \in [Claims -> ClaimRec]
      /\ spent \in Counters /\ spent' \in Counters
  BY DEF TypeInv, TypeOK
<1>2. /\ spent.edits \in Nat /\ spent.strips \in Nat
      /\ spent'.edits \in Nat /\ spent'.strips \in Nat
  BY <1>1 DEF Counters
<1>3. ASSUME NEW d \in Claims
      PROVE  /\ claim[d].rv \in Nat /\ claim[d].uid \in Nat
             /\ Owed(claim[d]) \in Nat
  BY <1>1, OwedType DEF ClaimRec
<1>4. \A d \in Claims \ {c} : claim'[d] = claim[d]
  BY StoredClaim
<1>5. Owed(claim'[c]) = Owed(r) /\ claim'[c].rv = claim[c].rv + 1
      /\ claim'[c].uid = r.uid
  <2>1. claim'[c] = NewVersion(c, r)
    BY <1>1 DEF StoreClaim
  <2>2. /\ NewVersion(c, r).status = r.status /\ NewVersion(c, r).fin = r.fin
        /\ NewVersion(c, r).spec = r.spec /\ NewVersion(c, r).state = r.state
    BY DEF NewVersion, ClaimRec
  <2> QED BY <2>1, <2>2, NewVersionFields DEF Owed
<1>6. r.uid \in Nat /\ Owed(r) \in Nat
  BY OwedType DEF ClaimRec
<1>7. ASSUME NEW d \in Claims
      PROVE  claim'[d].rv + Owed(claim'[d]) <= Budget(d)'
  <2>1. claim[d].rv + Owed(claim[d])
          <= 5 * claim[d].uid + 2 * (spent.edits + spent.strips)
    BY DEF WritesInv, Budget
  <2>2. CASE d = c
    BY <1>2, <1>3, <1>5, <1>6, <2>1, <2>2 DEF Budget
  <2>3. CASE d # c
    BY <1>2, <1>3, <1>4, <2>1, <2>3 DEF Budget
  <2> QED BY <2>2, <2>3
<1> QED BY <1>7 DEF WritesInv

LEMMA UserCharged ==
    ASSUME TypeInv, TypeInv', WritesInv, NEW c \in Claims, User(c)
    PROVE  WritesInv'
<1>0. /\ claim[c] \in ClaimRec /\ Gone(c) \in ClaimRec
      /\ claim[c].uid \in Nat /\ Owed(claim[c]) \in Nat
      /\ spent \in Counters /\ spent.edits \in Nat /\ spent.strips \in Nat
      /\ spent.deletes \in Nat
  <2>1. claim[c] \in ClaimRec /\ Gone(c) \in ClaimRec /\ spent \in Counters
    BY GoneType DEF TypeInv, TypeOK
  <2> QED BY <2>1, OwedType DEF ClaimRec, Counters
<1>1. Gone(c).uid = claim[c].uid /\ Owed(Gone(c)) = 0
  BY DEF Gone, NoObject, Owed
<1>2. CASE CreateClaim(c)
  <2>1. PICK s \in SpecsOf[c] :
          StoreClaim(c, [state |-> "live", uid |-> claim[c].uid + 1,
                         rv |-> 0, spec |-> s, status |-> NoStatus,
                         fin |-> FALSE])
    BY <1>2 DEF CreateClaim
  <2> DEFINE r == [state |-> "live", uid |-> claim[c].uid + 1, rv |-> 0,
                   spec |-> s, status |-> NoStatus, fin |-> FALSE]
  <2>2. r \in ClaimRec /\ r.uid = claim[c].uid + 1
    BY <1>0, SpecsAssumption, NullTypes DEF ClaimRec
  <2>3. Owed(r) \in Nat /\ Owed(r) <= 4
    BY DEF Owed
  <2>4. StoreClaim(c, r) /\ spent' = spent /\ Owed(claim[c]) = 0
    BY <1>0, <1>2, <2>1, OwedType DEF CreateClaim
  <2> HIDE DEF r
  <2>5. 1 + Owed(r) + 5 * claim[c].uid + 2 * (spent.edits + spent.strips)
          <= Owed(claim[c]) + 5 * r.uid + 2 * (spent'.edits + spent'.strips)
    BY <1>0, <2>2, <2>3, <2>4
  <2>6. claim[c].uid <= r.uid
    BY <1>0, <2>2
  <2> QED BY <1>0, <2>2, <2>4, <2>5, <2>6, WritesStored
<1>3. CASE EditClaim(c)
  <2>1. PICK s \in SpecsOf[c] : StoreClaim(c, [claim[c] EXCEPT !.spec = s])
    BY <1>3 DEF EditClaim
  <2> DEFINE r == [claim[c] EXCEPT !.spec = s]
  <2>2. r \in ClaimRec /\ r.uid = claim[c].uid
    BY <1>0, SpecsAssumption DEF ClaimRec
  <2>3. Owed(r) \in Nat /\ Owed(r) <= Owed(claim[c]) + 1
    <3>1. /\ r.state = claim[c].state /\ r.fin = claim[c].fin
          /\ r.status = claim[c].status /\ r.spec = s
      BY <1>0 DEF ClaimRec
    <3> HIDE DEF r
    <3> QED BY <1>0, <2>2, <3>1, OwedType DEF Owed, ClaimRec
  <2>4. StoreClaim(c, r) /\ spent'.edits = spent.edits + 1
        /\ spent'.strips = spent.strips
    BY <1>0, <1>3, <2>1 DEF EditClaim, Counters
  <2> HIDE DEF r
  <2>5. 1 + Owed(r) + 5 * claim[c].uid + 2 * (spent.edits + spent.strips)
          <= Owed(claim[c]) + 5 * r.uid + 2 * (spent'.edits + spent'.strips)
    BY <1>0, <2>2, <2>3, <2>4
  <2>6. spent.edits <= spent'.edits /\ spent.strips <= spent'.strips
        /\ claim[c].uid <= r.uid
    BY <1>0, <2>2, <2>4
  <2> QED BY <2>2, <2>4, <2>5, <2>6, WritesStored
<1>4. CASE DeleteClaim(c)
  <2>1. /\ claim[c].state = "live"
        /\ spent'.edits = spent.edits /\ spent'.strips = spent.strips
    BY <1>0, <1>4 DEF DeleteClaim, Counters
  <2>2. Owed(claim[c]) >= 1
    BY <2>1 DEF Owed
  <2>3. PICK r \in ClaimRec : /\ StoreClaim(c, r) /\ r.uid = claim[c].uid
                              /\ Owed(r) \in Nat /\ Owed(r) + 1 <= Owed(claim[c])
    <3>1. CASE claim[c].fin
      <4> DEFINE r == [claim[c] EXCEPT !.state = "terminating"]
      <4>1. /\ r \in ClaimRec /\ r.uid = claim[c].uid
            /\ r.state = "terminating" /\ r.status = claim[c].status
            /\ r.spec = claim[c].spec
        BY <1>0 DEF ClaimRec
      <4>2. StoreClaim(c, r)
        BY <1>4, <3>1 DEF DeleteClaim
      <4> HIDE DEF r
      <4>3. Owed(r) \in Nat /\ Owed(r) + 1 <= Owed(claim[c])
        BY <2>1, <3>1, <4>1 DEF Owed
      <4> QED BY <4>1, <4>2, <4>3
    <3>2. CASE ~ claim[c].fin
      <4>1. StoreClaim(c, Gone(c))
        BY <1>4, <3>2 DEF DeleteClaim
      <4> QED BY <1>0, <1>1, <2>2, <4>1
    <3> QED BY <3>1, <3>2
  <2>4. 1 + Owed(r) + 5 * claim[c].uid + 2 * (spent.edits + spent.strips)
          <= Owed(claim[c]) + 5 * r.uid + 2 * (spent'.edits + spent'.strips)
    BY <1>0, <2>1, <2>3
  <2> QED BY <1>0, <2>1, <2>3, <2>4, WritesStored
<1>5. CASE StripFinalizer(c)
  <2>1. /\ spent'.edits = spent.edits /\ spent'.strips = spent.strips + 1
        /\ claim[c].fin
    BY <1>0, <1>5 DEF StripFinalizer, Counters
  <2>2. PICK r \in ClaimRec : /\ StoreClaim(c, r) /\ r.uid = claim[c].uid
                              /\ Owed(r) \in Nat /\ Owed(r) <= Owed(claim[c]) + 1
    <3>1. CASE claim[c].state = "terminating"
      <4>1. StoreClaim(c, Gone(c))
        BY <1>5, <3>1 DEF StripFinalizer
      <4> QED BY <1>0, <1>1, <4>1
    <3>2. CASE claim[c].state # "terminating"
      <4> DEFINE r == [claim[c] EXCEPT !.fin = FALSE]
      <4>1. /\ r \in ClaimRec /\ r.uid = claim[c].uid
            /\ r.state = claim[c].state /\ r.status = claim[c].status
            /\ r.spec = claim[c].spec
        BY <1>0 DEF ClaimRec
      <4>2. StoreClaim(c, r)
        BY <1>5, <3>2 DEF StripFinalizer
      <4> HIDE DEF r
      <4>3. Owed(r) \in Nat /\ Owed(r) <= Owed(claim[c]) + 1
        <5>1. r.state \in {"absent", "live"}
          BY <3>2, <4>1 DEF ClaimRec
        <5> QED BY <1>0, <2>1, <4>1, <5>1, OwedType DEF Owed
      <4> QED BY <4>1, <4>2, <4>3
    <3> QED BY <3>1, <3>2
  <2>3. 1 + Owed(r) + 5 * claim[c].uid + 2 * (spent.edits + spent.strips)
          <= Owed(claim[c]) + 5 * r.uid + 2 * (spent'.edits + spent'.strips)
    BY <1>0, <2>1, <2>2
  <2>4. spent.edits <= spent'.edits /\ spent.strips <= spent'.strips
        /\ claim[c].uid <= r.uid
    BY <1>0, <2>1, <2>2
  <2> QED BY <2>2, <2>3, <2>4, WritesStored
<1> QED BY <1>2, <1>3, <1>4, <1>5 DEF User

(* Each write of the operator is one that was still to come: it is made from *)
(* the claim as it is, and only if it changes something.                    *)
LEMMA WorkerCharged ==
    ASSUME SafetyInv, TypeInv', WritesInv,
           \/ UpdateS3UserClaimStatus \/ AddCleanupFinalizer
           \/ RemoveCleanupFinalizer
    PROVE  WritesInv'
<1>0. /\ obj \in ClaimRec /\ cur \in Claims /\ pc # "idle"
      /\ spent' = spent /\ spent.edits \in Nat /\ spent.strips \in Nat
      /\ Owed(obj) \in Nat /\ obj.uid \in Nat
  <2>1. obj \in ClaimRec /\ cur \in Claims /\ pc # "idle" /\ spent \in Counters
    BY DEF SafetyInv, TypeInv, TypeOK, Active, UpdateS3UserClaimStatus,
       AddCleanupFinalizer, RemoveCleanupFinalizer
  <2> QED BY <2>1, OwedType DEF ClaimRec, Counters, UpdateS3UserClaimStatus,
          AddCleanupFinalizer, RemoveCleanupFinalizer
<1>1. CASE claim' = claim
  BY <1>0, <1>1 DEF WritesInv, Budget
<1>2. ASSUME NEW r \in ClaimRec, StoreClaim(cur, r), UpToDate,
             r.uid = obj.uid, Owed(r) \in Nat, Owed(r) + 1 <= Owed(obj)
      PROVE  WritesInv'
  <2>1. obj = claim[cur]
    BY <1>0, <1>2, AcceptedUpdate
  <2>2. 1 + Owed(r) + 5 * claim[cur].uid + 2 * (spent.edits + spent.strips)
          <= Owed(claim[cur]) + 5 * r.uid + 2 * (spent'.edits + spent'.strips)
    BY <1>0, <1>2, <2>1
  <2> QED BY <1>0, <1>2, <2>1, <2>2, WritesStored DEF SafetyInv
<1>3. CASE UpdateS3UserClaimStatus /\ claim' # claim
  <2> DEFINE r == [obj EXCEPT !.status = StatusFor(obj.spec)]
  <2>1. /\ UpToDate /\ StoreClaim(cur, r)
        /\ obj.status # StatusFor(obj.spec)
    BY <1>3 DEF UpdateS3UserClaimStatus
  <2>2. StatusFor(obj.spec) \in StatusRec
    BY <1>0 DEF StatusFor, StatusRec, ClaimRec, SpecRec
  <2>3. /\ r \in ClaimRec /\ r.state = obj.state /\ r.uid = obj.uid
        /\ r.spec = obj.spec /\ r.fin = obj.fin
        /\ r.status = StatusFor(obj.spec)
    BY <1>0, <2>2 DEF ClaimRec
  <2>4. obj.state # "absent"
    BY <1>0, <2>1, AcceptedUpdate DEF UpToDate
  <2> HIDE DEF r
  <2>5. Owed(r) \in Nat /\ Owed(r) + 1 <= Owed(obj)
    BY <2>1, <2>3, <2>4 DEF Owed
  <2> QED BY <1>2, <2>1, <2>3, <2>5
<1>4. CASE AddCleanupFinalizer /\ claim' # claim
  <2> DEFINE r == [obj EXCEPT !.fin = TRUE]
  <2>1. UpToDate /\ StoreClaim(cur, r) /\ ~ obj.fin
    BY <1>4 DEF AddCleanupFinalizer
  <2>2. /\ r \in ClaimRec /\ r.state = obj.state /\ r.uid = obj.uid
        /\ r.spec = obj.spec /\ r.status = obj.status /\ r.fin
    BY <1>0 DEF ClaimRec
  <2>3. obj.state = "live"
    BY <1>4 DEF AddCleanupFinalizer, SafetyInv, RequestInv, ProvisionSteps
  <2> HIDE DEF r
  <2>4. Owed(r) \in Nat /\ Owed(r) + 1 <= Owed(obj)
    BY <2>1, <2>2, <2>3 DEF Owed
  <2> QED BY <1>2, <2>1, <2>2, <2>4
<1>5. CASE RemoveCleanupFinalizer /\ claim' # claim
  <2>1. UpToDate /\ StoreClaim(cur, Gone(cur)) /\ pc = "removeFinalizer"
    BY <1>5 DEF RemoveCleanupFinalizer
  <2>2. Gone(cur) \in ClaimRec /\ Owed(Gone(cur)) = 0
        /\ Gone(cur).uid = claim[cur].uid
    BY <1>0, GoneType DEF SafetyInv, TypeInv, Gone, NoObject, Owed
  <2>3. obj = claim[cur] /\ obj.state = "terminating"
    BY <1>0, <2>1, AcceptedUpdate
       DEF UpToDate, SafetyInv, RequestInv, CleanupSteps, ClaimRec
  <2>4. Owed(obj) >= 1
    BY <1>0, <2>3, OwedType
  <2> QED BY <1>0, <1>2, <2>1, <2>2, <2>3, <2>4
<1> QED BY <1>1, <1>3, <1>4, <1>5

(* Only users' requests are charged for. *)
LEMMA Uncharged ==
    ASSUME TypeInv, Next, \A c \in Claims : ~ User(c)
    PROVE  spent'.edits = spent.edits /\ spent'.strips = spent.strips
<1>0. spent \in Counters
  BY DEF TypeInv, TypeOK
<1>1. CASE Worker
  BY <1>1 DEF Worker, Reconcile, Provision, EnsureCephUser,
     EnsureCephUserQuota, GenerateSubuserAccess, GenerateSubuser,
     RemoveSubuser, RemoveSubuserSecret, SubusersSynced, RetrieveCephUser,
     EnsureAdminSecret, EnsureReadonlySecret, EnsureSubuserSecret,
     SecretsEnsured, EnsureS3User, UpdateS3UserClaimStatus,
     AddCleanupFinalizer, Cleanup, RemoveCephUser, RemoveS3User,
     RemoveCleanupFinalizer, UpdateQuota, SumNamespaceUsedQuota,
     UpdateNamespaceQuotaStatus
<1>2. CASE Informer \/ CollectGarbage \/ Restart
  BY <1>2 DEF Informer, Deliver, DeliverQuota, CollectGarbage, CollectSecret,
     Restart
<1>3. CASE Fail \/ Crash
  BY <1>0, <1>3 DEF Fail, Crash, Counters
<1> QED BY <1>1, <1>2, <1>3 DEF Next

(* The steps that leave every claim alone. *)
LEMMA ClaimsKept ==
    ASSUME Next, \A c \in Claims : ~ User(c),
           ~ UpdateS3UserClaimStatus, ~ AddCleanupFinalizer,
           ~ RemoveCleanupFinalizer
    PROVE  claim' = claim
<1> USE DEF apiVars
<1>1. CASE \E c \in Claims : Reconcile(c)
  BY <1>1 DEF Reconcile
<1>2. CASE Provision
  BY <1>2 DEF Provision, EnsureCephUser, EnsureCephUserQuota,
     GenerateSubuserAccess, GenerateSubuser, RemoveSubuser,
     RemoveSubuserSecret, SubusersSynced, RetrieveCephUser,
     EnsureAdminSecret, EnsureReadonlySecret, EnsureSubuserSecret,
     SecretsEnsured, EnsureS3User
<1>3. CASE Cleanup \/ UpdateQuota
  BY <1>3 DEF Cleanup, RemoveCephUser, RemoveS3User, UpdateQuota,
     SumNamespaceUsedQuota, UpdateNamespaceQuotaStatus
<1>4. CASE Informer \/ CollectGarbage \/ Fail \/ Crash \/ Restart
  BY <1>4 DEF Informer, Deliver, DeliverQuota, CollectGarbage, CollectSecret,
     Fail, Crash, Restart
<1> QED BY <1>1, <1>2, <1>3, <1>4 DEF Next, Worker

LEMMA WritesStep ==
    ASSUME SafetyInv, WritesInv, Next
    PROVE  WritesInv'
<1>0. TypeInv /\ TypeInv'
  BY TypeStep DEF SafetyInv
<1>1. CASE \E c \in Claims : User(c)
  BY <1>0, <1>1, UserCharged
<1>2. CASE UpdateS3UserClaimStatus \/ AddCleanupFinalizer
                                   \/ RemoveCleanupFinalizer
  BY <1>0, <1>2, WorkerCharged
<1>3. CASE claim' = claim /\ \A c \in Claims : ~ User(c)
  BY <1>0, <1>3, Uncharged DEF WritesInv, Budget
<1> QED BY <1>1, <1>2, <1>3, ClaimsKept

LEMMA WritesInit == Init => WritesInv
BY DEF Init, WritesInv, Budget, Owed, NoObject

(* However often requests are retried, fail or are started over by a crash,  *)
(* the claims are written a bounded number of times for what their users     *)
(* did: what Converges says, short of fairness.                              *)
THEOREM WritesAreBounded == Spec => []WritesBounded
<1>1. WritesInv /\ [Next]_vars /\ SafetyInv => WritesInv'
  <2>1. CASE UNCHANGED vars
    BY <2>1 DEF vars, WritesInv, Budget
  <2> QED BY <2>1, WritesStep
<1>2. SafetyInv /\ WritesInv => WritesBounded
  <2> SUFFICES ASSUME SafetyInv, WritesInv, NEW c \in Claims
               PROVE  claim[c].rv <=
                        5 * claim[c].uid + 2 * (spent.edits + spent.strips)
    BY DEF WritesBounded
  <2>1. /\ claim[c].rv \in Nat /\ claim[c].uid \in Nat
        /\ Owed(claim[c]) \in Nat
        /\ spent.edits \in Nat /\ spent.strips \in Nat
    <3>1. claim[c] \in ClaimRec /\ spent \in Counters
      BY DEF SafetyInv, TypeInv, TypeOK
    <3> QED BY <3>1, OwedType DEF ClaimRec, Counters
  <2>2. claim[c].rv + Owed(claim[c])
          <= 5 * claim[c].uid + 2 * (spent.edits + spent.strips)
    BY DEF WritesInv, Budget
  <2> QED BY <2>1, <2>2
<1> QED BY <1>1, <1>2, WritesInit, SafetyCorrect, PTL DEF Spec
-----------------------------------------------------------------------------
(* S3Users follow the versions of their claims.                              *)

LEMMA NotNewerThan ==
    ASSUME NEW v \in ClaimRec, NEW w \in ClaimRec, NotNewer(v, w)
    PROVE  /\ \A u \in ClaimRec : NotNewer(u, v) => NotNewer(u, w)
           /\ \A s \in S3UserRec : MadeBy(s, v) => MadeBy(s, w)
BY DEF NotNewer, MadeBy, ClaimRec, S3UserRec

(* A new version comes behind those on their way.                            *)
LEMMA OrderWritten ==
    ASSUME TypeInv, CopiesInv, OrderInv, NEW c \in Claims,
           NEW r \in ClaimRec, Written(c, r)
    PROVE  OrderInv'
<1> DEFINE n == NewVersion(c, r)
<1>1. /\ n \in ClaimRec /\ claim[c] \in ClaimRec
      /\ n.rv = claim[c].rv + 1 /\ claim[c].rv \in Nat
      /\ watch[c] \in Seq(ClaimRec)
  BY WrittenVersion, NewVersionFields DEF TypeInv, TypeOK, ClaimRec
<1>2. /\ cache' = cache
      /\ watch' = IF up THEN [watch EXCEPT ![c] = Append(@, n)] ELSE watch
  BY DEF Written, StoreClaim
<1> HIDE DEF n
<1>3. cache[c].rv <= claim[c].rv /\ cache[c].rv \in Nat
  BY DEF CopiesInv, Older, TypeInv, TypeOK, ClaimRec
<1>4. ASSUME NEW d \in Claims, NEW i \in 1 .. Len(watch'[d])
      PROVE  /\ cache'[d].rv < watch'[d][i].rv
             /\ \A j \in 1 .. Len(watch'[d]) :
                  i < j => watch'[d][i].rv < watch'[d][j].rv
  <2>1. CASE watch'[d] = watch[d]
    BY <1>2, <1>4, <2>1 DEF OrderInv
  <2>2. CASE d = c /\ watch'[d] = Append(watch[c], n)
    <3>1. Len(watch'[d]) = Len(watch[c]) + 1 /\ Len(watch[c]) \in Nat
      BY <1>1, <2>2
    <3>2. \A k \in 1 .. Len(watch[c]) :
            /\ watch'[d][k] = watch[c][k]
            /\ watch[c][k].rv \in Nat /\ watch[c][k].rv <= claim[c].rv
      <4> TAKE k \in 1 .. Len(watch[c])
      <4>1. watch'[d][k] = watch[c][k] /\ watch[c][k] \in ClaimRec
        BY <1>1, <2>2
      <4> QED BY <4>1 DEF CopiesInv, Older, ClaimRec
    <3>3. watch'[d][Len(watch[c]) + 1] = n
      BY <1>1, <2>2
    <3>4. cache'[d].rv < watch'[d][i].rv
      <4>1. CASE i \in 1 .. Len(watch[c])
        BY <1>2, <2>2, <3>2, <4>1 DEF OrderInv
      <4>2. CASE i = Len(watch[c]) + 1
        BY <1>1, <1>2, <1>3, <2>2, <3>3, <4>2
      <4> QED BY <1>4, <3>1, <4>1, <4>2
    <3>5. ASSUME NEW j \in 1 .. Len(watch'[d]), i < j
          PROVE  watch'[d][i].rv < watch'[d][j].rv
      <4>1. i \in 1 .. Len(watch[c])
        BY <1>4, <3>1, <3>5
      <4>2. CASE j \in 1 .. Len(watch[c])
        BY <3>2, <3>5, <4>1, <4>2 DEF OrderInv
      <4>3. CASE j = Len(watch[c]) + 1
        <5>1. /\ watch'[d][i].rv \in Nat /\ watch'[d][i].rv <= claim[c].rv
              /\ watch'[d][j] = n
          BY <3>2, <3>3, <4>1, <4>3
        <5> QED BY <1>1, <5>1
      <4> QED BY <3>1, <3>5, <4>2, <4>3
    <3> QED BY <3>4, <3>5
  <2> QED BY <1>2, <2>1, <2>2 DEF TypeInv, TypeOK
<1> QED BY <1>4 DEF OrderInv

LEMMA OrderStep ==
    ASSUME SafetyInv, OrderInv, Next
    PROVE  OrderInv'
<1>1. CASE UNCHANGED <<claim, cache, watch, up>>
  BY <1>1 DEF OrderInv
<1>2. CASE \E c \in Claims, r \in ClaimRec : Written(c, r)
  BY <1>2, OrderWritten DEF SafetyInv
<1>3. ASSUME NEW c \in Claims, Deliver(c)
      PROVE  OrderInv'
  <2>1. /\ watch[c] \in Seq(ClaimRec) /\ watch[c] # <<>>
        /\ 1 \in 1 .. Len(watch[c])
        /\ cache' = [cache EXCEPT ![c] = watch[c][1]]
        /\ watch' = [watch EXCEPT ![c] = Tail(watch[c])]
    BY <1>3 DEF Deliver, SafetyInv, TypeInv, TypeOK
  <2>2. /\ Len(Tail(watch[c])) = Len(watch[c]) - 1
        /\ \A i \in 1 .. Len(Tail(watch[c])) :
             /\ Tail(watch[c])[i] = watch[c][i + 1]
             /\ i + 1 \in 1 .. Len(watch[c])
    BY <2>1
  <2>3. ASSUME NEW d \in Claims, NEW i \in 1 .. Len(watch'[d])
        PROVE  /\ cache'[d].rv < watch'[d][i].rv
               /\ \A j \in 1 .. Len(watch'[d]) :
                    i < j => watch'[d][i].rv < watch'[d][j].rv
    <3>1. CASE d # c
      BY <2>1, <2>3, <3>1 DEF OrderInv, SafetyInv, TypeInv, TypeOK
    <3>2. CASE d = c
      <4>1. watch'[d] = Tail(watch[c]) /\ cache'[d] = watch[c][1]
        BY <2>1, <3>2 DEF SafetyInv, TypeInv, TypeOK
      <4>2. /\ watch'[d][i] = watch[c][i + 1]
            /\ i + 1 \in 1 .. Len(watch[c]) /\ 1 < i + 1
        BY <2>2, <2>3, <4>1
      <4>3. cache'[d].rv < watch'[d][i].rv
        BY <2>1, <4>1, <4>2 DEF OrderInv
      <4>4. ASSUME NEW j \in 1 .. Len(watch'[d]), i < j
            PROVE  watch'[d][i].rv < watch'[d][j].rv
        <5>1. /\ watch'[d][j] = watch[c][j + 1]
              /\ j + 1 \in 1 .. Len(watch[c]) /\ i + 1 < j + 1
          BY <2>2, <2>3, <4>1, <4>4
        <5> QED BY <4>2, <5>1 DEF OrderInv
      <4> QED BY <4>3, <4>4
    <3> QED BY <3>1, <3>2
  <2> QED BY <2>3 DEF OrderInv
<1>4. CASE Crash \/ Restart
  <2>1. \A c \in Claims : watch'[c] = <<>>
    BY <1>4 DEF Crash, Restart, SafetyInv, CopiesInv
  <2>2. \A c \in Claims : 1 .. Len(watch'[c]) = {}
    BY <2>1
  <2> QED BY <2>2 DEF OrderInv
<1> QED BY <1>1, <1>2, <1>3, <1>4, StepKinds

(* The cache never goes back to an older version of a claim. *)
LEMMA CacheAdvances ==
    ASSUME SafetyInv, OrderInv, Next, NEW d \in Claims
    PROVE  NotNewer(cache[d], cache'[d])
<1>0. cache[d] \in ClaimRec /\ claim[d] \in ClaimRec
  BY DEF SafetyInv, TypeInv, TypeOK
<1>1. CASE cache'[d] = cache[d]
  BY <1>0, <1>1 DEF NotNewer, ClaimRec
<1>2. ASSUME NEW c \in Claims, Deliver(c)
      PROVE  NotNewer(cache[d], cache'[d])
  <2>1. CASE d # c
    BY <1>1, <1>2, <2>1 DEF Deliver, SafetyInv, TypeInv, TypeOK
  <2>2. CASE d = c
    <3>1. watch[d] \in Seq(ClaimRec) /\ watch[d] # <<>>
      BY <1>2, <2>2 DEF Deliver, SafetyInv, TypeInv, TypeOK
    <3>2. /\ 1 \in 1 .. Len(watch[d]) /\ watch[d][1] \in ClaimRec
          /\ cache'[d] = watch[d][1]
      BY <1>2, <2>2, <3>1 DEF Deliver, SafetyInv, TypeInv, TypeOK
    <3>3. cache[d].rv < cache'[d].rv
      BY <3>2 DEF OrderInv
    <3> QED BY <1>0, <3>2, <3>3 DEF NotNewer, ClaimRec
  <2> QED BY <2>1, <2>2
<1>3. CASE Restart
  <2>1. cache'[d] = claim[d] /\ Older(cache[d], claim[d])
    BY <1>3 DEF Restart, SafetyInv, CopiesInv
  <2> QED BY <2>1 DEF NotNewer, Older
<1>4. CASE Crash
  BY <1>1, <1>4 DEF Crash
<1> QED BY <1>1, <1>2, <1>3, <1>4, StepKinds DEF Written

(* The steps of a request that come before the S3User is written. *)
EarlySteps == AccountSteps \cup SecretSteps \cup {"s3User"}

LEMMA EarlyKinds ==
    ASSUME Next, pc' \in EarlySteps
    PROVE  \/ pc \in EarlySteps /\ UNCHANGED <<cur, obj, s3user>>
           \/ \E c \in Claims : Reconcile(c)
<1> USE DEF EarlySteps, AccountSteps, SecretSteps, Goto, Requeue,
            EndReconcile, apiVars, reqVars
<1>1. CASE \E c \in Claims : User(c)
  BY <1>1 DEF User, CreateClaim, EditClaim, DeleteClaim, StripFinalizer
<1>2. CASE Provision
  <2>1. CASE EnsureAdminSecret \/ EnsureReadonlySecret
             \/ \E s \in Users : EnsureSubuserSecret(s)
    BY <2>1 DEF EnsureAdminSecret, EnsureReadonlySecret, EnsureSubuserSecret,
       EnsureSecret
  <2>2. ~ EnsureS3User /\ ~ UpdateS3UserClaimStatus /\ ~ AddCleanupFinalizer
    BY DEF EnsureS3User, UpdateS3UserClaimStatus, AddCleanupFinalizer
  <2> QED BY <1>2, <2>1, <2>2 DEF Provision, EnsureCephUser,
          EnsureCephUserQuota, GenerateSubuserAccess, GenerateSubuser,
          RemoveSubuser, RemoveSubuserSecret, SubusersSynced,
          RetrieveCephUser, SecretsEnsured
<1>3. CASE Cleanup \/ UpdateQuota
  BY <1>3 DEF Cleanup, RemoveCephUser, RemoveS3User, RemoveCleanupFinalizer,
     UpdateQuota, SumNamespaceUsedQuota, UpdateNamespaceQuotaStatus
<1>4. CASE Informer \/ CollectGarbage \/ Fail \/ Crash \/ Restart
  BY <1>4 DEF Informer, Deliver, DeliverQuota, CollectGarbage, CollectSecret,
     Fail, Crash, Restart
<1> QED BY <1>1, <1>2, <1>3, <1>4 DEF Next, Worker

(* What is written to an S3User is made from the copy of the claim at hand.  *)
LEMMA S3UserMade ==
    ASSUME SafetyInv, EnsureS3User
    PROVE  /\ cur \in Claims /\ obj \in ClaimRec
           /\ s3user'[cur] = [exists |-> TRUE, uid |-> obj.uid, rv |-> obj.rv,
                              quota |-> obj.spec.quota]
           /\ \A c \in Claims \ {cur} : s3user'[c] = s3user[c]
           /\ cache' = cache
<1>1. /\ cur \in Claims /\ obj \in ClaimRec
      /\ s3user \in [Claims -> S3UserRec]
  BY DEF EnsureS3User, SafetyInv, TypeInv, TypeOK, Active
<1> DEFINE fresh == [exists |-> TRUE, uid |-> obj.uid, rv |-> obj.rv,
                     quota |-> obj.spec.quota]
<1>2. s3user' = [s3user EXCEPT ![cur] = fresh] /\ cache' = cache
  BY DEF EnsureS3User, infVars
<1> HIDE DEF fresh
<1>3. s3user'[cur] = fresh /\ \A c \in Claims \ {cur} : s3user'[c] = s3user[c]
  BY <1>1, <1>2
<1> QED BY <1>1, <1>2, <1>3 DEF fresh

LEMMA ClaimRefStep ==
    ASSUME SafetyInv, ClaimRefInv, Next
    PROVE  ClaimRefInv'
<1>0. /\ OrderInv /\ TypeInv /\ TypeInv'
      /\ pc \in EarlySteps => MadeBy(s3user[cur], obj) /\ NotNewer(obj, cache[cur])
      /\ pc \in EarlySteps => cur \in Claims
  <2>1. pc \in EarlySteps => pc # "idle"
    BY DEF EarlySteps, AccountSteps, SecretSteps
  <2> QED BY <2>1, TypeStep DEF SafetyInv, TypeInv, Active, ClaimRefInv,
          EarlySteps
<1>1. \A c \in Claims : /\ cache[c] \in ClaimRec /\ cache'[c] \in ClaimRec
                        /\ s3user[c] \in S3UserRec
                        /\ NotNewer(cache[c], cache'[c])
                        /\ MadeBy(s3user[c], cache[c])
  BY <1>0, CacheAdvances DEF TypeInv, TypeOK, ClaimRefInv
<1>2. obj \in ClaimRec
  BY DEF SafetyInv, TypeInv, TypeOK
<1>3. ASSUME NEW c \in Claims
      PROVE  MadeBy(s3user'[c], cache'[c])
  <2>1. CASE s3user'[c] = s3user[c]
    BY <1>1, <2>1, NotNewerThan
  <2>2. CASE EnsureS3User /\ c = cur
    <3>1. NotNewer(obj, cache[cur])
      BY <1>0, <2>2 DEF EnsureS3User, EarlySteps
    <3>2. MadeBy(s3user'[cur], obj)
      BY <1>2, <2>2, S3UserMade DEF MadeBy, ClaimRec
    <3>3. s3user'[cur] \in S3UserRec /\ cur \in Claims /\ cache' = cache
      BY <1>0, <2>2, S3UserMade DEF TypeInv, TypeOK
    <3> QED BY <1>1, <1>2, <2>2, <3>1, <3>2, <3>3, NotNewerThan
  <2>3. CASE RemoveS3User /\ c = cur
    BY <1>0, <2>3 DEF RemoveS3User, NoS3User, MadeBy, TypeInv, TypeOK
  <2>4. CASE RemoveS3User /\ c # cur
    BY <1>0, <2>1, <2>4 DEF RemoveS3User, TypeInv, TypeOK
  <2> QED BY <2>1, <2>2, <2>3, <2>4, S3UserMade, S3UsersKept
<1>4. ASSUME pc' \in EarlySteps
      PROVE  MadeBy(s3user'[cur'], obj') /\ NotNewer(obj', cache'[cur'])
  <2>1. CASE pc \in EarlySteps /\ UNCHANGED <<cur, obj, s3user>>
    BY <1>0, <1>1, <1>2, <2>1, NotNewerThan
  <2>2. ASSUME NEW c \in Claims, Reconcile(c)
        PROVE  MadeBy(s3user'[cur'], obj') /\ NotNewer(obj', cache'[cur'])
    <3>1. cur' = c /\ obj' = cache[c] /\ UNCHANGED <<s3user, cache>>
      BY <1>0, <2>2, ReconcileTakes
    <3> QED BY <1>1, <3>1
  <2> QED BY <1>4, <2>1, <2>2, EarlyKinds
<1>5. OrderInv'
  BY <1>0, OrderStep
<1> QED BY <1>3, <1>4, <1>5 DEF ClaimRefInv, EarlySteps

LEMMA ClaimRefInit == Init => ClaimRefInv
<1> SUFFICES ASSUME Init
             PROVE  ClaimRefInv
  OBVIOUS
<1>1. \A c \in Claims : Len(watch[c]) = 0 /\ 1 .. Len(watch[c]) = {}
  BY DEF Init
<1> QED BY <1>1 DEF Init, ClaimRefInv, OrderInv, MadeBy, NoS3User,
        AccountSteps, SecretSteps

(* No request, however old its copy of the claim, takes an S3User back to an *)
(* earlier version of the claim.                                            *)
THEOREM ClaimRefsAdvance == Spec => ClaimRefAdvances
<1>1. ClaimRefInv /\ [Next]_vars /\ SafetyInv => ClaimRefInv'
  <2>1. CASE UNCHANGED vars
    BY <2>1 DEF vars, ClaimRefInv, OrderInv
  <2> QED BY <2>1, ClaimRefStep
<1>2. SafetyInv /\ ClaimRefInv /\ [Next]_vars =>
        [\A c \in Claims :
           s3user[c].exists /\ s3user'[c].exists /\ s3user'[c] # s3user[c] =>
               s3user[c].rv < s3user'[c].rv]_vars
  <2> SUFFICES ASSUME SafetyInv, ClaimRefInv, Next, NEW c \in Claims,
                      s3user[c].exists, s3user'[c].exists,
                      s3user'[c] # s3user[c]
               PROVE  s3user[c].rv < s3user'[c].rv
    OBVIOUS
  <2>1. ~ RemoveS3User
    BY DEF RemoveS3User, NoS3User, SafetyInv, TypeInv, TypeOK
  <2>2. EnsureS3User /\ c = cur
    BY <2>1, S3UsersKept, S3UserMade
  <2>3. MadeBy(s3user[cur], obj)
    BY <2>2 DEF EnsureS3User, ClaimRefInv
  <2>4. s3user[cur] \in S3UserRec /\ obj \in ClaimRec
    BY <2>2, S3UserMade DEF SafetyInv, TypeInv, TypeOK
  <2>5. s3user'[cur] = [exists |-> TRUE, uid |-> obj.uid, rv |-> obj.rv,
                        quota |-> obj.spec.quota]
    BY <2>2, S3UserMade
  <2>6. s3user[cur].rv <= obj.rv /\ s3user[cur].rv # obj.rv
    BY <2>2, <2>3, <2>5 DEF MadeBy
  <2>7. s3user'[cur].rv = obj.rv
    BY <2>5
  <2>8. s3user[cur].rv \in Nat /\ obj.rv \in Nat
    BY <2>4 DEF ClaimRec, S3UserRec
  <2> QED BY <2>2, <2>6, <2>7, <2>8
<1> QED BY <1>1, <1>2, ClaimRefInit, SafetyCorrect, PTL
        DEF Spec, ClaimRefAdvances
=============================================================================
