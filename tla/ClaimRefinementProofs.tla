------------------------ MODULE ClaimRefinementProofs ------------------------
(****************************************************************************)
(* Proof that ClaimReconciler implements ClaimLifecycle, for any number of   *)
(* claims, subusers and Secrets, any specs, failures and crashes.            *)
(****************************************************************************)
EXTENDS ClaimRefinement, ClaimReconcilerProofs

-----------------------------------------------------------------------------
(* What a step does to the accounts and the Secrets.                         *)

AccountSame == /\ ceph'[cur].exists = ceph[cur].exists
               /\ ceph'[cur].keys[Admin] = ceph[cur].keys[Admin]

Opened == /\ ~ ceph[cur].exists /\ ceph'[cur].exists
          /\ ceph'[cur].keys[Admin] = nextKey + 1
          /\ ceph'[cur].for = obj.uid

LEMMA AccountKinds ==
    ASSUME SafetyInv, AccountWrite
    PROVE  /\ cur \in Claims /\ pc # "idle"
           /\ \A c \in Claims \ {cur} : ceph'[c] = ceph[c]
           /\ UNCHANGED <<claim, secret, cache, cur, obj, cephUser>>
           /\ \/ AccountSame /\ ceph'[cur].for = ceph[cur].for
              \/ EnsureCephUser /\ ceph'[cur].for = obj.uid
                               /\ (AccountSame \/ Opened)
              \/ RemoveCephUser /\ ceph'[cur] = NoUser
<1>0. cur \in Claims /\ \A c \in Claims \ {cur} : ceph'[c] = ceph[c]
  BY AccountWrites
<1>1. /\ ceph[cur] \in CephRec /\ ceph[cur].keys \in [Users -> Nat]
      /\ Admin \in Users
  BY <1>0 DEF SafetyInv, TypeInv, TypeOK, CephRec, Users
<1>2. UNCHANGED <<claim, secret, cache, cur, obj, cephUser>> /\ pc # "idle"
  BY DEF AccountWrite, EnsureCephUser, EnsureCephUserQuota, RemoveCephUser,
         GenerateSubuser, RemoveSubuser, apiVars, infVars, reqVars, localVars
<1>3. CASE EnsureCephUser
  <2> DEFINE keys == IF ceph[cur].exists
                       THEN ceph[cur].keys
                       ELSE [NoKeys EXCEPT ![Admin] = nextKey + 1]
             account == [exists |-> TRUE, for |-> obj.uid,
                         maxBuckets |-> obj.spec.quota,
                         quota |-> ceph[cur].quota,
                         subusers |-> ceph[cur].subusers, keys |-> keys]
  <2>1. keys[Admin] = IF ceph[cur].exists THEN ceph[cur].keys[Admin]
                                          ELSE nextKey + 1
    BY <1>1, NullTypes
  <2>2. ceph' = [ceph EXCEPT ![cur] = account]
    BY <1>3 DEF EnsureCephUser
  <2>3. /\ account.exists = TRUE /\ account.for = obj.uid
        /\ account.keys = keys
    OBVIOUS
  <2> HIDE DEF account, keys
  <2>4. ceph'[cur] = account
    BY <1>0, <2>2 DEF SafetyInv, TypeInv, TypeOK
  <2> QED BY <1>0, <1>1, <1>2, <1>3, <2>1, <2>3, <2>4
          DEF AccountSame, Opened, CephRec
<1>4. CASE EnsureCephUserQuota
  <2>1. ceph'[cur] = [ceph[cur] EXCEPT !.quota = obj.spec.quota]
    BY <1>0, <1>4 DEF EnsureCephUserQuota, SafetyInv, TypeInv, TypeOK
  <2> QED BY <1>0, <1>1, <1>2, <2>1 DEF AccountSame, CephRec
<1>5. ASSUME NEW s \in Users, GenerateSubuser(s) \/ RemoveSubuser(s)
      PROVE  AccountSame /\ ceph'[cur].for = ceph[cur].for
  <2>1. s # Admin
    BY <1>5 DEF GenerateSubuser, RemoveSubuser, SafetyInv, ProgressInv
  <2>2. CASE GenerateSubuser(s)
    <3>1. ceph'[cur] = WithSubusers(ceph[cur], ceph[cur].subusers \cup {s},
                                    [ceph[cur].keys EXCEPT ![s] = nextKey + 1])
      BY <1>0, <2>2 DEF GenerateSubuser, SafetyInv, TypeInv, TypeOK
    <3>2. [ceph[cur].keys EXCEPT ![s] = nextKey + 1][Admin]
            = ceph[cur].keys[Admin]
      BY <1>1, <2>1
    <3> QED BY <3>1, <3>2 DEF AccountSame, WithSubusers
  <2>3. CASE RemoveSubuser(s)
    <3>1. ceph'[cur] = WithSubusers(ceph[cur], ceph[cur].subusers \ {s},
                                    [ceph[cur].keys EXCEPT ![s] = 0])
      BY <1>0, <2>3 DEF RemoveSubuser, SafetyInv, TypeInv, TypeOK
    <3>2. [ceph[cur].keys EXCEPT ![s] = 0][Admin] = ceph[cur].keys[Admin]
      BY <1>1, <2>1
    <3> QED BY <3>1, <3>2 DEF AccountSame, WithSubusers
  <2> QED BY <1>5, <2>2, <2>3
<1>6. CASE RemoveCephUser
  <2>1. ceph'[cur] = NoUser
    BY <1>0, <1>6 DEF RemoveCephUser, SafetyInv, TypeInv, TypeOK
  <2> QED BY <1>0, <1>2, <1>6, <2>1
<1> QED BY <1>0, <1>2, <1>3, <1>4, <1>5, <1>6 DEF AccountWrite

(* The Secret that the worker writes for key holder u, and its new content. *)
Fresh(u) == [exists |-> TRUE, key |-> cephUser[u], owner |-> cur,
             uid |-> obj.uid]

SecretWritten(n, u) ==
    /\ secret[n].owner \in {cur, NoKey}
    /\ cephUser[u] # 0
    /\ secret' = [secret EXCEPT ![n] = Fresh(u)]
    /\ UNCHANGED <<cur, obj, cephUser>>

(* A step that writes a Secret collects it, deletes it for a subuser that    *)
(* was removed, or writes a key into it.                                    *)
LEMMA SecretKinds ==
    ASSUME SafetyInv, SecretAction
    PROVE  /\ UNCHANGED <<claim, ceph, nextKey, cache>>
           /\ \/ secret' = secret
              \/ \E n \in SecretNames : Garbage(n) /\ CollectSecret(n)
              \/ RemoveSubuserSecret /\ cur \in Claims /\ sub \in Users
              \/ /\ EnsureAdminSecret /\ cur \in Claims
                 /\ SecretWritten(obj.spec.admin, Admin)
              \/ /\ EnsureReadonlySecret /\ cur \in Claims
                 /\ SecretWritten(obj.spec.readonly, Readonly)
              \/ \E s \in Users : /\ EnsureSubuserSecret(s) /\ cur \in Claims
                                  /\ SecretWritten(SubuserSecret[cur][s], s)
<1>1. UNCHANGED <<claim, ceph, nextKey, cache>>
  BY DEF SecretAction, EnsureAdminSecret, EnsureReadonlySecret,
         RemoveSubuserSecret, EnsureSubuserSecret, CollectSecret, rgwVars,
         infVars
<1>2. ASSUME NEW n, NEW u, NEW next, NEW rest, EnsureSecret(n, u, next, rest)
      PROVE  secret' = secret \/ SecretWritten(n, u)
  BY <1>2 DEF EnsureSecret, SecretWritten, Fresh, reqVars
<1>3. CASE EnsureAdminSecret
  BY <1>1, <1>2, <1>3 DEF EnsureAdminSecret, SafetyInv, TypeInv, Active
<1>4. CASE EnsureReadonlySecret
  BY <1>1, <1>2, <1>4 DEF EnsureReadonlySecret, SafetyInv, TypeInv, Active
<1>5. CASE RemoveSubuserSecret
  BY <1>1, <1>5 DEF RemoveSubuserSecret, SafetyInv, TypeInv, Active
<1>6. ASSUME NEW s \in Users, EnsureSubuserSecret(s)
      PROVE  /\ cur \in Claims
             /\ secret' = secret \/ SecretWritten(SubuserSecret[cur][s], s)
  BY <1>2, <1>6 DEF EnsureSubuserSecret, SafetyInv, TypeInv, Active
<1>7. ASSUME NEW n \in SecretNames, CollectSecret(n)
      PROVE  Garbage(n)
  BY <1>7 DEF CollectSecret
<1> QED BY <1>1, <1>3, <1>4, <1>5, <1>6, <1>7 DEF SecretAction

-----------------------------------------------------------------------------
(* The inductive invariant.                                                  *)

(* What becomes of a Secret in a step. *)
LEMMA SecretCell ==
    ASSUME SafetyInv, Next, NEW n \in SecretNames
    PROVE  \/ secret'[n] \in {secret[n], NoData}
           \/ /\ pc # "idle" /\ cur \in Claims
              /\ UNCHANGED <<cur, obj, cache>>
              /\ \E u \in Users : secret'[n] = Fresh(u)
<1>1. CASE ~ SecretAction
  BY <1>1, SecretsKept
<1>2. ASSUME NEW m, NEW u \in Users, SecretWritten(m, u)
      PROVE  secret'[n] = secret[n] \/ secret'[n] = Fresh(u)
  BY <1>2 DEF SecretWritten, SafetyInv, TypeInv, TypeOK
<1>3. Admin \in Users /\ Readonly \in Users
  BY DEF Users
<1>4. ASSUME NEW m \in SecretNames, CollectSecret(m)
      PROVE  secret'[n] \in {secret[n], NoData}
  BY <1>4 DEF CollectSecret, SafetyInv, TypeInv, TypeOK
<1>5. CASE RemoveSubuserSecret
  BY <1>5 DEF RemoveSubuserSecret, SafetyInv, TypeInv, TypeOK
<1>6. CASE SecretAction
  <2>1. \/ EnsureAdminSecret \/ EnsureReadonlySecret
        \/ \E s \in Users : EnsureSubuserSecret(s)
        => pc # "idle"
    BY DEF EnsureAdminSecret, EnsureReadonlySecret, EnsureSubuserSecret
  <2>2. CASE EnsureAdminSecret /\ SecretWritten(obj.spec.admin, Admin)
                               /\ cur \in Claims
    BY <1>2, <1>3, <1>6, <2>1, <2>2, SecretKinds DEF SecretWritten
  <2>3. CASE EnsureReadonlySecret /\ SecretWritten(obj.spec.readonly, Readonly)
                                  /\ cur \in Claims
    BY <1>2, <1>3, <1>6, <2>1, <2>3, SecretKinds DEF SecretWritten
  <2>4. ASSUME NEW s \in Users, EnsureSubuserSecret(s), cur \in Claims,
               SecretWritten(SubuserSecret[cur][s], s)
        PROVE  \/ secret'[n] = secret[n]
               \/ /\ pc # "idle" /\ cur \in Claims
                  /\ UNCHANGED <<cur, obj, cache>>
                  /\ \E u \in Users : secret'[n] = Fresh(u)
    BY <1>2, <1>6, <2>1, <2>4, SecretKinds DEF SecretWritten
  <2>5. CASE secret' = secret
    BY <2>5
  <2> QED BY <1>4, <1>5, <1>6, <2>2, <2>3, <2>4, <2>5, SecretKinds
<1> QED BY <1>1, <1>6

LEMMA OwnerStep ==
    ASSUME SafetyInv, OwnerInv, Next
    PROVE  OwnerInv'
<1> SUFFICES ASSUME NEW c \in Claims, NEW n \in SecretNames,
                    secret'[n].exists, secret'[n].owner = c
             PROVE  /\ secret'[n].uid <= cache'[c].uid
                    /\ pc' # "idle" /\ cur' = c => secret'[n].uid <= obj'.uid
  BY DEF OwnerInv
<1>0. SafetyInv'
  BY SafetyStep
<1>1. /\ cache[c].uid \in Nat /\ cache'[c].uid \in Nat
      /\ cache[c].uid <= cache'[c].uid
      /\ secret'[n].uid \in Nat /\ secret[n].uid \in Nat
      /\ obj.uid \in Nat /\ obj'.uid \in Nat
  BY <1>0, Monotone DEF SafetyInv, TypeInv, TypeOK, SecretRec, ClaimRec
<1>2. CASE secret'[n] = secret[n]
  <2>1. secret[n].uid <= cache[c].uid
    BY <1>2 DEF OwnerInv
  <2>2. ASSUME pc' # "idle", cur' = c
        PROVE  secret[n].uid <= obj'.uid
    <3>1. CASE cur' = cur /\ obj'.uid = obj.uid /\ pc # "idle"
      BY <1>2, <2>2, <3>1 DEF OwnerInv
    <3>2. ASSUME NEW d \in Claims, Reconcile(d)
          PROVE  obj' = cache[c]
      BY <2>2, <3>2 DEF Reconcile
    <3> QED BY <2>1, <2>2, <3>1, <3>2, RequestKinds
  <2> QED BY <1>1, <1>2, <2>1, <2>2
<1>3. CASE secret'[n] = NoData
  BY <1>3 DEF NoData
<1>4. CASE /\ pc # "idle" /\ cur \in Claims
           /\ UNCHANGED <<cur, obj, cache>>
           /\ \E u \in Users : secret'[n] = Fresh(u)
  <2>1. secret'[n].owner = cur /\ secret'[n].uid = obj.uid
    BY <1>4 DEF Fresh
  <2>2. obj.uid <= cache[cur].uid
    BY <1>4 DEF SafetyInv, RequestInv
  <2> QED BY <1>1, <1>4, <2>1, <2>2
<1> QED BY <1>2, <1>3, <1>4, SecretCell

LEMMA KeysGenerated ==
    ASSUME SafetyInv, GeneratedInv, AccountWrite
    PROVE  /\ nextKey' \in Nat /\ nextKey <= nextKey'
           /\ \A c \in Claims, u \in Users : ceph'[c].keys[u] <= nextKey'
<1>0. /\ cur \in Claims /\ \A c \in Claims \ {cur} : ceph'[c] = ceph[c]
      /\ nextKey \in Nat
      /\ \A c \in Claims : ceph[c].keys \in [Users -> Nat]
  BY AccountWrites DEF SafetyInv, TypeInv, TypeOK, CephRec
<1>1. ASSUME NEW k \in Nat, nextKey' = k, nextKey <= k,
             \A u \in Users : ceph'[cur].keys[u] <= k
      PROVE  /\ nextKey' \in Nat /\ nextKey <= nextKey'
             /\ \A c \in Claims, u \in Users : ceph'[c].keys[u] <= nextKey'
  <2>1. ASSUME NEW c \in Claims \ {cur}, NEW u \in Users
        PROVE  ceph'[c].keys[u] <= k
    BY <1>0, <1>1 DEF GeneratedInv
  <2> QED BY <1>1, <2>1
<1>2. CASE EnsureCephUser
  <2> DEFINE keys == IF ceph[cur].exists
                       THEN ceph[cur].keys
                       ELSE [NoKeys EXCEPT ![Admin] = nextKey + 1]
             account == [exists |-> TRUE, for |-> obj.uid,
                         maxBuckets |-> obj.spec.quota,
                         quota |-> ceph[cur].quota,
                         subusers |-> ceph[cur].subusers, keys |-> keys]
             k == IF ceph[cur].exists THEN nextKey ELSE nextKey + 1
  <2>1. \A u \in Users : keys[u] <= k
    <3>1. CASE ceph[cur].exists
      BY <1>0, <3>1 DEF GeneratedInv
    <3>2. CASE ~ ceph[cur].exists
      <4>1. \A u \in Users : [NoKeys EXCEPT ![Admin] = nextKey + 1][u]
                               \in {0, nextKey + 1}
        BY DEF NoKeys
      <4> QED BY <1>0, <3>2, <4>1
    <3> QED BY <3>1, <3>2
  <2>2. ceph' = [ceph EXCEPT ![cur] = account] /\ account.keys = keys
    BY <1>2 DEF EnsureCephUser
  <2>3. nextKey' = k /\ k \in Nat /\ nextKey <= k
    BY <1>0, <1>2 DEF EnsureCephUser
  <2> HIDE DEF account, keys, k
  <2>4. ceph'[cur] = account
    BY <1>0, <2>2 DEF SafetyInv, TypeInv, TypeOK
  <2> QED BY <1>1, <2>1, <2>2, <2>3, <2>4
<1>3. CASE EnsureCephUserQuota
  <2>1. ceph'[cur] = [ceph[cur] EXCEPT !.quota = obj.spec.quota]
    BY <1>0, <1>3 DEF EnsureCephUserQuota, SafetyInv, TypeInv, TypeOK
  <2>2. ceph'[cur].keys = ceph[cur].keys /\ nextKey' = nextKey
    BY <1>0, <1>3, <2>1
       DEF EnsureCephUserQuota, CephRec, SafetyInv, TypeInv, TypeOK
  <2> QED BY <1>0, <1>1, <2>2 DEF GeneratedInv
<1>4. ASSUME NEW s \in Users, GenerateSubuser(s)
      PROVE  /\ nextKey' = nextKey + 1
             /\ \A u \in Users : ceph'[cur].keys[u] <= nextKey + 1
  <2>1. ceph'[cur] = WithSubusers(ceph[cur], ceph[cur].subusers \cup {s},
                                  [ceph[cur].keys EXCEPT ![s] = nextKey + 1])
    BY <1>0, <1>4 DEF GenerateSubuser, SafetyInv, TypeInv, TypeOK
  <2>2. ceph'[cur].keys = [ceph[cur].keys EXCEPT ![s] = nextKey + 1]
    BY <2>1 DEF WithSubusers
  <2>3. \A u \in Users :
          ceph'[cur].keys[u] = IF u = s THEN nextKey + 1 ELSE ceph[cur].keys[u]
    BY <1>0, <2>2
  <2>4. \A u \in Users : ceph[cur].keys[u] \in Nat /\ ceph[cur].keys[u] <= nextKey
    BY <1>0 DEF GeneratedInv
  <2>5. \A u \in Users : ceph'[cur].keys[u] <= nextKey + 1
    BY <1>0, <2>3, <2>4
  <2> QED BY <1>4, <2>5 DEF GenerateSubuser
<1>5. ASSUME NEW s \in Users, RemoveSubuser(s)
      PROVE  /\ nextKey' = nextKey
             /\ \A u \in Users : ceph'[cur].keys[u] <= nextKey
  <2>1. ceph'[cur] = WithSubusers(ceph[cur], ceph[cur].subusers \ {s},
                                  [ceph[cur].keys EXCEPT ![s] = 0])
    BY <1>0, <1>5 DEF RemoveSubuser, SafetyInv, TypeInv, TypeOK
  <2>2. ceph'[cur].keys = [ceph[cur].keys EXCEPT ![s] = 0]
    BY <2>1 DEF WithSubusers
  <2>3. \A u \in Users :
          ceph'[cur].keys[u] = IF u = s THEN 0 ELSE ceph[cur].keys[u]
    BY <1>0, <2>2
  <2>4. \A u \in Users : ceph[cur].keys[u] \in Nat /\ ceph[cur].keys[u] <= nextKey
    BY <1>0 DEF GeneratedInv
  <2>5. \A u \in Users : ceph'[cur].keys[u] <= nextKey
    BY <1>0, <2>3, <2>4
  <2>6. nextKey' = nextKey
    BY <1>5 DEF RemoveSubuser
  <2> QED BY <2>5, <2>6
<1>6. CASE RemoveCephUser
  <2>1. ceph'[cur] = NoUser /\ nextKey' = nextKey
    BY <1>0, <1>6 DEF RemoveCephUser, SafetyInv, TypeInv, TypeOK
  <2>2. \A u \in Users : ceph'[cur].keys[u] = 0
    BY <2>1 DEF NoUser, NoKeys
  <2> QED BY <1>0, <1>1, <2>1, <2>2
<1> QED BY <1>0, <1>1, <1>2, <1>3, <1>4, <1>5, <1>6 DEF AccountWrite

LEMMA KeysRead ==
    ASSUME SafetyInv, Next
    PROVE  \/ cephUser' \in {cephUser, NoKeys}
           \/ RetrieveCephUser
<1> USE DEF localVars, EndReconcile, Requeue
<1>1. CASE \E c \in Claims : User(c)
  BY <1>1 DEF User, CreateClaim, EditClaim, DeleteClaim, StripFinalizer
<1>2. CASE \E c \in Claims : Reconcile(c)
  BY <1>2 DEF Reconcile
<1>3. CASE Provision
  BY <1>3 DEF Provision, EnsureCephUser, EnsureCephUserQuota,
     GenerateSubuserAccess, GenerateSubuser, RemoveSubuser,
     RemoveSubuserSecret, SubusersSynced, EnsureAdminSecret,
     EnsureReadonlySecret, EnsureSubuserSecret, EnsureSecret, SecretsEnsured,
     EnsureS3User, UpdateS3UserClaimStatus, AddCleanupFinalizer
<1>4. CASE Cleanup \/ UpdateQuota
  BY <1>4 DEF Cleanup, RemoveCephUser, RemoveS3User, RemoveCleanupFinalizer,
     UpdateQuota, SumNamespaceUsedQuota, UpdateNamespaceQuotaStatus
<1>5. CASE Informer \/ CollectGarbage \/ Fail \/ Crash \/ Restart
  BY <1>5 DEF Informer, Deliver, DeliverQuota, CollectGarbage, CollectSecret,
     Fail, Crash, Restart
<1> QED BY <1>1, <1>2, <1>3, <1>4, <1>5 DEF Next, Worker

LEMMA KeyCounterKept ==
    ASSUME Next, ~ AccountWrite
    PROVE  nextKey' = nextKey
<1> USE DEF rgwVars, AccountWrite
<1>1. CASE \E c \in Claims : User(c)
  BY <1>1 DEF User, CreateClaim, EditClaim, DeleteClaim, StripFinalizer
<1>2. CASE \E c \in Claims : Reconcile(c)
  BY <1>2 DEF Reconcile
<1>3. CASE Provision
  BY <1>3 DEF Provision, GenerateSubuserAccess, RemoveSubuserSecret,
     SubusersSynced, RetrieveCephUser, EnsureAdminSecret,
     EnsureReadonlySecret, EnsureSubuserSecret, SecretsEnsured, EnsureS3User,
     UpdateS3UserClaimStatus, AddCleanupFinalizer
<1>4. CASE Cleanup \/ UpdateQuota
  BY <1>4 DEF Cleanup, RemoveS3User, RemoveCleanupFinalizer, UpdateQuota,
     SumNamespaceUsedQuota, UpdateNamespaceQuotaStatus
<1>5. CASE Informer \/ CollectGarbage \/ Fail \/ Crash \/ Restart
  BY <1>5 DEF Informer, Deliver, DeliverQuota, CollectGarbage, CollectSecret,
     Fail, Crash, Restart
<1> QED BY <1>1, <1>2, <1>3, <1>4, <1>5 DEF Next, Worker

LEMMA GeneratedStep ==
    ASSUME SafetyInv, GeneratedInv, Next
    PROVE  GeneratedInv'
<1>0. SafetyInv'
  BY SafetyStep
<1>1. /\ nextKey' \in Nat /\ nextKey \in Nat /\ nextKey <= nextKey'
      /\ \A c \in Claims, u \in Users : ceph'[c].keys[u] <= nextKey'
  <2>1. CASE AccountWrite
    BY <2>1, KeysGenerated DEF SafetyInv, TypeInv, TypeOK
  <2>2. CASE ~ AccountWrite
    BY <2>2, AccountsKept, KeyCounterKept
       DEF GeneratedInv, SafetyInv, TypeInv, TypeOK
  <2> QED BY <2>1, <2>2
<1>2. /\ cephUser \in [Users -> Nat] /\ \A n \in SecretNames : secret[n].key \in Nat
      /\ \A c \in Claims, u \in Users : ceph[c].keys[u] \in Nat
  BY DEF SafetyInv, TypeInv, TypeOK, SecretRec, CephRec
<1>3. ASSUME NEW u \in Users
      PROVE  cephUser'[u] <= nextKey'
  <2>1. CASE cephUser' = cephUser
    BY <1>1, <1>2, <2>1 DEF GeneratedInv
  <2>2. CASE cephUser' = NoKeys
    BY <1>1, <2>2 DEF NoKeys
  <2>3. CASE RetrieveCephUser
    <3>1. cephUser' = ceph[cur].keys /\ cur \in Claims
      BY <2>3 DEF RetrieveCephUser, SafetyInv, TypeInv, Active
    <3> QED BY <1>1, <1>2, <3>1 DEF GeneratedInv
  <2> QED BY <2>1, <2>2, <2>3, KeysRead
<1>4. ASSUME NEW n \in SecretNames
      PROVE  secret'[n].key <= nextKey'
  <2>1. CASE secret'[n] = secret[n]
    BY <1>1, <1>2, <2>1 DEF GeneratedInv
  <2>2. CASE secret'[n] = NoData
    BY <1>1, <2>2 DEF NoData
  <2>3. ASSUME NEW u \in Users, secret'[n] = Fresh(u)
        PROVE  secret'[n].key <= nextKey'
    BY <1>1, <1>2, <2>3 DEF Fresh, GeneratedInv
  <2> QED BY <2>1, <2>2, <2>3, SecretCell
<1> QED BY <1>1, <1>3, <1>4 DEF GeneratedInv

(* The steps from the account to its Secret, and what leads to them. *)
KeySteps == LoopSteps \cup {"retrieve", "adminSecret"}

LEMMA KeyKinds ==
    ASSUME SafetyInv, Next
    PROVE  \/ pc' \notin KeySteps
           \/ UNCHANGED <<pc, cur, obj, ceph, cephUser, sub>>
           \/ LoopAction \/ SubusersSynced \/ RetrieveCephUser
<1> USE DEF LoopSteps, KeySteps, LoopAction, Goto, EndReconcile, Requeue,
            reqVars, localVars, rgwVars
<1>1. CASE \E c \in Claims : User(c)
  BY <1>1 DEF User, CreateClaim, EditClaim, DeleteClaim, StripFinalizer
<1>2. CASE \E c \in Claims : Reconcile(c)
  BY <1>2 DEF Reconcile
<1>3. CASE Provision
  BY <1>3 DEF Provision, EnsureAdminSecret, EnsureReadonlySecret,
     EnsureSubuserSecret, EnsureSecret, SecretsEnsured, EnsureS3User,
     UpdateS3UserClaimStatus, AddCleanupFinalizer
<1>4. CASE Cleanup
  BY <1>4 DEF Cleanup, RemoveCephUser, RemoveS3User, RemoveCleanupFinalizer
<1>5. CASE UpdateQuota
  BY <1>5 DEF UpdateQuota, SumNamespaceUsedQuota, UpdateNamespaceQuotaStatus
<1>6. CASE Informer \/ CollectGarbage \/ Restart
  BY <1>6 DEF Informer, Deliver, DeliverQuota, CollectGarbage, CollectSecret,
     Restart
<1>7. CASE Fail \/ Crash
  BY <1>7 DEF Fail, Crash
<1> QED BY <1>1, <1>2, <1>3, <1>4, <1>5, <1>6, <1>7 DEF Next, Worker

LEMMA AccountHeld ==
    ASSUME SafetyInv, RetrievedInv, Next
    PROVE  /\ (pc \in KeySteps)' => ceph'[cur'].exists /\ ceph'[cur'].for = obj'.uid
           /\ (pc = "adminSecret")' => cephUser'[Admin] = ceph'[cur'].keys[Admin]
           /\ (pc = "subuserSecret")' => sub' # Admin
<1> USE DEF KeySteps, LoopSteps
<1>1. CASE pc' \notin KeySteps
  BY <1>1
<1>2. CASE UNCHANGED <<pc, cur, obj, ceph, cephUser, sub>>
  BY <1>2 DEF RetrievedInv
<1>3. CASE EnsureCephUser
  <2>1. AccountWrite /\ ~ RemoveCephUser /\ pc' = "cephQuota"
    BY <1>3 DEF EnsureCephUser, RemoveCephUser, AccountWrite, Goto
  <2>2. ceph'[cur].exists /\ UNCHANGED <<cur, obj>>
    BY <2>1, AccountWrites, AccountKinds
  <2>3. ceph'[cur].for = obj.uid
    <3> DEFINE account == [exists |-> TRUE, for |-> obj.uid,
                           maxBuckets |-> obj.spec.quota,
                           quota |-> ceph[cur].quota,
                           subusers |-> ceph[cur].subusers,
                           keys |-> IF ceph[cur].exists THEN ceph[cur].keys
                                    ELSE [NoKeys EXCEPT ![Admin] = nextKey + 1]]
    <3>1. ceph' = [ceph EXCEPT ![cur] = account] /\ account.for = obj.uid
      BY <1>3 DEF EnsureCephUser
    <3> HIDE DEF account
    <3>2. cur \in Claims
      BY <2>1, AccountKinds
    <3> QED BY <3>1, <3>2 DEF SafetyInv, TypeInv, TypeOK
  <2> QED BY <2>1, <2>2, <2>3
<1>4. CASE \/ EnsureCephUserQuota
           \/ \E s \in Users : GenerateSubuser(s) \/ RemoveSubuser(s)
  <2>1. /\ AccountWrite /\ ~ RemoveCephUser /\ ~ EnsureCephUser
        /\ pc \in LoopSteps /\ pc' # "adminSecret"
    BY <1>4 DEF EnsureCephUserQuota, GenerateSubuser, RemoveSubuser,
       RemoveCephUser, EnsureCephUser, AccountWrite, Goto
  <2>2. AccountSame /\ ceph'[cur].for = ceph[cur].for /\ UNCHANGED <<cur, obj>>
    BY <2>1, AccountKinds
  <2>3. pc' = "subuserSecret" => sub' # Admin
    BY <1>4 DEF EnsureCephUserQuota, GenerateSubuser, RemoveSubuser, Goto,
       SafetyInv, ProgressInv
  <2> QED BY <2>1, <2>2, <2>3 DEF RetrievedInv, AccountSame
<1>5. CASE GenerateSubuserAccess \/ RemoveSubuserSecret \/ SubusersSynced
  BY <1>5 DEF GenerateSubuserAccess, RemoveSubuserSecret, SubusersSynced, Goto,
     rgwVars, reqVars, RetrievedInv
<1>6. CASE RetrieveCephUser
  BY <1>6 DEF RetrieveCephUser, Goto, rgwVars, reqVars, RetrievedInv
<1> QED BY <1>1, <1>2, <1>3, <1>4, <1>5, <1>6, KeyKinds DEF LoopAction

LEMMA SubuserLoop ==
    ASSUME SafetyInv, RetrievedInv, Next
    PROVE  (pc = "otherSecrets")' => Admin \notin todo'
<1> USE DEF Goto, EndReconcile, Requeue, reqVars, localVars, RetrievedInv
<1>1. CASE \E c \in Claims : User(c)
  BY <1>1 DEF User, CreateClaim, EditClaim, DeleteClaim, StripFinalizer
<1>2. CASE \E c \in Claims : Reconcile(c)
  BY <1>2 DEF Reconcile
<1>3. CASE EnsureReadonlySecret
  <2>1. Admin \notin obj.spec.subusers
    BY NamesAssumption DEF SafetyInv, TypeInv, TypeOK, ClaimRec, SpecRec
  <2> QED BY <1>3, <2>1 DEF EnsureReadonlySecret, EnsureSecret
<1>4. CASE \E s \in Users : EnsureSubuserSecret(s)
  BY <1>4 DEF EnsureSubuserSecret, EnsureSecret
<1>5. CASE /\ Provision /\ ~ EnsureReadonlySecret
           /\ ~ \E s \in Users : EnsureSubuserSecret(s)
  BY <1>5 DEF Provision, EnsureCephUser, EnsureCephUserQuota,
     GenerateSubuserAccess, GenerateSubuser, RemoveSubuser,
     RemoveSubuserSecret, SubusersSynced, RetrieveCephUser, EnsureAdminSecret,
     EnsureSecret, SecretsEnsured, EnsureS3User, UpdateS3UserClaimStatus,
     AddCleanupFinalizer
<1>6. CASE Cleanup \/ UpdateQuota
  BY <1>6 DEF Cleanup, RemoveCephUser, RemoveS3User, RemoveCleanupFinalizer,
     UpdateQuota, SumNamespaceUsedQuota, UpdateNamespaceQuotaStatus
<1>7. CASE Informer \/ CollectGarbage \/ Restart
  BY <1>7 DEF Informer, Deliver, DeliverQuota, CollectGarbage, CollectSecret,
     Restart
<1>8. CASE Fail \/ Crash
  BY <1>8 DEF Fail, Crash
<1> QED BY <1>1, <1>2, <1>3, <1>4, <1>5, <1>6, <1>7, <1>8 DEF Next, Worker

LEMMA RetrievedStep ==
    ASSUME SafetyInv, RetrievedInv, Next
    PROVE  RetrievedInv'
BY AccountHeld, SubuserLoop DEF RetrievedInv, KeySteps, LoopSteps

(* The names the worker writes to. *)
LEMMA WrittenNames ==
    ASSUME SafetyInv, KeysInv
    PROVE  /\ pc = "adminSecret" => obj.spec.admin \in AdminNames(cur)
           /\ pc = "readonlySecret" => obj.spec.readonly \in OtherNames(cur)
           /\ \A s \in Users \ {Admin} : SubuserSecret[cur][s] \in OtherNames(cur)
<1>1. pc \in {"adminSecret", "readonlySecret"} => obj.spec \in SpecsOf[cur]
  BY DEF SafetyInv, RequestInv, ProvisionSteps, KeysInv, SpecsInv, Specified
<1> QED BY <1>1 DEF AdminNames, OtherNames

(* The admin Secrets of a claim are written with its own keys, or collected. *)
LEMMA AdminSecrets ==
    ASSUME SafetyInv, KeysInv, Next,
           NEW c \in Claims, NEW n \in SecretNames, n \in AdminNames(c)
    PROVE  \/ secret'[n] = secret[n]
           \/ /\ secret'[n] = NoData /\ Garbage(n)
              /\ UNCHANGED <<claim, ceph, nextKey>>
           \/ /\ EnsureAdminSecret /\ cur = c /\ n = obj.spec.admin
              /\ secret'[n] = Fresh(Admin) /\ secret[n].owner \in {cur, NoKey}
              /\ UNCHANGED <<claim, ceph, nextKey>>
<1>1. CASE ~ SecretAction
  BY <1>1, SecretsKept
<1>2. ASSUME NEW m, NEW u, SecretWritten(m, u)
      PROVE  secret'[n] = IF m = n THEN Fresh(u) ELSE secret[n]
  BY <1>2 DEF SecretWritten, SafetyInv, TypeInv, TypeOK
<1>3. \A d \in Claims : n \notin OtherNames(d)
  BY SecretsDistinct
<1>4. ASSUME NEW m \in SecretNames, CollectSecret(m), Garbage(m)
      PROVE  secret'[n] = secret[n] \/ (secret'[n] = NoData /\ Garbage(n))
  BY <1>4 DEF CollectSecret, SafetyInv, TypeInv, TypeOK
<1>5. CASE RemoveSubuserSecret /\ cur \in Claims /\ sub \in Users
  <2>1. sub # Admin
    BY <1>5 DEF RemoveSubuserSecret, KeysInv, RetrievedInv
  <2>2. n # SubuserSecret[cur][sub]
    BY <1>3, <1>5, <2>1, WrittenNames
  <2> QED BY <1>5, <2>2 DEF RemoveSubuserSecret, SafetyInv, TypeInv, TypeOK
<1>6. CASE /\ EnsureAdminSecret /\ cur \in Claims
           /\ SecretWritten(obj.spec.admin, Admin)
  <2>1. obj.spec.admin \in AdminNames(cur)
    BY <1>6, WrittenNames DEF EnsureAdminSecret
  <2>2. obj.spec.admin = n => cur = c
    BY <1>6, <2>1, SecretsDistinct
  <2>3. UNCHANGED <<claim, ceph, nextKey>>
    BY <1>6 DEF EnsureAdminSecret, rgwVars
  <2> QED BY <1>2, <1>6, <2>2, <2>3 DEF SecretWritten
<1>7. CASE /\ EnsureReadonlySecret /\ cur \in Claims
           /\ SecretWritten(obj.spec.readonly, Readonly)
  <2>1. n # obj.spec.readonly
    BY <1>3, <1>7, WrittenNames DEF EnsureReadonlySecret
  <2> QED BY <1>2, <1>7, <2>1
<1>8. ASSUME NEW s \in Users, EnsureSubuserSecret(s), cur \in Claims,
             SecretWritten(SubuserSecret[cur][s], s)
      PROVE  secret'[n] = secret[n]
  <2>1. s # Admin
    BY <1>8 DEF EnsureSubuserSecret, KeysInv, RetrievedInv
  <2>2. n # SubuserSecret[cur][s]
    BY <1>3, <1>8, <2>1, WrittenNames
  <2> QED BY <1>2, <1>8, <2>2
<1>9. CASE SecretAction
  BY <1>4, <1>5, <1>6, <1>7, <1>8, <1>9, SecretKinds
<1> QED BY <1>1, <1>9

(* Claim c was provisioned and one of its Secrets has its key. *)
Works(c, n) == /\ ceph[c].exists /\ ceph[c].for = claim[c].uid
               /\ secret[n].key = ceph[c].keys[Admin]

(* A claim that was just created owns no Secret yet. *)
LEMMA OwnsNothing ==
    ASSUME SafetyInv, KeysInv, NEW c \in Claims, NEW n
    PROVE  ~ (/\ n \in SecretNames /\ secret[n].exists /\ secret[n].owner = c
              /\ secret[n].uid = claim[c].uid + 1)
<1> SUFFICES ASSUME n \in SecretNames, secret[n].exists, secret[n].owner = c
             PROVE  secret[n].uid # claim[c].uid + 1
  OBVIOUS
<1>1. secret[n].uid <= cache[c].uid
  BY DEF KeysInv, OwnerInv
<1>2. Older(cache[c], claim[c])
  BY DEF SafetyInv, CopiesInv
<1>3. /\ secret[n].uid \in Nat /\ cache[c].uid \in Nat /\ claim[c].uid \in Nat
  BY DEF SafetyInv, TypeInv, TypeOK, SecretRec, ClaimRec
<1> QED BY <1>1, <1>2, <1>3 DEF Older, Advances

LEMMA WorkingStep ==
    ASSUME SafetyInv, KeysInv, Next
    PROVE  WorkingInv'
<1> SUFFICES ASSUME NEW c \in Claims, NEW n \in SecretNames, n \in AdminNames(c),
                    claim'[c].state = "live", Belongs(n, c)'
             PROVE  Works(c, n)'
  BY DEF WorkingInv, Works, AdminNames
<1>1. claim[c].state = "live" /\ Belongs(n, c) => Works(c, n)
  BY DEF KeysInv, WorkingInv, Works
<1>2. ASSUME NEW d \in Claims, OneClaim(d)
      PROVE  Works(c, n)'
  <2>1. UNCHANGED <<secret, ceph>>
    BY <1>2 DEF OneClaim
  <2>2. ~ Created(c)
    BY <2>1, OwnsNothing DEF Created, Belongs
  <2>3. claim[c].state = "live" /\ claim'[c].uid = claim[c].uid
    BY <1>2, <2>2 DEF OneClaim, Same, Edited, Terminated, Left
  <2> QED BY <1>1, <2>1, <2>3 DEF Belongs, Works
<1>3. CASE claim' = claim /\ AccountWrite
  <2>1. secret' = secret
    BY <1>3, AccountKinds
  <2>2. Works(c, n)
    BY <1>1, <1>3, <2>1 DEF Belongs
  <2>3. CASE c # cur
    BY <1>3, <2>1, <2>2, <2>3, AccountKinds DEF Works
  <2>4. CASE c = cur /\ AccountSame /\ ceph'[cur].for = ceph[cur].for
    BY <1>3, <2>1, <2>2, <2>4 DEF Works, AccountSame
  <2>5. CASE c = cur /\ EnsureCephUser /\ ceph'[cur].for = obj.uid
                     /\ (AccountSame \/ Opened)
    <3>1. pc # "idle" /\ Older(obj, claim[cur]) /\ ceph[cur].for <= obj.uid
      BY <2>5 DEF EnsureCephUser, SafetyInv, RequestInv, ProgressInv
    <3>2. obj.uid \in Nat /\ claim[cur].uid \in Nat
      BY <2>5 DEF SafetyInv, TypeInv, TypeOK, ClaimRec
    <3>3. obj.uid = claim[cur].uid
      BY <2>2, <2>5, <3>1, <3>2 DEF Older, Advances, Works
    <3> QED BY <1>3, <2>1, <2>2, <2>5, <3>3 DEF Works, AccountSame, Opened
  <2>6. CASE c = cur /\ RemoveCephUser
    BY <1>3, <2>2, <2>6, PurgeStep DEF Works
  <2> QED BY <1>3, <2>3, <2>4, <2>5, <2>6, AccountKinds
<1>4. CASE claim' = claim /\ ~ AccountWrite
  <2>1. ceph' = ceph
    BY <1>4, AccountsKept
  <2>2. CASE secret'[n] = secret[n]
    BY <1>1, <1>4, <2>1, <2>2 DEF Belongs, Works
  <2>3. CASE secret'[n] = NoData
    BY <2>3 DEF Belongs, NoData
  <2>4. CASE /\ EnsureAdminSecret /\ cur = c
             /\ secret'[n] = Fresh(Admin)
    <3>1. obj.uid = claim[c].uid /\ secret'[n].key = cephUser[Admin]
      BY <1>4, <2>4 DEF Belongs, Fresh
    <3>2. /\ ceph[c].exists /\ ceph[c].for = obj.uid
          /\ cephUser[Admin] = ceph[c].keys[Admin]
      BY <2>4 DEF EnsureAdminSecret, KeysInv, RetrievedInv
    <3> QED BY <1>4, <2>1, <3>1, <3>2 DEF Works
  <2> QED BY <2>2, <2>3, <2>4, AdminSecrets
<1> QED BY <1>2, <1>3, <1>4, ClaimKinds

LEMMA KeysInit == Init => KeysInv
<1> SUFFICES ASSUME Init PROVE KeysInv
  OBVIOUS
<1>2. SpecsInv
  BY SpecsInit
<1>3. GeneratedInv
  BY DEF Init, GeneratedInv, NoUser, NoKeys, NoData
<1>4. OwnerInv
  BY DEF Init, OwnerInv, NoData
<1>5. RetrievedInv
  BY DEF Init, RetrievedInv
<1>6. WorkingInv
  BY DEF Init, WorkingInv, NoObject
<1> QED BY <1>2, <1>3, <1>4, <1>5, <1>6 DEF KeysInv

LEMMA KeysStep == SafetyInv /\ KeysInv /\ [Next]_vars => KeysInv'
<1> SUFFICES ASSUME SafetyInv, KeysInv, [Next]_vars
             PROVE  KeysInv'
  OBVIOUS
<1>1. CASE Next
  BY <1>1, SpecsStep, GeneratedStep, OwnerStep, RetrievedStep, WorkingStep
     DEF KeysInv
<1>2. CASE UNCHANGED vars
  BY <1>2 DEF vars, KeysInv, SpecsInv, Specified, GeneratedInv, OwnerInv,
     RetrievedInv, WorkingInv, Belongs, AdminNames
<1> QED BY <1>1, <1>2

(* The keys in the admin Secret of a live claim open the account that was    *)
(* made for it, and no Secret is of a later claim than the operator knows.   *)
THEOREM KeysCorrect == Spec => []KeysInv
BY KeysInit, KeysStep, SafetyCorrect, PTL DEF Spec

-----------------------------------------------------------------------------
(* The refinement.                                                           *)

LEMMA AccessValues ==
    ASSUME NEW c
    PROVE  /\ Access(c) \in {"none", "stale", "ready"}
           /\ Access(c)' \in {"none", "stale", "ready"}
BY DEF Access

LEMMA RefinesInit == Init => Lifecycle!Init
BY DEF Init, Lifecycle!Init, Phase, Account, Accesses, Access, NoObject, NoUser

(* Nothing of claim c that its owner can see has changed. *)
Unseen(c) == /\ claim'[c].state = claim[c].state
             /\ ceph'[c].exists = ceph[c].exists
             /\ Access(c)' = Access(c)

LEMMA OneSeen ==
    ASSUME NEW d \in Claims, \A c \in Claims \ {d} : Unseen(c)
    PROVE  /\ Phase' = [Phase EXCEPT ![d] = claim'[d].state]
           /\ Account' = [Account EXCEPT ![d] = ceph'[d].exists]
           /\ Accesses' = [Accesses EXCEPT ![d] = Access(d)']
           /\ Phase[d] = claim[d].state
           /\ Account[d] = ceph[d].exists
           /\ Accesses[d] = Access(d)
BY DEF Unseen, Phase, Account, Accesses

LEMMA NoneSeen ==
    ASSUME \A c \in Claims : Unseen(c)
    PROVE  UNCHANGED Lifecycle!vars
BY DEF Unseen, Phase, Account, Accesses, Lifecycle!vars

LEMMA AccessKept ==
    ASSUME NEW c, Same(c), ceph'[c] = ceph[c],
           LET n == claim[c].spec.admin
           IN n \in SecretNames => secret'[n] = secret[n]
    PROVE  Unseen(c)
BY DEF Same, Unseen, Access, Belongs

(* Users, and the worker as it lets a claim go. *)
LEMMA RefinesClaims ==
    ASSUME SafetyInv, KeysInv, KeysInv', NEW d \in Claims, OneClaim(d)
    PROVE  Lifecycle!Next \/ UNCHANGED Lifecycle!vars
<1>0. UNCHANGED <<secret, ceph>> /\ \A c \in Claims \ {d} : Unseen(c)
  BY AccessKept DEF OneClaim
<1>1. CASE Same(d)
  BY <1>0, <1>1, AccessKept, NoneSeen
<1>2. CASE Created(d)
  <2>1. Access(d) = "none"
    BY <1>2 DEF Access, Created
  <2>2. Access(d)' = "none"
    BY <1>0, <1>2, OwnsNothing DEF Access, Created, Belongs
  <2>3. /\ Account' = Account /\ Accesses' = Accesses
    BY <1>0, <2>1, <2>2 DEF Unseen, Account, Accesses
  <2>4. Lifecycle!Create(d)
    BY <1>0, <1>2, <2>3, OneSeen DEF Created, Lifecycle!Create
  <2> QED BY <2>4 DEF Lifecycle!Next
<1>3. CASE Edited(d)
  <2>1. Phase' = Phase /\ Account' = Account
    BY <1>0, <1>3 DEF Unseen, Edited, Phase, Account
  <2>2. claim'[d].state = "live" => Access(d)' # "stale"
    <3> DEFINE n == claim[d].spec.admin
    <3>1. n' \in AdminNames(d)
      BY <1>3 DEF Edited, AdminNames
    <3> HIDE DEF n
    <3>2. /\ (claim[d].state = "live" /\ n \in SecretNames /\ Belongs(n, d))'
             => (ceph[d].exists /\ secret[n].key = ceph[d].keys[Admin])'
      BY <3>1 DEF KeysInv, WorkingInv, AdminNames
    <3> QED BY <3>2 DEF Access, Belongs, n
  <2>3. Accesses' \in {[Accesses EXCEPT ![d] = a] : a \in {"none", "stale", "ready"}}
    BY <1>0, OneSeen, AccessValues
  <2>4. Accesses'[d] = Access(d)' /\ Phase[d] = claim[d].state
    BY DEF Accesses, Phase
  <2>0. Access(d)' = "ready" => ceph'[d].exists
    BY DEF Access
  <2>5. Lifecycle!Rename(d)
    BY <1>0, <1>3, <2>0, <2>1, <2>2, <2>3, <2>4, OneSeen
       DEF Edited, Lifecycle!Rename, Lifecycle!AllAccess
  <2> QED BY <2>5 DEF Lifecycle!Next
<1>4. CASE Terminated(d)
  <2>1. Access(d)' = Access(d)
    BY <1>0, <1>4 DEF Terminated, Access, Belongs
  <2>2. Account' = Account /\ Accesses' = Accesses
    BY <1>0, <2>1 DEF Unseen, Account, Accesses
  <2>3. Lifecycle!Terminate(d)
    BY <1>0, <1>4, <2>2, OneSeen DEF Terminated, Lifecycle!Terminate
  <2> QED BY <2>3 DEF Lifecycle!Next
<1>5. CASE Left(d)
  <2>1. Access(d)' = "none"
    BY <1>5 DEF Left, Access
  <2>2. Account' = Account
    BY <1>0 DEF Unseen, Account
  <2>3. Lifecycle!Leave(d)
    BY <1>0, <1>5, <2>1, <2>2, OneSeen DEF Left, Lifecycle!Leave
  <2> QED BY <2>3 DEF Lifecycle!Next
<1> QED BY <1>1, <1>2, <1>3, <1>4, <1>5 DEF OneClaim

(* The worker, as it writes the account of the request. *)
LEMMA RefinesAccount ==
    ASSUME SafetyInv, KeysInv, AccountWrite
    PROVE  Lifecycle!Next \/ UNCHANGED Lifecycle!vars
<1> DEFINE d == cur
<1>1. /\ d \in Claims /\ UNCHANGED <<claim, secret>>
      /\ claim'[d] = claim[d] /\ secret' = secret
      /\ \A c \in Claims \ {d} : Unseen(c)
  BY AccountKinds, AccessKept DEF Same
<1>2. PICK e \in Claims : e = d
  BY <1>1
<1>3. \A c \in Claims \ {e} : Unseen(c)
  BY <1>1, <1>2
<1>4. CASE AccountSame
  <2>1. Unseen(e)
    BY <1>1, <1>2, <1>4 DEF AccountSame, Unseen, Access, Belongs
  <2> QED BY <1>3, <2>1, NoneSeen
<1>5. CASE Opened
  <2>1. ~ ceph[e].exists /\ ceph'[e].exists
    BY <1>2, <1>5 DEF Opened
  <2>2. Access(e)' = Access(e)
    <3>1. ASSUME NEW m \in SecretNames
          PROVE  secret[m].key # ceph'[e].keys[Admin]
      BY <1>2, <1>5 DEF Opened, KeysInv, GeneratedInv, SafetyInv, TypeInv,
                        TypeOK, SecretRec
    <3> QED BY <1>1, <2>1, <3>1 DEF Access, Belongs
  <2>3. Phase' = Phase /\ Accesses' = Accesses
    BY <1>1, <1>3, <2>2 DEF Phase, Accesses, Unseen
  <2>4. Lifecycle!Open(e)
    BY <1>3, <2>1, <2>3, OneSeen DEF Lifecycle!Open
  <2> QED BY <2>4 DEF Lifecycle!Next
<1>6. CASE RemoveCephUser /\ ceph'[d] = NoUser
  <2>1. ceph'[e].exists = FALSE /\ ceph[e].exists \in BOOLEAN
    BY <1>2, <1>6 DEF NoUser, SafetyInv, TypeInv, TypeOK, CephRec
  <2>2. Access(e)' = IF Access(e) = "ready" THEN "stale" ELSE Access(e)
    <3>1. claim'[e] = claim[e] /\ secret' = secret
      BY <1>1, <1>2
    <3> QED BY <2>1, <3>1 DEF Access, Belongs
  <2>3. CASE ~ ceph[e].exists
    <3>1. Access(e) # "ready"
      BY <2>3 DEF Access
    <3>2. claim'[e].state = claim[e].state
      BY <1>1, <1>2
    <3>3. Unseen(e)
      BY <2>1, <2>2, <2>3, <3>1, <3>2 DEF Unseen
    <3> QED BY <1>3, <3>3, NoneSeen
  <2>4. CASE ceph[e].exists
    <3>1. ~ (claim[e].state = "live" /\ Access(e) = "ready")
      <4> SUFFICES ASSUME claim[e].state = "live", Access(e) = "ready"
                   PROVE  FALSE
        OBVIOUS
      <4>1. claim[e].spec.admin \in AdminNames(e)
        BY DEF KeysInv, SpecsInv, Specified, AdminNames
      <4>2. Belongs(claim[e].spec.admin, e)
        BY DEF Access
      <4>3. ceph[e].for = claim[e].uid
        BY <4>1, <4>2 DEF KeysInv, WorkingInv, Belongs
      <4> QED BY <1>2, <1>6, <4>3, PurgeStep
    <3>2. Phase' = Phase
      BY <1>1 DEF Phase
    <3>3. Lifecycle!Purge(e)
      BY <1>3, <2>1, <2>2, <2>4, <3>1, <3>2, OneSeen DEF Lifecycle!Purge
    <3> QED BY <3>3 DEF Lifecycle!Next
  <2> QED BY <2>3, <2>4
<1> QED BY <1>4, <1>5, <1>6, AccountKinds

(* The worker, as it writes a Secret, and the garbage collector. *)
LEMMA RefinesSecret ==
    ASSUME SafetyInv, KeysInv, Next, claim' = claim, ceph' = ceph
    PROVE  Lifecycle!Next \/ UNCHANGED Lifecycle!vars
<1>1. ASSUME NEW c \in Claims, ~ (EnsureAdminSecret /\ cur = c)
      PROVE  Unseen(c)
  <2>1. CASE claim[c].state = "absent"
    BY <2>1 DEF Unseen, Access
  <2>2. CASE claim[c].state # "absent" /\ claim[c].spec.admin \in SecretNames
    <3>1. claim[c].spec.admin \in AdminNames(c)
      BY <2>2 DEF KeysInv, SpecsInv, Specified, AdminNames
    <3>2. CASE secret'[claim[c].spec.admin] = secret[claim[c].spec.admin]
      BY <3>2, AccessKept DEF Same
    <3>3. CASE /\ secret'[claim[c].spec.admin] = NoData
               /\ Garbage(claim[c].spec.admin)
      BY <3>3 DEF Unseen, Access, Belongs, Garbage, NoData
    <3> QED BY <1>1, <2>2, <3>1, <3>2, <3>3, AdminSecrets
  <2>3. CASE claim[c].spec.admin \notin SecretNames
    BY <2>3, AccessKept DEF Same
  <2> QED BY <2>1, <2>2, <2>3
<1>2. CASE ~ EnsureAdminSecret
  BY <1>1, <1>2, NoneSeen
<1>3. CASE EnsureAdminSecret
  <2>1. /\ cur \in Claims /\ pc = "adminSecret" /\ pc # "idle"
        /\ Older(obj, claim[cur])
        /\ obj.uid \in Nat /\ claim[cur].uid \in Nat
    BY <1>3 DEF EnsureAdminSecret, SafetyInv, TypeInv, TypeOK, Active,
                RequestInv, ClaimRec
  <2>2. PICK e \in Claims : e = cur
    BY <2>1
  <2>3. \A c \in Claims \ {e} : Unseen(c)
    BY <1>1, <2>2
  <2>4. CASE Access(e)' = Access(e)
    <3>1. Unseen(e)
      BY <2>4 DEF Unseen
    <3> QED BY <2>3, <3>1, NoneSeen
  <2>5. CASE Access(e)' # Access(e)
    <3> DEFINE n == claim[e].spec.admin
    <3>1. claim[e].state # "absent" /\ n \in SecretNames /\ n \in AdminNames(e)
      <4>1. claim[e].state # "absent"
        BY <2>5 DEF Access
      <4>2. n \in SecretNames
        BY <2>5, AccessKept DEF Same, Unseen
      <4> QED BY <4>1, <4>2 DEF KeysInv, SpecsInv, Specified, AdminNames
    <3>2. secret'[n] # secret[n]
      BY <2>5, AccessKept DEF Same, Unseen
    <3>3. ~ (secret'[n] = NoData /\ Garbage(n))
      BY <2>5 DEF Access, Belongs, Garbage, NoData
    <3>4. /\ secret'[n] = Fresh(Admin) /\ n = obj.spec.admin
          /\ secret[n].owner \in {cur, NoKey}
      BY <3>1, <3>2, <3>3, AdminSecrets
    <3>5. obj.uid = claim[e].uid
      <4>1. Belongs(n, e) \/ Belongs(n, e)'
        BY <2>5, <3>1 DEF Access
      <4>2. CASE Belongs(n, e)
        <5>1. claim[e].uid <= obj.uid
          BY <2>1, <2>2, <4>2 DEF Belongs, KeysInv, OwnerInv
        <5> QED BY <2>1, <2>2, <5>1 DEF Older, Advances
      <4>3. CASE Belongs(n, e)'
        BY <3>4, <4>3 DEF Belongs, Fresh
      <4> QED BY <4>1, <4>2, <4>3
    <3>6. ceph[e].exists /\ cephUser[Admin] = ceph[e].keys[Admin]
      BY <2>1, <2>2 DEF KeysInv, RetrievedInv
    <3>7. Access(e)' = "ready"
      BY <2>2, <3>1, <3>4, <3>5, <3>6 DEF Access, Belongs, Fresh
    <3>8. Phase' = Phase /\ Account' = Account
      BY DEF Phase, Account
    <3>9. Lifecycle!Grant(e)
      BY <2>3, <3>1, <3>6, <3>7, <3>8, OneSeen DEF Lifecycle!Grant
    <3> QED BY <3>9 DEF Lifecycle!Next
  <2> QED BY <2>4, <2>5
<1> QED BY <1>2, <1>3

LEMMA RefinesStep ==
    SafetyInv /\ KeysInv /\ KeysInv' /\ [Next]_vars
      => [Lifecycle!Next]_(Lifecycle!vars)
<1> SUFFICES ASSUME SafetyInv, KeysInv, KeysInv', [Next]_vars
             PROVE  Lifecycle!Next \/ UNCHANGED Lifecycle!vars
  OBVIOUS
<1>1. CASE Next /\ claim' = claim /\ AccountWrite
  BY <1>1, RefinesAccount
<1>2. CASE Next /\ claim' = claim /\ ~ AccountWrite
  BY <1>2, AccountsKept, RefinesSecret
<1>3. CASE Next /\ \E c \in Claims : OneClaim(c)
  BY <1>3, RefinesClaims
<1>4. CASE UNCHANGED vars
  BY <1>4 DEF vars, Lifecycle!vars, Phase, Account, Accesses, Access, Belongs
<1> QED BY <1>1, <1>2, <1>3, <1>4, ClaimKinds

(* The controller implements the lifecycle it promises, for any claims,      *)
(* subusers and Secrets and whatever fails or crashes.                       *)
THEOREM LifecycleImplemented == Spec => ImplementsLifecycle
BY RefinesInit, RefinesStep, SafetyCorrect, KeysCorrect, PTL
   DEF Spec, ImplementsLifecycle, Lifecycle!Spec

(* A live claim never names a Secret of its own whose keys RGW refuses.      *)
THEOREM KeysAlwaysWork == Spec => []KeysWork
<1>1. KeysInv => KeysWork
  <2> SUFFICES ASSUME KeysInv, NEW c \in Claims, claim[c].state = "live"
               PROVE  Access(c) # "stale" /\ (Access(c) = "ready" => ceph[c].exists)
    BY DEF KeysWork, Lifecycle!KeysWork, Phase, Account, Accesses
  <2>1. claim[c].spec.admin \in AdminNames(c)
    BY DEF KeysInv, SpecsInv, Specified, AdminNames
  <2>2. Belongs(claim[c].spec.admin, c) =>
          /\ ceph[c].exists
          /\ secret[claim[c].spec.admin].key = ceph[c].keys[Admin]
    BY <2>1 DEF KeysInv, WorkingInv, Belongs
  <2> QED BY <2>2 DEF Access
<1> QED BY <1>1, KeysCorrect, PTL
=============================================================================
