------------------------ MODULE BucketReconcilerProofs ------------------------
(****************************************************************************)
(* Proofs about BucketReconciler, for any number of S3Buckets and claims,    *)
(* any specs, any number of edits, failures, crashes and lost accounts.      *)
(****************************************************************************)
EXTENDS BucketRefinement, BucketPolicyProofs, SequenceTheorems

TypeInv == /\ TypeOK
           /\ pc # "idle" => cur \in Buckets /\ obj.state # "absent"

LEMMA NullTypes ==
    /\ NoSpec \in SpecRec
    /\ NoStatus \in StatusRec
    /\ NoObject \in BucketRec
    /\ NoRgw \in RgwRec
    /\ EmptyText \in TextRec
    /\ UnknownText \in TextRec
<1>1. NoSpec \in SpecRec
  BY DEF NoSpec, SpecRec
<1>2. EmptyText \in TextRec /\ UnknownText \in TextRec
  BY DEF EmptyText, UnknownText, TextRec
<1>3. NoStatus \in StatusRec
  BY <1>2 DEF NoStatus, StatusRec
<1>4. NoObject \in BucketRec
  BY <1>1, <1>3 DEF NoObject, BucketRec
<1>5. NoRgw \in RgwRec
  BY DEF NoRgw, RgwRec
<1> QED BY <1>1, <1>2, <1>3, <1>4, <1>5

LEMMA TypeInit == Init => TypeInv
<1>1. <<>> \in Seq(BucketRec)
  OBVIOUS
<1> SUFFICES ASSUME Init
             PROVE  TypeInv
  OBVIOUS
<1>2. /\ bucket \in [Buckets -> BucketRec] /\ cache \in [Buckets -> BucketRec]
      /\ watch \in [Buckets -> Seq(BucketRec)]
      /\ obj \in BucketRec
      /\ rgw \in [Buckets -> RgwRec]
      /\ bucketPolicy \in TextRec
  BY <1>1, NullTypes DEF Init
<1>3. /\ released \in [Buckets -> BOOLEAN]
      /\ asked \in [Buckets -> SUBSET {"delete", "retain"}]
  BY DEF Init
<1>4. spent \in Counters
  BY DEF Init, Counters
<1> QED BY <1>2, <1>3, <1>4 DEF Init, TypeInv, TypeOK

LEMMA StoreType ==
    ASSUME TypeOK, NEW b \in Buckets, NEW new \in BucketRec, Store(b, new)
    PROVE  /\ bucket' \in [Buckets -> BucketRec]
           /\ watch' \in [Buckets -> Seq(BucketRec)]
BY DEF TypeOK, Store

LEMMA SpentType ==
    ASSUME NEW s \in Counters
    PROVE  /\ [s EXCEPT !.creates = @ + 1] \in Counters
           /\ [s EXCEPT !.edits = @ + 1] \in Counters
           /\ [s EXCEPT !.changes = @ + 1] \in Counters
           /\ [s EXCEPT !.faults = @ + 1] \in Counters
BY DEF Counters

(* What a user's request leaves alone. *)
LEMMA TypeRequest ==
    ASSUME TypeInv, NEW b \in Buckets, NEW new \in BucketRec, Store(b, new),
           UNCHANGED <<access, rgw, up, cache, queue, pc, cur, obj, agent,
                       bucketPolicy>>,
           fresh' \in BOOLEAN,
           asked' \in [Buckets -> SUBSET {"delete", "retain"}],
           released' \in [Buckets -> BOOLEAN],
           spent' \in Counters
    PROVE  TypeInv'
<1>1. /\ bucket' \in [Buckets -> BucketRec]
      /\ watch' \in [Buckets -> Seq(BucketRec)]
  BY StoreType DEF TypeInv
<1> QED BY <1>1 DEF TypeInv, TypeOK

LEMMA FilledType ==
    ASSUME NEW r \in RgwRec
    PROVE  /\ [r EXCEPT !.filled = TRUE] \in RgwRec
           /\ [r EXCEPT !.filled = FALSE] \in RgwRec
BY DEF RgwRec

(* A version that follows another one. *)
LEMMA VersionType ==
    ASSUME NEW v \in BucketRec
    PROVE  /\ \A s \in SpecRec : s.ref \in Owners =>
                [v EXCEPT !.spec = s] \in BucketRec
           /\ \A s \in StatusRec : [v EXCEPT !.status = s] \in BucketRec
           /\ v.state # "absent" =>
                [v EXCEPT !.state = "terminating"] \in BucketRec
           /\ [v EXCEPT !.fin = TRUE] \in BucketRec
<1> DEFINE R == [state : {"absent", "live", "terminating"},
                 spec : SpecRec, status : StatusRec, fin : BOOLEAN]
<1>1. v \in R /\ (v.state # "absent" => v.spec.ref \in Owners)
  BY DEF BucketRec
<1>2. ASSUME NEW w \in R, w.state # "absent" => w.spec.ref \in Owners
      PROVE  w \in BucketRec
  BY <1>2 DEF BucketRec
<1> HIDE DEF R
<1>3. ASSUME NEW s \in SpecRec, s.ref \in Owners
      PROVE  [v EXCEPT !.spec = s] \in BucketRec
  <2> DEFINE w == [v EXCEPT !.spec = s]
  <2>1. w \in R /\ w.spec = s
    BY <1>1 DEF R
  <2> QED BY <1>2, <1>3, <2>1
<1>4. ASSUME NEW s \in StatusRec
      PROVE  [v EXCEPT !.status = s] \in BucketRec
  <2> DEFINE w == [v EXCEPT !.status = s]
  <2>1. w \in R /\ w.spec = v.spec /\ w.state = v.state
    BY <1>1 DEF R
  <2> QED BY <1>1, <1>2, <2>1
<1>5. ASSUME v.state # "absent"
      PROVE  [v EXCEPT !.state = "terminating"] \in BucketRec
  <2> DEFINE w == [v EXCEPT !.state = "terminating"]
  <2>1. w \in R /\ w.spec = v.spec
    BY <1>1 DEF R
  <2> QED BY <1>1, <1>2, <1>5, <2>1
<1>6. [v EXCEPT !.fin = TRUE] \in BucketRec
  <2> DEFINE w == [v EXCEPT !.fin = TRUE]
  <2>1. w \in R /\ w.spec = v.spec /\ w.state = v.state
    BY <1>1 DEF R
  <2> QED BY <1>1, <1>2, <2>1
<1> QED BY <1>3, <1>4, <1>5, <1>6

LEMMA TypeUser ==
    ASSUME TypeInv, NEW b \in Buckets, User(b)
    PROVE  TypeInv'
<1>1. /\ fresh \in BOOLEAN
      /\ spent \in Counters
      /\ bucket[b] \in BucketRec
      /\ asked \in [Buckets -> SUBSET {"delete", "retain"}]
      /\ released \in [Buckets -> BOOLEAN]
      /\ \A s \in SpecsOf[b] : /\ s \in SpecRec /\ s.ref \in Owners
                               /\ s.policy \in {"delete", "retain"}
  BY SpecsAssumption DEF TypeInv, TypeOK, SpecRec
<1>2. CASE CreateS3Bucket(b)
  <2>1. PICK s \in SpecsOf[b] :
          Store(b, [state |-> "live", spec |-> s, status |-> NoStatus,
                    fin |-> FALSE])
    BY <1>2 DEF CreateS3Bucket
  <2>2. [state |-> "live", spec |-> s, status |-> NoStatus, fin |-> FALSE]
          \in BucketRec
    BY <1>1, NullTypes DEF BucketRec
  <2>3. spent' \in Counters
    BY <1>1, <1>2, SpentType DEF CreateS3Bucket
  <2> QED BY <1>1, <1>2, <2>1, <2>2, <2>3, TypeRequest
          DEF CreateS3Bucket, Outdate
<1>3. CASE EditS3Bucket(b)
  <2>1. PICK s \in SpecsOf[b] :
          /\ Store(b, [bucket[b] EXCEPT !.spec = s])
          /\ asked' = IF bucket[b].state = "live" THEN asked
                      ELSE [asked EXCEPT ![b] = asked[b] \cup {s.policy}]
    BY <1>3 DEF EditS3Bucket
  <2>2. [bucket[b] EXCEPT !.spec = s] \in BucketRec
    BY <1>1, <1>3, VersionType DEF EditS3Bucket
  <2>3. spent' \in Counters
    BY <1>1, <1>3, SpentType DEF EditS3Bucket
  <2>4. asked' \in [Buckets -> SUBSET {"delete", "retain"}]
    BY <1>1, <2>1
  <2> QED BY <1>1, <1>3, <2>1, <2>2, <2>3, <2>4, TypeRequest
          DEF EditS3Bucket, Outdate
<1>4. CASE DeleteS3Bucket(b)
  <2>1. [bucket[b] EXCEPT !.state = "terminating"] \in BucketRec
    BY <1>1, <1>4, VersionType DEF DeleteS3Bucket
  <2>2. bucket[b].spec.policy \in {"delete", "retain"}
    BY <1>1 DEF BucketRec, SpecRec
  <2>3. asked' \in [Buckets -> SUBSET {"delete", "retain"}]
    BY <1>1, <1>4, <2>2 DEF DeleteS3Bucket
  <2> QED BY <1>1, <1>4, <2>1, <2>3, TypeRequest, NullTypes
          DEF DeleteS3Bucket, Outdate
<1>5. CASE FillBucket(b)
  <2>1. rgw' \in [Buckets -> RgwRec]
    BY <1>5, FilledType DEF FillBucket, TypeInv, TypeOK
  <2>2. spent' \in Counters
    BY <1>1, <1>5, SpentType DEF FillBucket
  <2> QED BY <1>5, <2>1, <2>2
          DEF FillBucket, TypeInv, TypeOK, infVars, reqVars, ghosts
<1>6. CASE EmptyBucket(b)
  <2>1. rgw' \in [Buckets -> RgwRec]
    BY <1>6, FilledType DEF EmptyBucket, TypeInv, TypeOK
  <2> QED BY <1>6, <2>1
          DEF EmptyBucket, TypeInv, TypeOK, infVars, reqVars, ghosts
<1> QED BY <1>2, <1>3, <1>4, <1>5, <1>6 DEF User

LEMMA TypeClaimChange ==
    ASSUME TypeInv, NEW c \in Owners, ClaimChange(c)
    PROVE  TypeInv'
<1>1. access' \in [Owners -> {"none", "stale", "ready"}]
  BY DEF ClaimChange, GrantAccess, LoseSecret, PurgeAccount, TypeInv, TypeOK
<1>2. spent' \in Counters
  BY SpentType DEF ClaimChange, GrantAccess, LoseSecret, PurgeAccount, TypeInv,
                   TypeOK
<1>3. rgw' \in [Buckets -> RgwRec]
  <2>1. [NoRgw EXCEPT !.lost = TRUE] \in RgwRec
    BY DEF NoRgw, RgwRec
  <2> QED BY <2>1 DEF ClaimChange, GrantAccess, LoseSecret, PurgeAccount,
                      TypeInv, TypeOK
<1>4. agent' \in BOOLEAN
  BY DEF ClaimChange, GrantAccess, LoseSecret, PurgeAccount, TypeInv, TypeOK,
         reqVars
<1> QED BY <1>1, <1>2, <1>3, <1>4
        DEF ClaimChange, GrantAccess, LoseSecret, PurgeAccount, TypeInv,
            TypeOK, infVars, reqVars, ghosts

(* The steps around the worker that write neither S3Buckets nor RGW. *)
LEMMA TypeAround ==
    ASSUME TypeInv,
           (\E b \in Buckets : Deliver(b) \/ Reconcile(b)) \/ Crash \/ Restart
    PROVE  TypeInv'
<1>1. CASE \E b \in Buckets : Deliver(b)
  <2>1. PICK b \in Buckets : Deliver(b)
    BY <1>1
  <2>2. /\ watch[b] \in Seq(BucketRec) /\ watch[b] # <<>>
        /\ Head(watch[b]) \in BucketRec
        /\ Tail(watch[b]) \in Seq(BucketRec)
    BY <2>1 DEF Deliver, TypeInv, TypeOK
  <2>3. /\ cache' \in [Buckets -> BucketRec]
        /\ watch' \in [Buckets -> Seq(BucketRec)]
        /\ queue' \subseteq Buckets
    BY <2>1, <2>2 DEF Deliver, TypeInv, TypeOK
  <2> QED BY <2>1, <2>3 DEF Deliver, TypeInv, TypeOK, clusterVars, reqVars, ghosts
<1>2. CASE \E b \in Buckets : Reconcile(b)
  <2>1. PICK b \in Buckets : Reconcile(b)
    BY <1>2
  <2>2. CASE ReconcileNotFound(b)
    BY <2>2 DEF ReconcileNotFound, TypeInv, TypeOK, clusterVars, infVars,
                reqVars, ghosts
  <2>3. CASE ReconcileNoAgent(b)
    BY <2>3 DEF ReconcileNoAgent, TypeInv, TypeOK, vars
  <2>4. CASE ReconcileFound(b)
    <3>1. cache[b] \in BucketRec
      BY DEF TypeInv, TypeOK
    <3> QED BY <2>4, <3>1
            DEF ReconcileFound, SetS3Agent, Goto, TypeInv, TypeOK,
                clusterVars, infVars, ghosts, ProvisionSteps, CleanupSteps
  <2> QED BY <2>1, <2>2, <2>3, <2>4 DEF Reconcile
<1>3. CASE Crash
  <2>1. spent' \in Counters
    BY <1>3, SpentType DEF Crash, TypeInv, TypeOK
  <2>2. watch' \in [Buckets -> Seq(BucketRec)]
    BY <1>3 DEF Crash
  <2> QED BY <1>3, <2>1, <2>2, NullTypes
          DEF Crash, EndReconcile, TypeInv, TypeOK, clusterVars, ghosts
<1>4. CASE Restart
  BY <1>4 DEF Restart, TypeInv, TypeOK, clusterVars, reqVars, ghosts
<1> QED BY <1>1, <1>2, <1>3, <1>4

(* The policy the agent makes is a set of statements (PolicyType). *)
LEMMA PolicyOfType ==
    ASSUME TypeInv, pc # "idle"
    PROVE  PolicyStatements(AccessMap, obj.spec.ref) \in SUBSET Statement
<1>1. obj.spec.bindings \in Seq(Binding) /\ obj.spec.ref \in Owners
  BY DEF TypeInv, TypeOK, BucketRec, SpecRec
<1> QED BY <1>1, PolicyType DEF AccessMap

(* A request that is done or put back. *)
LEMMA EndTypes ==
    ASSUME TypeInv, pc # "idle", EndReconcile,
           queue' = queue \/ queue' = queue \cup {cur}
    PROVE  /\ queue' \subseteq Buckets
           /\ pc' = "idle" /\ cur' = NoBucketName /\ obj' \in BucketRec
           /\ fresh' \in BOOLEAN /\ agent' \in BOOLEAN
           /\ bucketPolicy' \in TextRec
BY NullTypes DEF TypeInv, TypeOK, EndReconcile

(* What a step of the worker may leave behind. *)
LEMMA TypeStep ==
    ASSUME TypeInv, pc # "idle",
           bucket' \in [Buckets -> BucketRec],
           watch' \in [Buckets -> Seq(BucketRec)],
           rgw' \in [Buckets -> RgwRec],
           UNCHANGED <<access, up, cache, asked>>,
           released' \in [Buckets -> BOOLEAN],
           spent' \in Counters,
           \/ /\ pc' \in ProvisionSteps \cup CleanupSteps
              /\ UNCHANGED <<queue, cur, fresh, agent>>
              /\ obj' \in BucketRec /\ obj'.state # "absent"
              /\ bucketPolicy' \in TextRec
           \/ /\ EndReconcile
              /\ queue' = queue \/ queue' = queue \cup {cur}
    PROVE  TypeInv'
<1>1. CASE /\ EndReconcile
           /\ queue' = queue \/ queue' = queue \cup {cur}
  BY <1>1, EndTypes DEF TypeInv, TypeOK
<1>2. CASE /\ pc' \in ProvisionSteps \cup CleanupSteps
           /\ UNCHANGED <<queue, cur, fresh, agent>>
           /\ obj' \in BucketRec /\ obj'.state # "absent"
           /\ bucketPolicy' \in TextRec
  BY <1>2 DEF TypeInv, TypeOK, ProvisionSteps, CleanupSteps
<1> QED BY <1>1, <1>2

LEMMA TextType ==
    ASSUME TypeInv, pc # "idle", NEW f \in Forms(AccessMap)
    PROVE  [form |-> f, of |-> PolicyStatements(AccessMap, obj.spec.ref)]
             \in TextRec
BY PolicyOfType DEF Forms, TextRec

LEMMA PutPolicyType ==
    ASSUME TypeInv, pc # "idle", PutPolicy
    PROVE  rgw' \in [Buckets -> RgwRec]
<1> DEFINE p == PolicyStatements(AccessMap, obj.spec.ref)
<1>1. p \in SUBSET Statement /\ rgw[cur] \in RgwRec
  BY PolicyOfType DEF TypeInv, TypeOK
<1>2. rgw' = [rgw EXCEPT ![cur] = [rgw[cur] EXCEPT !.policy = p]]
  BY DEF PutPolicy
<1> HIDE DEF p
<1>3. [rgw[cur] EXCEPT !.policy = p] \in RgwRec
  BY <1>1 DEF RgwRec
<1> QED BY <1>2, <1>3 DEF TypeInv, TypeOK

(* A write of the status. *)
LEMMA StatusType ==
    ASSUME TypeInv, pc # "idle", NEW s \in StatusRec,
           StatusKept(s) \/ StatusWritten(s) \/ StatusRefused(s)
    PROVE  /\ bucket' \in [Buckets -> BucketRec]
           /\ watch' \in [Buckets -> Seq(BucketRec)]
<1>1. CASE UNCHANGED <<bucket, watch>>
  BY <1>1 DEF TypeInv, TypeOK
<1>2. CASE StatusWritten(s)
  <2>1. [bucket[cur] EXCEPT !.status = s] \in BucketRec
    BY <1>2, VersionType DEF StatusWritten, TypeInv, TypeOK
  <2> QED BY <1>2, <2>1, StoreType DEF StatusWritten, TypeInv
<1> QED BY <1>1, <1>2 DEF StatusKept, StatusRefused

LEMMA ReportTypes ==
    ASSUME TypeInv, pc # "idle", NEW text \in TextRec, ReportFailure(text)
    PROVE  TypeInv'
<1> DEFINE s == [created |-> TRUE, failed |-> TRUE, policy |-> text]
<1>1. s \in StatusRec
  BY DEF StatusRec
<1>2. StatusKept(s) \/ StatusWritten(s) \/ StatusRefused(s)
  BY DEF ReportFailure
<1> HIDE DEF s
<1>3. /\ bucket' \in [Buckets -> BucketRec]
      /\ watch' \in [Buckets -> Seq(BucketRec)]
  BY <1>1, <1>2, StatusType
<1> QED BY <1>3, TypeStep DEF ReportFailure, Requeue, ghosts, TypeInv, TypeOK

LEMMA TypeProvision ==
    ASSUME TypeInv, Provision
    PROVE  TypeInv'
<1>1. CASE EnsureBucket
  <2>1. rgw' \in [Buckets -> RgwRec]
    <3>1. obj.spec.ref \in Owners /\ cur \in Buckets
      BY <1>1 DEF EnsureBucket, TypeInv, TypeOK, BucketRec
    <3>2. [exists |-> TRUE, owner |-> obj.spec.ref, filled |-> FALSE,
           policy |-> {}, lost |-> FALSE] \in RgwRec
      BY <3>1 DEF RgwRec
    <3> QED BY <1>1, <3>1, <3>2 DEF EnsureBucket, TypeInv, TypeOK
  <2> QED BY <1>1, <2>1, TypeStep
          DEF EnsureBucket, Requeue, Goto, infVars, ghosts, TypeInv, TypeOK,
              ProvisionSteps
<1>2. CASE EnsureBucketPolicy
  <2>1. pc # "idle" /\ rgw' \in [Buckets -> RgwRec]
    BY <1>2, PutPolicyType DEF EnsureBucketPolicy, TypeInv, TypeOK
  <2>2. bucketPolicy' \in TextRec
    BY <1>2, <2>1, TextType, NullTypes DEF EnsureBucketPolicy
  <2> QED BY <1>2, <2>1, <2>2, TypeStep
          DEF EnsureBucketPolicy, Goto, infVars, ghosts, TypeInv, TypeOK,
              ProvisionSteps
<1>3. CASE ReportPolicyFailure
  BY <1>3, ReportTypes DEF ReportPolicyFailure, TypeInv, TypeOK
<1>4. CASE UpdateBucketStatusSuccess
  <2> DEFINE s == [created |-> TRUE, failed |-> FALSE, policy |-> bucketPolicy]
  <2>1. s \in StatusRec
    BY DEF StatusRec, TypeInv, TypeOK
  <2>2. /\ pc # "idle"
        /\ StatusKept(s) \/ StatusWritten(s) \/ StatusRefused(s)
        /\ \/ /\ obj' = [obj EXCEPT !.status = s]
              /\ Goto("addFinalizer")
              /\ UNCHANGED <<queue, cur, fresh, agent, bucketPolicy>>
           \/ Requeue
        /\ UNCHANGED <<access, rgw, up, cache, ghosts, spent>>
    BY <1>4 DEF UpdateBucketStatusSuccess
  <2> HIDE DEF s
  <2>3. /\ bucket' \in [Buckets -> BucketRec]
        /\ watch' \in [Buckets -> Seq(BucketRec)]
    BY <2>1, <2>2, StatusType
  <2>4. CASE Requeue
    BY <2>2, <2>3, <2>4, TypeStep DEF Requeue, ghosts, TypeInv, TypeOK
  <2>5. CASE /\ obj' = [obj EXCEPT !.status = s]
             /\ Goto("addFinalizer")
             /\ UNCHANGED <<queue, cur, fresh, agent, bucketPolicy>>
    <3>1. obj' \in BucketRec
      BY <2>1, <2>5, VersionType DEF TypeInv, TypeOK
    <3>2. obj'.state # "absent"
      BY <2>2, <2>5 DEF TypeInv, TypeOK, BucketRec
    <3> QED BY <2>2, <2>3, <2>5, <3>1, <3>2, TypeStep
            DEF Goto, ghosts, TypeInv, TypeOK, ProvisionSteps
  <2> QED BY <2>2, <2>4, <2>5
<1>5. CASE AddCleanupFinalizer
  <2>1. /\ bucket' \in [Buckets -> BucketRec]
        /\ watch' \in [Buckets -> Seq(BucketRec)]
    <3>1. pc # "idle" /\ cur \in Buckets /\ bucket[cur] \in BucketRec
      BY <1>5 DEF AddCleanupFinalizer, TypeInv, TypeOK
    <3>2. [bucket[cur] EXCEPT !.fin = TRUE] \in BucketRec
      BY <3>1, VersionType
    <3>3. \/ UNCHANGED <<bucket, watch>>
          \/ Store(cur, [bucket[cur] EXCEPT !.fin = TRUE])
      BY <1>5 DEF AddCleanupFinalizer
    <3> QED BY <3>1, <3>2, <3>3, StoreType DEF TypeInv, TypeOK
  <2> QED BY <1>5, <2>1, TypeStep
          DEF AddCleanupFinalizer, Requeue, ghosts, TypeInv, TypeOK
<1> QED BY <1>1, <1>2, <1>3, <1>4, <1>5 DEF Provision

LEMMA TypeCleanup ==
    ASSUME TypeInv, Cleanup
    PROVE  TypeInv'
<1>1. CASE RemoveOrRetainBucket
  <2>1. rgw' \in [Buckets -> RgwRec]
    BY <1>1, NullTypes DEF RemoveOrRetainBucket, Emptied, TypeInv, TypeOK
  <2> QED BY <1>1, <2>1, TypeStep
          DEF RemoveOrRetainBucket, Goto, infVars, ghosts, TypeInv, TypeOK,
              CleanupSteps
<1>2. CASE ReportRemoveFailure
  BY <1>2, ReportTypes, NullTypes DEF ReportRemoveFailure, TypeInv, TypeOK
<1>3. CASE RemoveCleanupFinalizer
  <2>1. /\ bucket' \in [Buckets -> BucketRec]
        /\ watch' \in [Buckets -> Seq(BucketRec)]
        /\ released' \in [Buckets -> BOOLEAN]
    BY <1>3, StoreType, NullTypes DEF RemoveCleanupFinalizer, TypeInv, TypeOK
  <2> QED BY <1>3, <2>1, TypeStep
          DEF RemoveCleanupFinalizer, Requeue, TypeInv, TypeOK
<1> QED BY <1>1, <1>2, <1>3 DEF Cleanup

LEMMA TypeFail ==
    ASSUME TypeInv, Fail
    PROVE  TypeInv'
<1>1. pc # "idle" /\ spent' \in Counters
  BY SpentType DEF Fail, TypeInv, TypeOK
<1>2. rgw' \in [Buckets -> RgwRec]
  BY <1>1, PutPolicyType, NullTypes DEF Fail, Emptied, TypeInv, TypeOK
<1>3. \/ /\ Goto("policyFailed") \/ Goto("removeFailed")
         /\ UNCHANGED <<queue, cur, obj, fresh, agent>>
         /\ bucketPolicy' = EmptyText \/ UNCHANGED bucketPolicy
      \/ Requeue
  BY DEF Fail
<1>4. UNCHANGED <<bucket, access, up, cache, watch, asked, released>>
  BY DEF Fail, infVars, ghosts
<1> QED BY <1>1, <1>2, <1>3, <1>4, NullTypes, TypeStep
        DEF Requeue, Goto, TypeInv, TypeOK, ProvisionSteps, CleanupSteps

LEMMA TypeLoseLastAnswer ==
    ASSUME TypeInv, LoseLastAnswer
    PROVE  TypeInv'
<1>1. pc # "idle" /\ spent' \in Counters
  BY SpentType DEF LoseLastAnswer, TypeInv, TypeOK
<1>2. [bucket[cur] EXCEPT !.fin = TRUE] \in BucketRec /\ cur \in Buckets
  BY <1>1, VersionType DEF TypeInv, TypeOK
<1>3. /\ bucket' \in [Buckets -> BucketRec]
      /\ watch' \in [Buckets -> Seq(BucketRec)]
      /\ released' \in [Buckets -> BOOLEAN]
  BY <1>2, StoreType, NullTypes DEF LoseLastAnswer, TypeInv, TypeOK
<1> QED BY <1>1, <1>3, TypeStep
        DEF LoseLastAnswer, Requeue, TypeInv, TypeOK

LEMMA TypeNext ==
    ASSUME TypeInv, [Next]_vars
    PROVE  TypeInv'
<1>1. CASE UNCHANGED vars
  BY <1>1 DEF TypeInv, TypeOK, vars
<1> QED BY <1>1, TypeUser, TypeClaimChange, TypeAround, TypeProvision,
           TypeCleanup, TypeFail, TypeLoseLastAnswer DEF Next

(* Every variable keeps its type, a request in progress is one of the        *)
(* S3Buckets, and what the agent puts on a bucket is a policy (TypeOK).      *)
THEOREM TypeCorrect == Spec => []TypeOK
<1>1. Init => TypeInv
  BY TypeInit
<1>2. TypeInv /\ [Next]_vars => TypeInv'
  BY TypeNext
<1>3. TypeInv => TypeOK
  BY DEF TypeInv
<1> QED BY <1>1, <1>2, <1>3, PTL DEF Spec

-----------------------------------------------------------------------------
(* The events on their way: one is put at the end, one is taken away.        *)
LEMMA AppendFacts ==
    ASSUME NEW S, NEW s \in Seq(S), NEW x \in S, NEW t, t = Append(s, x)
    PROVE  /\ t # <<>> /\ t[Len(t)] = x /\ Len(t) \in DOMAIN t
           /\ Len(t) \in Nat /\ Len(t) > 0
           /\ \A i \in DOMAIN t : i # Len(t) => i \in DOMAIN s /\ t[i] = s[i]
           /\ \A i \in DOMAIN s : i \in DOMAIN t /\ t[i] = s[i] /\ i < Len(t)
OBVIOUS

LEMMA TailFacts ==
    ASSUME NEW S, NEW s \in Seq(S), s # <<>>, NEW t, t = Tail(s)
    PROVE  /\ 1 \in DOMAIN s /\ Head(s) = s[1] /\ Len(s) \in DOMAIN s
           /\ t = <<>> => s[Len(s)] = s[1]
           /\ t # <<>> => t[Len(t)] = s[Len(s)]
           /\ \A i \in DOMAIN t : i \in Nat /\ i + 1 \in DOMAIN s /\ t[i] = s[i + 1]
           /\ \A i \in DOMAIN s :
                i \in Nat /\ (i = 1 \/ (i - 1 \in DOMAIN t /\ s[i] = t[i - 1]))
<1>1. /\ Len(s) \in Nat /\ Len(s) >= 1 /\ DOMAIN s = 1 .. Len(s)
      /\ Head(s) = s[1]
  OBVIOUS
<1>2. /\ t \in Seq(S) /\ Len(t) = Len(s) - 1 /\ DOMAIN t = 1 .. Len(t)
      /\ \A i \in 1 .. Len(t) : t[i] = s[i + 1]
  BY HeadTailProperties
<1>3. t = <<>> => Len(s) = 1
  BY <1>1, <1>2
<1>4. t # <<>> => Len(t) >= 1 /\ Len(t) + 1 = Len(s)
  BY <1>1, <1>2
<1>5. \A i \in DOMAIN s : i # 1 => i - 1 \in DOMAIN t /\ s[i] = t[i - 1]
  <2> SUFFICES ASSUME NEW i \in DOMAIN s, i # 1
               PROVE  i - 1 \in DOMAIN t /\ s[i] = t[i - 1]
    OBVIOUS
  <2>1. i - 1 \in 1 .. Len(t) /\ (i - 1) + 1 = i
    BY <1>1, <1>2
  <2>2. t[i - 1] = s[(i - 1) + 1]
    BY <1>2, <2>1
  <2> QED BY <1>2, <2>1, <2>2
<1>6. t # <<>> => t[Len(t)] = s[Len(s)]
  BY <1>2, <1>4
<1>7. \A i \in DOMAIN t : i \in Nat /\ i + 1 \in DOMAIN s /\ t[i] = s[i + 1]
  BY <1>1, <1>2
<1>8. /\ 1 \in DOMAIN s /\ Len(s) \in DOMAIN s
      /\ \A i \in DOMAIN s : i \in Nat
      /\ t = <<>> => s[Len(s)] = s[1]
  BY <1>1, <1>3
<1>9. Head(s) = s[1]
  BY <1>1
<1> QED BY <1>5, <1>6, <1>7, <1>8, <1>9, Zenon

(* The API server stores a version of b: what becomes of all S3Buckets and   *)
(* of the events on their way.                                              *)
LEMMA StoreFacts ==
    ASSUME TypeInv, NEW b \in Buckets, NEW new \in BucketRec, Store(b, new)
    PROVE  /\ bucket'[b] = new
           /\ \A d \in Buckets : d # b => /\ bucket'[d] = bucket[d]
                                          /\ watch'[d] = watch[d]
           /\ ~ up => watch' = watch
           /\ up => /\ watch'[b] = Append(watch[b], new)
                    /\ watch'[b] # <<>>
                    /\ Len(watch'[b]) \in DOMAIN watch'[b]
                    /\ Len(watch'[b]) \in Nat /\ Len(watch'[b]) > 0
                    /\ watch'[b][Len(watch'[b])] = new
           /\ \A i \in DOMAIN watch'[b] :
                watch'[b][i] = new \/ (i \in DOMAIN watch[b]
                                       /\ watch'[b][i] = watch[b][i])
           /\ \A i \in DOMAIN watch[b] :
                /\ i \in DOMAIN watch'[b] /\ watch'[b][i] = watch[b][i]
                /\ up => i < Len(watch'[b])
<1>1. /\ bucket' = [bucket EXCEPT ![b] = new]
      /\ ~ up => watch' = watch
      /\ up => watch' = [watch EXCEPT ![b] = Append(watch[b], new)]
  BY DEF Store
<1>2. bucket \in [Buckets -> BucketRec] /\ watch \in [Buckets -> Seq(BucketRec)]
  BY DEF TypeInv, TypeOK
<1>3. CASE up
  <2>1. watch'[b] = Append(watch[b], new) /\ watch[b] \in Seq(BucketRec)
    BY <1>1, <1>2, <1>3
  <2> QED BY <1>1, <1>2, <1>3, <2>1, AppendFacts
<1>4. CASE ~ up
  BY <1>1, <1>2, <1>4
<1> QED BY <1>3, <1>4

(* What the three requests of a user have in common: they make a version of *)
(* another generation, and outdate the object of the reconcile.             *)
UserStore(b, new) ==
    /\ Store(b, new)
    /\ ~ SameGeneration(new, bucket[b])
    /\ UNCHANGED <<access, rgw, up, cache, queue, pc, cur, obj, agent,
                   bucketPolicy>>
    /\ fresh' = (fresh /\ cur # b)
    /\ \A d \in Buckets : d # b => /\ asked'[d] = asked[d]
                                   /\ released'[d] = released[d]
    /\ new.state = "terminating" => new.spec.policy \in asked'[b]
    /\ bucket[b].state = "terminating" =>
         new.state = "terminating" /\ asked[b] \subseteq asked'[b]
    /\ released'[b] => released[b] /\ bucket[b].state # "absent"

LEMMA UserStores ==
    ASSUME TypeInv, NEW b \in Buckets,
           CreateS3Bucket(b) \/ EditS3Bucket(b) \/ DeleteS3Bucket(b)
    PROVE  \E new \in BucketRec : UserStore(b, new)
<1>1. /\ bucket[b] \in BucketRec
      /\ asked \in [Buckets -> SUBSET {"delete", "retain"}]
      /\ released \in [Buckets -> BOOLEAN]
      /\ \A s \in SpecsOf[b] : s \in SpecRec /\ s.ref \in Owners
  BY SpecsAssumption DEF TypeInv, TypeOK, SpecRec
<1>2. CASE CreateS3Bucket(b)
  <2>1. PICK s \in SpecsOf[b] :
          Store(b, [state |-> "live", spec |-> s, status |-> NoStatus,
                    fin |-> FALSE])
    BY <1>2 DEF CreateS3Bucket
  <2> DEFINE new == [state |-> "live", spec |-> s, status |-> NoStatus,
                     fin |-> FALSE]
  <2>2. new \in BucketRec
    BY <1>1, NullTypes DEF BucketRec
  <2>3. UserStore(b, new)
    BY <1>1, <1>2, <2>1
       DEF CreateS3Bucket, UserStore, Outdate, SameGeneration
  <2> QED BY <2>2, <2>3
<1>3. CASE EditS3Bucket(b)
  <2>1. PICK s \in SpecsOf[b] :
          /\ s # bucket[b].spec
          /\ Store(b, [bucket[b] EXCEPT !.spec = s])
          /\ asked' = IF bucket[b].state = "live" THEN asked
                      ELSE [asked EXCEPT ![b] = asked[b] \cup {s.policy}]
    BY <1>3 DEF EditS3Bucket
  <2> DEFINE new == [bucket[b] EXCEPT !.spec = s]
  <2>2. /\ new \in BucketRec
        /\ new.spec = s /\ new.state = bucket[b].state
    <3>1. new \in BucketRec
      BY <1>1, VersionType
    <3> QED BY <1>1, <3>1 DEF BucketRec
  <2>3. Store(b, new)
    BY <2>1
  <2> HIDE DEF new
  <2>4. UserStore(b, new)
    BY <1>1, <1>3, <2>1, <2>2, <2>3
       DEF EditS3Bucket, UserStore, Outdate, SameGeneration
  <2> QED BY <2>2, <2>4
<1>4. CASE DeleteS3Bucket(b)
  <2> DEFINE new == IF bucket[b].fin
                      THEN [bucket[b] EXCEPT !.state = "terminating"]
                      ELSE NoObject
  <2>1. /\ new \in BucketRec /\ new.state \in {"terminating", "absent"}
        /\ new.state = "terminating" => new.spec = bucket[b].spec
    <3>1. new \in BucketRec
      BY <1>1, <1>4, VersionType, NullTypes DEF DeleteS3Bucket
    <3> QED BY <1>1, <3>1 DEF BucketRec, NoObject
  <2>2. Store(b, new)
    BY <1>4 DEF DeleteS3Bucket
  <2> HIDE DEF new
  <2>3. UserStore(b, new)
    BY <1>1, <1>4, <2>1, <2>2
       DEF DeleteS3Bucket, UserStore, Outdate, SameGeneration
  <2> QED BY <2>1, <2>3
<1> QED BY <1>2, <1>3, <1>4

-----------------------------------------------------------------------------
(* What the steps of the worker have in common.  A version it writes is of   *)
(* the same generation, and keeps the finalizer and "created".               *)
Follows(new, old) ==
    /\ SameGeneration(new, old)
    /\ old.fin => new.fin
    /\ old.status.created => new.status.created

WorkerStep == Provision \/ Cleanup \/ Fail \/ LoseLastAnswer

Writes == \E new \in BucketRec :
    fresh /\ Store(cur, new) /\ Follows(new, bucket[cur])

Releases == /\ pc = "removeFinalizer" /\ fresh
            /\ Store(cur, NoObject)
            /\ released' = [released EXCEPT ![cur] = TRUE]
            /\ EndReconcile /\ UNCHANGED rgw
            /\ queue' \in {queue, queue \cup {cur}}

LEMMA StatusWrites ==
    ASSUME TypeInv, pc # "idle", NEW s \in StatusRec, s.created,
           StatusKept(s) \/ StatusWritten(s) \/ StatusRefused(s)
    PROVE  UNCHANGED <<bucket, watch>> \/ Writes
<1>1. CASE StatusWritten(s)
  <2> DEFINE new == [bucket[cur] EXCEPT !.status = s]
  <2>1. bucket[cur] \in BucketRec
    BY DEF TypeInv, TypeOK
  <2>2. new \in BucketRec
    BY <2>1, VersionType
  <2>3. Follows(new, bucket[cur])
    BY <2>1 DEF Follows, SameGeneration, BucketRec
  <2> QED BY <1>1, <2>2, <2>3 DEF StatusWritten, Writes
<1> QED BY <1>1 DEF StatusKept, StatusRefused

LEMMA WorkerWrites ==
    ASSUME TypeInv, WorkerStep
    PROVE  /\ pc # "idle" /\ cur \in Buckets
           /\ UNCHANGED <<access, up, cache, asked>>
           /\ \/ (UNCHANGED <<bucket, watch>> \/ Writes) /\ UNCHANGED released
              \/ Releases
<1>0. /\ pc # "idle" /\ cur \in Buckets
      /\ UNCHANGED <<access, up, cache, asked>>
  <2>1. pc # "idle"
    BY DEF WorkerStep, Provision, Cleanup, Fail, EnsureBucket,
           EnsureBucketPolicy, ReportPolicyFailure, UpdateBucketStatusSuccess,
           AddCleanupFinalizer, RemoveOrRetainBucket, ReportRemoveFailure,
           RemoveCleanupFinalizer, LoseLastAnswer
  <2>2. CASE Provision
    BY <2>1, <2>2
       DEF Provision, EnsureBucket, EnsureBucketPolicy, ReportPolicyFailure,
           ReportFailure, UpdateBucketStatusSuccess, AddCleanupFinalizer,
           infVars, ghosts, TypeInv
  <2>3. CASE Cleanup \/ Fail \/ LoseLastAnswer
    BY <2>1, <2>3
       DEF Cleanup, Fail, LoseLastAnswer, RemoveOrRetainBucket, ReportRemoveFailure,
           ReportFailure, RemoveCleanupFinalizer, infVars, ghosts, TypeInv
  <2> QED BY <2>1, <2>2, <2>3 DEF WorkerStep, TypeInv
<1>1. ASSUME NEW text \in TextRec, ReportFailure(text)
      PROVE  (UNCHANGED <<bucket, watch>> \/ Writes) /\ UNCHANGED released
  <2> DEFINE s == [created |-> TRUE, failed |-> TRUE, policy |-> text]
  <2>1. s \in StatusRec /\ s.created
    BY DEF StatusRec
  <2>2. StatusKept(s) \/ StatusWritten(s) \/ StatusRefused(s)
    BY <1>1 DEF ReportFailure
  <2> HIDE DEF s
  <2> QED BY <1>0, <1>1, <2>1, <2>2, StatusWrites DEF ReportFailure, ghosts
<1>2. CASE EnsureBucket \/ EnsureBucketPolicy \/ RemoveOrRetainBucket \/ Fail
  BY <1>0, <1>2
     DEF EnsureBucket, EnsureBucketPolicy, RemoveOrRetainBucket, Fail,
         infVars, ghosts
<1>3. CASE ReportPolicyFailure \/ ReportRemoveFailure
  BY <1>0, <1>1, <1>3, NullTypes
     DEF ReportPolicyFailure, ReportRemoveFailure, TypeInv, TypeOK
<1>4. CASE UpdateBucketStatusSuccess
  <2> DEFINE s == [created |-> TRUE, failed |-> FALSE, policy |-> bucketPolicy]
  <2>1. s \in StatusRec /\ s.created
    BY DEF StatusRec, TypeInv, TypeOK
  <2>2. /\ StatusKept(s) \/ StatusWritten(s) \/ StatusRefused(s)
        /\ UNCHANGED released
    BY <1>4 DEF UpdateBucketStatusSuccess, ghosts
  <2> HIDE DEF s
  <2> QED BY <1>0, <2>1, <2>2, StatusWrites
<1>5. CASE AddCleanupFinalizer \/ (LoseLastAnswer /\ pc = "addFinalizer")
  <2> DEFINE new == [bucket[cur] EXCEPT !.fin = TRUE]
  <2>1. bucket[cur] \in BucketRec
    BY <1>0 DEF TypeInv, TypeOK
  <2>2. new \in BucketRec
    BY <2>1, VersionType
  <2>3. Follows(new, bucket[cur])
    BY <2>1 DEF Follows, SameGeneration, BucketRec
  <2>4. /\ UNCHANGED <<bucket, watch>> \/ (fresh /\ Store(cur, new))
        /\ UNCHANGED released
    BY <1>5 DEF AddCleanupFinalizer, LoseLastAnswer, ghosts
  <2> HIDE DEF new
  <2> QED BY <1>0, <2>2, <2>3, <2>4 DEF Writes
<1>6. CASE RemoveCleanupFinalizer \/ (LoseLastAnswer /\ pc = "removeFinalizer")
  BY <1>0, <1>6
     DEF RemoveCleanupFinalizer, LoseLastAnswer, Releases, Requeue,
         EndReconcile
<1> QED BY <1>0, <1>2, <1>3, <1>4, <1>5, <1>6
        DEF WorkerStep, Provision, Cleanup, LoseLastAnswer

(* A step ends the request, putting it back or having done with it, or goes  *)
(* on to a later call with the same S3Bucket in hand.                        *)
Continues ==
    /\ UNCHANGED <<queue, cur, fresh>>
    /\ SameGeneration(obj', obj)
    /\ \/ pc \in ProvisionSteps /\ pc' \in ProvisionSteps \ {"bucket"}
       \/ pc = "remove" /\ pc' \in {"removeFinalizer", "removeFailed"}
    /\ \/ obj' = obj /\ UNCHANGED <<bucket, watch>>
       \/ /\ pc = "status" /\ fresh
          /\ obj = bucket[cur] => obj' = bucket'[cur]
    /\ pc' = "status" => pc = "policy"
    /\ pc' = "addFinalizer" => /\ pc = "status" /\ obj'.status.created
                               /\ UNCHANGED rgw

(* The finalizer is set, as far as the worker knows. *)
Finishes == /\ pc = "addFinalizer"
            /\ EndReconcile /\ UNCHANGED <<queue, rgw>>
            /\ \/ obj.fin /\ UNCHANGED <<bucket, watch>>
               \/ fresh /\ Store(cur, [bucket[cur] EXCEPT !.fin = TRUE])

LEMMA WorkerMoves ==
    ASSUME TypeInv, WorkerStep
    PROVE  Requeue \/ Continues \/ Finishes \/ Releases
<1>1. CASE EnsureBucket
  BY <1>1 DEF EnsureBucket, Continues, Goto, infVars, ProvisionSteps,
              SameGeneration
<1>2. CASE EnsureBucketPolicy
  BY <1>2 DEF EnsureBucketPolicy, Continues, Goto, infVars, ProvisionSteps,
              SameGeneration
<1>3. CASE ReportPolicyFailure \/ ReportRemoveFailure
  BY <1>3 DEF ReportPolicyFailure, ReportRemoveFailure, ReportFailure
<1>4. CASE UpdateBucketStatusSuccess
  <2> DEFINE s == [created |-> TRUE, failed |-> FALSE, policy |-> bucketPolicy]
  <2>1. CASE Requeue
    BY <2>1
  <2>2. CASE /\ StatusKept(s) \/ StatusWritten(s)
             /\ obj' = [obj EXCEPT !.status = s]
             /\ Goto("addFinalizer")
             /\ UNCHANGED <<queue, cur, fresh, agent, bucketPolicy>>
    <3>1. obj \in BucketRec /\ cur \in Buckets
          /\ bucket \in [Buckets -> BucketRec] /\ bucket[cur] \in BucketRec
      BY <1>4 DEF UpdateBucketStatusSuccess, TypeInv, TypeOK
    <3>7. s.created
      OBVIOUS
    <3> HIDE DEF s
    <3>2. SameGeneration(obj', obj)
      BY <2>2, <3>1 DEF SameGeneration, BucketRec
    <3>3. StatusKept(s) => obj' = obj /\ UNCHANGED <<bucket, watch>>
      BY <2>2, <3>1 DEF StatusKept, BucketRec
    <3>4. StatusWritten(s) /\ obj = bucket[cur] => fresh /\ obj' = bucket'[cur]
      BY <2>2, <3>1 DEF StatusWritten, Store
    <3>5. StatusWritten(s) => fresh
      BY DEF StatusWritten
    <3>6. obj'.status.created
      BY <2>2, <3>1, <3>7 DEF BucketRec
    <3> QED BY <1>4, <2>2, <3>2, <3>3, <3>4, <3>5, <3>6
            DEF UpdateBucketStatusSuccess, Continues, Goto, ProvisionSteps
  <2> QED BY <1>4, <2>1, <2>2 DEF UpdateBucketStatusSuccess
<1>5. CASE AddCleanupFinalizer
  BY <1>5 DEF AddCleanupFinalizer, Finishes
<1>6. CASE RemoveOrRetainBucket
  BY <1>6 DEF RemoveOrRetainBucket, Continues, Goto, infVars, SameGeneration
<1>7. CASE RemoveCleanupFinalizer
  BY <1>7 DEF RemoveCleanupFinalizer, Releases
<1>8. CASE Fail
  BY <1>8 DEF Fail, Continues, Goto, infVars, ProvisionSteps, SameGeneration
<1>9. CASE LoseLastAnswer
  BY <1>9 DEF LoseLastAnswer
<1> QED BY <1>1, <1>2, <1>3, <1>4, <1>5, <1>6, <1>7, <1>8, <1>9
        DEF WorkerStep, Provision, Cleanup

(* What the steps of the worker do to the bucket on RGW: create it, put the  *)
(* policy on it, or delete it - as the object in hand says.                  *)
RgwCreated == /\ pc = "bucket" /\ pc' = "policy"
              /\ ~ rgw[cur].exists /\ rgw'[cur].exists

RgwPoliced ==
    /\ pc = "policy" /\ pc' \in {"policyFailed", "status"}
    /\ Owned /\ PutPolicy

RgwRemoved ==
    /\ pc = "remove" /\ obj.spec.policy = "delete"
    /\ ~ rgw'[cur].exists

LEMMA WorkerRgw ==
    ASSUME TypeInv, WorkerStep
    PROVE  /\ \A d \in Buckets : d # cur => rgw'[d] = rgw[d]
           /\ UNCHANGED rgw \/ RgwCreated \/ RgwPoliced \/ RgwRemoved
           /\ pc = "policy" /\ pc' = "status" => RgwPoliced
           /\ pc = "remove" /\ pc' = "removeFinalizer" =>
                obj.spec.policy = "retain" \/ ~ rgw'[cur].exists
<1>0. rgw \in [Buckets -> RgwRec]
  BY DEF TypeInv, TypeOK
<1>1. CASE EnsureBucket
  BY <1>0, <1>1 DEF EnsureBucket, Requeue, EndReconcile, Goto, RgwCreated,
                    TypeInv
<1>2. CASE EnsureBucketPolicy
  BY <1>0, <1>2 DEF EnsureBucketPolicy, Goto, RgwPoliced, PutPolicy
<1>3. CASE ReportPolicyFailure \/ ReportRemoveFailure
  BY <1>3 DEF ReportPolicyFailure, ReportRemoveFailure, ReportFailure
<1>4. CASE UpdateBucketStatusSuccess \/ AddCleanupFinalizer
  BY <1>4 DEF UpdateBucketStatusSuccess, AddCleanupFinalizer
<1>5. CASE RemoveOrRetainBucket
  <2>1. rgw' = Emptied => ~ rgw'[cur].exists
    BY <1>0, <1>5 DEF Emptied, NoRgw, RemoveOrRetainBucket, TypeInv
  <2> QED BY <1>0, <1>5, <2>1
          DEF RemoveOrRetainBucket, Goto, Emptied, RgwRemoved
<1>6. CASE RemoveCleanupFinalizer
  BY <1>6 DEF RemoveCleanupFinalizer
<1>7. CASE Fail
  <2>1. pc = "remove" /\ rgw' = Emptied => ~ rgw'[cur].exists
    BY <1>0 DEF Emptied, NoRgw, TypeInv
  <2>2. pc = "remove" => obj.spec.policy = "delete"
    BY <1>7 DEF Fail, TypeInv, TypeOK, BucketRec, SpecRec
  <2> QED BY <1>0, <1>7, <2>1, <2>2
          DEF Fail, Goto, Emptied, Requeue, EndReconcile, RgwPoliced,
              RgwRemoved, PutPolicy
<1>8. CASE LoseLastAnswer
  BY <1>8 DEF LoseLastAnswer
<1> QED BY <1>1, <1>2, <1>3, <1>4, <1>5, <1>6, <1>7, <1>8
        DEF WorkerStep, Provision, Cleanup

(* What claims and objects in a bucket change: nothing the operator knows,   *)
(* and of the buckets nothing but that one may go with its account.          *)
OutsideStep == \/ \E c \in Owners : ClaimChange(c)
               \/ \E b \in Buckets : FillBucket(b) \/ EmptyBucket(b)

RgwKept(b) == \/ /\ rgw'[b].exists = rgw[b].exists
                 /\ rgw'[b].owner = rgw[b].owner
                 /\ rgw'[b].policy = rgw[b].policy
                 /\ rgw'[b].lost = rgw[b].lost
              \/ ~ rgw'[b].exists /\ rgw'[b].lost

LEMMA OutsideKeeps ==
    ASSUME TypeInv, OutsideStep
    PROVE  /\ UNCHANGED <<bucket, up, cache, watch, queue, pc, cur, obj, fresh,
                          asked, released>>
           /\ \A b \in Buckets : RgwKept(b)
<1>0. rgw \in [Buckets -> RgwRec]
  BY DEF TypeInv, TypeOK
<1>1. ASSUME NEW c \in Owners, ClaimChange(c)
      PROVE  /\ UNCHANGED <<bucket, up, cache, watch, queue, pc, cur, obj,
                            fresh, asked, released>>
             /\ \A b \in Buckets : RgwKept(b)
  <2>1. CASE GrantAccess(c) \/ LoseSecret(c)
    BY <2>1 DEF GrantAccess, LoseSecret, RgwKept, infVars, reqVars, ghosts
  <2>2. CASE PurgeAccount(c)
    BY <1>0, <2>2 DEF PurgeAccount, NoRgw, RgwKept, infVars, ghosts
  <2> QED BY <1>1, <2>1, <2>2 DEF ClaimChange
<1>2. ASSUME NEW d \in Buckets, FillBucket(d) \/ EmptyBucket(d)
      PROVE  /\ UNCHANGED <<bucket, up, cache, watch, queue, pc, cur, obj,
                            fresh, asked, released>>
             /\ \A b \in Buckets : RgwKept(b)
  <2>1. UNCHANGED <<bucket, up, cache, watch, queue, pc, cur, obj, fresh,
                    asked, released>>
    BY <1>2 DEF FillBucket, EmptyBucket, infVars, reqVars, ghosts
  <2>2. PICK f \in BOOLEAN :
          rgw' = [rgw EXCEPT ![d] = [rgw[d] EXCEPT !.filled = f]]
    BY <1>2 DEF FillBucket, EmptyBucket
  <2> QED BY <1>0, <2>1, <2>2 DEF RgwKept, RgwRec
<1> QED BY <1>1, <1>2 DEF OutsideStep

UserStep == \E b \in Buckets : \E new \in BucketRec : UserStore(b, new)

DeliverStep == \E b \in Buckets : Deliver(b)

ReconcileStep == \E b \in Buckets : Reconcile(b)

(* Every step is one of these. *)
LEMMA Steps ==
    ASSUME TypeInv, Next
    PROVE  \/ UserStep \/ OutsideStep \/ DeliverStep \/ ReconcileStep
           \/ WorkerStep \/ Crash \/ Restart
BY UserStores DEF Next, User, UserStep, OutsideStep, DeliverStep,
                  ReconcileStep, WorkerStep

-----------------------------------------------------------------------------
(* The cache is behind the S3Bucket by what is on its way. *)

LEMMA CopiesStore ==
    ASSUME TypeInv, CopiesInv, NEW b \in Buckets, NEW new \in BucketRec,
           Store(b, new), UNCHANGED <<up, cache>>,
           ~ up => UNCHANGED <<queue, pc>>
    PROVE  CopiesInv'
BY StoreFacts DEF CopiesInv

LEMMA CopiesNext ==
    ASSUME TypeInv, CopiesInv, Next
    PROVE  CopiesInv'
<1>1. CASE UserStep
  <2>1. PICK b \in Buckets : \E new \in BucketRec : UserStore(b, new)
    BY <1>1 DEF UserStep
  <2> QED BY <2>1, CopiesStore DEF UserStore
<1>2. CASE OutsideStep
  BY <1>2, OutsideKeeps DEF CopiesInv
<1>3. CASE DeliverStep
  <2>1. PICK b \in Buckets : Deliver(b)
    BY <1>3 DEF DeliverStep
  <2>2. /\ watch[b] \in Seq(BucketRec) /\ watch[b] # <<>>
        /\ cache'[b] = Head(watch[b]) /\ watch'[b] = Tail(watch[b])
        /\ \A d \in Buckets : d # b => /\ cache'[d] = cache[d]
                                       /\ watch'[d] = watch[d]
        /\ up /\ UNCHANGED <<up, bucket>>
    BY <2>1 DEF Deliver, TypeInv, TypeOK, clusterVars
  <2>3. /\ watch'[b] = <<>> => cache'[b] = bucket'[b]
        /\ watch'[b] # <<>> => watch'[b][Len(watch'[b])] = bucket'[b]
    <3>1. watch[b][Len(watch[b])] = bucket[b]
      BY <2>2 DEF CopiesInv
    <3>2. /\ Head(watch[b]) = watch[b][1]
          /\ watch'[b] = <<>> => watch[b][Len(watch[b])] = watch[b][1]
          /\ watch'[b] # <<>> => watch'[b][Len(watch'[b])] = watch[b][Len(watch[b])]
      BY <2>2, TailFacts
    <3> QED BY <2>2, <3>1, <3>2
  <2> QED BY <2>2, <2>3 DEF CopiesInv
<1>4. CASE ReconcileStep
  <2>1. /\ UNCHANGED <<bucket, cache, watch, up>>
        /\ queue # {} /\ pc = "idle"
    BY <1>4 DEF ReconcileStep, Reconcile, ReconcileNotFound, ReconcileNoAgent,
                ReconcileFound, clusterVars, infVars, vars
  <2> QED BY <2>1 DEF CopiesInv
<1>5. CASE WorkerStep
  <2>1. up /\ up' = up /\ cache' = cache /\ cur \in Buckets
    BY <1>5, WorkerWrites DEF CopiesInv, TypeInv, TypeOK
  <2>2. CASE UNCHANGED <<bucket, watch>>
    BY <2>1, <2>2 DEF CopiesInv
  <2>3. CASE Writes
    BY <2>1, <2>3, CopiesStore DEF Writes
  <2>4. CASE Releases
    BY <2>1, <2>4, CopiesStore, NullTypes DEF Releases
  <2> QED BY <1>5, <2>2, <2>3, <2>4, WorkerWrites
<1>6. CASE Crash
  BY <1>6 DEF Crash, EndReconcile, CopiesInv, clusterVars
<1>7. CASE Restart
  BY <1>7 DEF Restart, CopiesInv, TypeInv, TypeOK, clusterVars, reqVars
<1> QED BY <1>1, <1>2, <1>3, <1>4, <1>5, <1>6, <1>7, Steps

-----------------------------------------------------------------------------
(* What the object of a request has to do with the S3Bucket. *)

LEMMA RequestNext ==
    ASSUME TypeInv, CopiesInv, RequestInv, Next, TypeInv'
    PROVE  RequestInv'
<1>1. CASE UserStep
  <2>1. PICK b \in Buckets, new \in BucketRec : UserStore(b, new)
    BY <1>1 DEF UserStep
  <2>2. /\ UNCHANGED <<pc, cur, obj>>
        /\ fresh' => fresh /\ cur # b
        /\ Store(b, new)
    BY <2>1 DEF UserStore
  <2>3. \A d \in Buckets : d # b => bucket'[d] = bucket[d] /\ watch'[d] = watch[d]
    BY <2>2, StoreFacts
  <2> QED BY <2>2, <2>3 DEF RequestInv, CleanupSteps
<1>2. CASE OutsideStep
  BY <1>2, OutsideKeeps DEF RequestInv
<1>3. CASE DeliverStep
  <2>1. PICK b \in Buckets : Deliver(b)
    BY <1>3 DEF DeliverStep
  <2> QED BY <2>1 DEF Deliver, RequestInv, TypeInv, TypeOK, clusterVars, reqVars
<1>4. CASE ReconcileStep
  <2>1. PICK b \in Buckets : Reconcile(b)
    BY <1>4 DEF ReconcileStep
  <2>2. CASE ReconcileNotFound(b) \/ ReconcileNoAgent(b)
    BY <2>2 DEF ReconcileNotFound, ReconcileNoAgent, RequestInv, clusterVars,
                infVars, reqVars, vars
  <2>3. CASE ReconcileFound(b)
    <3>1. up
      BY <2>3 DEF ReconcileFound, CopiesInv
    <3>2. cache[b].state \in {"live", "terminating"}
      BY <2>3 DEF ReconcileFound, TypeInv, TypeOK, BucketRec
    <3> QED BY <2>3, <3>1, <3>2
            DEF ReconcileFound, RequestInv, CopiesInv, Goto, clusterVars,
                infVars, ProvisionSteps, CleanupSteps
  <2> QED BY <2>1, <2>2, <2>3 DEF Reconcile
<1>5. CASE WorkerStep
  <2>1. CASE EndReconcile
    BY <2>1 DEF EndReconcile, RequestInv, ProvisionSteps, CleanupSteps
  <2>2. CASE Continues
    BY <1>5, <2>2, WorkerWrites
       DEF Continues, RequestInv, SameGeneration, ProvisionSteps, CleanupSteps
  <2> QED BY <1>5, <2>1, <2>2, WorkerMoves DEF Requeue, Finishes, Releases
<1>6. CASE Crash
  BY <1>6 DEF Crash, EndReconcile, RequestInv, ProvisionSteps, CleanupSteps
<1>7. CASE Restart
  BY <1>7 DEF Restart, RequestInv, CopiesInv, reqVars, ProvisionSteps,
              CleanupSteps
<1> QED BY <1>1, <1>2, <1>3, <1>4, <1>5, <1>6, <1>7, Steps

-----------------------------------------------------------------------------
(* A copy that is marked for deletion does no harm. *)

(* Only EnsureBucket creates a bucket. *)
LEMMA WorkerExists ==
    ASSUME TypeInv, WorkerStep, NEW d \in Buckets, rgw'[d].exists
    PROVE  rgw[d].exists \/ (d = cur /\ pc = "bucket")
<1>1. CASE RgwPoliced
  <2>1. rgw \in [Buckets -> RgwRec]
    BY DEF TypeInv, TypeOK
  <2> QED BY <1>1, <2>1, WorkerWrites DEF RgwPoliced, PutPolicy, RgwRec
<1>2. CASE RgwRemoved
  BY <1>2, WorkerRgw DEF RgwRemoved
<1>3. CASE RgwCreated
  BY <1>3, WorkerRgw DEF RgwCreated
<1> QED BY <1>1, <1>2, <1>3, WorkerRgw

(* The worker writes no other deletion policy, and no other mark. *)
LEMMA WorkerMarks ==
    ASSUME TypeInv, WorkerStep, ~ Releases
    PROVE  /\ \A d \in Buckets : SameGeneration(bucket'[d], bucket[d])
           /\ \A d \in Buckets : \A i \in DOMAIN watch'[d] :
                \/ i \in DOMAIN watch[d] /\ watch'[d][i] = watch[d][i]
                \/ SameGeneration(watch'[d][i], bucket[d])
           /\ UNCHANGED <<asked, cache>>
<1>1. CASE UNCHANGED <<bucket, watch>>
  BY <1>1, WorkerWrites DEF SameGeneration
<1>2. CASE Writes
  <2>1. PICK new \in BucketRec : Store(cur, new) /\ Follows(new, bucket[cur])
    BY <1>2 DEF Writes
  <2> QED BY <2>1, WorkerWrites, StoreFacts DEF Follows, SameGeneration
<1> QED BY <1>1, <1>2, WorkerWrites

LEMMA DeletionWorker ==
    ASSUME TypeInv, CopiesInv, RequestInv, DeletionInv, WorkerStep
    PROVE  DeletionInv'
<1>0. /\ pc # "idle" /\ up /\ cur \in Buckets
      /\ UNCHANGED <<cache, asked>>
  BY WorkerWrites DEF CopiesInv
<1>1. CASE Releases
  <2>1. /\ bucket'[cur].state = "absent"
        /\ \A d \in Buckets : d # cur => /\ bucket'[d] = bucket[d]
                                         /\ watch'[d] = watch[d]
        /\ \A i \in DOMAIN watch'[cur] :
             watch'[cur][i] = NoObject \/ i \in DOMAIN watch[cur]
        /\ pc' = "idle" /\ rgw' = rgw
    BY <1>0, <1>1, NullTypes, StoreFacts
       DEF Releases, EndReconcile, NoObject
  <2>2. watch[cur] = <<>> /\ cache[cur] = obj /\ Harmless(cur, obj)
    BY <1>0, <1>1 DEF Releases, RequestInv, CopiesInv, DeletionInv
  <2>3. \A i \in DOMAIN watch'[cur] : watch'[cur][i].state = "absent"
    BY <2>1, <2>2 DEF NoObject
  <2>4. ASSUME NEW d \in Buckets
        PROVE  /\ bucket'[d].state = "terminating" => Marked(d, bucket[d])'
               /\ \A i \in DOMAIN watch'[d] :
                    watch'[d][i].state = "terminating" => Marked(d, watch[d][i])'
               /\ cache'[d].state = "terminating" =>
                    Marked(d, cache[d])' \/ Harmless(d, cache[d])'
    BY <1>0, <2>1, <2>2, <2>3 DEF DeletionInv, Marked, Harmless
  <2> QED BY <2>1, <2>4 DEF DeletionInv, ProvisionSteps, CleanupSteps
<1>2. CASE ~ Releases
  <2>1. ASSUME NEW d \in Buckets
        PROVE  /\ bucket'[d].state = "terminating" => Marked(d, bucket[d])'
               /\ \A i \in DOMAIN watch'[d] :
                    watch'[d][i].state = "terminating" => Marked(d, watch[d][i])'
    BY <1>2, WorkerMarks DEF DeletionInv, Marked, SameGeneration
  <2>2. ASSUME NEW d \in Buckets, cache'[d].state = "terminating"
        PROVE  Marked(d, cache[d])' \/ Harmless(d, cache[d])'
    <3>1. CASE rgw'[d].exists /\ ~ rgw[d].exists
      <4>1. d = cur /\ pc = "bucket"
        BY <3>1, WorkerExists
      <4>2. Marked(cur, cache[cur])
        BY <1>0, <2>2, <4>1 DEF DeletionInv, ProvisionSteps
      <4> QED BY <1>0, <1>2, <4>1, <4>2, WorkerMarks DEF Marked, SameGeneration
    <3>2. CASE ~ (rgw'[d].exists /\ ~ rgw[d].exists)
      BY <1>0, <1>2, <2>2, <3>2, WorkerMarks
         DEF DeletionInv, Marked, Harmless, SameGeneration
    <3> QED BY <3>1, <3>2
  <2>3. CASE EndReconcile
    BY <2>1, <2>2, <2>3
       DEF EndReconcile, DeletionInv, ProvisionSteps, CleanupSteps
  <2>4. CASE Continues
    <3>1. /\ cur' = cur /\ obj'.spec = obj.spec
          /\ pc \in ProvisionSteps \/ pc = "remove"
      BY <2>4 DEF Continues, SameGeneration
    <3>2. pc' \in CleanupSteps => pc = "remove"
      BY <2>4 DEF Continues, ProvisionSteps, CleanupSteps
    <3>3. pc = "remove" => ~ (rgw'[cur].exists /\ ~ rgw[cur].exists)
      BY <1>0, WorkerExists
    <3>4. pc' \in CleanupSteps => Marked(cur, obj)' \/ Harmless(cur, obj)'
      BY <1>0, <1>2, <3>1, <3>2, <3>3, WorkerMarks
         DEF DeletionInv, CleanupSteps, Marked, Harmless, SameGeneration
    <3>5. pc' = "removeFinalizer" => Harmless(cur, obj)'
      BY <3>1, <3>2, WorkerRgw DEF Harmless, CleanupSteps
    <3>6. pc' \in ProvisionSteps /\ cache'[cur].state = "terminating" =>
            Marked(cur, cache[cur])'
      <4>1. pc' \in ProvisionSteps => pc \in ProvisionSteps
        BY <2>4 DEF Continues, ProvisionSteps
      <4> QED BY <1>0, <1>2, <3>1, <4>1, WorkerMarks
              DEF DeletionInv, Marked, SameGeneration
    <3> QED BY <2>1, <2>2, <3>1, <3>4, <3>5, <3>6 DEF DeletionInv
  <2> QED BY <1>2, <2>3, <2>4, WorkerMoves DEF Requeue, Finishes
<1> QED BY <1>1, <1>2

LEMMA DeletionUser ==
    ASSUME TypeInv, DeletionInv, RequestInv, UserStep
    PROVE  DeletionInv'
<1>1. PICK b \in Buckets, new \in BucketRec : UserStore(b, new)
  BY DEF UserStep
<1>2. /\ UNCHANGED <<rgw, cache, pc, cur, obj>>
      /\ \A d \in Buckets : d # b => /\ bucket'[d] = bucket[d]
                                     /\ watch'[d] = watch[d]
                                     /\ asked'[d] = asked[d]
      /\ bucket'[b] = new
      /\ \A i \in DOMAIN watch'[b] :
           watch'[b][i] = new \/ (i \in DOMAIN watch[b]
                                  /\ watch'[b][i] = watch[b][i])
      /\ new.state = "terminating" => new.spec.policy \in asked'[b]
  BY <1>1, StoreFacts DEF UserStore
<1>3. \A d \in Buckets : bucket[d].state = "terminating" =>
        bucket'[d].state = "terminating" /\ asked[d] \subseteq asked'[d]
  BY <1>1, <1>2 DEF UserStore
<1>4. ASSUME NEW d \in Buckets
      PROVE  /\ bucket'[d].state = "terminating" => Marked(d, bucket[d])'
             /\ \A i \in DOMAIN watch'[d] :
                  watch'[d][i].state = "terminating" => Marked(d, watch[d][i])'
             /\ cache'[d].state = "terminating" =>
                  Marked(d, cache[d])' \/ Harmless(d, cache[d])'
  <2>1. CASE d # b
    BY <1>2, <2>1 DEF DeletionInv, Marked, Harmless
  <2>2. CASE d = b
    BY <1>2, <1>3, <2>2 DEF DeletionInv, Marked, Harmless
  <2> QED BY <2>1, <2>2
<1>5. pc # "idle" => cur \in Buckets
  BY DEF TypeInv
<1>6. /\ pc \in CleanupSteps => Marked(cur, obj)' \/ Harmless(cur, obj)'
      /\ pc = "removeFinalizer" => Harmless(cur, obj)'
      /\ pc \in ProvisionSteps /\ cache[cur].state = "terminating" =>
           Marked(cur, cache[cur])'
  BY <1>2, <1>3, <1>5
     DEF DeletionInv, Marked, Harmless, ProvisionSteps, CleanupSteps
<1> QED BY <1>2, <1>4, <1>6 DEF DeletionInv

(* The cache gets the first event on its way, the others stay. *)
LEMMA DeliverFacts ==
    ASSUME TypeInv, NEW b \in Buckets, Deliver(b)
    PROVE  /\ \E i \in DOMAIN watch[b] : cache'[b] = watch[b][i]
           /\ \A i \in DOMAIN watch'[b] :
                \E j \in DOMAIN watch[b] : watch'[b][i] = watch[b][j]
           /\ \A d \in Buckets : d # b => /\ cache'[d] = cache[d]
                                          /\ watch'[d] = watch[d]
           /\ UNCHANGED <<bucket, rgw, pc, cur, obj, asked, released>>
<1>1. /\ watch[b] \in Seq(BucketRec) /\ watch[b] # <<>>
      /\ cache'[b] = Head(watch[b]) /\ watch'[b] = Tail(watch[b])
      /\ \A d \in Buckets : d # b => /\ cache'[d] = cache[d]
                                     /\ watch'[d] = watch[d]
      /\ UNCHANGED <<bucket, rgw, pc, cur, obj, asked, released>>
  BY DEF Deliver, TypeInv, TypeOK, clusterVars, reqVars, ghosts
<1>2. /\ 1 \in DOMAIN watch[b] /\ cache'[b] = watch[b][1]
      /\ \A i \in DOMAIN watch'[b] :
           i + 1 \in DOMAIN watch[b] /\ watch'[b][i] = watch[b][i + 1]
  BY <1>1, TailFacts
<1> QED BY <1>1, <1>2, Zenon

LEMMA DeletionDeliver ==
    ASSUME TypeInv, DeletionInv, NEW b \in Buckets, Deliver(b)
    PROVE  DeletionInv'
<1>1. /\ \E i \in DOMAIN watch[b] : cache'[b] = watch[b][i]
      /\ \A i \in DOMAIN watch'[b] :
           \E j \in DOMAIN watch[b] : watch'[b][i] = watch[b][j]
      /\ \A d \in Buckets : d # b => /\ cache'[d] = cache[d]
                                     /\ watch'[d] = watch[d]
      /\ UNCHANGED <<bucket, rgw, pc, cur, obj, asked>>
  BY DeliverFacts
<1>2. cache'[b].state = "terminating" => Marked(b, cache[b])'
  BY <1>1 DEF DeletionInv, Marked
<1>3. ASSUME NEW d \in Buckets
      PROVE  /\ bucket'[d].state = "terminating" => Marked(d, bucket[d])'
             /\ \A i \in DOMAIN watch'[d] :
                  watch'[d][i].state = "terminating" => Marked(d, watch[d][i])'
             /\ cache'[d].state = "terminating" =>
                  Marked(d, cache[d])' \/ Harmless(d, cache[d])'
  BY <1>1, <1>2 DEF DeletionInv, Marked, Harmless
<1>4. pc # "idle" => cur \in Buckets
  BY DEF TypeInv
<1>5. pc \in ProvisionSteps /\ cache'[cur].state = "terminating" =>
        Marked(cur, cache[cur])'
  BY <1>1, <1>2, <1>4 DEF DeletionInv, Marked, ProvisionSteps
<1>6. /\ pc \in CleanupSteps => Marked(cur, obj)' \/ Harmless(cur, obj)'
      /\ pc = "removeFinalizer" => Harmless(cur, obj)'
  BY <1>1 DEF DeletionInv, Marked, Harmless
<1> QED BY <1>1, <1>3, <1>5, <1>6 DEF DeletionInv

LEMMA DeletionNext ==
    ASSUME TypeInv, CopiesInv, RequestInv, DeletionInv, Next
    PROVE  DeletionInv'
<1>1. CASE OutsideStep
  <2>1. /\ UNCHANGED <<bucket, cache, watch, pc, cur, obj, asked>>
        /\ \A d \in Buckets : rgw'[d].exists => rgw[d].exists
    BY <1>1, OutsideKeeps DEF RgwKept
  <2>2. pc # "idle" => cur \in Buckets
    BY DEF TypeInv
  <2> QED BY <2>1, <2>2
          DEF DeletionInv, Marked, Harmless, ProvisionSteps, CleanupSteps
<1>2. CASE ReconcileStep
  <2>1. PICK b \in Buckets : Reconcile(b)
    BY <1>2 DEF ReconcileStep
  <2>2. CASE ReconcileNotFound(b) \/ ReconcileNoAgent(b)
    BY <2>2 DEF ReconcileNotFound, ReconcileNoAgent, DeletionInv, Marked,
                Harmless, clusterVars, infVars, reqVars, ghosts, vars
  <2>3. CASE ReconcileFound(b)
    <3>1. /\ UNCHANGED <<bucket, rgw, cache, watch, asked>>
          /\ cur' = b /\ obj' = cache[b]
          /\ pc' = IF cache[b].state = "live" THEN "bucket" ELSE "remove"
          /\ cache[b].state \in {"live", "terminating"}
      BY <2>3 DEF ReconcileFound, Goto, clusterVars, infVars, ghosts, TypeInv,
                  TypeOK, BucketRec
    <3> QED BY <3>1
            DEF DeletionInv, Marked, Harmless, ProvisionSteps, CleanupSteps
  <2> QED BY <2>1, <2>2, <2>3 DEF Reconcile
<1>3. CASE Crash
  BY <1>3 DEF Crash, EndReconcile, DeletionInv, Marked, Harmless, clusterVars,
              ghosts, ProvisionSteps, CleanupSteps
<1>4. CASE Restart
  BY <1>4 DEF Restart, DeletionInv, CopiesInv, Marked, Harmless, clusterVars,
              reqVars, ghosts, ProvisionSteps, CleanupSteps
<1> QED BY <1>1, <1>2, <1>3, <1>4, Steps, DeletionUser, DeletionDeliver,
           DeletionWorker DEF DeliverStep

-----------------------------------------------------------------------------
(* After an S3Bucket was let go nothing that is under way provides for it. *)

(* The worker lets go of the S3Bucket in hand, and of it only. *)
LEMMA ReleasesFacts ==
    ASSUME TypeInv, CopiesInv, RequestInv, Releases
    PROVE  /\ bucket[cur] = obj /\ obj.state = "terminating"
           /\ cache[cur] = obj /\ bucket'[cur].state = "absent"
           /\ \A i \in DOMAIN watch'[cur] : watch'[cur][i].state = "absent"
           /\ \A d \in Buckets : d # cur => /\ bucket'[d] = bucket[d]
                                            /\ watch'[d] = watch[d]
                                            /\ released'[d] = released[d]
           /\ pc' = "idle" /\ UNCHANGED rgw
<1>1. /\ cur \in Buckets /\ up /\ fresh /\ pc = "removeFinalizer"
      /\ pc' = "idle" /\ UNCHANGED rgw
      /\ released' = [released EXCEPT ![cur] = TRUE]
      /\ Store(cur, NoObject)
  BY DEF Releases, RequestInv, CopiesInv, EndReconcile
<1>2. /\ obj.state = "terminating" /\ bucket[cur] = obj /\ cache[cur] = obj
      /\ watch[cur] = <<>>
  BY <1>1 DEF RequestInv, CopiesInv, CleanupSteps
<1>3. \A i \in DOMAIN watch'[cur] : watch'[cur][i] = NoObject
  BY <1>1, <1>2, NullTypes, StoreFacts
<1>4. /\ bucket'[cur] = NoObject
      /\ \A d \in Buckets : d # cur => /\ bucket'[d] = bucket[d]
                                       /\ watch'[d] = watch[d]
  BY <1>1, NullTypes, StoreFacts
<1>5. \A d \in Buckets : d # cur => released'[d] = released[d]
  BY <1>1 DEF TypeInv, TypeOK
<1> QED BY <1>1, <1>2, <1>3, <1>4, <1>5 DEF NoObject

LEMMA ReleaseNext ==
    ASSUME TypeInv, CopiesInv, RequestInv, DeletionInv, ReleaseInv,
           GoneWhenReleased, Next
    PROVE  ReleaseInv' /\ GoneWhenReleased'
<1>1. CASE UserStep
  <2>1. PICK b \in Buckets, new \in BucketRec : UserStore(b, new)
    BY <1>1 DEF UserStep
  <2>2. ~ released'[b]
    BY <2>1 DEF UserStore, ReleaseInv
  <2>3. /\ UNCHANGED <<rgw, cache, pc, cur>>
        /\ \A d \in Buckets : d # b =>
             /\ bucket'[d] = bucket[d] /\ watch'[d] = watch[d]
             /\ asked'[d] = asked[d] /\ released'[d] = released[d]
    BY <2>1, StoreFacts DEF UserStore
  <2> QED BY <2>2, <2>3 DEF ReleaseInv, GoneWhenReleased
<1>2. CASE OutsideStep
  BY <1>2, OutsideKeeps DEF ReleaseInv, GoneWhenReleased, RgwKept
<1>3. CASE DeliverStep
  <2>1. PICK b \in Buckets : Deliver(b)
    BY <1>3 DEF DeliverStep
  <2>2. UNCHANGED <<bucket, rgw, pc, cur, asked, released>>
    BY <2>1, DeliverFacts
  <2>3. ASSUME NEW d \in Buckets, released[d]
        PROVE  /\ cache'[d].state # "live"
               /\ \A i \in DOMAIN watch'[d] : watch'[d][i].state # "live"
    BY <2>1, <2>3, DeliverFacts DEF ReleaseInv
  <2> QED BY <2>2, <2>3 DEF ReleaseInv, GoneWhenReleased
<1>4. CASE ReconcileStep
  <2>1. PICK b \in Buckets : Reconcile(b)
    BY <1>4 DEF ReconcileStep
  <2>2. CASE ReconcileNotFound(b) \/ ReconcileNoAgent(b)
    BY <2>2 DEF ReconcileNotFound, ReconcileNoAgent, ReleaseInv,
                GoneWhenReleased, clusterVars, infVars, reqVars, ghosts, vars
  <2>3. CASE ReconcileFound(b)
    <3>1. /\ UNCHANGED <<bucket, rgw, cache, watch, asked, released>>
          /\ cur' = b
          /\ pc' = IF cache[b].state = "live" THEN "bucket" ELSE "remove"
      BY <2>3 DEF ReconcileFound, Goto, clusterVars, infVars, ghosts
    <3> QED BY <3>1 DEF ReleaseInv, GoneWhenReleased, ProvisionSteps
  <2> QED BY <2>1, <2>2, <2>3 DEF Reconcile
<1>5. CASE WorkerStep
  <2>1. pc # "idle" /\ cur \in Buckets /\ UNCHANGED <<cache, asked>>
    BY <1>5, WorkerWrites
  <2>2. CASE Releases
    <3>1. ASSUME asked[cur] = {"delete"}
          PROVE  ~ rgw[cur].exists
      <4>1. bucket[cur] = obj /\ obj.state = "terminating"
        BY <2>2, ReleasesFacts
      <4>2. obj.spec.policy = "delete"
        BY <2>1, <3>1, <4>1 DEF DeletionInv, Marked
      <4>3. Harmless(cur, obj)
        BY <2>2 DEF Releases, DeletionInv
      <4> QED BY <4>2, <4>3 DEF Harmless
    <3> QED BY <2>1, <2>2, <3>1, ReleasesFacts
            DEF ReleaseInv, GoneWhenReleased, ProvisionSteps
  <2>3. CASE ~ Releases
    <3>1. UNCHANGED released
      BY <1>5, <2>3, WorkerWrites
    <3>2. \A d \in Buckets :
            released[d] /\ rgw'[d].exists => rgw[d].exists
      BY <1>5, WorkerExists DEF ReleaseInv, ProvisionSteps
    <3>3. pc' \in ProvisionSteps => pc \in ProvisionSteps /\ cur' = cur
      BY <1>5, <2>3, WorkerMoves
         DEF Requeue, Finishes, EndReconcile, Continues, ProvisionSteps
    <3>4. ASSUME NEW d \in Buckets, released[d]
          PROVE  /\ bucket'[d].state = "absent"
                 /\ \A i \in DOMAIN watch'[d] : watch'[d][i].state # "live"
      BY <1>5, <2>3, <3>4, WorkerMarks DEF ReleaseInv, SameGeneration
    <3> QED BY <2>1, <3>1, <3>2, <3>3, <3>4 DEF ReleaseInv, GoneWhenReleased
  <2> QED BY <2>2, <2>3
<1>6. CASE Crash
  BY <1>6 DEF Crash, EndReconcile, ReleaseInv, GoneWhenReleased, clusterVars,
              ghosts, ProvisionSteps
<1>7. CASE Restart
  BY <1>7 DEF Restart, ReleaseInv, GoneWhenReleased, clusterVars, reqVars,
              ghosts
<1> QED BY <1>1, <1>2, <1>3, <1>4, <1>5, <1>6, <1>7, Steps

-----------------------------------------------------------------------------
(* A copy that is out of date is followed by an event that says so. *)

(* A version of another generation overtakes every copy there is. *)
LEMMA Overtakes ==
    ASSUME TypeInv, CopiesInv, up, NEW b \in Buckets, NEW new \in BucketRec,
           Store(b, new), ~ SameGeneration(new, bucket[b]), NEW v, NEW i,
           \/ i = 0 /\ v = cache[b]
           \/ i \in DOMAIN watch[b] /\ v = watch[b][i]
    PROVE  \E j \in DOMAIN watch'[b] :
             j > i /\ ~ SameGeneration(watch'[b][j], v)
<1>1. /\ Len(watch'[b]) \in DOMAIN watch'[b]
      /\ watch'[b][Len(watch'[b])] = new
      /\ Len(watch'[b]) > i
      /\ \A j \in DOMAIN watch[b] :
           j \in DOMAIN watch'[b] /\ watch'[b][j] = watch[b][j]
  BY StoreFacts
<1>2. CASE ~ SameGeneration(new, v)
  BY <1>1, <1>2
<1>3. CASE SameGeneration(new, v)
  <2> DEFINE n == Len(watch[b])
  <2>1. ~ SameGeneration(bucket[b], v) /\ v # bucket[b]
    BY <1>3 DEF SameGeneration
  <2>2. watch[b] # <<>>
    BY <2>1 DEF CopiesInv
  <2>3. watch[b] \in Seq(BucketRec) /\ watch[b][n] = bucket[b]
    BY <2>2 DEF CopiesInv, TypeInv, TypeOK
  <2>4. n \in DOMAIN watch[b] /\ n > i
    <3>1. n \in Nat /\ n > 0 /\ DOMAIN watch[b] = 1 .. n
      BY <2>2, <2>3
    <3>2. i # n
      BY <2>1, <2>3, <3>1
    <3> QED BY <3>1, <3>2
  <2> QED BY <1>1, <2>1, <2>3, <2>4
<1> QED BY <1>2, <1>3

(* A write of the worker's leaves what copies say as true as it was. *)
LEMMA Carries ==
    ASSUME TypeInv, NEW b \in Buckets, NEW new \in BucketRec, Store(b, new),
           Follows(new, bucket[b]), NEW v, NEW i
    PROVE  /\ Holds(b, v) => /\ v.fin => bucket'[b].fin
                             /\ v.status.created => bucket'[b].status.created
           /\ Overtaken(b, v, i) =>
                \E j \in DOMAIN watch'[b] :
                  j > i /\ ~ SameGeneration(watch'[b][j], v)
BY StoreFacts DEF Holds, Overtaken, Follows

LEMMA HistoryStore ==
    ASSUME TypeInv, CopiesInv, HistoryInv, NEW b \in Buckets,
           NEW new \in BucketRec, Store(b, new), UNCHANGED <<up, cache>>,
           ~ SameGeneration(new, bucket[b]) \/ Follows(new, bucket[b])
    PROVE  HistoryInv'
<1> SUFFICES ASSUME NEW d \in Buckets, up
             PROVE  /\ Holds(d, cache[d])' \/ Overtaken(d, cache[d], 0)'
                    /\ \A i \in DOMAIN watch'[d] :
                         \/ Holds(d, watch[d][i])'
                         \/ Overtaken(d, watch[d][i], i)'
  BY DEF HistoryInv
<1>1. CASE d # b
  <2>1. bucket'[d] = bucket[d] /\ watch'[d] = watch[d]
    BY <1>1, StoreFacts
  <2> QED BY <2>1 DEF HistoryInv, Holds, Overtaken
<1>2. CASE d = b
  <2>1. Holds(b, cache[b])' \/ Overtaken(b, cache[b], 0)'
    <3>1. CASE ~ SameGeneration(new, bucket[b])
      BY <3>1, Overtakes DEF Overtaken
    <3>2. CASE Follows(new, bucket[b])
      BY <3>2, Carries DEF HistoryInv, Holds, Overtaken
    <3> QED BY <3>1, <3>2
  <2>2. ASSUME NEW i \in DOMAIN watch'[b]
        PROVE  Holds(b, watch[b][i])' \/ Overtaken(b, watch[b][i], i)'
    <3>1. CASE watch'[b][i] = new
      BY <3>1, StoreFacts DEF Holds
    <3>2. CASE i \in DOMAIN watch[b] /\ watch'[b][i] = watch[b][i]
      <4>1. CASE ~ SameGeneration(new, bucket[b])
        BY <3>2, <4>1, Overtakes DEF Overtaken
      <4>2. CASE Follows(new, bucket[b])
        <5>1. Holds(b, watch[b][i]) \/ Overtaken(b, watch[b][i], i)
          BY <3>2 DEF HistoryInv
        <5> QED BY <3>2, <4>2, <5>1, Carries DEF Holds, Overtaken
      <4> QED BY <4>1, <4>2
    <3> QED BY <3>1, <3>2, StoreFacts
  <2> QED BY <1>2, <2>1, <2>2
<1> QED BY <1>1, <1>2

(* The first event is taken out: what overtakes a copy that is not of        *)
(* another generation than that event stays.                                *)
LEMMA DeliverOvertakes ==
    ASSUME TypeInv, NEW b \in Buckets, Deliver(b)
    PROVE  /\ 1 \in DOMAIN watch[b] /\ cache'[b] = watch[b][1]
           /\ \A v : Overtaken(b, v, 0) /\ SameGeneration(watch[b][1], v) =>
                \E j \in DOMAIN watch'[b] :
                  j > 0 /\ ~ SameGeneration(watch'[b][j], v)
           /\ \A v : Overtaken(b, v, 1) =>
                \E j \in DOMAIN watch'[b] :
                  j > 0 /\ ~ SameGeneration(watch'[b][j], v)
           /\ \A i \in DOMAIN watch'[b] :
                /\ i + 1 \in DOMAIN watch[b] /\ watch'[b][i] = watch[b][i + 1]
                /\ \A v : Overtaken(b, v, i + 1) =>
                     \E j \in DOMAIN watch'[b] :
                       j > i /\ ~ SameGeneration(watch'[b][j], v)
<1>1. /\ watch[b] \in Seq(BucketRec) /\ watch[b] # <<>>
      /\ cache'[b] = Head(watch[b]) /\ watch'[b] = Tail(watch[b])
  BY DEF Deliver, TypeInv, TypeOK
<1>2. /\ 1 \in DOMAIN watch[b] /\ Head(watch[b]) = watch[b][1]
      /\ \A i \in DOMAIN watch'[b] :
           i \in Nat /\ i + 1 \in DOMAIN watch[b] /\ watch'[b][i] = watch[b][i + 1]
      /\ \A i \in DOMAIN watch[b] :
           i \in Nat /\ (i = 1 \/ (i - 1 \in DOMAIN watch'[b]
                                /\ watch[b][i] = watch'[b][i - 1]))
      /\ \A i \in DOMAIN watch[b] : i > 0
  BY <1>1, TailFacts
<1>3. ASSUME NEW k \in Nat, NEW v, Overtaken(b, v, k + 1)
      PROVE  \E j \in DOMAIN watch'[b] :
               j > k /\ ~ SameGeneration(watch'[b][j], v)
  <2>1. PICK i \in DOMAIN watch[b] :
          i > k + 1 /\ ~ SameGeneration(watch[b][i], v)
    BY <1>3 DEF Overtaken
  <2>2. i \in Nat /\ i # 1 /\ i - 1 > k
    BY <1>2, <2>1
  <2> QED BY <1>2, <2>1, <2>2
<1>4. ASSUME NEW v, Overtaken(b, v, 0), SameGeneration(watch[b][1], v)
      PROVE  \E j \in DOMAIN watch'[b] :
               j > 0 /\ ~ SameGeneration(watch'[b][j], v)
  <2>1. PICK i \in DOMAIN watch[b] : ~ SameGeneration(watch[b][i], v)
    BY <1>4 DEF Overtaken
  <2>2. i \in Nat /\ i > 0 /\ i # 1 /\ i - 1 > 0
    BY <1>2, <1>4, <2>1
  <2> QED BY <1>2, <2>1, <2>2
<1>5. \A v : Overtaken(b, v, 1) =>
        \E j \in DOMAIN watch'[b] :
          j > 0 /\ ~ SameGeneration(watch'[b][j], v)
  BY <1>3, 0 \in Nat, 0 + 1 = 1
<1> QED BY <1>1, <1>2, <1>3, <1>4, <1>5

LEMMA HistoryNext ==
    ASSUME TypeInv, CopiesInv, RequestInv, HistoryInv, Next
    PROVE  HistoryInv'
<1>1. CASE UserStep
  <2>1. PICK b \in Buckets, new \in BucketRec : UserStore(b, new)
    BY <1>1 DEF UserStep
  <2> QED BY <2>1, HistoryStore DEF UserStore
<1>2. CASE OutsideStep
  BY <1>2, OutsideKeeps DEF HistoryInv, Holds, Overtaken
<1>3. CASE DeliverStep
  <2>1. PICK b \in Buckets : Deliver(b)
    BY <1>3 DEF DeliverStep
  <2>2. up /\ bucket' = bucket
    BY <2>1 DEF Deliver, clusterVars
  <2>3. ASSUME NEW d \in Buckets, d # b
        PROVE  cache'[d] = cache[d] /\ watch'[d] = watch[d]
    BY <2>1, <2>3, DeliverFacts
  <2>4. Holds(b, cache[b])' \/ Overtaken(b, cache[b], 0)'
    BY <2>1, <2>2, DeliverOvertakes DEF HistoryInv, Holds, Overtaken
  <2>5. ASSUME NEW i \in DOMAIN watch'[b]
        PROVE  Holds(b, watch[b][i])' \/ Overtaken(b, watch[b][i], i)'
    <3>1. /\ i + 1 \in DOMAIN watch[b] /\ watch'[b][i] = watch[b][i + 1]
          /\ \A v : Overtaken(b, v, i + 1) =>
               \E j \in DOMAIN watch'[b] :
                 j > i /\ ~ SameGeneration(watch'[b][j], v)
      BY <2>1, DeliverOvertakes
    <3>2. Holds(b, watch[b][i + 1]) \/ Overtaken(b, watch[b][i + 1], i + 1)
      BY <2>2, <3>1 DEF HistoryInv
    <3>3. CASE Holds(b, watch[b][i + 1])
      BY <2>2, <3>1, <3>3 DEF Holds
    <3>4. CASE Overtaken(b, watch[b][i + 1], i + 1)
      <4>1. \E j \in DOMAIN watch'[b] :
              j > i /\ ~ SameGeneration(watch'[b][j], watch[b][i + 1])
        BY <3>1, <3>4
      <4> QED BY <3>1, <4>1 DEF Overtaken
    <3> QED BY <3>2, <3>3, <3>4
  <2>6. ASSUME NEW d \in Buckets
        PROVE  /\ Holds(d, cache[d])' \/ Overtaken(d, cache[d], 0)'
               /\ \A i \in DOMAIN watch'[d] :
                    \/ Holds(d, watch[d][i])'
                    \/ Overtaken(d, watch[d][i], i)'
    <3>1. CASE d = b
      BY <2>4, <2>5, <3>1
    <3>2. CASE d # b
      BY <2>2, <2>3, <3>2 DEF HistoryInv, Holds, Overtaken
    <3> QED BY <3>1, <3>2
  <2> QED BY <2>6 DEF HistoryInv
<1>4. CASE ReconcileStep
  BY <1>4 DEF ReconcileStep, Reconcile, ReconcileNotFound, ReconcileNoAgent,
              ReconcileFound, HistoryInv, Holds, Overtaken, clusterVars,
              infVars, vars
<1>5. CASE WorkerStep
  <2>1. cur \in Buckets /\ UNCHANGED <<up, cache>>
    BY <1>5, WorkerWrites
  <2>2. CASE UNCHANGED <<bucket, watch>>
    BY <2>1, <2>2 DEF HistoryInv, Holds, Overtaken
  <2>3. CASE Writes
    BY <2>1, <2>3, HistoryStore DEF Writes
  <2>4. CASE Releases
    <3>1. ~ SameGeneration(NoObject, bucket[cur])
      BY <2>4, ReleasesFacts DEF SameGeneration, NoObject
    <3> QED BY <2>1, <2>4, <3>1, NullTypes, HistoryStore DEF Releases
  <2> QED BY <1>5, <2>2, <2>3, <2>4, WorkerWrites
<1>6. CASE Crash
  BY <1>6 DEF Crash, HistoryInv
<1>7. CASE Restart
  <2>1. \A b \in Buckets : watch'[b] = <<>> /\ bucket'[b] = cache'[b]
    BY <1>7 DEF Restart, CopiesInv, clusterVars
  <2> QED BY <2>1 DEF HistoryInv, Holds
<1> QED BY <1>1, <1>2, <1>3, <1>4, <1>5, <1>6, <1>7, Steps

-----------------------------------------------------------------------------
(* What the cache has as live is provided for. *)

(* ProvisionInv for one S3Bucket. *)
ProvidedFor(b) ==
    /\ InProgress(b) => /\ SameGeneration(obj, cache[b])
                        /\ Holds(b, obj) \/ Overtaken(b, cache[b], 0)
    /\ InProgress(b) /\ pc = "addFinalizer" => obj.status.created
    /\ \/ InProgress(b) /\ pc \in {"bucket", "policy", "policyFailed"}
       \/ Provisioned(b, cache[b])
    /\ InProgress(b) \/ Finished(b) \/ Overtaken(b, cache[b], 0)

LEMMA ProvisionIsForAll ==
    /\ ProvisionInv <=> \A b \in Buckets :
         up /\ cache[b].state = "live" /\ b \notin queue => ProvidedFor(b)
    /\ ProvisionInv' <=> \A b \in Buckets :
         up' /\ cache'[b].state = "live" /\ b \notin queue' => ProvidedFor(b)'
BY DEF ProvisionInv, ProvidedFor

LEMMA ProvisionUser ==
    ASSUME TypeInv, CopiesInv, NEW b \in Buckets, NEW new \in BucketRec,
           UserStore(b, new), NEW d \in Buckets, up, ProvidedFor(d)
    PROVE  ProvidedFor(d)'
<1>1. UNCHANGED <<rgw, cache, pc, cur, obj>>
  BY DEF UserStore
<1>2. CASE d # b
  <2>1. bucket'[d] = bucket[d] /\ watch'[d] = watch[d]
    BY <1>2, StoreFacts DEF UserStore
  <2> QED BY <1>1, <2>1
          DEF ProvidedFor, InProgress, Holds, Overtaken, Provisioned, Finished
<1>3. CASE d = b
  <2>1. Overtaken(b, cache[b], 0)'
    BY <1>1, Overtakes DEF UserStore, Overtaken
  <2> QED BY <1>1, <1>3, <2>1 DEF ProvidedFor, InProgress, Provisioned
<1> QED BY <1>2, <1>3

LEMMA ProvisionDeliver ==
    ASSUME TypeInv, NEW b \in Buckets, Deliver(b), NEW d \in Buckets,
           cache'[d].state = "live", d \notin queue',
           cache[d].state = "live" => ProvidedFor(d)
    PROVE  ProvidedFor(d)'
<1>1. UNCHANGED <<bucket, rgw, pc, cur, obj>>
  BY DeliverFacts
<1>2. CASE d # b
  <2>1. cache'[d] = cache[d] /\ watch'[d] = watch[d]
    BY <1>2, DeliverFacts
  <2> QED BY <1>1, <2>1
          DEF ProvidedFor, InProgress, Holds, Overtaken, Provisioned, Finished
<1>3. CASE d = b
  <2>1. SameGeneration(cache'[b], cache[b]) /\ cache'[b] = watch[b][1]
    <3>1. ~ GenerationChanged(cache[b], Head(watch[b]))
      BY <1>3 DEF Deliver
    <3>2. cache'[b] = Head(watch[b])
      BY DEF Deliver, TypeInv, TypeOK
    <3> QED BY <3>1, <3>2, DeliverOvertakes
            DEF GenerationChanged, SameGeneration
  <2>2. ProvidedFor(b)
    BY <1>3, <2>1 DEF SameGeneration
  <2>3. Overtaken(b, cache[b], 0) => Overtaken(b, cache[b], 0)'
    <3> SUFFICES ASSUME Overtaken(b, cache[b], 0)
                 PROVE  Overtaken(b, cache[b], 0)'
      OBVIOUS
    <3>1. \E j \in DOMAIN watch'[b] :
            j > 0 /\ ~ SameGeneration(watch'[b][j], cache[b])
      BY <2>1, DeliverOvertakes DEF SameGeneration
    <3> QED BY <2>1, <3>1 DEF Overtaken, SameGeneration
  <2>4. Provisioned(b, cache[b]) => Provisioned(b, cache[b])'
    BY <1>1, <2>1 DEF Provisioned, SameGeneration
  <2>5. /\ InProgress(b)' <=> InProgress(b)
        /\ Finished(b)' <=> Finished(b)
        /\ Holds(b, obj)' <=> Holds(b, obj)
        /\ SameGeneration(obj, cache[b]) => SameGeneration(obj, cache[b])'
    BY <1>1, <2>1 DEF InProgress, Finished, Holds, SameGeneration
  <2> QED BY <1>1, <1>3, <2>2, <2>3, <2>4, <2>5 DEF ProvidedFor
<1> QED BY <1>2, <1>3

(* The policy is that of the version in hand. *)
LEMMA PolicedProvisioned ==
    ASSUME TypeInv, RgwPoliced, NEW d \in Buckets, d = cur,
           UNCHANGED cache, SameGeneration(obj, cache[d])
    PROVE  Provisioned(d, cache[d])'
<1> DEFINE p == PolicyStatements(AccessMap, obj.spec.ref)
<1>1. /\ rgw' = [rgw EXCEPT ![d] = [rgw[d] EXCEPT !.policy = p]]
      /\ rgw[d].exists /\ rgw[d].owner = obj.spec.ref
  BY DEF RgwPoliced, Owned, PutPolicy
<1>2. p = PolicyStatements(SubuserAccessMap(cache'[d].spec.bindings),
                           cache'[d].spec.ref)
  BY DEF AccessMap, SameGeneration
<1> HIDE DEF p
<1>3. /\ rgw'[d].exists /\ rgw'[d].owner = obj.spec.ref
      /\ rgw'[d].policy = p
  BY <1>1 DEF TypeInv, TypeOK, RgwRec
<1> QED BY <1>2, <1>3 DEF Provisioned, SameGeneration

LEMMA ProvisionWorker ==
    ASSUME TypeInv, CopiesInv, RequestInv, WorkerStep, NEW d \in Buckets,
           cache[d].state = "live", d \notin queue', ProvidedFor(d)
    PROVE  ProvidedFor(d)'
<1>0. /\ pc # "idle" /\ cur \in Buckets /\ UNCHANGED <<up, cache>>
      /\ pc' = "idle" \/ cur' = cur
  BY WorkerWrites, WorkerMoves
     DEF Requeue, Finishes, Releases, EndReconcile, Continues
<1>1. \/ UNCHANGED <<bucket, watch>>
      \/ \E new \in BucketRec : Store(cur, new)
  BY WorkerWrites, NullTypes DEF Writes, Releases
<1>2. CASE d # cur
  <2>1. bucket'[d] = bucket[d] /\ watch'[d] = watch[d] /\ rgw'[d] = rgw[d]
    BY <1>0, <1>1, <1>2, StoreFacts, WorkerRgw
  <2> QED BY <1>0, <1>2, <2>1
          DEF ProvidedFor, InProgress, Holds, Overtaken, Provisioned, Finished
<1>3. CASE d = cur
  <2>1. /\ InProgress(d) /\ SameGeneration(obj, cache[d])
        /\ Holds(d, obj) \/ Overtaken(d, cache[d], 0)
        /\ obj.state = "live"
    BY <1>0, <1>3 DEF ProvidedFor, InProgress, SameGeneration
  <2>2. ~ Requeue /\ ~ Releases
    BY <1>3, <2>1, ReleasesFacts DEF Requeue
  <2>3. /\ Overtaken(d, cache[d], 0) => Overtaken(d, cache[d], 0)'
        /\ Holds(d, obj) =>
             /\ obj.fin => bucket'[d].fin
             /\ obj.status.created => bucket'[d].status.created
    <3>1. CASE UNCHANGED <<bucket, watch>>
      BY <1>0, <3>1 DEF Overtaken, Holds, SameGeneration
    <3>2. CASE Writes
      <4>1. PICK new \in BucketRec : Store(d, new) /\ Follows(new, bucket[d])
        BY <1>3, <3>2 DEF Writes
      <4> QED BY <1>0, <4>1, Carries DEF Overtaken
    <3> QED BY <2>2, <3>1, <3>2, WorkerWrites
  <2>4. CASE Finishes
    <3>1. ~ InProgress(d)'
      BY <2>4 DEF Finishes, EndReconcile, InProgress
    <3>2. Provisioned(d, cache[d])'
      BY <1>0, <1>3, <2>4 DEF Finishes, ProvidedFor, Provisioned
    <3>3. Finished(d)' \/ Overtaken(d, cache[d], 0)'
      <4>1. obj.status.created
        BY <1>3, <2>1, <2>4 DEF Finishes, ProvidedFor
      <4>2. CASE obj.fin /\ UNCHANGED <<bucket, watch>>
        BY <2>1, <2>3, <4>1, <4>2 DEF Finished
      <4>3. CASE fresh /\ Store(cur, [bucket[cur] EXCEPT !.fin = TRUE])
        <5>1. bucket[cur].status.created /\ bucket[cur] \in BucketRec
          BY <1>0, <4>1, <4>3 DEF RequestInv, TypeInv, TypeOK
        <5>2. bucket'[cur] = [bucket[cur] EXCEPT !.fin = TRUE]
          BY <1>0, <4>3 DEF Store, TypeInv, TypeOK
        <5> QED BY <1>3, <5>1, <5>2 DEF Finished, BucketRec
      <4> QED BY <2>4, <4>2, <4>3 DEF Finishes
    <3> QED BY <1>3, <3>1, <3>2, <3>3 DEF ProvidedFor
  <2>5. CASE Continues
    <3>1. pc' # "idle" /\ cur' = cur /\ InProgress(d)'
      BY <1>3, <2>5 DEF Continues, InProgress, ProvisionSteps
    <3>2. SameGeneration(obj, cache[d])'
      BY <1>0, <2>1, <2>5 DEF Continues, SameGeneration
    <3>3. Holds(d, obj)' \/ Overtaken(d, cache[d], 0)'
      <4>1. CASE obj' = obj
        BY <2>1, <2>3, <3>1, <4>1 DEF Holds
      <4>2. CASE obj' = bucket'[cur]
        BY <1>3, <4>2 DEF Holds
      <4> QED BY <1>0, <2>5, <4>1, <4>2 DEF Continues, RequestInv
    <3>4. pc' = "addFinalizer" => obj'.status.created
      BY <2>5 DEF Continues
    <3>5. \/ pc' \in {"policy", "policyFailed"}
          \/ Provisioned(d, cache[d])'
      <4>1. pc # "remove"
        BY <2>1 DEF RequestInv, CleanupSteps
      <4>2. CASE pc' = "status"
        BY <1>0, <1>3, <2>1, <2>5, <4>2, WorkerRgw, PolicedProvisioned DEF Continues
      <4>3. CASE pc' = "addFinalizer"
        <5>1. pc = "status" /\ rgw' = rgw
          BY <2>5, <4>3 DEF Continues
        <5>2. Provisioned(d, cache[d])
          BY <1>3, <5>1 DEF ProvidedFor
        <5> QED BY <1>0, <3>1, <5>1, <5>2 DEF Provisioned
      <4> QED BY <2>5, <4>1, <4>2, <4>3 DEF Continues, ProvisionSteps
    <3> QED BY <1>3, <3>1, <3>2, <3>3, <3>4, <3>5 DEF ProvidedFor
  <2> QED BY <2>2, <2>4, <2>5, WorkerMoves
<1> QED BY <1>2, <1>3

LEMMA ProvisionNext ==
    ASSUME TypeInv, CopiesInv, RequestInv, HistoryInv, ProvisionInv, Next
    PROVE  ProvisionInv'
<1> SUFFICES ASSUME NEW d \in Buckets, up', cache'[d].state = "live",
                    d \notin queue'
             PROVE  ProvidedFor(d)'
  BY ProvisionIsForAll
<1>1. CASE UserStep
  <2>1. PICK b \in Buckets, new \in BucketRec : UserStore(b, new)
    BY <1>1 DEF UserStep
  <2>2. up /\ cache[d].state = "live" /\ d \notin queue
    BY <2>1 DEF UserStore
  <2> QED BY <2>1, <2>2, ProvisionUser, ProvisionIsForAll
<1>2. CASE OutsideStep
  <2>1. ProvidedFor(d)
    BY <1>2, OutsideKeeps, ProvisionIsForAll
  <2> QED BY <1>2, <2>1, OutsideKeeps
          DEF ProvidedFor, InProgress, Holds, Overtaken, Provisioned, Finished,
              RgwKept
<1>3. CASE DeliverStep
  <2>1. PICK b \in Buckets : Deliver(b)
    BY <1>3 DEF DeliverStep
  <2>2. up /\ d \notin queue
    BY <2>1 DEF Deliver
  <2> QED BY <2>1, <2>2, ProvisionDeliver, ProvisionIsForAll
<1>4. CASE ReconcileStep
  <2>1. PICK b \in Buckets : Reconcile(b)
    BY <1>4 DEF ReconcileStep
  <2>2. CASE ReconcileNotFound(b)
    <3>1. UNCHANGED <<bucket, rgw, up, cache, watch, pc, cur, obj>>
      BY <2>2 DEF ReconcileNotFound, clusterVars, infVars, reqVars
    <3>2. d \notin queue
      BY <2>2, <3>1 DEF ReconcileNotFound
    <3>3. ProvidedFor(d)
      BY <3>1, <3>2, ProvisionIsForAll
    <3> QED BY <3>1, <3>3
            DEF ProvidedFor, InProgress, Holds, Overtaken, Provisioned, Finished
  <2>3. CASE ReconcileNoAgent(b)
    BY <2>3, ProvisionIsForAll
       DEF ReconcileNoAgent, vars, ProvidedFor, InProgress, Holds, Overtaken,
           Provisioned, Finished
  <2>4. CASE ReconcileFound(b)
    <3>1. /\ UNCHANGED <<bucket, rgw, up, cache, watch>>
          /\ pc = "idle" /\ cur' = b /\ obj' = cache[b]
          /\ queue' = queue \ {b}
          /\ cache[b].state = "live" => pc' = "bucket"
      BY <2>4 DEF ReconcileFound, Goto, clusterVars, infVars
    <3>2. CASE d = b
      <4>1. Holds(b, cache[b]) \/ Overtaken(b, cache[b], 0)
        BY <3>1 DEF HistoryInv
      <4> QED BY <3>1, <3>2, <4>1
              DEF ProvidedFor, InProgress, Holds, Overtaken, SameGeneration
    <3>3. CASE d # b
      <4>1. ProvidedFor(d)
        BY <3>1, <3>3, ProvisionIsForAll
      <4> QED BY <3>1, <3>3, <4>1
              DEF ProvidedFor, InProgress, Holds, Overtaken, Provisioned,
                  Finished
    <3> QED BY <3>2, <3>3
  <2> QED BY <2>1, <2>2, <2>3, <2>4 DEF Reconcile
<1>5. CASE WorkerStep
  <2>1. up /\ cache[d].state = "live"
    BY <1>5, WorkerWrites
  <2>2. d \notin queue
    BY <1>5, WorkerMoves
       DEF Requeue, Continues, Finishes, Releases
  <2> QED BY <1>5, <2>1, <2>2, ProvisionWorker, ProvisionIsForAll
<1>6. CASE Crash
  BY <1>6 DEF Crash
<1>7. CASE Restart
  BY <1>7 DEF Restart, clusterVars
<1> QED BY <1>1, <1>2, <1>3, <1>4, <1>5, <1>6, <1>7, Steps

-----------------------------------------------------------------------------
(* The theorems. *)

LEMMA SafetyInit == Init => SafetyInv
<1> SUFFICES ASSUME Init
             PROVE  SafetyInv
  OBVIOUS
<1>1. CopiesInv /\ RequestInv /\ HistoryInv
  BY DEF Init, CopiesInv, RequestInv, HistoryInv, Holds, ProvisionSteps,
         CleanupSteps
<1>2. DeletionInv
  BY DEF Init, DeletionInv, NoObject, ProvisionSteps, CleanupSteps
<1>3. ReleaseInv /\ GoneWhenReleased /\ ProvisionInv
  BY DEF Init, ReleaseInv, GoneWhenReleased, ProvisionInv, NoObject
<1> QED BY <1>1, <1>2, <1>3 DEF SafetyInv

LEMMA SafetyNext ==
    ASSUME TypeInv, SafetyInv, [Next]_vars
    PROVE  SafetyInv'
<1>1. CASE Next
  BY <1>1, TypeNext, CopiesNext, RequestNext, DeletionNext, ReleaseNext,
     HistoryNext, ProvisionNext DEF SafetyInv
<1>2. CASE UNCHANGED vars
  <2>1. CopiesInv' /\ RequestInv' /\ HistoryInv'
    BY <1>2 DEF SafetyInv, vars, CopiesInv, RequestInv, HistoryInv, Holds,
                Overtaken
  <2>2. DeletionInv'
    BY <1>2 DEF SafetyInv, vars, DeletionInv, Marked, Harmless
  <2>3. ReleaseInv' /\ GoneWhenReleased'
    BY <1>2 DEF SafetyInv, vars, ReleaseInv, GoneWhenReleased
  <2>4. ProvisionInv'
    BY <1>2 DEF SafetyInv, vars, ProvisionInv, InProgress, Holds, Overtaken,
                Provisioned, Finished
  <2> QED BY <2>1, <2>2, <2>3, <2>4 DEF SafetyInv
<1> QED BY <1>1, <1>2

(* What the worker knows of the S3Buckets is old, but never leads it to      *)
(* delete or to create a bucket against what the users asked (SafetyInv).    *)
THEOREM SafetyCorrect == Spec => [](TypeInv /\ SafetyInv)
<1>1. Init => TypeInv /\ SafetyInv
  BY TypeInit, SafetyInit
<1>2. TypeInv /\ SafetyInv /\ [Next]_vars => (TypeInv /\ SafetyInv)'
  BY TypeNext, SafetyNext
<1> QED BY <1>1, <1>2, PTL DEF Spec

(* An S3Bucket that asked for deletion all along is let go only when its     *)
(* bucket is gone, and nothing creates the bucket again (GoneWhenReleased).  *)
THEOREM GoneCorrect == Spec => []GoneWhenReleased
<1>1. SafetyInv => GoneWhenReleased
  BY DEF SafetyInv
<1> QED BY <1>1, SafetyCorrect, PTL

(* The step property of DeletedOnlyWhenAsked. *)
DeletesAsAsked ==
    \A b \in Buckets :
        rgw[b].exists /\ ~ rgw'[b].exists /\ ~ rgw'[b].lost =>
            /\ bucket[b].state = "terminating"
            /\ "delete" \in asked[b]

LEMMA DeletesNext ==
    ASSUME TypeInv, SafetyInv, [Next]_vars
    PROVE  DeletesAsAsked
<1> SUFFICES ASSUME NEW b \in Buckets,
                    rgw[b].exists, ~ rgw'[b].exists, ~ rgw'[b].lost
             PROVE  /\ bucket[b].state = "terminating"
                    /\ "delete" \in asked[b]
  BY DEF DeletesAsAsked
<1>1. rgw' # rgw
  OBVIOUS
<1>2. Next
  BY <1>1 DEF vars
<1>3. WorkerStep
  <2>1. ~ OutsideStep
    BY OutsideKeeps DEF RgwKept
  <2>2. ~ UserStep /\ ~ DeliverStep
    BY <1>1, DeliverFacts DEF UserStep, UserStore, DeliverStep
  <2>3. ~ ReconcileStep /\ ~ Crash /\ ~ Restart
    BY <1>1 DEF ReconcileStep, Reconcile, ReconcileNotFound, ReconcileNoAgent,
                ReconcileFound, Crash, Restart, clusterVars, vars
  <2> QED BY <1>2, <2>1, <2>2, <2>3, Steps
<1>4. b = cur /\ RgwRemoved
  <2>1. b = cur
    BY <1>3, WorkerRgw
  <2>2. ~ RgwCreated
    BY <2>1 DEF RgwCreated
  <2>3. ~ RgwPoliced
    <3>1. rgw \in [Buckets -> RgwRec] /\ rgw[cur] \in RgwRec
      BY <2>1 DEF TypeInv, TypeOK
    <3>2. PutPolicy => rgw'[cur].exists = rgw[cur].exists
      BY <2>1, <3>1 DEF PutPolicy, RgwRec
    <3> QED BY <2>1, <3>2 DEF RgwPoliced
  <2> QED BY <1>1, <1>3, <2>1, <2>2, <2>3, WorkerRgw
<1>5. Marked(cur, obj)
  BY <1>4 DEF RgwRemoved, SafetyInv, DeletionInv, Harmless, CleanupSteps
<1> QED BY <1>4, <1>5 DEF RgwRemoved, Marked

(* The operator deletes a bucket only while its S3Bucket is marked for       *)
(* deletion and has, since then, asked for it (DeletedOnlyWhenAsked).        *)
THEOREM NeverDeletedUnasked == Spec => DeletedOnlyWhenAsked
<1>1. TypeInv /\ SafetyInv /\ [Next]_vars => DeletesAsAsked
  BY DeletesNext
<1>2. Spec => [][DeletesAsAsked]_vars
  BY <1>1, SafetyCorrect, PTL DEF Spec
<1> QED BY <1>2 DEF DeletedOnlyWhenAsked, DeletesAsAsked

LEMMA SettledFacts ==
    ASSUME TypeInv, SafetyInv, Settled, NEW b \in Buckets,
           bucket[b].state = "live"
    PROVE  /\ Provisioned(b, bucket[b])
           /\ bucket[b].fin /\ bucket[b].status.created
<1>1. /\ up /\ ~ InProgress(b) /\ watch[b] = <<>> /\ b \notin queue
      /\ cache[b] = bucket[b]
  BY DEF Settled, SafetyInv, CopiesInv, InProgress
<1>2. ~ Overtaken(b, cache[b], 0)
  BY <1>1 DEF Overtaken
<1> QED BY <1>1, <1>2 DEF SafetyInv, ProvisionInv, Finished

(* Once all has settled a live S3Bucket has its bucket, in the hands of its  *)
(* claim, and its finalizer, whatever was edited, failed or crashed on the   *)
(* way (BucketWhenSettled).                                                  *)
THEOREM SettledCorrect == Spec => []BucketWhenSettled
<1>1. TypeInv /\ SafetyInv => BucketWhenSettled
  BY SettledFacts DEF BucketWhenSettled, Provisioned
<1> QED BY <1>1, SafetyCorrect, PTL

(* And its subusers may do what the last binding of their name grants, and   *)
(* nobody else anything (AccessFollowsBindings), whatever the bindings are.  *)
THEOREM AccessCorrect == Spec => []AccessFollowsBindings
<1>1. ASSUME TypeInv, SafetyInv
      PROVE  AccessFollowsBindings
  <2> SUFFICES ASSUME Settled, NEW b \in Buckets, bucket[b].state = "live",
                      ~ rgw[b].lost, NEW c \in Owners, NEW s \in Subusers,
                      NEW a \in Actions
               PROVE  Allowed(rgw[b].policy, <<c, s>>, a) <=>
                        /\ c = bucket[b].spec.ref
                        /\ Granted(bucket[b].spec.bindings, s, a)
    BY <1>1 DEF AccessFollowsBindings
  <2>1. rgw[b].policy = PolicyStatements(
                          SubuserAccessMap(bucket[b].spec.bindings),
                          bucket[b].spec.ref)
    BY <1>1, SettledFacts DEF Provisioned
  <2>2. /\ bucket[b].spec.bindings \in Seq(Binding)
        /\ bucket[b].spec.ref \in Owners
    BY <1>1 DEF TypeInv, TypeOK, BucketRec, SpecRec
  <2> QED BY <2>1, <2>2, PolicyExact
<1> QED BY <1>1, SafetyCorrect, PTL
-----------------------------------------------------------------------------
(* BucketReconciler implements BucketLifecycle. *)

LEMMA NamedByPolicy ==
    ASSUME NEW map, NEW owner
    PROVE  /\ Named(PolicyStatements(map, owner)) \subseteq {owner}
           /\ Named({}) = {}
<1>1. ASSUME NEW st \in PolicyStatements(map, owner), NEW c, NEW s,
             <<c, s>> \in st.principals
      PROVE  c = owner
  BY <1>1 DEF PolicyStatements
<1> QED BY <1>1 DEF Named

LEMMA LifecycleTypes ==
    ASSUME TypeInv, OwnedInv, NEW b \in Buckets
    PROVE  /\ Phase[b] \in {"absent", "live", "terminating", "released"}
           /\ ~ released[b] => Phase[b] = bucket[b].state
           /\ released[b] <=> Phase[b] = "released"
           /\ rgw[b].exists => /\ Holder[b] = rgw[b].owner
                               /\ Holder[b] \in Owners /\ Holder[b] # NoOwner
                               /\ Guests[b] = Named(rgw[b].policy)
           /\ ~ rgw[b].exists => Holder[b] = NoOwner /\ Guests[b] = {}
<1>1. bucket[b].state \in {"absent", "live", "terminating"}
      /\ released[b] \in BOOLEAN
  BY DEF TypeInv, TypeOK, BucketRec
<1> QED BY <1>1, NamesAssumption DEF Phase, Holder, Guests, OwnedInv

(* What RGW has of a bucket, as users of it see it. *)
SameBucket(b) == /\ rgw'[b].exists = rgw[b].exists
                 /\ rgw'[b].owner = rgw[b].owner
                 /\ rgw'[b].policy = rgw[b].policy

LEMMA HoldersKept ==
    ASSUME \A b \in Buckets : SameBucket(b)
    PROVE  Holder' = Holder /\ Guests' = Guests
BY DEF SameBucket, Holder, Guests

LEMMA PhasesKept ==
    ASSUME \A b \in Buckets : /\ bucket'[b].state = bucket[b].state
                              /\ released'[b] = released[b]
    PROVE  Phase' = Phase
BY DEF Phase

LEMMA RefinesUser ==
    ASSUME TypeInv, OwnedInv, SafetyInv, NEW b \in Buckets,
           CreateS3Bucket(b) \/ EditS3Bucket(b) \/ DeleteS3Bucket(b)
    PROVE  OwnedInv' /\ (Lifecycle!Next \/ UNCHANGED Lifecycle!vars)
<1>0. /\ bucket \in [Buckets -> BucketRec] /\ bucket[b] \in BucketRec
      /\ released \in [Buckets -> BOOLEAN]
      /\ asked \in [Buckets -> SUBSET {"delete", "retain"}]
      /\ \A s \in SpecsOf[b] : s.policy \in {"delete", "retain"}
  BY SpecsAssumption DEF TypeInv, TypeOK, SpecRec
<1>1. UNCHANGED rgw
  BY DEF CreateS3Bucket, EditS3Bucket, DeleteS3Bucket
<1>2. Holder' = Holder /\ Guests' = Guests /\ OwnedInv'
  BY <1>1 DEF Holder, Guests, OwnedInv
<1>3. released[b] => bucket[b].state = "absent"
  BY DEF SafetyInv, ReleaseInv
<1>4. CASE CreateS3Bucket(b)
  <2>1. bucket'[b].state = "live"
    BY <1>0, <1>4 DEF CreateS3Bucket, Store
  <2>2. Phase[b] \in {"absent", "released"}
    BY <1>4 DEF CreateS3Bucket, Phase
  <2>3. Phase' = [Phase EXCEPT ![b] = "live"]
    BY <1>0, <1>4, <2>1 DEF CreateS3Bucket, Store, Phase
  <2>4. Lifecycle!Create(b)
    BY <1>2, <1>4, <2>2, <2>3 DEF CreateS3Bucket, Lifecycle!Create
  <2> QED BY <1>2, <2>4 DEF Lifecycle!Next
<1>5. CASE EditS3Bucket(b)
  <2>1. PICK s \in SpecsOf[b] :
          /\ Store(b, [bucket[b] EXCEPT !.spec = s])
          /\ asked' = IF bucket[b].state = "live" THEN asked
                      ELSE [asked EXCEPT ![b] = asked[b] \cup {s.policy}]
    BY <1>5 DEF EditS3Bucket
  <2>2. /\ bucket'[b].state = bucket[b].state
        /\ \A d \in Buckets \ {b} : bucket'[d] = bucket[d]
    BY <1>0, <2>1 DEF Store, BucketRec
  <2>3. released' = released /\ bucket[b].state # "absent"
    BY <1>5 DEF EditS3Bucket
  <2>4. Phase' = Phase
    BY <2>2, <2>3, PhasesKept
  <2>5. CASE bucket[b].state = "live"
    BY <1>2, <2>1, <2>4, <2>5 DEF Lifecycle!vars
  <2>6. CASE bucket[b].state # "live"
    <3>1. Phase[b] = "terminating"
      BY <1>0, <1>3, <2>3, <2>6 DEF Phase, BucketRec
    <3>2. Lifecycle!Ask(b)
      BY <1>0, <1>2, <2>1, <2>4, <2>6, <3>1
         DEF Lifecycle!Ask, Lifecycle!AllWishes
    <3> QED BY <1>2, <3>2 DEF Lifecycle!Next
  <2> QED BY <2>5, <2>6
<1>6. CASE DeleteS3Bucket(b)
  <2>1. PICK p \in {"terminating", "absent"} : bucket'[b].state = p
    BY <1>0, <1>6 DEF DeleteS3Bucket, Store, NoObject, BucketRec
  <2>2. /\ \A d \in Buckets \ {b} : bucket'[d] = bucket[d]
        /\ released' = released /\ ~ released[b]
        /\ bucket[b].state = "live"
    BY <1>0, <1>3, <1>6 DEF DeleteS3Bucket, Store
  <2>3. Phase[b] = "live" /\ Phase' = [Phase EXCEPT ![b] = p]
    BY <2>1, <2>2 DEF Phase
  <2>4. bucket[b].spec.policy \in {"delete", "retain"}
    BY <1>0 DEF BucketRec, SpecRec
  <2>5. Lifecycle!Delete(b)
    BY <1>2, <1>6, <2>3, <2>4
       DEF DeleteS3Bucket, Lifecycle!Delete, Lifecycle!AllWishes
  <2> QED BY <1>2, <2>5 DEF Lifecycle!Next
<1> QED BY <1>4, <1>5, <1>6

LEMMA RefinesOutside ==
    ASSUME TypeInv, OwnedInv, OutsideStep
    PROVE  OwnedInv' /\ (Lifecycle!Next \/ UNCHANGED Lifecycle!vars)
<1>0. rgw \in [Buckets -> RgwRec]
  BY DEF TypeInv, TypeOK
<1>1. UNCHANGED <<bucket, asked, released>> /\ UNCHANGED Phase
  BY OutsideKeeps DEF Phase
<1>2. CASE \A b \in Buckets : SameBucket(b)
  <2>1. OwnedInv'
    BY <1>2 DEF OwnedInv, SameBucket
  <2> QED BY <1>1, <1>2, <2>1, HoldersKept DEF Lifecycle!vars
<1>3. ASSUME NEW c \in Owners, PurgeAccount(c)
      PROVE  OwnedInv' /\ Lifecycle!Next
  <2>1. \A b \in Buckets : rgw'[b] = IF rgw[b].owner = c
                                       THEN [NoRgw EXCEPT !.lost = TRUE]
                                       ELSE rgw[b]
    BY <1>3 DEF PurgeAccount
  <2>2. ~ [NoRgw EXCEPT !.lost = TRUE].exists
    BY DEF NoRgw
  <2>3. OwnedInv'
    BY <2>1, <2>2 DEF OwnedInv
  <2>4. c # NoOwner
    BY NamesAssumption
  <2>5. /\ Holder' = [b \in Buckets |-> IF Holder[b] = c THEN NoOwner
                                                         ELSE Holder[b]]
        /\ Guests' = [b \in Buckets |-> IF Holder[b] = c THEN {}
                                                         ELSE Guests[b]]
    BY <2>1, <2>2, <2>4 DEF Holder, Guests
  <2> QED BY <1>1, <2>3, <2>5 DEF Lifecycle!Next, Lifecycle!Lose
<1>4. ASSUME NEW c \in Owners, GrantAccess(c) \/ LoseSecret(c)
      PROVE  \A b \in Buckets : SameBucket(b)
  BY <1>4 DEF GrantAccess, LoseSecret, SameBucket
<1>5. ASSUME NEW d \in Buckets, FillBucket(d) \/ EmptyBucket(d)
      PROVE  \A b \in Buckets : SameBucket(b)
  <2>1. PICK f \in BOOLEAN :
          rgw' = [rgw EXCEPT ![d] = [rgw[d] EXCEPT !.filled = f]]
    BY <1>5 DEF FillBucket, EmptyBucket
  <2> QED BY <1>0, <2>1 DEF SameBucket, RgwRec
<1> QED BY <1>2, <1>3, <1>4, <1>5 DEF OutsideStep, ClaimChange

(* The worker opens a bucket for the claim its S3Bucket names, puts a policy *)
(* for subusers of that claim on it, or closes it.                           *)
LEMMA WorkerOpens ==
    ASSUME TypeInv, WorkerStep, RgwCreated
    PROVE  rgw'[cur].owner = obj.spec.ref /\ rgw'[cur].policy = {}
<1>1. cur \in Buckets /\ rgw \in [Buckets -> RgwRec]
  BY WorkerWrites DEF TypeInv, TypeOK
<1>2. EnsureBucket
  <2>1. ~ Fail
    BY DEF RgwCreated, Fail, Requeue
  <2> QED BY <2>1 DEF RgwCreated, WorkerStep, Provision, Cleanup,
          EnsureBucketPolicy, ReportPolicyFailure, UpdateBucketStatusSuccess,
          AddCleanupFinalizer, RemoveOrRetainBucket, ReportRemoveFailure,
          RemoveCleanupFinalizer, LoseLastAnswer
<1> QED BY <1>1, <1>2 DEF EnsureBucket, RgwCreated

LEMMA RefinesWorker ==
    ASSUME TypeInv, OwnedInv, SafetyInv, WorkerStep
    PROVE  OwnedInv' /\ (Lifecycle!Next \/ UNCHANGED Lifecycle!vars)
<1>0. /\ pc # "idle" /\ cur \in Buckets /\ asked' = asked
      /\ rgw \in [Buckets -> RgwRec] /\ rgw[cur] \in RgwRec
      /\ released \in [Buckets -> BOOLEAN]
      /\ obj.spec.ref \in Owners
  BY WorkerWrites DEF TypeInv, TypeOK, BucketRec
<1>1. CASE Releases
  <2>1. /\ obj = bucket[cur] /\ obj.state = "terminating" /\ UNCHANGED rgw
        /\ bucket'[cur].state = "absent"
        /\ \A d \in Buckets : d # cur => /\ bucket'[d] = bucket[d]
                                         /\ released'[d] = released[d]
    BY <1>1, ReleasesFacts DEF SafetyInv
  <2>2. released'[cur] /\ ~ released[cur] /\ pc = "removeFinalizer"
    BY <1>0, <1>1, <2>1 DEF Releases, SafetyInv, ReleaseInv
  <2>3. Phase[cur] = "terminating" /\ Phase' = [Phase EXCEPT ![cur] = "released"]
    BY <1>0, <2>1, <2>2 DEF Phase
  <2>4. Holder' = Holder /\ Guests' = Guests /\ OwnedInv'
    BY <2>1 DEF Holder, Guests, OwnedInv
  <2>5. Holder[cur] = NoOwner \/ "retain" \in asked[cur]
    <3>1. Harmless(cur, obj) /\ Marked(cur, obj)
      BY <1>0, <2>1, <2>2 DEF SafetyInv, DeletionInv
    <3> QED BY <1>0, <3>1 DEF Harmless, Marked, Holder
  <2>6. Lifecycle!Release(cur)
    BY <1>0, <2>3, <2>4, <2>5 DEF Lifecycle!Release
  <2> QED BY <1>0, <2>4, <2>6 DEF Lifecycle!Next
<1>2. CASE ~ Releases
  <2>1. Phase' = Phase
    <3>1. \A d \in Buckets : SameGeneration(bucket'[d], bucket[d])
      BY <1>2, WorkerMarks
    <3>2. released' = released
      BY <1>2, WorkerWrites
    <3> QED BY <3>1, <3>2, PhasesKept DEF SameGeneration
  <2>2. \A d \in Buckets : d # cur => rgw'[d] = rgw[d]
    BY WorkerRgw
  <2>3. CASE UNCHANGED rgw
    BY <1>0, <2>1, <2>3 DEF Lifecycle!vars, Holder, Guests, OwnedInv
  <2>4. CASE RgwCreated
    <3>1. rgw'[cur].owner = obj.spec.ref /\ rgw'[cur].policy = {}
      BY <2>4, WorkerOpens
    <3>2. /\ Holder[cur] = NoOwner
          /\ Holder' = [Holder EXCEPT ![cur] = obj.spec.ref]
      BY <1>0, <2>2, <2>4, <3>1 DEF RgwCreated, Holder
    <3>6. Guests' = Guests
      <4>1. Named(rgw'[cur].policy) = {}
        BY <3>1, NamedByPolicy
      <4> QED BY <1>0, <2>2, <2>4, <4>1 DEF RgwCreated, Guests
    <3>3. Phase[cur] # "released"
      <4>1. ~ released[cur]
        BY <1>0, <2>4 DEF RgwCreated, SafetyInv, ReleaseInv, ProvisionSteps
      <4> QED BY <1>0, <4>1, LifecycleTypes
    <3>4. Lifecycle!Open(cur)
      BY <1>0, <2>1, <3>2, <3>3, <3>6 DEF Lifecycle!Open
    <3>5. OwnedInv'
      BY <1>0, <2>2, <3>1 DEF OwnedInv
    <3> QED BY <1>0, <3>4, <3>5 DEF Lifecycle!Next
  <2>5. CASE RgwPoliced
    <3> DEFINE policy == PolicyStatements(AccessMap, obj.spec.ref)
    <3>1. /\ rgw[cur].exists /\ rgw[cur].owner = obj.spec.ref
          /\ rgw'[cur].exists /\ rgw'[cur].owner = obj.spec.ref
          /\ rgw'[cur].policy = policy
      BY <1>0, <2>5 DEF RgwPoliced, Owned, PutPolicy, RgwRec
    <3>2. Named(policy) \in SUBSET {obj.spec.ref}
      BY NamedByPolicy
    <3> HIDE DEF policy
    <3>3. /\ Holder[cur] = obj.spec.ref /\ Holder[cur] # NoOwner
          /\ Holder' = Holder
          /\ Guests' = [Guests EXCEPT ![cur] = Named(policy)]
      BY <1>0, <2>2, <3>1, NamesAssumption DEF Holder, Guests
    <3>4. Phase[cur] # "released"
      <4>1. ~ released[cur]
        BY <1>0, <2>5 DEF RgwPoliced, SafetyInv, ReleaseInv, ProvisionSteps
      <4> QED BY <1>0, <4>1, LifecycleTypes
    <3>5. Lifecycle!Share(cur)
      BY <1>0, <2>1, <3>2, <3>3, <3>4 DEF Lifecycle!Share
    <3>6. OwnedInv'
      BY <1>0, <2>2, <3>1 DEF OwnedInv
    <3> QED BY <1>0, <3>5, <3>6 DEF Lifecycle!Next
  <2>6. CASE RgwRemoved
    <3>1. /\ Holder' = [Holder EXCEPT ![cur] = NoOwner]
          /\ Guests' = [Guests EXCEPT ![cur] = {}]
      BY <1>0, <2>2, <2>6 DEF RgwRemoved, Holder, Guests
    <3>2. OwnedInv'
      BY <2>2, <2>6 DEF RgwRemoved, OwnedInv
    <3>3. CASE rgw[cur].exists
      <4>1. Marked(cur, obj) /\ obj.spec.policy = "delete"
        BY <2>6, <3>3
           DEF RgwRemoved, SafetyInv, DeletionInv, Harmless, CleanupSteps
      <4>2. Phase[cur] = "terminating" /\ "delete" \in asked[cur]
        BY <1>0, <4>1, LifecycleTypes DEF Marked, SafetyInv, ReleaseInv
      <4>3. Lifecycle!Close(cur)
        BY <1>0, <2>1, <3>1, <4>2 DEF Lifecycle!Close
      <4> QED BY <1>0, <3>2, <4>3 DEF Lifecycle!Next
    <3>4. CASE ~ rgw[cur].exists
      <4>1. Holder' = Holder /\ Guests' = Guests
        BY <1>0, <3>1, <3>4 DEF Holder, Guests
      <4> QED BY <1>0, <2>1, <3>2, <4>1 DEF Lifecycle!vars
    <3> QED BY <3>3, <3>4
  <2> QED BY <2>3, <2>4, <2>5, <2>6, WorkerRgw
<1> QED BY <1>1, <1>2

LEMMA RefinesStep ==
    TypeInv /\ OwnedInv /\ SafetyInv /\ [Next]_vars
      => OwnedInv' /\ [Lifecycle!Next]_(Lifecycle!vars)
<1> SUFFICES ASSUME TypeInv, OwnedInv, SafetyInv, [Next]_vars
             PROVE  OwnedInv' /\ (Lifecycle!Next \/ UNCHANGED Lifecycle!vars)
  OBVIOUS
<1>1. CASE UNCHANGED <<bucket, rgw, asked, released>>
  BY <1>1 DEF Lifecycle!vars, Phase, Holder, Guests, OwnedInv
<1>2. CASE Next
  <2>1. ASSUME NEW b \in Buckets, Deliver(b) \/ Reconcile(b)
        PROVE  UNCHANGED <<bucket, rgw, asked, released>>
    BY <2>1 DEF Deliver, Reconcile, ReconcileNotFound, ReconcileNoAgent,
       ReconcileFound, clusterVars, ghosts, vars
  <2>2. Crash \/ Restart => UNCHANGED <<bucket, rgw, asked, released>>
    BY DEF Crash, Restart, clusterVars, ghosts
  <2> QED BY <1>1, <1>2, <2>1, <2>2, RefinesUser, RefinesOutside, RefinesWorker
          DEF Next, User, OutsideStep, WorkerStep
<1>3. CASE UNCHANGED vars
  BY <1>1, <1>3 DEF vars
<1> QED BY <1>2, <1>3

LEMMA RefinesInit == Init => OwnedInv /\ Lifecycle!Init
BY DEF Init, NoObject, NoRgw, OwnedInv, Lifecycle!Init, Phase, Holder, Guests

(* The controller implements the lifecycle it promises (ImplementsLifecycle), *)
(* however old the copies it acts on and whatever fails or crashes.           *)
THEOREM LifecycleImplemented == Spec => ImplementsLifecycle
BY RefinesInit, RefinesStep, SafetyCorrect, PTL
   DEF Spec, ImplementsLifecycle, Lifecycle!Spec

(* At no time does a policy let in a subuser of a claim that does not own    *)
(* the bucket: no step of the lifecycle lets one in (NoStrangers).            *)
THEOREM StrangersKeptOut == Spec => []NoStrangers
<1>1. Lifecycle!Init => NoStrangers
  BY DEF Lifecycle!Init, NoStrangers, Lifecycle!NoStrangers
<1>2. NoStrangers /\ [Lifecycle!Next]_(Lifecycle!vars) => NoStrangers'
  <2> SUFFICES ASSUME NoStrangers,
                      Lifecycle!Next \/ UNCHANGED Lifecycle!vars,
                      NEW b \in Buckets
               PROVE  Guests'[b] \subseteq {Holder'[b]}
    BY DEF NoStrangers, Lifecycle!NoStrangers
  <2>1. /\ DOMAIN Guests = Buckets /\ DOMAIN Holder = Buckets
        /\ \A d \in Buckets : Guests[d] \subseteq {Holder[d]}
    BY DEF Guests, Holder, NoStrangers, Lifecycle!NoStrangers
  <2>2. CASE UNCHANGED <<Holder, Guests>>
    BY <2>1, <2>2
  <2>3. ASSUME NEW d \in Buckets, Lifecycle!Open(d)
        PROVE  Guests'[b] \subseteq {Holder'[b]}
    <3>1. Holder[d] = NoOwner => Guests[d] = {}
      BY <2>1, NamesAssumption DEF Guests, Named
    <3> QED BY <2>1, <2>3, <3>1 DEF Lifecycle!Open
  <2>4. ASSUME NEW d \in Buckets, Lifecycle!Share(d)
        PROVE  Guests'[b] \subseteq {Holder'[b]}
    BY <2>1, <2>4 DEF Lifecycle!Share
  <2>5. ASSUME NEW d \in Buckets, Lifecycle!Close(d)
        PROVE  Guests'[b] \subseteq {Holder'[b]}
    BY <2>1, <2>5 DEF Lifecycle!Close
  <2>6. ASSUME NEW c \in Owners, Lifecycle!Lose(c)
        PROVE  Guests'[b] \subseteq {Holder'[b]}
    BY <2>1, <2>6 DEF Lifecycle!Lose
  <2> QED BY <2>2, <2>3, <2>4, <2>5, <2>6
          DEF Lifecycle!Next, Lifecycle!vars, Lifecycle!Create,
              Lifecycle!Delete, Lifecycle!Ask, Lifecycle!Release
<1> QED BY <1>1, <1>2, LifecycleImplemented, PTL
        DEF ImplementsLifecycle, Lifecycle!Spec
=============================================================================
