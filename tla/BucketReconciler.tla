-------------------------- MODULE BucketReconciler --------------------------
(****************************************************************************)
(* The S3Bucket controller (internal/controllers/s3bucket) and the S3 agent  *)
(* it works through (internal/s3_agent), with the API server, the informer   *)
(* cache, the work queue and RGW around them.                                *)
(*                                                                          *)
(* One worker reconciles one S3Bucket at a time, and each of its calls is an *)
(* action.  Of the claims only what the controller depends on is here: can   *)
(* it find the keys of a claim, and does RGW accept them?                    *)
(****************************************************************************)
EXTENDS BucketPolicy, FiniteSets

CONSTANTS
    Buckets,       \* names of S3Buckets, all in one namespace
    SpecsOf,       \* SpecsOf[b]: the specs a user may give to S3Bucket b
    NoBucketName,  \* no S3Bucket
    NoOwner,       \* no claim
    MaxCreates,    \* bound: creations of S3Buckets by users
    MaxEdits,      \* bound: spec edits by users
    MaxChanges,    \* bound: claims that lose their Secret or their account,
                   \* empty buckets that objects are put into
    MaxFaults      \* bound: calls that fail and crashes of the operator

SpecRec == [ref : Owners \cup {NoOwner}, policy : {"delete", "retain"},
            bindings : Seq(Binding)]

ASSUME NamesAssumption == NoBucketName \notin Buckets /\ NoOwner \notin Owners

ASSUME SpecsAssumption ==
    \A b \in Buckets : \A s \in SpecsOf[b] : s \in SpecRec /\ s.ref # NoOwner

ASSUME BoundsAssumption ==
    /\ MaxCreates \in Nat /\ MaxEdits \in Nat
    /\ MaxChanges \in Nat /\ MaxFaults \in Nat

VARIABLES
    (* The API server and RGW. *)
    bucket,        \* the S3Bucket objects
    access,        \* what each claim and its admin Secret are good for
    rgw,           \* the buckets on RGW
    (* The operator process. *)
    up,            \* is the operator running?
    cache,         \* the informer's copy of each S3Bucket
    watch,         \* versions of each S3Bucket still on their way to the cache
    queue,         \* the work queue
    (* The reconcile in progress: the per-request fields of Reconciler. *)
    pc,            \* the next call to make
    cur,           \* the request
    obj,           \* r.s3Bucket
    fresh,         \* is obj the version the API server has?
    agent,         \* does RGW accept the keys of r.s3Agent?
    bucketPolicy,  \* r.bucketPolicy
    (* Ghosts, and counters for the bounds. *)
    asked,         \* the deletion policies since b was marked for deletion
    released,      \* has the operator let go of the last S3Bucket b?
    spent

clusterVars == <<bucket, access, rgw>>
infVars     == <<up, cache, watch>>
reqVars     == <<pc, cur, obj, fresh, agent, bucketPolicy>>
ghosts      == <<asked, released>>
vars == <<bucket, access, rgw, up, cache, watch, queue, pc, cur, obj, fresh,
          agent, bucketPolicy, asked, released, spent>>

-----------------------------------------------------------------------------
(* The objects. *)

(* The text of a policy, "" or "unknown" where the code has no policy. *)
TextRec == [form : {"empty", "unknown", "one", "another"},
            of : SUBSET Statement]

EmptyText   == [form |-> "empty", of |-> {}]
UnknownText == [form |-> "unknown", of |-> {}]

(* failed: is there a reason, that is the text of an error? *)
StatusRec == [created : BOOLEAN, failed : BOOLEAN, policy : TextRec]

(* fin says whether the cleanup finalizer is set.  What there is refers to a *)
(* claim (s3UserClaimRef is required).                                       *)
BucketRec ==
    {v \in [state : {"absent", "live", "terminating"},
            spec : SpecRec, status : StatusRec, fin : BOOLEAN] :
        v.state # "absent" => v.spec.ref \in Owners}

(* lost is a ghost: the bucket went with the account of its owner. *)
RgwRec == [exists : BOOLEAN, owner : Owners \cup {NoOwner}, filled : BOOLEAN,
           policy : SUBSET Statement, lost : BOOLEAN]

NoStatus == [created |-> FALSE, failed |-> FALSE, policy |-> EmptyText]
NoSpec   == [ref |-> NoOwner, policy |-> "retain", bindings |-> <<>>]
NoObject == [state |-> "absent", spec |-> NoSpec, status |-> NoStatus,
             fin |-> FALSE]
NoRgw    == [exists |-> FALSE, owner |-> NoOwner, filled |-> FALSE,
             policy |-> {}, lost |-> FALSE]

ProvisionSteps == {"bucket", "policy", "policyFailed", "status",
                   "addFinalizer"}
CleanupSteps == {"remove", "removeFailed", "removeFinalizer"}

Counters == [creates : Nat, edits : Nat, changes : Nat, faults : Nat]

TypeOK ==
    /\ bucket \in [Buckets -> BucketRec]
    /\ access \in [Owners -> {"none", "stale", "ready"}]
    /\ rgw \in [Buckets -> RgwRec]
    /\ up \in BOOLEAN
    /\ cache \in [Buckets -> BucketRec]
    /\ watch \in [Buckets -> Seq(BucketRec)]
    /\ queue \subseteq Buckets
    /\ pc \in {"idle"} \cup ProvisionSteps \cup CleanupSteps
    /\ cur \in Buckets \cup {NoBucketName}
    /\ obj \in BucketRec
    /\ fresh \in BOOLEAN
    /\ agent \in BOOLEAN
    /\ bucketPolicy \in TextRec
    /\ asked \in [Buckets -> SUBSET {"delete", "retain"}]
    /\ released \in [Buckets -> BOOLEAN]
    /\ spent \in Counters

Init ==
    /\ bucket = [b \in Buckets |-> NoObject]
    /\ access = [c \in Owners |-> "ready"]
    /\ rgw = [b \in Buckets |-> NoRgw]
    /\ up = TRUE
    /\ cache = [b \in Buckets |-> NoObject]
    /\ watch = [b \in Buckets |-> <<>>]
    /\ queue = {}
    /\ pc = "idle"
    /\ cur = NoBucketName
    /\ obj = NoObject
    /\ fresh = FALSE
    /\ agent = FALSE
    /\ bucketPolicy = EmptyText
    /\ asked = [b \in Buckets |-> {}]
    /\ released = [b \in Buckets |-> FALSE]
    /\ spent = [creates |-> 0, edits |-> 0, changes |-> 0, faults |-> 0]

-----------------------------------------------------------------------------
(* What users do to S3Buckets.                                              *)

(* The API server stores a new version of b and, while the operator runs,    *)
(* sends it to the operator's informer.                                     *)
Store(b, new) ==
    /\ bucket' = [bucket EXCEPT ![b] = new]
    /\ watch' = IF up THEN [watch EXCEPT ![b] = Append(watch[b], new)]
                      ELSE watch

(* The version a reconcile of b holds is no longer the latest. *)
Outdate(b) == fresh' = (fresh /\ cur # b)

(* The webhook wants the claim to exist (ValidateCreate, which says no while *)
(* the operator is down).  A claim exists without its Secret for a while.    *)
CreateS3Bucket(b) ==
    /\ up
    /\ bucket[b].state = "absent"
    /\ spent.creates < MaxCreates
    /\ \E s \in SpecsOf[b] :
         Store(b, [state |-> "live", spec |-> s, status |-> NoStatus,
                   fin |-> FALSE])
    /\ Outdate(b)
    /\ asked' = [asked EXCEPT ![b] = {}]
    /\ released' = [released EXCEPT ![b] = FALSE]
    /\ spent' = [spent EXCEPT !.creates = @ + 1]
    /\ UNCHANGED <<access, rgw, up, cache, queue, pc, cur, obj, agent,
                   bucketPolicy>>

(* ValidateUpdate: the claim an S3Bucket refers to cannot be changed. *)
ValidateUpdate(new, old) == new.ref = old.ref

EditS3Bucket(b) ==
    /\ up
    /\ bucket[b].state # "absent"
    /\ spent.edits < MaxEdits
    /\ \E s \in SpecsOf[b] \ {bucket[b].spec} :
         /\ ValidateUpdate(s, bucket[b].spec)
         /\ Store(b, [bucket[b] EXCEPT !.spec = s])
         /\ asked' = IF bucket[b].state = "live" THEN asked
                     ELSE [asked EXCEPT ![b] = asked[b] \cup {s.policy}]
    /\ Outdate(b)
    /\ spent' = [spent EXCEPT !.edits = @ + 1]
    /\ UNCHANGED <<access, rgw, up, cache, queue, pc, cur, obj, agent,
                   bucketPolicy, released>>

(* No webhook is asked about deletions (verbs create and update only).  The  *)
(* object stays, marked for deletion, while the finalizer is set.            *)
DeleteS3Bucket(b) ==
    /\ bucket[b].state = "live"
    /\ Store(b, IF bucket[b].fin
                  THEN [bucket[b] EXCEPT !.state = "terminating"]
                  ELSE NoObject)
    /\ Outdate(b)
    /\ asked' = [asked EXCEPT ![b] = {bucket[b].spec.policy}]
    /\ UNCHANGED <<access, rgw, up, cache, queue, pc, cur, obj, agent,
                   bucketPolicy, released, spent>>

-----------------------------------------------------------------------------
(* What happens to the claims, their Secrets and the data.                  *)

(* The claim is provisioned: its Secret has keys that RGW accepts. *)
GrantAccess(c) ==
    /\ access[c] # "ready"
    /\ access' = [access EXCEPT ![c] = "ready"]
    /\ UNCHANGED <<bucket, rgw, infVars, queue, reqVars, ghosts, spent>>

(* The claim or its Secret is gone, or it names a Secret with old keys; the  *)
(* account may still be there.                                              *)
LoseSecret(c) ==
    /\ spent.changes < MaxChanges
    /\ \E a \in {"none", "stale"} \ {access[c]} :
         access' = [access EXCEPT ![c] = a]
    /\ spent' = [spent EXCEPT !.changes = @ + 1]
    /\ UNCHANGED <<bucket, rgw, infVars, queue, reqVars, ghosts>>

(* The claim controller removes the account (RemoveCephUser), with its       *)
(* buckets and the keys; the Secret may outlive it for a while.              *)
PurgeAccount(c) ==
    /\ spent.changes < MaxChanges
    /\ access' = [access EXCEPT ![c] = IF access[c] = "ready"
                                             THEN "stale" ELSE access[c]]
    /\ rgw' = [b \in Buckets |-> IF rgw[b].owner = c
                                   THEN [NoRgw EXCEPT !.lost = TRUE]
                                   ELSE rgw[b]]
    /\ agent' = (agent /\ obj.spec.ref # c)
    /\ spent' = [spent EXCEPT !.changes = @ + 1]
    /\ UNCHANGED <<bucket, infVars, queue, pc, cur, obj, fresh, bucketPolicy,
                   ghosts>>

FillBucket(b) ==
    /\ rgw[b].exists /\ ~ rgw[b].filled
    /\ spent.changes < MaxChanges
    /\ rgw' = [rgw EXCEPT ![b] = [rgw[b] EXCEPT !.filled = TRUE]]
    /\ spent' = [spent EXCEPT !.changes = @ + 1]
    /\ UNCHANGED <<bucket, access, infVars, queue, reqVars, ghosts>>

EmptyBucket(b) ==
    /\ rgw[b].filled
    /\ rgw' = [rgw EXCEPT ![b] = [rgw[b] EXCEPT !.filled = FALSE]]
    /\ UNCHANGED <<bucket, access, infVars, queue, reqVars, ghosts, spent>>

-----------------------------------------------------------------------------
(* What happens around the worker.                                          *)

(* Mutant: the predicate is left out. *)
GenerationChangedMutant(old, new) == TRUE

(* GenerationChangedPredicate: of the updates those that change the spec or  *)
(* mark the object for deletion lead to a request, writes of the status and  *)
(* of finalizers do not.  Creations and deletions always do.                 *)
GenerationChanged(old, new) ==
    \/ old.state = "absent"
    \/ new.state # old.state
    \/ new.spec # old.spec

Deliver(b) ==
    /\ up
    /\ watch[b] # <<>>
    /\ cache' = [cache EXCEPT ![b] = Head(watch[b])]
    /\ watch' = [watch EXCEPT ![b] = Tail(watch[b])]
    /\ queue' = IF GenerationChanged(cache[b], Head(watch[b]))
                  THEN queue \cup {b} ELSE queue
    /\ UNCHANGED <<clusterVars, up, reqVars, ghosts, spent>>

EndReconcile ==
    /\ pc' = "idle" /\ cur' = NoBucketName /\ obj' = NoObject
    /\ fresh' = FALSE /\ agent' = FALSE /\ bucketPolicy' = EmptyText

(* Mutant: the request is put back after it was forgotten. *)
RequeueMutant ==
    /\ EndReconcile
    /\ queue' = queue \cup {cur'}

(* subreconciler.Requeue(): the request goes back to the queue. *)
Requeue ==
    /\ queue' = queue \cup {cur}
    /\ EndReconcile

Crash ==
    /\ up
    /\ spent.faults < MaxFaults
    /\ up' = FALSE
    /\ queue' = {}
    /\ watch' = [b \in Buckets |-> <<>>]
    /\ EndReconcile
    /\ spent' = [spent EXCEPT !.faults = @ + 1]
    /\ UNCHANGED <<clusterVars, cache, ghosts>>

(* The cache is filled anew; each S3Bucket listed passes the predicate as a  *)
(* creation.                                                                *)
Restart ==
    /\ ~ up
    /\ up' = TRUE
    /\ cache' = bucket
    /\ queue' = {b \in Buckets : bucket[b].state # "absent"}
    /\ UNCHANGED <<clusterVars, watch, reqVars, ghosts, spent>>

-----------------------------------------------------------------------------
(* Reconcile. *)

Goto(next) == pc' = next

(* setS3Agent: the claim and its admin Secret are read, and the keys kept in *)
(* r.s3Agent for the rest of the reconcile.                                  *)
SetS3Agent(c) == agent' = (access[c] = "ready")

(* A request for an S3Bucket that is not found is done. *)
ReconcileNotFound(b) ==
    /\ pc = "idle" /\ b \in queue
    /\ cache[b].state = "absent"
    /\ queue' = queue \ {b}
    /\ UNCHANGED <<clusterVars, infVars, reqVars, ghosts, spent>>

(* Without a claim or its Secret the request is put back, for an S3Bucket    *)
(* marked for deletion too.                                                 *)
ReconcileNoAgent(b) ==
    /\ pc = "idle" /\ b \in queue
    /\ cache[b].state # "absent"
    /\ access[cache[b].spec.ref] = "none"
    /\ UNCHANGED vars

ReconcileFound(b) ==
    /\ pc = "idle" /\ b \in queue
    /\ cache[b].state # "absent"
    /\ access[cache[b].spec.ref] # "none"
    /\ queue' = queue \ {b}
    /\ cur' = b
    /\ obj' = cache[b]
    /\ fresh' = (watch[b] = <<>>)
    /\ SetS3Agent(cache[b].spec.ref)
    /\ Goto(IF cache[b].state = "live" THEN "bucket" ELSE "remove")
    /\ UNCHANGED <<clusterVars, infVars, bucketPolicy, ghosts, spent>>

Reconcile(b) == ReconcileNotFound(b) \/ ReconcileNoAgent(b) \/ ReconcileFound(b)

-----------------------------------------------------------------------------
(* Provision. *)

(* RGW takes no call with keys it does not know.  Of a bucket that exists it *)
(* says whether it is the caller's own; the agent takes both for success.    *)
EnsureBucket ==
    /\ pc = "bucket"
    /\ \/ /\ agent
          /\ rgw' = IF rgw[cur].exists THEN rgw
                    ELSE [rgw EXCEPT ![cur] =
                            [exists |-> TRUE, owner |-> obj.spec.ref,
                             filled |-> FALSE, policy |-> {}, lost |-> FALSE]]
          /\ Goto("policy")
          /\ UNCHANGED <<queue, cur, obj, fresh, agent, bucketPolicy>>
       \/ /\ ~ agent
          /\ Requeue
          /\ UNCHANGED rgw
    /\ UNCHANGED <<bucket, access, infVars, ghosts, spent>>

(* Mutant: the agent works with keys that open every bucket. *)
OwnedMutant == agent /\ rgw[cur].exists

(* Does RGW let the agent change the bucket? *)
Owned == agent /\ rgw[cur].exists /\ rgw[cur].owner = obj.spec.ref

AccessMap == SubuserAccessMap(obj.spec.bindings)

PutPolicy ==
    rgw' = [rgw EXCEPT ![cur] =
              [rgw[cur] EXCEPT !.policy =
                  PolicyStatements(AccessMap, obj.spec.ref)]]

(* Mutant: a policy that cannot be set is not tried again. *)
EnsureBucketPolicyMutant ==
    /\ pc = "policy"
    /\ \/ Owned /\ PutPolicy
       \/ ~ Owned /\ UNCHANGED rgw
    /\ \E f \in Forms(AccessMap) :
         bucketPolicy' = [form |-> f,
                          of |-> PolicyStatements(AccessMap, obj.spec.ref)]
    /\ Goto("status")
    /\ UNCHANGED <<bucket, access, infVars, queue, cur, obj, fresh, agent,
                   ghosts, spent>>

EnsureBucketPolicy ==
    /\ pc = "policy"
    /\ \/ /\ Owned
          /\ PutPolicy
          /\ \E f \in Forms(AccessMap) :
               bucketPolicy' = [form |-> f,
                                of |-> PolicyStatements(AccessMap,
                                                        obj.spec.ref)]
          /\ Goto("status")
       \/ /\ ~ Owned
          /\ bucketPolicy' = EmptyText
          /\ Goto("policyFailed")
          /\ UNCHANGED rgw
    /\ UNCHANGED <<bucket, access, infVars, queue, cur, obj, fresh, agent,
                   ghosts, spent>>

(* updateBucketStatus: nothing is written when nothing changes, and a write  *)
(* with an out-of-date version is refused (RetryOnConflict retries with the  *)
(* same object).                                                            *)
StatusKept(s)    == obj.status = s /\ UNCHANGED <<bucket, watch>>
StatusWritten(s) == /\ obj.status # s /\ fresh
                    /\ Store(cur, [bucket[cur] EXCEPT !.status = s])
StatusRefused(s) == obj.status # s /\ ~ fresh /\ UNCHANGED <<bucket, watch>>

UpdateBucketStatusSuccess ==
    /\ pc = "status"
    /\ LET s == [created |-> TRUE, failed |-> FALSE, policy |-> bucketPolicy]
       IN \/ /\ StatusKept(s) \/ StatusWritten(s)
             /\ obj' = [obj EXCEPT !.status = s]
             /\ Goto("addFinalizer")
             /\ UNCHANGED <<queue, cur, fresh, agent, bucketPolicy>>
          \/ StatusRefused(s) /\ Requeue
    /\ UNCHANGED <<access, rgw, up, cache, ghosts, spent>>

(* The error is reported and the request put back, whether or not the status *)
(* could be written.                                                        *)
ReportFailure(text) ==
    /\ LET s == [created |-> TRUE, failed |-> TRUE, policy |-> text]
       IN StatusKept(s) \/ StatusWritten(s) \/ StatusRefused(s)
    /\ Requeue
    /\ UNCHANGED <<access, rgw, up, cache, ghosts, spent>>

ReportPolicyFailure == pc = "policyFailed" /\ ReportFailure(bucketPolicy)

AddCleanupFinalizer ==
    /\ pc = "addFinalizer"
    /\ \/ /\ obj.fin
          /\ EndReconcile
          /\ UNCHANGED <<bucket, watch, queue>>
       \/ /\ ~ obj.fin /\ fresh
          /\ Store(cur, [bucket[cur] EXCEPT !.fin = TRUE])
          /\ EndReconcile
          /\ UNCHANGED queue
       \/ /\ ~ obj.fin /\ ~ fresh
          /\ Requeue
          /\ UNCHANGED <<bucket, watch>>
    /\ UNCHANGED <<access, rgw, up, cache, ghosts, spent>>

-----------------------------------------------------------------------------
(* Cleanup. *)

Emptied == [rgw EXCEPT ![cur] = NoRgw]

(* RGW deletes only an empty bucket of the caller's; to the agent a bucket   *)
(* that does not exist is as good as deleted.                                *)
Removable == agent /\ (rgw[cur].exists => Owned /\ ~ rgw[cur].filled)

(* Mutants: the deletion policy is not looked at; any error of the deletion  *)
(* is taken for success.                                                    *)
RemoveOrRetainBucketMutantDelete ==
    /\ pc = "remove"
    /\ \/ Removable /\ rgw' = Emptied /\ Goto("removeFinalizer")
       \/ ~ Removable /\ Goto("removeFailed") /\ UNCHANGED rgw
    /\ UNCHANGED <<bucket, access, infVars, queue, cur, obj, fresh, agent,
                   bucketPolicy, ghosts, spent>>

RemoveOrRetainBucketMutantIgnore ==
    /\ pc = "remove"
    /\ rgw' = IF obj.spec.policy = "delete" /\ Removable THEN Emptied ELSE rgw
    /\ Goto("removeFinalizer")
    /\ UNCHANGED <<bucket, access, infVars, queue, cur, obj, fresh, agent,
                   bucketPolicy, ghosts, spent>>

RemoveOrRetainBucket ==
    /\ pc = "remove"
    /\ \/ /\ obj.spec.policy = "retain"
          /\ Goto("removeFinalizer")
          /\ UNCHANGED rgw
       \/ /\ obj.spec.policy = "delete" /\ Removable
          /\ rgw' = Emptied
          /\ Goto("removeFinalizer")
       \/ /\ obj.spec.policy = "delete" /\ ~ Removable
          /\ Goto("removeFailed")
          /\ UNCHANGED rgw
    /\ UNCHANGED <<bucket, access, infVars, queue, cur, obj, fresh, agent,
                   bucketPolicy, ghosts, spent>>

ReportRemoveFailure == pc = "removeFailed" /\ ReportFailure(UnknownText)

(* Mutant: a refused update is not tried again. *)
RemoveCleanupFinalizerMutant ==
    /\ pc = "removeFinalizer"
    /\ IF fresh
         THEN /\ Store(cur, NoObject)
              /\ released' = [released EXCEPT ![cur] = TRUE]
         ELSE UNCHANGED <<bucket, watch, released>>
    /\ EndReconcile
    /\ UNCHANGED <<access, rgw, up, cache, queue, asked, spent>>

(* Mutant: the finalizer is removed from whatever has the name by now. *)
RemoveCleanupFinalizerMutantForce ==
    /\ pc = "removeFinalizer"
    /\ Store(cur, NoObject)
    /\ released' = [released EXCEPT ![cur] = TRUE]
    /\ EndReconcile
    /\ UNCHANGED <<access, rgw, up, cache, queue, asked, spent>>

(* Removing the last finalizer of an object marked for deletion deletes it.  *)
(* An object that is marked and still there has its finalizer.               *)
RemoveCleanupFinalizer ==
    /\ pc = "removeFinalizer"
    /\ \/ /\ fresh
          /\ Store(cur, NoObject)
          /\ released' = [released EXCEPT ![cur] = TRUE]
          /\ EndReconcile
          /\ UNCHANGED queue
       \/ /\ ~ fresh
          /\ Requeue
          /\ UNCHANGED <<bucket, watch, released>>
    /\ UNCHANGED <<access, rgw, up, cache, asked, spent>>

-----------------------------------------------------------------------------
(* A call that fails.  One that RGW has carried out all the same may have    *)
(* set the policy or deleted the bucket; what else was carried out is the    *)
(* step itself followed by a failure of the next one, but for the last write *)
(* of all (LoseLastAnswer).                                                  *)
Fail ==
    /\ pc # "idle" /\ ~ (pc = "remove" /\ obj.spec.policy = "retain")
    /\ spent.faults < MaxFaults
    /\ \/ /\ pc = "policy"
          /\ bucketPolicy' = EmptyText
          /\ Goto("policyFailed")
          /\ UNCHANGED rgw \/ (Owned /\ PutPolicy)
          /\ UNCHANGED <<queue, cur, obj, fresh, agent>>
       \/ /\ pc = "remove"
          /\ Goto("removeFailed")
          /\ UNCHANGED rgw \/ (Removable /\ rgw' = Emptied)
          /\ UNCHANGED <<queue, cur, obj, fresh, agent, bucketPolicy>>
       \/ /\ pc \notin {"policy", "remove"}
          /\ Requeue
          /\ UNCHANGED rgw
    /\ spent' = [spent EXCEPT !.faults = @ + 1]
    /\ UNCHANGED <<bucket, access, infVars, ghosts>>

(* The finalizer is added or removed, but the answer does not arrive: the    *)
(* request is put back.                                                      *)
LoseLastAnswer ==
    /\ fresh
    /\ \/ /\ pc = "addFinalizer" /\ ~ obj.fin
          /\ Store(cur, [bucket[cur] EXCEPT !.fin = TRUE])
          /\ UNCHANGED released
       \/ /\ pc = "removeFinalizer"
          /\ Store(cur, NoObject)
          /\ released' = [released EXCEPT ![cur] = TRUE]
    /\ Requeue
    /\ spent.faults < MaxFaults
    /\ spent' = [spent EXCEPT !.faults = @ + 1]
    /\ UNCHANGED <<access, rgw, up, cache, asked>>

User(b) == \/ CreateS3Bucket(b)
           \/ EditS3Bucket(b)
           \/ DeleteS3Bucket(b)
           \/ FillBucket(b)
           \/ EmptyBucket(b)

ClaimChange(c) == GrantAccess(c) \/ LoseSecret(c) \/ PurgeAccount(c)

Provision == \/ EnsureBucket
             \/ EnsureBucketPolicy
             \/ ReportPolicyFailure
             \/ UpdateBucketStatusSuccess
             \/ AddCleanupFinalizer

Cleanup == \/ RemoveOrRetainBucket
           \/ ReportRemoveFailure
           \/ RemoveCleanupFinalizer

Next == \/ \E b \in Buckets : User(b) \/ Deliver(b) \/ Reconcile(b)
        \/ \E c \in Owners : ClaimChange(c)
        \/ Provision
        \/ Cleanup
        \/ Fail
        \/ LoseLastAnswer
        \/ Crash
        \/ Restart

Spec == Init /\ [][Next]_vars

(* The worker and the watches keep running and a crashed operator is started *)
(* again; one S3Bucket cannot keep the worker from another.  Nothing makes   *)
(* users act, claims change or calls fail.                                  *)
FairSpec == /\ Spec
            /\ WF_vars(Provision \/ Cleanup)
            /\ \A b \in Buckets : SF_vars(Reconcile(b)) /\ WF_vars(Deliver(b))
            /\ WF_vars(Restart)

-----------------------------------------------------------------------------
(* Properties. *)

(* The operator runs, has seen everything and has nothing left to do. *)
Settled == /\ up /\ pc = "idle" /\ queue = {}
           /\ \A b \in Buckets : watch[b] = <<>>

(* Whatever was edited, failed or crashed on the way, once there is nothing *)
(* left to do a live S3Bucket has its bucket on RGW, in the hands of the     *)
(* claim it refers to, and its finalizer - unless the claim's account, and   *)
(* the bucket with it, was purged (Provision).                               *)
BucketWhenSettled ==
    Settled => \A b \in Buckets : bucket[b].state = "live" =>
        \/ rgw[b].lost
        \/ /\ rgw[b].exists /\ rgw[b].owner = bucket[b].spec.ref
           /\ bucket[b].status.created
           /\ bucket[b].fin

(* Then a subuser may do with the bucket what the last binding of its name  *)
(* grants, and nobody else but the owner may do anything: no access of an    *)
(* earlier spec, of an S3Bucket that had the name before or of another       *)
(* claim's subuser stays (SetBucketPolicy).                                  *)
AccessFollowsBindings ==
    Settled => \A b \in Buckets : bucket[b].state = "live" /\ ~ rgw[b].lost =>
        \A c \in Owners, s \in Subusers, a \in Actions :
            Allowed(rgw[b].policy, <<c, s>>, a) <=>
                /\ c = bucket[b].spec.ref
                /\ Granted(bucket[b].spec.bindings, s, a)

(* The operator deletes a bucket only while its S3Bucket is marked for       *)
(* deletion, and never one whose S3Bucket has asked to retain it ever since: *)
(* not on a stale copy of it, nor of one that had the name before.           *)
DeletedOnlyWhenAsked ==
    [][\A b \in Buckets :
         rgw[b].exists /\ ~ rgw'[b].exists /\ ~ rgw'[b].lost =>
             /\ bucket[b].state = "terminating"
             /\ "delete" \in asked[b]]_vars

(* An S3Bucket that asked for deletion all along is let go only when its     *)
(* bucket is gone, and nothing that was under way creates it again (the      *)
(* order of Cleanup).                                                       *)
GoneWhenReleased ==
    \A b \in Buckets :
        released[b] /\ asked[b] = {"delete"} => ~ rgw[b].exists

(* "DeletionPolicy on delete: bucket must be deleted"                        *)
(* (docs/E2E-TEST-WORKFLOW.md:27): once there is nothing left to do, no      *)
(* bucket is left of an S3Bucket that is gone and asked for deletion.        *)
NoBucketLeftBehind ==
    Settled => \A b \in Buckets :
        bucket[b].state = "absent" /\ asked[b] = {"delete"} => ~ rgw[b].exists

(* What the controller waits for: keys that work, a bucket that is its       *)
(* claim's, an empty bucket.                                                *)
Blocked(b) ==
    /\ bucket[b].state # "absent"
    /\ \/ access[bucket[b].spec.ref] # "ready"
       \/ rgw[b].exists /\ rgw[b].owner # bucket[b].spec.ref
       \/ bucket[b].state = "terminating" /\ rgw[b].filled

(* The controller comes to rest or is blocked: neither its own writes of the *)
(* status, whose text may differ each time, nor a failed call keep it going. *)
Converges == <>[](Settled \/ \E b \in Buckets : Blocked(b))

(* An S3Bucket marked for deletion goes away unless it is blocked.           *)
DeletionCompletes ==
    \A b \in Buckets :
        []<>(bucket[b].state # "terminating" \/ Blocked(b))

-----------------------------------------------------------------------------
(* The inductive invariant of the proofs. *)

(* The cache is behind the S3Bucket by what is on its way to it. *)
CopiesInv ==
    /\ \A b \in Buckets :
         /\ up /\ watch[b] = <<>> => cache[b] = bucket[b]
         /\ watch[b] # <<>> => watch[b][Len(watch[b])] = bucket[b]
    /\ ~ up => /\ queue = {} /\ pc = "idle"
               /\ \A b \in Buckets : watch[b] = <<>>

(* The object of a request was read from the cache; while it is fresh it is  *)
(* the S3Bucket, and in a Cleanup, which writes only at its end, the cache    *)
(* has it too.                                                              *)
RequestInv ==
    /\ pc # "idle" => cur \in Buckets
    /\ pc \in ProvisionSteps => obj.state = "live"
    /\ pc \in CleanupSteps => obj.state = "terminating"
    /\ pc # "idle" /\ fresh => obj = bucket[cur]
    /\ pc \in {"remove", "removeFinalizer"} /\ fresh => watch[cur] = <<>>

(* b is marked for deletion, and its deletion policy has been that of v. *)
Marked(b, v) == bucket[b].state = "terminating" /\ v.spec.policy \in asked[b]

(* A copy that is marked for deletion is of the S3Bucket as it is now, or    *)
(* there is nothing it can make the operator delete.                         *)
Harmless(b, v) == v.spec.policy = "retain" \/ ~ rgw[b].exists

DeletionInv ==
    /\ \A b \in Buckets :
         /\ bucket[b].state = "terminating" => Marked(b, bucket[b])
         /\ \A i \in DOMAIN watch[b] :
              watch[b][i].state = "terminating" => Marked(b, watch[b][i])
         /\ cache[b].state = "terminating" =>
              Marked(b, cache[b]) \/ Harmless(b, cache[b])
    /\ pc \in CleanupSteps => Marked(cur, obj) \/ Harmless(cur, obj)
    /\ pc = "removeFinalizer" => Harmless(cur, obj)
    /\ pc \in ProvisionSteps /\ cache[cur].state = "terminating" =>
         Marked(cur, cache[cur])

(* After the operator let an S3Bucket go no copy says that it is live. *)
ReleaseInv ==
    \A b \in Buckets : released[b] =>
        /\ bucket[b].state = "absent"
        /\ cache[b].state # "live"
        /\ \A i \in DOMAIN watch[b] : watch[b][i].state # "live"
        /\ pc \in ProvisionSteps => cur # b

(* The bucket is as v asks, or was purged with its owner's account. *)
Provisioned(b, v) ==
    \/ rgw[b].lost
    \/ /\ rgw[b].exists /\ rgw[b].owner = v.spec.ref
       /\ rgw[b].policy = PolicyStatements(SubuserAccessMap(v.spec.bindings),
                                           v.spec.ref)

InProgress(b) == pc # "idle" /\ cur = b

SameGeneration(v, w) == v.state = w.state /\ v.spec = w.spec

(* What a copy v says of its finalizer and its status is still true, or a    *)
(* later one, an event that leads to a request, is on its way.               *)
Holds(b, v) == /\ v.fin => bucket[b].fin
               /\ v.status.created => bucket[b].status.created

Overtaken(b, v, i) ==
    \E j \in DOMAIN watch[b] : j > i /\ ~ SameGeneration(watch[b][j], v)

HistoryInv ==
    \A b \in Buckets : up =>
        /\ Holds(b, cache[b]) \/ Overtaken(b, cache[b], 0)
        /\ \A i \in DOMAIN watch[b] :
             Holds(b, watch[b][i]) \/ Overtaken(b, watch[b][i], i)

Finished(b) == bucket[b].fin /\ bucket[b].status.created

(* An S3Bucket the cache has as live, and for which no request is queued, is *)
(* being reconciled as the cache has it, or that has been done.              *)
ProvisionInv ==
    \A b \in Buckets : up /\ cache[b].state = "live" /\ b \notin queue =>
        /\ InProgress(b) => /\ SameGeneration(obj, cache[b])
                            /\ Holds(b, obj) \/ Overtaken(b, cache[b], 0)
        /\ InProgress(b) /\ pc = "addFinalizer" => obj.status.created
        /\ \/ InProgress(b) /\ pc \in {"bucket", "policy", "policyFailed"}
           \/ Provisioned(b, cache[b])
        /\ InProgress(b) \/ Finished(b) \/ Overtaken(b, cache[b], 0)

(* A copy of an S3Bucket is old, but never so old that it makes the operator *)
(* delete or create a bucket it should not.                                  *)
SafetyInv == /\ CopiesInv /\ RequestInv /\ DeletionInv /\ ReleaseInv
             /\ GoneWhenReleased /\ HistoryInv /\ ProvisionInv
=============================================================================
