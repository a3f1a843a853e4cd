# TLA+ verification of the Ceph S3 operator

The Ceph S3 operator gives Kubernetes users accounts and buckets on a RADOS
gateway (RGW). A user writes an `S3UserClaim`; the operator creates a Ceph user
with quota and subusers, stores the keys in Secrets and records the account in
a cluster-scoped `S3User`. A user writes an `S3Bucket`; the operator creates the
bucket with the keys of a claim. This directory models the operator in TLA+,
checks small instances with TLC and proves theorems about it with TLAPS.

Paths below are those of the repository.

## Inventory

| Component | State | Operations | Hard behaviour | What makes it correct |
|---|---|---|---|---|
| Claim controller (`internal/controllers/s3userclaim`) | claims, S3Users, Secrets, ResourceQuota status; Ceph users, subusers, keys; one request in the fields of `Reconciler` | `Reconcile`, the eleven sub-reconcilers of `Provision`, the four of `Cleanup` | stale cache, failing calls, crashes between calls, users' edits in between, its own writes waking it again | ends in what the spec asks for; leaves nothing behind; never touches the account or the keys of a live claim; comes to rest; quota status right |
| Claim webhook (`api/v1alpha1/s3userclaim_webhook.go`) | none of its own; reads claims, quotas, Secrets, buckets | `ValidateCreate`, `ValidateUpdate`, `ValidateDelete` | checks, then somebody else persists; runs on the operator's own updates too | the sum of admitted claims stays within the hard quotas; no claim goes while a bucket the operator knows of uses it |
| Quota calculation (`api/v1alpha1/quota_handler.go`) | none | sums over a namespace, over a team's namespaces | which copy of the claim counts | each claim counted once, with the quota being asked for |
| Bucket controller (`internal/controllers/s3bucket`) | buckets on RGW, `S3Bucket` status and finalizer | `Reconcile`, `Provision`, `Cleanup` | needs the claim and its Secret even to delete; finalizer added last | buckets end as the spec asks; a deleted `S3Bucket` goes away; nothing leaked |
| S3 agent (`internal/s3_agent`) | a session with one user's keys | `CreateBucket`, `DeleteBucket`, `SetBucketPolicy` | error codes taken for success | a subuser has the access its binding gives |
| Bucket webhook (`api/v1alpha1/s3bucket_webhook.go`) | none | `ValidateCreate`, `ValidateUpdate` | races with the deletion of the claim | a bucket refers to a claim that exists |
| Class predicate (`internal/predicates`) | the operator's class | filters claim events | S3User and Secret events are not filtered | an operator touches only claims of its class |
| Start-up, configuration, constants (`main.go`, `internal/config`, `pkg/consts`) | none | wiring | - | - |
| API types, deep copies; charts, manifests, CI, tests | none | - | - | - |

How they interact: the API server calls the webhooks before it stores a request
and sends what it stored to the operator's informer cache over a watch. Each
event puts a request into a controller's work queue, at most once: a claim event
its claim, an S3User event the claim of its `claimRef`, a Secret event the claim
that controls it. One worker per controller takes a request, reads the object
from the cache and calls the API server and RGW. The webhooks live in the same
process, with `failurePolicy=fail`: no claim changes while the operator is down.
The list of what can go wrong, line by line, is under `hazards` in
`PROJECT.json`.

## Modules

| Module | What it is |
|---|---|
| `ClaimReconciler` | the claim controller with API server, cache, queue, garbage collector and RGW around it |
| `ClaimLifecycle` | abstract specification of a claim: its account and the keys in the Secret it names |
| `ClaimRefinement` | `ClaimReconciler` mapped to `ClaimLifecycle`, and the invariant this rests on |
| `Admission` | both webhooks, the quota sums, and the storing of a request as a step of its own |
| `BucketPolicy` | `SetBucketPolicy`: from bindings to the statements of a policy |
| `BucketReconciler` | the bucket controller and the S3 agent, with the claims reduced to what they find of them |
| `BucketLifecycle` | abstract specification of an S3Bucket: who holds its bucket and whose subusers get at it |
| `BucketRefinement` | `BucketReconciler` mapped to `BucketLifecycle` |
| `MCClaimReconciler`, `MCAdmission`, `MCBucketReconciler` | small instances for TLC |
| `*Proofs` | theorems and their proofs; `ClaimSettledProofs` has those of the claim controller about what holds when it has nothing left to do |
| `SumLemmas` | lemmas about sums over a finite set |

The claim controller and the bucket controller meet in two places only: the keys
in a claim's admin Secret and the account they open. `ClaimLifecycle` describes
that interface once, from the side of the claim controller, which implements
it; `BucketReconciler` uses it from the other side, with an environment
(`GrantAccess`, `LoseSecret`, `PurgeAccount`) that allows all that
`ClaimLifecycle` allows and more. So the two controllers need not be checked in
one state space.

## ClaimReconciler

### State

| Variables | Code or external part |
|---|---|
| `claim`, `s3user`, `secret`, `used` | the API server's objects; `used` is the S3 part of the ResourceQuota's `status.used` |
| `ceph`, `nextKey` | accounts on RGW; each generated key is a new number, 0 is no key |
| `cache`, `watch`, `cachedUsed`, `queue`, `up` | informer cache, watch events under way, work queue, is the process running |
| `pc`, `cur`, `obj`, `cephUser`, `todo`, `sub`, `sum` | the sub-reconciler to run next and the per-request fields of `Reconciler` (`handler.go:46`) |
| `spent` | counters for the bounds |

`claim[c].uid` counts the objects that have had the name `c`, `rv` is the
resource version. `ceph[c].for` is a ghost: the uid the account was last
provisioned for. It appears in no guard.

### Actions

One action per sub-reconciler and, where one makes several calls that change
state, one per call: `RemoveSubuser`/`RemoveSubuserSecret`,
`SumNamespaceUsedQuota`/`UpdateNamespaceQuotaStatus`, and one step per element
of the loops over subusers and Secrets. Go's map order makes the loop over
subusers run in any order; the loop over Secrets runs in the order of the spec
in the code and in any order here. A sub-reconciler's read followed by its own
write of RGW is one action: only the worker writes RGW.

Around the worker: `CreateClaim`, `EditClaim`, `DeleteClaim`, `StripFinalizer`
(users), `Deliver`, `DeliverQuota` (informer), `CollectSecret` (garbage
collector), `Fail`, `Crash`, `Restart`.

- An update is refused unless uid and resource version are current
  (`UpToDate`). `RetryOnConflict` repeats the same stale object, so a conflict
  stays one and the request is requeued.
- `Fail` requeues before the call of the current step took effect. A call that
  took effect and whose answer was lost is that step followed by `Fail` at the
  next one.
- `Crash` loses the queue, the request and the events under way. `Restart` lists
  everything and enqueues as the watches do.
- A Cleanup for a claim that was not found runs with an empty object: no
  finalizer to remove, and no claim is left out of the sum.

### Abstractions

- Sizes, objects and buckets of a quota are one number; they are always summed
  and compared alike. The namespace has one ResourceQuota.
- Events of S3Users and Secrets enqueue their claim in the step that writes
  them, and the reads of S3Users and Secrets are current. Only the worker and
  the garbage collector write them; with a stale read the call that follows is
  refused (already exists, conflict, not found), which is a `Fail`.
- Names derived by the code are the table `SubuserSecret`; the checked instances
  make all names distinct (see Not modelled).
- The webhooks' quota checks are not in this module, so claims may be created
  and edited at will. With `Webhooks = TRUE` requests need a running operator
  and new Secret names must be free; `FALSE` allows every behaviour of `TRUE`
  and more, so the passing runs use `FALSE` and the findings `TRUE`.
- With `LaggingQuotaCache = FALSE` the cached ResourceQuota is always current.

### Runs

| Run | Instance | Properties | What it shows |
|---|---|---|---|
| `reconcile_faults` | 1 claim, 1 subuser, 2 specs; 2 creations, 1 edit, 2 deletions, 1 failing call | `TypeOK`, `ProvisionedWhenSettled`, `NoCephUserLeftBehind`, `WritesBounded`, `NoLivePurge`, `CredentialsStable`, `ReleasedWhenClean`, `ClaimRefAdvances` | any interleaving of a user's requests with a reconcile and its retry ends as the last request asks, without the operator's writes feeding on each other |
| `reconcile_crashes` | 2 creations, 2 deletions, 1 finalizer removed by hand, 1 crash | `ProvisionedWhenSettled`, `NoS3UserLeftBehind`, `SafetyInv`, `KeysWork`, `SettlingInv`, `NoLivePurge`, `CredentialsStable`, `ImplementsLifecycle` | what a restart repairs; the inductive invariants of the proofs; the second claim of a name is never taken to have the keys of the first |
| `reconcile_liveness` | no subusers, specs with different admin Secrets; 1 creation, 1 edit, 1 deletion, 1 failing call, 1 crash, lagging quota cache | `KeysInv`, `Converges`, `DeletionCompletes`, `ImplementsLifecycle` | the controller comes to rest although its own writes wake it; deletions finish; the lifecycle with a Secret renamed at any moment |
| `two_claims_quota` | 2 claims (symmetric), 1 creation each, 1 edit, 1 deletion | `UsedQuotaAccurate`, `UsedInv` | the status is the sum of the quotas once all has settled, and why: a sum taken from an old copy is followed by another request |
| `orphan_after_crash` | 1 creation, 1 crash, webhooks | `NoCephUserLeftBehind` **violated** | see Findings |
| `orphan_subuser_secret` | 1 edit, 1 failing call, webhooks | `SubuserSecretsFollowSpec` **violated** | see Findings |
| `stale_quota_cache` | 1 creation, 1 deletion, lagging quota cache | `QuotaReleased` **violated** | see Findings |

`Settled` means: running, idle, nothing queued, nothing under way, no garbage.
The properties about settled states are not vacuous: `Converges` shows that such
a state is always reached, and each property has a mutant of the code that
breaks it (`mutants` in `PROJECT.json`; the mutated operators stand before the
definitions they replace).

Bounds. Two creations of one name are what a stale copy needs to be mistaken for
a live claim; one edit changes quota and subusers at once; one failing call or
one crash at every possible step covers each partial execution, and what a
second one meets is again a partial execution. The last write of a Cleanup, that
of the finalizer, has no next step: when its answer is lost the requeue it causes
is the one that the write's own watch event causes too. Two claims are enough for a sum
and a status write to be separated by another claim's request. Deadlock is not
checked: once the bounds are used up and all has settled, the system stops.

Fairness (`FairSpec`). Weak fairness of the worker's steps, of each watch, of
the garbage collector and of the restart: the work queue, the informers and the
Deployment keep running. Strong fairness of `Reconcile(c)`: the work queue is
first-in first-out, so a claim's turn comes although other requests are taken in
between. No fairness makes users act, calls fail or the operator crash.

### Findings

1. *Orphaned account.* The finalizer is the last thing `Provision` adds, so a
   claim that is deleted while it is provisioned disappears at once. The operator
   goes on with the copy it has and creates the account; when it crashes before
   the Delete event has led to a Cleanup, and before the first Secret is written,
   the event is lost with it, the next start finds no claim to list, and nothing
   leads to the account. `docs/DESIGN.md:77` promises that after a crash in any
   state the controller moves towards the desired state. The order matters: a
   claim that is there at the restart is listed and queued, so that a deletion
   after the crash ends in a Cleanup, and no claim is deleted while the operator
   is down. Once the S3User exists it is found (`NoS3UserLeftBehind` holds with
   crashes and stripped finalizers), which is what `docs/DESIGN.md:8` relies on.
2. *Orphaned Secret of a subuser.* `removeSubuserAndSecret` drops the subuser,
   then its Secret. When the second call fails the retry finds no subuser to
   remove and never deletes the Secret, against the comment at
   `provisioner.go:124`.
3. *Used quota not released.* `updateNamespaceQuotaStatus` compares the new sum
   with the cached ResourceQuota. A Cleanup right after a Provision may read the
   copy from before the claim, find the sum it wants and write nothing;
   `testing/e2e/10-assert.yaml:11` expects 0.
4. *Hard quota exceeded.* Two creations validated side by side each find room and
   are both stored (`admission_race`), although `docs/DESIGN.md:76` wants requests
   over the quota refused. Reading past the cache (`s3userclaim_webhook.go:54`)
   does not help: the other claim is not stored yet.

## ClaimLifecycle and ClaimRefinement

`ClaimLifecycle` has three variables: the phase of each claim, whether RGW has an
account for it, and what the Secret it names is good for (`none`, `stale`,
`ready`). Its steps are those one can see from outside: a claim is created,
marked, gone, or names another Secret; an account is opened or purged; keys are
granted. What it rules out: the keys of a live claim stop working (`Purge`), a
claim goes while its account is there (`Leave`, but for users who remove
finalizers by hand), a claim finds keys that are not granted to it (`Create`), or
any other change of keys.

`ClaimRefinement` maps it to `ClaimReconciler`. `Access(c)` is what `setS3Agent` of
the bucket controller finds when it reads the claim and then the Secret: `none`
unless the Secret belongs to the claim as it is now (`Belongs`, owner and uid:
an older one is about to be collected or overwritten), else whether its key is
that of the account. `Lifecycle` is the instance, `ImplementsLifecycle` says
that every behaviour of `ClaimReconciler` is one of `ClaimLifecycle`, and
`KeysWork` is what a user has of it: a live claim never names a Secret of its
own whose keys RGW refuses. `SecretsDistinct` assumes that no two claims share an
admin Secret and that no admin Secret is one for a subuser. Without it the
refinement fails, in the code as in the model: two claims with one Secret name
block each other.

## Admission

### State

| Variables | Code or external part |
|---|---|
| `claim`, `bucket` | the API server's claims (state, quota, finalizer, version) and the claim each bucket refers to |
| `cachedClaim`, `cachedBucket` | what `runtimeClient` reads: which claims exist, which buckets refer to which |
| `req`, `total` | requests on their way: what they ask, the check they are at, the team namespaces still to be listed, the sum so far |
| `sent`, `errors` | counters for the bounds |

Each place in `Requests` holds one request of a user, `Operator` one of the claim
controller, whose one worker waits for its answer.

### Actions

`CreateClaim`, `UpdateClaim`, `DeleteClaim`, `CreateBucket` are a user's
requests, `Finalize` the controller's updates of a finalizer. A creation or update
of a claim goes through `ValidateNamespaceQuota`, one `SumTeamNamespace` per
namespace of the team (each its own list call, and claims change in between) and
`ValidateClusterQuota`; a deletion through `ValidateDelete`, a bucket through
`ValidateBucketCreate`. What was admitted is stored by `PersistClaim` or
`PersistBucket`, a step of its own.

- The API server validates what it tries again after a conflict, so a request is
  stored only if the claim still has the version it was made for (`Unchanged`).
- In the code the team's sum is taken even when the namespace's limit is exceeded
  already: the answer is a refusal either way.
- `Refuse` stands for Secret names that are taken, calls that fail and timeouts.
- Updates of a claim by the operator with an out-of-date version have no effect
  and are left out; so are its writes of the status, which the webhook is not
  asked about.
- Quotas are one number, limits and team labels are constants. A namespace has
  one ResourceQuota: with several, the smallest limit decides.

### Runs

The instance: two namespaces of one team, claims `a` and `b` in the first and
another `a` in the second, quotas 1 to 3, limit 2 for the first namespace and 3
for the team, one bucket, three user requests.

| Run | Instance | Properties | What it shows |
|---|---|---|---|
| `admission_sequential` | one user request at a time, one refused for other reasons, cache current | `TypeOK`, `WithinNamespaceQuota`, `WithinClusterQuota`, `DeletionAdmitted` | what the webhooks guarantee while requests do not overlap, though the operator's do |
| `admission_concurrent` | two user requests at a time, lagging cache | `OvershootBounded`, `QuotaInv`, `RefusedOnlyOverLimit`, `KnownBucketsProtect` | how far overlapping requests can exceed a limit, the inductive invariant behind it, when a finalizer update is refused, and which deletions can take a claim from its buckets |
| `admission_race` | two creations at a time | `WithinNamespaceQuota` **violated** | see Findings |

Bounds. Two claims in a namespace and two namespaces in a team are what a sum
needs to leave one out or count one twice; three requests let a claim be
created, shrunk or deleted while another takes the room. `OvershootBounded` is
reached with equality for the namespace: of the claims that make up a sum,
those whose requests did not overlap saw each other and fit the limit together,
and of any `k + 1` requests in `k` places two did not overlap.

What `ValidateDelete` gives is `KnownBucketsProtect`. While a bucket and the
deletion of its claim are on their way together, or the bucket is stored and the
cache has yet to hear of it, the deletion passes, the claim goes and the bucket
stays: that race is in the code, and no line of the repository denies it. It is
over once the cache has the bucket (`Protected`): a deletion that comes later is
refused for as long as the bucket is there, whatever else overlaps, and one that
passed before and was overtaken by another write of the claim is not stored any
more. So with one request at a time and a current cache no claim goes while a
bucket refers to it. The operator's finalizer is what overtakes a deletion in
this instance.

`DeletionAdmitted` needs limits that hold: once a
namespace is over its limit, the updates of its finalizers are refused too. That
this is the only case in which the namespace refuses them is
`RefusedOnlyOverLimit`: the update counts the claim once, with the quota it has.
It speaks of an update made from the claim as it is: one that was overtaken is
not stored anyway. Nor does it speak of the team's limit: the namespaces of a team are listed
one after another, so that the sum may count what has been freed in one and taken
in another meanwhile.

Fairness (`FairSpec`). Weak fairness of each request's validation and storing
(requests have a timeout) and of the informer; strong fairness of `Finalize(c)`,
as the controller takes claims from its queue in turn and requeues what was
refused. Nothing makes users send requests.

## BucketPolicy

Operators only. `SubuserAccessMap` is the map `initVars` fills from the list of
bindings (the last binding of a name wins), `PolicyStatements` the statements
`SetBucketPolicy` makes of it, `Allowed` what RGW lets a principal do, `Granted` the
reference: what a list of bindings is meant to give. The texts of policies are
left out, but for one fact: the code marshals Go maps and slices filled from Go
maps, so that a policy for more than one subuser has more than one text (`Forms`).

## BucketReconciler

### State

| Variables | Code or external part |
|---|---|
| `bucket` | the API server's S3Buckets: state, spec, status, finalizer |
| `access` | for each claim, what `setS3Agent` finds: no claim or no Secret (`none`), keys RGW refuses (`stale`), keys it takes (`ready`) |
| `rgw` | buckets on RGW: owner, contents, policy |
| `up`, `cache`, `watch`, `queue` | process, informer cache, events under way, work queue |
| `pc`, `cur`, `obj`, `agent`, `bucketPolicy` | the call to make next and the per-request fields of `Reconciler` (`s3bucket/handler.go:33`) |
| `fresh` | is `obj` the version the API server has? In place of resource versions |
| `asked`, `released`, `rgw[b].lost` | ghosts: the deletion policies since `b` was marked for deletion; has the operator let it go; was it purged with its owner's account |

### Actions

`ReconcileNotFound`, `ReconcileNoAgent` and `ReconcileFound` are the ways through
`Reconcile`: not found ends, no claim or Secret requeues before the check for
deletion, else the cached object and the keys are kept for the rest. `Provision`
is `EnsureBucket`, `EnsureBucketPolicy` (after a failure `ReportPolicyFailure`),
`UpdateBucketStatusSuccess` and `AddCleanupFinalizer`; `Cleanup` is
`RemoveOrRetainBucket` (after a failure `ReportRemoveFailure`) and
`RemoveCleanupFinalizer`.

- `CreateBucket` is a success on a bucket that exists, whoever has it; what RGW
  refuses is the policy (`Owned`).
- `GenerationChanged` keeps the events of status and finalizer writes from
  waking the controller.
- An update with an out-of-date object is refused (`fresh`). Status updates are
  skipped when the copy has the same status already.
- `Fail` fails any call; for the policy and the deletion also after RGW has
  carried it out. Elsewhere a call whose answer is lost is the step followed by
  a failure of the next; the last write of a request, which adds or removes the
  finalizer, has no next step, and `LoseLastAnswer` is that case.
- Users edit specs, also of an object marked for deletion, fill and empty
  buckets; webhooks keep `s3UserRef` fixed (`ValidateUpdate`) and refuse creations
  and edits while the operator is down. No webhook is asked about deletions.
- Claims change at any moment: keys appear, go, become old, or an account is
  purged with its buckets.

### Abstractions

- S3Buckets of different names share the worker and the claims and nothing else,
  so the instance has one; one of another claim comes with a later S3Bucket of
  the name. The theorems are about any number.
- Buckets are created and deleted by the operator only, and RGW refuses for
  ownership, contents and keys only (not for a bucket quota: a `Fail`). RGW
  takes a policy without statements.
- All errors have one text; the finalizer is not removed by hand.

### Runs

| Run | Instance | Properties | What it shows |
|---|---|---|---|
| `bucket_faults` | 1 bucket name, 2 claims, 2 subusers, 3 specs (delete or retain, one subuser bound twice, two subusers, another claim); 2 creations, 1 edit, 1 change of a claim or of the contents, 1 failing call or crash | `TypeOK`, `BucketWhenSettled`, `AccessFollowsBindings`, `GoneWhenReleased`, `SafetyInv`, `NoStrangers`, `ImplementsLifecycle`, `DeletedOnlyWhenAsked`, `Converges`, `DeletionCompletes` | bucket, access and deletion end as the last spec asks, nothing is deleted unasked, nobody else is ever let in, and the controller comes to rest; every step is one of the lifecycle |
| `bucket_orphan` | 1 creation, nothing fails | `NoBucketLeftBehind` **violated** | finding 5 |

Bounds. Two creations let a retained bucket, its policy and stale copies of the
first S3Bucket meet the second; one edit changes policy and bindings at any
moment, also while the object is marked; one fault at every call covers each
partial execution. Deadlock is not checked: once the bounds are used up and all
has settled, the system stops.

Fairness (`FairSpec`). Weak fairness of the worker's calls, of each watch and of
the restart, strong fairness of each request's turn, as above. `Converges` and
`DeletionCompletes` except a controller that is `Blocked`: the claim has no
working keys, the bucket is somebody else's, or a bucket to be deleted is not
empty. Then the code requeues for ever, which is what it can do; nothing obliges
users to remove the cause.

### Findings

5. *Bucket left behind.* The finalizer is the last thing `Provision` adds. An
   S3Bucket that is deleted meanwhile goes at once, the next update of it (of the
   status or of the finalizer) is refused, and the retry finds nothing and ends
   (`s3bucket/handler.go:68`). No crash is needed. `docs/E2E-TEST-WORKFLOW.md:27`
   says a bucket with deletion policy `delete` must be deleted.

A gap of the status that no property depends on: a retry may read the S3Bucket
from before the status write of the failed attempt, find the status it wants and
write nothing, so that the reported error stays on a bucket that is in order.

A bucket may also be lost without a finding: `ValidateCreate` only looks the claim
up (`s3bucket_webhook.go:57`), so that a bucket is admitted, and created, for a
claim that is marked for deletion, and goes with its account. No line of the
repository promises more.

## BucketLifecycle and BucketRefinement

`BucketLifecycle` has four variables: the phase of each S3Bucket, the deletion
policies it has had since it was marked (`wish`), the claim whose account has the
bucket (`holder`), and the claims whose subusers its policy lets in (`guests`).
A user creates, edits and deletes; the bucket is opened, shared, closed, or lost
with its holder's account; and the operator lets the S3Bucket go. What it rules
out: a bucket is closed for an S3Bucket that is not marked or never asked for it
(`Close`), it is let go while it is there although nobody wanted it retained
(`Release`), it is opened or shared after that (`Open`, `Share`), or it is shared with
subusers of a claim that does not hold it. It allows what the code cannot keep
from happening: a bucket opened for an S3Bucket that is gone (finding 5), or held
by a claim the S3Bucket does not name.

`BucketRefinement` maps it to `BucketReconciler`: `Holder` and `Guests` are read off
the bucket on RGW, `wish` is the ghost `asked`, and an S3Bucket is `released` from
the removal of its finalizer to the next creation of the name.
`ImplementsLifecycle` says that every behaviour of `BucketReconciler` is one of
`BucketLifecycle`; `NoStrangers` is what the other users of RGW have of it, at every
moment, where `AccessFollowsBindings` says more but only of settled states.

## Proofs

All theorems are about every set of claims, subusers, namespaces, buckets and
names, every table of specs and limits, and every value of the bounds, under the
named assumptions on the constants in each module (TLC evaluates them in the
runs). Some have hypotheses of their own, given in the table.

| Module | Theorem | Statement |
|---|---|---|
| `ClaimReconcilerProofs` | `TypeCorrect` | `Spec => [](TypeOK /\ Active)` |
| | `SafetyCorrect` | `Spec => []SafetyInv` |
| | `NeverPurged` | `Spec => NoLivePurge` |
| | `KeysKept` | `Spec => CredentialsStable` |
| | `ReleasedClean` | `Spec => ReleasedWhenClean` |
| `ClaimSettledProofs` | `SettlingCorrect` | `Spec => []SettlingInv` |
| | `ClaimsProvisioned` | `Spec => []ProvisionedWhenSettled` |
| | `S3UsersRemoved` | `Spec => []NoS3UserLeftBehind` |
| | `CephUsersRemoved` | `Spec => []NoCephUserLeftBehind`, if `MaxCrashes = 0` |
| | `UsedCorrect` | `Spec => []UsedInv`, if `MaxCrashes = 0` and `LaggingQuotaCache = FALSE` |
| | `UsedQuotaCorrect` | `Spec => []UsedQuotaAccurate`, if `MaxCrashes = 0` and `LaggingQuotaCache = FALSE` |
| | `WritesAreBounded` | `Spec => []WritesBounded` |
| | `ClaimRefsAdvance` | `Spec => ClaimRefAdvances` |
| `ClaimRefinementProofs` | `KeysCorrect` | `Spec => []KeysInv` |
| | `LifecycleImplemented` | `Spec => ImplementsLifecycle` |
| | `KeysAlwaysWork` | `Spec => []KeysWork` |
| `ClaimLifecycleProofs` | `LifecycleKeysWork` | `ClaimLifecycle`'s `Spec => []KeysWork` |
| `AdmissionProofs` | `TypeCorrect` | `Spec => []TypeOK` |
| | `QuotaCorrect` | `Spec => []QuotaInv` |
| | `OvershootCorrect` | `Spec => []OvershootBounded` |
| | `NamespaceCorrect` | `Spec => []WithinNamespaceQuota`, if `Requests` has one element |
| | `ClusterCorrect` | `Spec => []WithinClusterQuota`, if `Requests` has one element |
| | `FinalizersAdmitted` | `Spec => RefusedOnlyOverLimit` |
| | `BucketsProtect` | `Spec => KnownBucketsProtect` |
| | `FinalizersNeverRefused` | the quota of the namespace refuses no finalizer update made from the claim as it is, if `Requests` has one element |
| `BucketPolicyProofs` | `PolicyExact` | `Allowed` by the policy made of any bindings is `Granted` by them |
| `BucketReconcilerProofs` | `TypeCorrect` | `Spec => []TypeOK` |
| | `SafetyCorrect` | `Spec => [](TypeInv /\ SafetyInv)` |
| | `GoneCorrect` | `Spec => []GoneWhenReleased` |
| | `NeverDeletedUnasked` | `Spec => DeletedOnlyWhenAsked` |
| | `SettledCorrect` | `Spec => []BucketWhenSettled` |
| | `AccessCorrect` | `Spec => []AccessFollowsBindings` |
| | `LifecycleImplemented` | `Spec => ImplementsLifecycle` |
| | `StrangersKeptOut` | `Spec => []NoStrangers` |

`SpecsAssumption` of `ClaimReconciler` has each spec name both Secrets, which are
required fields (`api/v1alpha1/s3userclaim_types.go`). `SecretsDistinct` is
assumed of the refinement only.

The argument for the claim controller. `NoLivePurge` says nothing about caches,
yet the reason it holds is all about them, so it takes an inductive invariant,
`SafetyInv`:

- `CopiesInv`: the cache and every event under way are older versions of the
  claim (`Older`), with uids in order. A version that is not live stays not live
  under the same uid.
- `RequestInv`: so is the object of the request, and it is no newer than the
  cache; Provision has a live one, Cleanup one that is not.
- `AccountInv`, `ProgressInv`: an account is of no later claim than the cached
  one and than the request's, since a Provision acts on a cached object and the
  cache only moves on. Keys come with the account and its subusers, and the loop
  over subusers meets neither the user itself nor a readonly subuser that exists.
- `CleanupInv`: at each step of a Cleanup the earlier steps' effects hold; a
  Provision cannot come in between as there is one worker.

When `RemoveCephUser` runs, the account's uid is at most the request's, whose
claim is not live, and the claim now there either has a later uid or is not live
either: it is not the account's claim. `KeysKept` follows from that and from what
the writes to an account do to the keys (`AccountWrites`); `ReleasedClean` from
`CleanupInv`. The proofs are laid out by action: `StepKinds`, `RequestKinds`,
`LoopKinds` and `AccountsKept` say which actions touch what, so that each
invariant is proved over a handful of cases.

The argument for what holds when all has settled. `Pending(c)` says that something
will make the operator look at claim `c` again: it is down, an event is on its
way, or `c` is queued. A property of settled states then follows from one that
holds of every claim that is not `Pending`, at every moment:

- `FreshInv`: the newest version on its way is the claim as it is, so without
  one the cache is; and a worker that has another object has its request coming
  back.
- `LeftoverInv`, `OrphanInv`: an S3User (a Ceph user) without a live claim is
  pending, or its Cleanup is about to remove it.
- `ProvisionInv`: a live claim that is not pending has all its spec asks for, or
  its worker has done it up to the step it is at (`ProvisionedSoFar`).

The step that matters is one after which nothing is pending for `c`
(`PendingStep`). Then the claim was not written, since its event would be on its
way, and each other write that could undo something for `c` concerns an object
whose event is `c`'s too: a Secret of `c` that is deleted for another claim's
subuser puts `c` in the queue (`SecretQuiet`), a changed S3User does
(`S3UserQuiet`), and the account is written by the worker of `c` only. So what
was done is still done (`PartsKept`, `OthersKeep`), and the worker's own steps add
the next part (`WorkerMakes`). No assumption about the names of Secrets is needed:
two claims that name one Secret keep each other pending, so that the settled
states the theorem is about are those without such a pair. `OrphanInv` needs a
controller that does not crash: `orphan_after_crash` shows what becomes of a
deletion whose event a crash loses.

`UsedInv` says of the sum in the status the same: it is the sum over the claims as
they are, or it will be taken again (`Resumes`). A request that sums with an old
copy has its claim's event on its way (`SummedTotal`); one that sums for a claim
marked for deletion leaves its quota out before the claim is gone, which is made
good by the request of the Delete event, so the claim must have its finalizer
(`FinalizedInv`). With a lagging copy of the ResourceQuota it is false
(`stale_quota_cache`). A restart does not sum unless an object is left to enqueue:
hence the second hypothesis, `MaxCrashes = 0`.

The argument why the operator's own writes run out (`WritesAreBounded`). That it
comes to rest is a liveness property and stays with TLC; what can be proved is that
nothing the operator writes to a claim makes it write again. `WritesInv` counts: `Owed` is the
number of writes a claim still has coming if its user does nothing but delete it
(status, finalizer, deletion, removal of the finalizer), and the versions it has
had plus those owed never exceed what creations, edits and strips have paid for.
Each write of the operator takes one from `Owed`, because the object it writes is
the claim as it is (`UpToDate`) and lacks what is written. Failures, retries and
crashes pay for nothing: the bound does not mention them.

The argument for the claimRef (`ClaimRefsAdvance`). The version in the claimRef is
that of the copy the worker had, which may be older than the claim. `ClaimRefInv`
says that until a request has come to the S3User its copy is no older than the one
the S3User was made from (`MadeBy`), which needs the cache to move forward only
(`OrderInv`): a later request never has an earlier copy.

The argument for the refinement. That a Secret's key opens the account cannot be
seen from one step: the key was read some steps before it is written
(`RetrievedInv`), for a request that may be about an earlier claim of the name.
`OwnerInv` (no Secret is of a later claim than the cached one and the request's)
keeps a new claim from owning Secrets already; `GeneratedInv` (keys are new) makes
the keys of an account opened again differ from those in old Secrets;
`WorkingInv` says of the Secrets of a live claim that the account is there, was
provisioned for it and has the key. A purge then cannot meet a live claim with
working keys, by `PurgeStep`. The step proof goes by what a step writes: claims
(`ClaimKinds`, `RefinesClaims`), the account of the request (`AccountKinds`,
`RefinesAccount`), or a Secret (`AdminSecrets`, `RefinesSecret`).

The argument for the bucket controller. `SafetyInv` has two halves. `DeletionInv`
and `ReleaseInv`: a copy that is marked for deletion is of the S3Bucket as it is
now, with a policy it has had since, or there is nothing left that it could make
the operator delete; and after the operator let go no copy is live, so nothing
creates the bucket again. `HistoryInv` and `ProvisionInv`: the predicate drops
events, so that a copy may be old and nothing queued; what it says of finalizer
and status is then still true, or a later event that leads to a request is on
its way. From this `SettledCorrect`, and with `PolicyExact` `AccessCorrect`.

The refinement of `BucketLifecycle` goes by who acts. A user's request is a step of
the phase and the wishes (`RefinesUser`), a lost account one of the holder
(`RefinesOutside`), and the worker either lets the S3Bucket go or changes the bucket
in one of three ways (`WorkerRgw`, `RefinesWorker`). `SafetyInv` supplies what each step
needs: `DeletionInv` that what is closed is marked and was asked for, and that
what is let go is gone or was to be retained; `ReleaseInv` that no Provision is
under way for an S3Bucket that was let go. `StrangersKeptOut` then needs no step of the
controller at all, only those of the lifecycle.

The argument for deletions of claims (Admission). `RequestsInv` says of each
request that the version it was made for is one the claim has had, and that a
deletion has no check but that of the buckets to pass. A live claim is taken away
only by storing a deletion that is up to date (`ClaimSteps`), which `Protected`
excludes; and no such deletion appears (`NoNewDeletion`): one that goes from
validation to storing has seen a cache without a bucket of its claim, and one
that is out of date stays so, as versions only grow (`VersionsGrow`). The bucket's
entry in the cache stays as long as the bucket does (`CachedStays`). Nothing is
assumed about the number of places or about the cache.

The argument for the quotas (Admission). No request sees all the others, so no
bound follows from one request's check. `QuotaInv` gives each claim the place whose
request stored its quota: the requests of one place come one after another, so
each was checked against all that place had stored before (`Share`), and the
claims of a place are together within every limit. While a request is under way
that stays so, because meanwhile the other places can only take claims away from
its share, by deleting them or giving them another quota: `AskedWithin` follows it from check to check, through a
team's sum that is taken namespace by namespace. `OvershootBounded` is the sum
over the places (`UsedBound`), and with one place it is the limit itself. Which
claim is whose is not recorded in a variable: the invariant says that such a
division exists, and each step names the next. `admission_race` shows that the
limits need the hypothesis of one place. The cache plays no part, since quotas
are read past it.

The argument for the finalizer updates (Admission). `FinalizerInv`: the operator's
request asks for the quota its claim has, unless the claim has changed since, and
only a namespace of a team has claims. The sum that is compared, the others'
quotas and the one asked for, is then the sum over the namespace as it is
(`FinalizerRefused`, by `SumRemove`), so that a refusal says that the limit is exceeded
already; with one user request at a time `NamespaceCorrect` says it never is.

Sums. `SumFunctionOnSet` is a fold, defined by the choice of a recursive
function on the subsets of a set. The library's induction theorems take an
operator as a parameter, which the installed provers cannot instantiate;
`SumLemmas` therefore states induction over the subsets of a finite set with a
set of subsets in its place (`FiniteInduction`) and proves with it that such a
function exists and is unique (`SumExists`, `SumUnique`), that a sum is a
natural number, that any element can be taken out (`SumRemove`), that more
summands make no smaller sum, and that a sum may be taken in parts or class by
class (`SumSplit`, `SumByClass`).

Only model-checked: all liveness properties (`Converges`, `DeletionCompletes`,
`DeletionAdmitted`), which need fairness and `ENABLED`. The properties of the runs
that expect a violation are false of the code.

## Not modelled

- *Names that collide.* Two claims may be given one Secret name, and the derived
  names are not injective: claim `a-b` with subuser `c` and claim `a` with
  subuser `b-c` share a Secret. Such claims requeue for ever or overwrite each
  other's Secrets, and no property here is meant to hold of them; the proofs
  of `ClaimRefinement` need admin Secrets to be distinct and no more.
- *Limits that change.* Hard quotas and team labels are constants of Admission.
  Below what is in use, a limit refuses the operator's own updates too.
- *Several operators.* The class predicate, the immutable class of a claim and a
  second RGW. With one operator, the predicate lets every event pass.
- *Several workers.* The manager starts each controller with one; the
  request-specific fields of `Reconciler` allow no second.
- Start-up and configuration, API types and generated code, manifests, charts and
  scripts keep no state and decide nothing besides the constants assumed here.
