------------------------------- MODULE Admission -------------------------------
(****************************************************************************)
(* The validating webhooks of S3UserClaims and S3Buckets (api/v1alpha1):     *)
(* a request is validated against what the webhook reads, and stored by the  *)
(* API server some time later.  Several requests may be on their way, and    *)
(* the operator's own updates of a claim's finalizer pass through the same   *)
(* webhook.                                                                  *)
(*                                                                           *)
(* Of the checks of a request those of the Secret names are left to          *)
(* ClaimReconciler (SecretsFree).  Here they are part of Refuse.             *)
(****************************************************************************)
EXTENDS Integers, FiniteSets, Functions

CONSTANTS
    Namespaces,
    Claims,          \* pairs <<namespace, name>>
    Buckets,
    TeamOf,          \* the team label of a namespace, or NoTeam
    NamespaceLimit,  \* the hard limit of a namespace, or NoLimit
    TeamLimit,       \* the hard limit of a team, or NoLimit
    Quotas,          \* quotas users ask for
    Requests,        \* places for users' requests that are on their way
    Operator,        \* the place of the operator's request
    NoTeam, NoLimit, NoClaim, NoBucket,
    Lagging,         \* may the informer cache lag behind?
    MaxRequests,     \* bound: requests of users
    MaxErrors        \* bound: requests refused for other reasons

Slots == Requests \cup {Operator}

Teams == {TeamOf[n] : n \in Namespaces} \ {NoTeam}

ASSUME PlacesAssumption ==
    /\ Operator \notin Requests
    /\ NoClaim \notin Claims /\ NoBucket \notin Buckets
    /\ \A c \in Claims : c[1] \in Namespaces

ASSUME FiniteAssumption == IsFiniteSet(Claims) /\ IsFiniteSet(Requests)

ASSUME LimitsAssumption ==
    /\ NamespaceLimit \in [Namespaces -> Nat \cup {NoLimit}]
    /\ TeamLimit \in [Teams -> Nat \cup {NoLimit}]

ASSUME QuotasAssumption ==
    /\ Quotas \subseteq Nat
    /\ Lagging \in BOOLEAN
    /\ MaxRequests \in Nat /\ MaxErrors \in Nat

VARIABLES
    claim,         \* the claims the API server has
    bucket,        \* the claim each bucket refers to, NoClaim without a bucket
    cachedClaim,   \* the claims that exist as the cache has it
    cachedBucket,  \* the buckets as the cache has them
    req,           \* the requests on their way
    total,         \* the sum being taken for a request
    sent, errors   \* counters for the bounds

vars == <<claim, bucket, cachedClaim, cachedBucket, req, total, sent, errors>>

ClaimRec == [state : {"absent", "live", "terminating"}, quota : Nat,
             fin : BOOLEAN, rv : Nat]

Phases == {"idle", "namespaceQuota", "clusterQuota", "buckets", "s3UserRef",
           "persist"}
Kinds == {"none", "create", "update", "finalize", "delete", "createBucket"}

(* rv is the version of the claim the request was made for. *)
RequestRec == [phase : Phases, kind : Kinds, claim : Claims \cup {NoClaim},
               quota : Nat, bucket : Buckets \cup {NoBucket}, rv : Nat,
               todo : SUBSET Namespaces]

Idle == [phase |-> "idle", kind |-> "none", claim |-> NoClaim, quota |-> 0,
         bucket |-> NoBucket, rv |-> 0, todo |-> {}]

TypeOK ==
    /\ claim \in [Claims -> ClaimRec]
    /\ bucket \in [Buckets -> Claims \cup {NoClaim}]
    /\ cachedClaim \in [Claims -> BOOLEAN]
    /\ cachedBucket \in [Buckets -> Claims \cup {NoClaim}]
    /\ req \in [Slots -> RequestRec]
    /\ total \in [Slots -> Nat]
    /\ \A r \in Slots : /\ req[r].phase = "idle" => req[r] = Idle
                        /\ req[r].phase # "idle" => req[r].claim \in Claims
                        /\ req[r].kind = "createBucket" =>
                             req[r].bucket \in Buckets
    /\ sent \in Nat /\ errors \in Nat

Init ==
    /\ claim = [c \in Claims |-> [state |-> "absent", quota |-> 0,
                                  fin |-> FALSE, rv |-> 0]]
    /\ bucket = [b \in Buckets |-> NoClaim]
    /\ cachedClaim = [c \in Claims |-> FALSE]
    /\ cachedBucket = [b \in Buckets |-> NoClaim]
    /\ req = [r \in Slots |-> Idle]
    /\ total = [r \in Slots |-> 0]
    /\ sent = 0 /\ errors = 0

-----------------------------------------------------------------------------
(* Requests arrive. *)

Request(phase, kind, c, q) ==
    [phase |-> phase, kind |-> kind, claim |-> c, quota |-> q,
     bucket |-> NoBucket, rv |-> claim[c].rv, todo |-> {}]

Receive(r, q) ==
    /\ req[r].phase = "idle"
    /\ req' = [req EXCEPT ![r] = q]
    /\ UNCHANGED <<claim, bucket, cachedClaim, cachedBucket, total, errors>>

Send(r, q) ==
    /\ sent < MaxRequests
    /\ sent' = sent + 1
    /\ Receive(r, q)

CreateClaim(r, c) ==
    /\ claim[c].state = "absent"
    /\ \E q \in Quotas : Send(r, Request("namespaceQuota", "create", c, q))

UpdateClaim(r, c) ==
    /\ claim[c].state # "absent"
    /\ \E q \in Quotas \ {claim[c].quota} :
         Send(r, Request("namespaceQuota", "update", c, q))

DeleteClaim(r, c) ==
    /\ claim[c].state = "live"
    /\ Send(r, Request("buckets", "delete", c, 0))

CreateBucket(r, b, c) ==
    /\ bucket[b] = NoClaim
    /\ Send(r, [phase |-> "s3UserRef", kind |-> "createBucket", claim |-> c,
                quota |-> 0, bucket |-> b, rv |-> 0, todo |-> {}])

(* The claim controller adds its finalizer to a claim it has provisioned and *)
(* removes it from one it has cleaned up.  The rest of the claim stays.      *)
Finalize(c) ==
    /\ \/ claim[c].state = "live" /\ ~ claim[c].fin
       \/ claim[c].state = "terminating"
    /\ Receive(Operator, Request("namespaceQuota", "finalize", c,
                                 claim[c].quota))
    /\ UNCHANGED sent

-----------------------------------------------------------------------------
(* Validation. *)

Advance(r, phase) ==
    /\ req' = [req EXCEPT ![r] = [@ EXCEPT !.phase = phase]]
    /\ UNCHANGED <<claim, bucket, cachedClaim, cachedBucket, sent, errors>>

(* The request is answered. *)
Answer(r) == req' = [req EXCEPT ![r] = Idle]

(* Mutant: the place is free again, the request still in it. *)
DenyMutant(r) == Advance(r, "idle")

Deny(r) ==
    /\ Answer(r)
    /\ UNCHANGED <<claim, bucket, cachedClaim, cachedBucket, sent, errors>>

Exceeds(sum, limit) == limit # NoLimit /\ sum > limit

(* Mutant: the claim itself is counted with its old quota as well. *)
OthersMutantOwn(n, c) == {d \in Claims : d[1] = n}

(* Mutant: claims of the same name in other namespaces are not counted. *)
OthersMutantName(n, c) == {d \in Claims : d[1] = n /\ d[2] # c[2]}

(* The claims of namespace n other than c. *)
Others(n, c) == {d \in Claims : d[1] = n} \ {c}

Quota == [d \in Claims |-> claim[d].quota]

(* What the API server, read past the cache, lists for namespace n. *)
UsedByOthers(n, c) == SumFunctionOnSet(Quota, Others(n, c))

(* Mutant: the quota that is asked for is not counted. *)
NamespaceSumMutant(r) == UsedByOthers(req[r].claim[1], req[r].claim)

NamespaceSum(r) ==
    req[r].quota + UsedByOthers(req[r].claim[1], req[r].claim)

TeamNamespaces(n) == {m \in Namespaces : TeamOf[m] = TeamOf[n]}

(* The namespace must be that of a team. *)
ValidateNamespaceQuota(r) ==
    /\ req[r].phase = "namespaceQuota"
    /\ LET n == req[r].claim[1]
       IN IF TeamOf[n] = NoTeam \/ Exceeds(NamespaceSum(r), NamespaceLimit[n])
            THEN Deny(r) /\ total' = [total EXCEPT ![r] = 0]
            ELSE /\ req' = [req EXCEPT ![r] =
                       [phase |-> "clusterQuota", kind |-> @.kind,
                        claim |-> @.claim, quota |-> @.quota,
                        bucket |-> @.bucket, rv |-> @.rv,
                        todo |-> TeamNamespaces(n)]]
                 /\ total' = [total EXCEPT ![r] = req[r].quota]
                 /\ UNCHANGED <<claim, bucket, cachedClaim, cachedBucket, sent,
                                errors>>

(* The namespaces of the team are listed one after another. *)
SumTeamNamespace(r, n) ==
    /\ req[r].phase = "clusterQuota"
    /\ n \in req[r].todo
    /\ total' = [total EXCEPT ![r] = @ + UsedByOthers(n, req[r].claim)]
    /\ req' = [req EXCEPT ![r] = [@ EXCEPT !.todo = req[r].todo \ {n}]]
    /\ UNCHANGED <<claim, bucket, cachedClaim, cachedBucket, sent, errors>>

(* A team without a limit is refused. *)
ValidateClusterQuota(r) ==
    /\ req[r].phase = "clusterQuota"
    /\ req[r].todo = {}
    /\ LET limit == TeamLimit[TeamOf[req[r].claim[1]]]
       IN IF limit = NoLimit \/ Exceeds(total[r], limit)
            THEN Deny(r)
            ELSE Advance(r, "persist")
    /\ total' = [total EXCEPT ![r] = 0]

(* Mutant: the claim goes whatever its buckets. *)
ValidateDeleteMutant(r) ==
    /\ req[r].phase = "buckets"
    /\ Advance(r, "persist")
    /\ UNCHANGED total

(* The buckets are listed from the cache. *)
ValidateDelete(r) ==
    /\ req[r].phase = "buckets"
    /\ IF \E b \in Buckets : cachedBucket[b] = req[r].claim
         THEN Deny(r)
         ELSE Advance(r, "persist")
    /\ UNCHANGED total

(* Of the claim it only matters that the cache has it. *)
ValidateBucketCreate(r) ==
    /\ req[r].phase = "s3UserRef"
    /\ IF cachedClaim[req[r].claim] THEN Advance(r, "persist") ELSE Deny(r)
    /\ UNCHANGED total

(* A Secret has a name asked for, a call of the webhook fails or times out. *)
Refuse(r) ==
    /\ req[r].phase \notin {"idle", "persist"}
    /\ errors < MaxErrors
    /\ errors' = errors + 1
    /\ Answer(r)
    /\ total' = [total EXCEPT ![r] = 0]
    /\ UNCHANGED <<claim, bucket, cachedClaim, cachedBucket, sent>>

-----------------------------------------------------------------------------
(* The API server stores what was admitted. *)

StoreClaim(c, state, quota, fin) ==
    /\ claim' = [claim EXCEPT ![c] =
                    [state |-> state, quota |-> quota, fin |-> fin,
                     rv |-> @.rv + 1]]
    /\ cachedClaim' = IF Lagging
                        THEN cachedClaim
                        ELSE [cachedClaim EXCEPT ![c] = state # "absent"]

(* A claim that changed since the request was made is not overwritten: what  *)
(* the server tries again is validated again, as a new request.              *)
Unchanged(r) == claim[req[r].claim].rv = req[r].rv

PersistClaim(r) ==
    /\ req[r].phase = "persist"
    /\ req[r].kind # "createBucket"
    /\ LET q == req[r]
           c == claim[q.claim]
       IN CASE ~ Unchanged(r) -> UNCHANGED <<claim, cachedClaim>>
            [] Unchanged(r) /\ q.kind = "create" ->
                 StoreClaim(q.claim, "live", q.quota, FALSE)
            [] Unchanged(r) /\ q.kind = "update" ->
                 StoreClaim(q.claim, c.state, q.quota, c.fin)
            [] Unchanged(r) /\ q.kind = "finalize" /\ c.state = "live" ->
                 StoreClaim(q.claim, "live", c.quota, TRUE)
            [] Unchanged(r) /\ q.kind = "delete" /\ c.fin ->
                 StoreClaim(q.claim, "terminating", c.quota, TRUE)
            [] OTHER -> StoreClaim(q.claim, "absent", 0, FALSE)
    /\ Answer(r)
    /\ UNCHANGED <<bucket, cachedBucket, total, sent, errors>>

StoreBucket(b, c) ==
    /\ bucket' = [bucket EXCEPT ![b] = c]
    /\ cachedBucket' = IF Lagging THEN cachedBucket
                                  ELSE [cachedBucket EXCEPT ![b] = c]

PersistBucket(r) ==
    /\ req[r].phase = "persist"
    /\ req[r].kind = "createBucket"
    /\ IF bucket[req[r].bucket] = NoClaim
         THEN StoreBucket(req[r].bucket, req[r].claim)
         ELSE UNCHANGED <<bucket, cachedBucket>>
    /\ Answer(r)
    /\ UNCHANGED <<claim, cachedClaim, total, sent, errors>>

(* A bucket was deleted and its finalizer removed: no webhook is asked. *)
RemoveBucket(b) ==
    /\ bucket[b] # NoClaim
    /\ StoreBucket(b, NoClaim)
    /\ UNCHANGED <<claim, cachedClaim, req, total, sent, errors>>

(* The informer brings the cache up to date. *)
Refresh ==
    /\ \/ \E c \in Claims :
            /\ cachedClaim[c] # (claim[c].state # "absent")
            /\ cachedClaim' = [cachedClaim EXCEPT ![c] = ~ @]
            /\ UNCHANGED cachedBucket
       \/ \E b \in Buckets :
            /\ cachedBucket[b] # bucket[b]
            /\ cachedBucket' = [cachedBucket EXCEPT ![b] = bucket[b]]
            /\ UNCHANGED cachedClaim
    /\ UNCHANGED <<claim, bucket, req, total, sent, errors>>

-----------------------------------------------------------------------------
Arrive == \E r \in Requests, c \in Claims :
            \/ CreateClaim(r, c)
            \/ UpdateClaim(r, c)
            \/ DeleteClaim(r, c)
            \/ \E b \in Buckets : CreateBucket(r, b, c)

Validate(r) == \/ ValidateNamespaceQuota(r)
               \/ \E n \in Namespaces : SumTeamNamespace(r, n)
               \/ ValidateClusterQuota(r)
               \/ ValidateDelete(r)
               \/ ValidateBucketCreate(r)

Persist(r) == PersistClaim(r) \/ PersistBucket(r)

Next == \/ Arrive
        \/ \E c \in Claims : Finalize(c)
        \/ \E r \in Slots : Validate(r) \/ Refuse(r) \/ Persist(r)
        \/ \E b \in Buckets : RemoveBucket(b)
        \/ Refresh

Spec == Init /\ [][Next]_vars

(* Requests are answered, the cache is kept up to date, and the operator     *)
(* turns to each claim again and again.                                      *)
FairSpec == /\ Spec
            /\ \A r \in Slots : WF_vars(Validate(r) \/ Persist(r))
            /\ \A c \in Claims : SF_vars(Finalize(c))
            /\ WF_vars(Refresh)

-----------------------------------------------------------------------------
(* Properties. *)

NamespaceClaims(n) == {d \in Claims : d[1] = n}
TeamClaims(t) == {d \in Claims : TeamOf[d[1]] = t}

NamespaceUsed(n) == SumFunctionOnSet(Quota, NamespaceClaims(n))
TeamUsed(t) == SumFunctionOnSet(Quota, TeamClaims(t))

(* Claims are refused "if their requested quota exceeds the allowable quota" *)
(* (docs/DESIGN.md:76): no sequence of requests, edits and deletions takes a *)
(* namespace over its limit.                                                 *)
WithinNamespaceQuota ==
    \A n \in Namespaces : ~ Exceeds(NamespaceUsed(n), NamespaceLimit[n])

(* Nor a team, whose namespaces may have claims of the same name.            *)
WithinClusterQuota ==
    \A t \in Teams : ~ Exceeds(TeamUsed(t), TeamLimit[t])

(* Requests that are on their way together may take a namespace or a team    *)
(* over its limit, but each request only once: k at a time to no more than k *)
(* times the limit.                                                          *)
OvershootBounded ==
    LET k == Cardinality(Requests) IN
    /\ \A n \in Namespaces : NamespaceLimit[n] # NoLimit =>
         NamespaceUsed(n) <= k * NamespaceLimit[n]
    /\ \A t \in Teams : TeamLimit[t] # NoLimit =>
         TeamUsed(t) <= k * TeamLimit[t]

(* A deletion of claim c was admitted and can still be stored.               *)
DeletionUnderWay(c) ==
    \E r \in Slots : /\ req[r].phase = "persist" /\ req[r].kind = "delete"
                     /\ req[r].claim = c /\ Unchanged(r)

(* The cache has bucket b of the live claim c, and no deletion of c has      *)
(* passed the webhook.                                                       *)
Protected(b, c) ==
    /\ bucket[b] = c /\ cachedBucket[b] = c
    /\ claim[c].state = "live"
    /\ ~ DeletionUnderWay(c)

(* Only a deletion that was admitted before the operator heard of a bucket   *)
(* can take the bucket's claim away: once the bucket is in the cache and no  *)
(* such deletion is left, the claim is safe for as long as the bucket is     *)
(* there, however requests overlap, whatever becomes of the claim meanwhile, *)
(* and however far the cache is behind in all else (ValidateDelete).         *)
KnownBucketsProtect ==
    [][\A b \in Buckets, c \in Claims :
         Protected(b, c) /\ bucket'[b] = c => Protected(b, c)']_vars

(* The quota of its namespace refuses a finalizer update of the operator,    *)
(* made from the claim as it is, only when the claims of the namespace are   *)
(* over the limit already: the claim is counted once, however many requests  *)
(* are on their way (validateAgainstNamespaceQuota).                         *)
RefusedOnlyOverLimit ==
    [][LET n == req[Operator].claim[1] IN
       /\ req[Operator].phase = "namespaceQuota" /\ Unchanged(Operator)
       /\ req'[Operator] = Idle /\ errors' = errors
       => Exceeds(NamespaceUsed(n), NamespaceLimit[n])]_vars

(* The operator can remove its finalizer although each of its updates is     *)
(* validated against the quota anew.                                         *)
DeletionAdmitted ==
    \A c \in Claims : claim[c].state = "terminating"
                      ~> claim[c].state # "terminating"

-----------------------------------------------------------------------------
(* The inductive invariant behind the quotas.  by tells the place whose      *)
(* request gave a claim the quota it has.  The claims of a place were        *)
(* admitted one after another, each with the earlier ones stored and         *)
(* counted: together they are within every limit.                           *)

Within(sum, limit) == ~ Exceeds(sum, limit)

(* What the claims of set S hold that place r is responsible for. *)
Share(by, r, S) == SumFunctionOnSet(Quota, {d \in S : by[d] = r})

SharesWithin(by) ==
    \A r \in Requests :
        /\ \A n \in Namespaces :
             Within(Share(by, r, NamespaceClaims(n)), NamespaceLimit[n])
        /\ \A t \in Teams : Within(Share(by, r, TeamClaims(t)), TeamLimit[t])

(* The quota asked for is within the limit of the namespace, the sum being   *)
(* taken has all of the namespaces listed so far, and what is to be stored   *)
(* is within the limit of the team.                                         *)
AskedWithin(by, r) ==
    LET q == req[r]
        n == q.claim[1]
        mates == TeamClaims(TeamOf[n]) \ {q.claim}
    IN q.kind \in {"create", "update"} =>
         /\ q.phase \in {"namespaceQuota", "clusterQuota", "persist"}
         /\ q.phase # "namespaceQuota" =>
              /\ TeamOf[n] # NoTeam
              /\ Within(q.quota + Share(by, r, NamespaceClaims(n) \ {q.claim}),
                        NamespaceLimit[n])
         /\ q.phase = "clusterQuota" =>
              q.quota + Share(by, r, {d \in mates : d[1] \notin q.todo})
                <= total[r]
         /\ q.phase = "persist" =>
              Within(q.quota + Share(by, r, mates), TeamLimit[TeamOf[n]])

(* The claims can be told apart by place so that those of each place are     *)
(* within every limit, and so is what the place asks for, however requests   *)
(* overlap (validateAgainstNamespaceQuota, validateAgainstClusterQuota).     *)
QuotaInv ==
    \E by \in [Claims -> Slots] :
        /\ \A c \in Claims : by[c] = Operator => claim[c].quota = 0
        /\ req[Operator].kind \in {"none", "finalize"}
        /\ \A r \in Slots : AskedWithin(by, r)
        /\ SharesWithin(by)

(* Only a namespace of a team gets claims, and only a claim has a finalizer. *)
(* The operator's request asks for the quota its claim has, unless the claim *)
(* has changed since.                                                       *)
FinalizerInv ==
    /\ \A c \in Claims : /\ claim[c].state # "absent" => TeamOf[c[1]] # NoTeam
                         /\ claim[c].fin => claim[c].state # "absent"
    /\ LET q == req[Operator] IN q.phase # "idle" =>
         /\ q.rv <= claim[q.claim].rv
         /\ Unchanged(Operator) => /\ claim[q.claim].state # "absent"
                                   /\ q.quota = claim[q.claim].quota
=============================================================================
