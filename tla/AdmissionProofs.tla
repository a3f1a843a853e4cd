---------------------------- MODULE AdmissionProofs ----------------------------
(****************************************************************************)
(* Proofs about Admission, for any number of namespaces, claims and buckets, *)
(* any teams, limits and quotas.                                             *)
(****************************************************************************)
EXTENDS Admission, SumLemmas

(* What a set of claims holds is a number. *)
LEMMA UsedType ==
    ASSUME TypeOK, NEW S \in SUBSET Claims
    PROVE  /\ IsFiniteSet(S)
           /\ \A d \in S : Quota[d] \in Nat
           /\ SumFunctionOnSet(Quota, S) \in Nat
<1>1. IsFiniteSet(S)
  BY FiniteAssumption, FS_Subset
<1>2. \A d \in S : Quota[d] \in Nat
  BY DEF Quota, TypeOK, ClaimRec
<1> QED BY <1>1, <1>2, SumType

LEMMA UsedLess ==
    ASSUME TypeOK, NEW S \in SUBSET Claims, NEW R \in SUBSET S
    PROVE  SumFunctionOnSet(Quota, R) <= SumFunctionOnSet(Quota, S)
<1>1. IsFiniteSet(S) /\ \A d \in S : Quota[d] \in Nat
  BY UsedType
<1>2. \A d \in R : Quota[d] <= Quota[d]
  BY <1>1
<1> QED BY <1>1, <1>2, SumMonotone

LEMMA IdleType == Idle \in RequestRec
BY DEF Idle, RequestRec, Phases, Kinds

LEMMA TypeInit == Init => TypeOK
<1> SUFFICES ASSUME Init
             PROVE  TypeOK
  OBVIOUS
<1>1. claim \in [Claims -> ClaimRec]
  BY DEF Init, ClaimRec
<1>2. /\ req \in [Slots -> RequestRec]
      /\ \A r \in Slots : req[r] = Idle
  BY IdleType DEF Init
<1>3. Idle.phase = "idle" /\ Idle.kind = "none"
  BY DEF Idle
<1> QED BY <1>1, <1>2, <1>3 DEF Init, TypeOK

(* What a step does to the requests: it puts q into place r. *)
RequestIs(r, q) ==
    /\ q \in RequestRec
    /\ q.phase = "idle" => q = Idle
    /\ q.phase # "idle" => q.claim \in Claims
    /\ q.kind = "createBucket" => q.bucket \in Buckets
    /\ req' = [req EXCEPT ![r] = q]

LEMMA TypeRequest ==
    ASSUME TypeOK, NEW r \in Slots, NEW q, RequestIs(r, q),
           claim' \in [Claims -> ClaimRec],
           bucket' \in [Buckets -> Claims \cup {NoClaim}],
           cachedClaim' \in [Claims -> BOOLEAN],
           cachedBucket' \in [Buckets -> Claims \cup {NoClaim}],
           total' \in [Slots -> Nat], sent' \in Nat, errors' \in Nat
    PROVE  TypeOK'
<1>1. /\ req' \in [Slots -> RequestRec]
      /\ req'[r] = q
      /\ \A s \in Slots \ {r} : req'[s] = req[s]
  BY DEF RequestIs, TypeOK
<1>2. ASSUME NEW s \in Slots
      PROVE  /\ req'[s].phase = "idle" => req'[s] = Idle
             /\ req'[s].phase # "idle" => req'[s].claim \in Claims
             /\ req'[s].kind = "createBucket" => req'[s].bucket \in Buckets
  <2>1. CASE s = r
    BY <1>1, <2>1 DEF RequestIs
  <2>2. CASE s # r
    BY <1>1, <2>2 DEF TypeOK
  <2> QED BY <2>1, <2>2
<1> QED BY <1>1, <1>2 DEF TypeOK

LEMMA AnswerIs ==
    ASSUME NEW r \in Slots, Answer(r)
    PROVE  RequestIs(r, Idle)
<1>1. Idle.phase = "idle" /\ Idle.kind = "none"
  BY DEF Idle
<1> QED BY <1>1, IdleType DEF Answer, RequestIs

LEMMA TypeDeny ==
    ASSUME TypeOK, NEW r \in Slots, Deny(r), total' \in [Slots -> Nat]
    PROVE  TypeOK'
BY AnswerIs, TypeRequest DEF Deny, TypeOK

LEMMA TypeAdvance ==
    ASSUME TypeOK, NEW r \in Slots, req[r].phase # "idle", Advance(r, "persist"),
           total' \in [Slots -> Nat]
    PROVE  TypeOK'
<1> DEFINE q == [req[r] EXCEPT !.phase = "persist"]
<1>1. req[r] \in RequestRec
  BY DEF TypeOK
<1>2. /\ q \in RequestRec
      /\ q.phase = "persist"
      /\ q.claim = req[r].claim /\ q.kind = req[r].kind
      /\ q.bucket = req[r].bucket
  BY <1>1 DEF RequestRec, Phases
<1>3. RequestIs(r, q)
  BY <1>2 DEF RequestIs, Advance, TypeOK
<1> QED BY <1>3, TypeRequest DEF Advance, TypeOK

LEMMA TypeReceive ==
    ASSUME TypeOK, NEW r \in Slots, NEW q \in RequestRec,
           q.phase # "idle", q.claim \in Claims,
           q.kind = "createBucket" => q.bucket \in Buckets,
           Receive(r, q), sent' \in Nat
    PROVE  TypeOK'
<1>1. RequestIs(r, q)
  BY DEF RequestIs, Receive
<1> QED BY <1>1, TypeRequest DEF Receive, TypeOK

LEMMA RequestType ==
    ASSUME TypeOK, NEW c \in Claims, NEW n \in Nat,
           NEW phase \in Phases, NEW kind \in Kinds
    PROVE  /\ Request(phase, kind, c, n) \in RequestRec
           /\ Request(phase, kind, c, n).phase = phase
           /\ Request(phase, kind, c, n).kind = kind
           /\ Request(phase, kind, c, n).claim = c
<1>1. claim[c].rv \in Nat
  BY DEF TypeOK, ClaimRec
<1> QED BY <1>1 DEF Request, RequestRec

LEMMA TypeArrive ==
    ASSUME TypeOK, Arrive \/ \E c \in Claims : Finalize(c)
    PROVE  TypeOK'
<1>0. Requests \subseteq Slots /\ Operator \in Slots
  BY DEF Slots
<1>1. ASSUME NEW r \in Requests, NEW c \in Claims,
             CreateClaim(r, c) \/ UpdateClaim(r, c)
      PROVE  TypeOK'
  <2>1. PICK n \in Quotas, kind \in {"create", "update"} :
          Send(r, Request("namespaceQuota", kind, c, n))
    BY <1>1 DEF CreateClaim, UpdateClaim
  <2>2. n \in Nat /\ "namespaceQuota" \in Phases /\ kind \in Kinds
        /\ kind # "createBucket"
    BY <2>1, QuotasAssumption DEF Phases, Kinds
  <2> QED BY <1>0, <2>1, <2>2, RequestType, TypeReceive DEF Send, TypeOK
<1>2. ASSUME NEW r \in Requests, NEW c \in Claims, DeleteClaim(r, c)
      PROVE  TypeOK'
  <2>1. "buckets" \in Phases /\ "delete" \in Kinds
    BY DEF Phases, Kinds
  <2> QED BY <1>0, <1>2, <2>1, RequestType, TypeReceive
             DEF DeleteClaim, Send, TypeOK
<1>3. ASSUME NEW r \in Requests, NEW c \in Claims, NEW b \in Buckets,
             CreateBucket(r, b, c)
      PROVE  TypeOK'
  <2> DEFINE q == [phase |-> "s3UserRef", kind |-> "createBucket", claim |-> c,
                   quota |-> 0, bucket |-> b, rv |-> 0, todo |-> {}]
  <2>1. q \in RequestRec
    BY DEF RequestRec, Phases, Kinds
  <2>2. Receive(r, q) /\ sent' = sent + 1
    BY <1>3 DEF CreateBucket, Send
  <2> QED BY <1>0, <2>1, <2>2, TypeReceive DEF TypeOK
<1>4. ASSUME NEW c \in Claims, Finalize(c)
      PROVE  TypeOK'
  <2>1. /\ "namespaceQuota" \in Phases /\ "finalize" \in Kinds
        /\ claim[c].quota \in Nat
    BY DEF Phases, Kinds, TypeOK, ClaimRec
  <2>2. /\ Receive(Operator, Request("namespaceQuota", "finalize", c,
                                      claim[c].quota))
        /\ sent' = sent
    BY <1>4 DEF Finalize
  <2> DEFINE q == Request("namespaceQuota", "finalize", c, claim[c].quota)
  <2>3. /\ q \in RequestRec
        /\ q.phase # "idle" /\ q.claim \in Claims /\ q.kind # "createBucket"
    BY <2>1, RequestType
  <2>4. sent' \in Nat
    BY <2>2 DEF TypeOK
  <2> QED BY <1>0, <2>2, <2>3, <2>4, TypeReceive
<1> QED BY <1>1, <1>2, <1>3, <1>4 DEF Arrive

LEMMA TypeValidate ==
    ASSUME TypeOK, NEW r \in Slots, Validate(r)
    PROVE  TypeOK'
<1>0. /\ req[r] \in RequestRec
      /\ req[r].phase # "idle" => req[r].claim \in Claims
      /\ req[r].kind = "createBucket" => req[r].bucket \in Buckets
  BY DEF TypeOK
<1>1. CASE ValidateNamespaceQuota(r)
  <2>0. total' \in [Slots -> Nat]
    <3>1. req[r].quota \in Nat
      BY <1>0 DEF RequestRec
    <3> QED BY <1>1, <3>1 DEF ValidateNamespaceQuota, TypeOK
  <2>1. CASE Deny(r)
    BY <2>0, <2>1, TypeDeny
  <2>2. CASE ~ Deny(r)
    <3> DEFINE n == req[r].claim[1]
               q == [phase |-> "clusterQuota", kind |-> req[r].kind,
                     claim |-> req[r].claim, quota |-> req[r].quota,
                     bucket |-> req[r].bucket, rv |-> req[r].rv,
                     todo |-> TeamNamespaces(n)]
    <3>1. /\ req[r].phase = "namespaceQuota"
          /\ req' = [req EXCEPT ![r] = q]
          /\ UNCHANGED <<claim, bucket, cachedClaim, cachedBucket, sent,
                         errors>>
      BY <1>1, <2>2 DEF ValidateNamespaceQuota, TypeOK
    <3>2. TeamNamespaces(n) \subseteq Namespaces
      BY DEF TeamNamespaces
    <3>3. q \in RequestRec
      BY <1>0, <3>2 DEF RequestRec, Phases
    <3>4. RequestIs(r, q)
      BY <1>0, <3>1, <3>3 DEF RequestIs
    <3> QED BY <2>0, <3>1, <3>4, TypeRequest DEF TypeOK
  <2> QED BY <2>1, <2>2
<1>2. ASSUME NEW n \in Namespaces, SumTeamNamespace(r, n)
      PROVE  TypeOK'
  <2> DEFINE q == [req[r] EXCEPT !.todo = req[r].todo \ {n}]
  <2>1. /\ q \in RequestRec
        /\ q.phase = req[r].phase /\ q.claim = req[r].claim
        /\ q.kind = req[r].kind /\ q.bucket = req[r].bucket
    BY <1>0 DEF RequestRec
  <2>2. req[r].phase = "clusterQuota" /\ req' = [req EXCEPT ![r] = q]
    BY <1>2 DEF SumTeamNamespace, TypeOK
  <2>3. RequestIs(r, q)
    BY <1>0, <2>1, <2>2 DEF RequestIs
  <2>4. total' \in [Slots -> Nat]
    <3>1. UsedByOthers(n, req[r].claim) \in Nat
      BY UsedType DEF UsedByOthers, Others
    <3> QED BY <1>2, <3>1 DEF SumTeamNamespace, TypeOK
  <2> QED BY <1>2, <2>3, <2>4, TypeRequest DEF SumTeamNamespace, TypeOK
<1>3. CASE ValidateClusterQuota(r) \/ ValidateDelete(r)
                                   \/ ValidateBucketCreate(r)
  <2>1. (Deny(r) \/ Advance(r, "persist")) /\ req[r].phase # "idle"
    BY <1>3 DEF ValidateClusterQuota, ValidateDelete, ValidateBucketCreate
  <2>2. total' \in [Slots -> Nat]
    BY <1>3 DEF ValidateClusterQuota, ValidateDelete, ValidateBucketCreate,
                TypeOK
  <2> QED BY <2>1, <2>2, TypeDeny, TypeAdvance
<1> QED BY <1>1, <1>2, <1>3 DEF Validate

(* The shape of a write to a claim. *)
LEMMA StoreClaimType ==
    ASSUME TypeOK, NEW c \in Claims,
           NEW state \in {"absent", "live", "terminating"}, NEW quota \in Nat,
           NEW fin \in BOOLEAN, StoreClaim(c, state, quota, fin)
    PROVE  /\ claim' \in [Claims -> ClaimRec]
           /\ cachedClaim' \in [Claims -> BOOLEAN]
           /\ claim'[c].state = state
           /\ \A d \in Claims \ {c} : claim'[d] = claim[d]
<1> DEFINE new == [state |-> state, quota |-> quota, fin |-> fin,
                   rv |-> claim[c].rv + 1]
<1>1. claim[c].rv \in Nat
  BY DEF TypeOK, ClaimRec
<1>2. new \in ClaimRec /\ new.state = state
  BY <1>1 DEF ClaimRec
<1>3. claim' = [claim EXCEPT ![c] = new]
  BY DEF StoreClaim
<1>4. cachedClaim' \in [Claims -> BOOLEAN]
  BY DEF StoreClaim, TypeOK
<1> QED BY <1>2, <1>3, <1>4 DEF TypeOK

(* What a write does to the claim of the request. *)
LEMMA PersistKinds ==
    ASSUME TypeOK, NEW r \in Slots, PersistClaim(r)
    PROVE  LET q == req[r]
               c == claim[q.claim]
           IN \/ UNCHANGED <<claim, cachedClaim>>
              \/ StoreClaim(q.claim, "live", q.quota, FALSE)
              \/ StoreClaim(q.claim, c.state, q.quota, c.fin)
              \/ StoreClaim(q.claim, "live", c.quota, TRUE)
              \/ StoreClaim(q.claim, "terminating", c.quota, TRUE)
              \/ StoreClaim(q.claim, "absent", 0, FALSE)
<1>1. /\ req[r].kind # "createBucket"
      /\ req[r].kind \in Kinds
      /\ Unchanged(r) \in BOOLEAN
  BY DEF PersistClaim, TypeOK, RequestRec, Unchanged
<1> QED BY <1>1 DEF PersistClaim, Kinds

LEMMA TypePersist ==
    ASSUME TypeOK, NEW r \in Slots, Persist(r)
    PROVE  TypeOK'
<1>0. req[r] \in RequestRec /\ req[r].quota \in Nat
  BY DEF TypeOK, RequestRec
<1>1. CASE PersistClaim(r)
  <2>0. req[r].claim \in Claims /\ claim[req[r].claim] \in ClaimRec
    BY <1>1 DEF PersistClaim, TypeOK
  <2>1. claim' \in [Claims -> ClaimRec] /\ cachedClaim' \in [Claims -> BOOLEAN]
    <3>1. /\ claim[req[r].claim].quota \in Nat
          /\ claim[req[r].claim].fin \in BOOLEAN
          /\ claim[req[r].claim].state \in {"absent", "live", "terminating"}
      BY <2>0 DEF ClaimRec
    <3>2. CASE UNCHANGED <<claim, cachedClaim>>
      BY <3>2 DEF TypeOK
    <3> QED BY <1>0, <1>1, <2>0, <3>1, <3>2, PersistKinds, StoreClaimType
  <2> QED BY <1>1, <2>1, AnswerIs, TypeRequest DEF PersistClaim, TypeOK
<1>2. CASE PersistBucket(r)
  <2>1. req[r].bucket \in Buckets /\ req[r].claim \in Claims
    BY <1>2 DEF PersistBucket, TypeOK
  <2>2. /\ bucket' \in [Buckets -> Claims \cup {NoClaim}]
        /\ cachedBucket' \in [Buckets -> Claims \cup {NoClaim}]
    BY <1>2, <2>1 DEF PersistBucket, StoreBucket, TypeOK
  <2> QED BY <1>2, <2>2, AnswerIs, TypeRequest DEF PersistBucket, TypeOK
<1> QED BY <1>1, <1>2 DEF Persist

LEMMA TypeStep == TypeOK /\ [Next]_vars => TypeOK'
<1> SUFFICES ASSUME TypeOK, [Next]_vars
             PROVE  TypeOK'
  OBVIOUS
<1>1. CASE Arrive \/ \E c \in Claims : Finalize(c)
  BY <1>1, TypeArrive
<1>2. ASSUME NEW r \in Slots, Validate(r)
      PROVE  TypeOK'
  BY <1>2, TypeValidate
<1>3. ASSUME NEW r \in Slots, Refuse(r)
      PROVE  TypeOK'
  BY <1>3, AnswerIs, TypeRequest DEF Refuse, TypeOK
<1>4. ASSUME NEW r \in Slots, Persist(r)
      PROVE  TypeOK'
  BY <1>4, TypePersist
<1>5. ASSUME NEW b \in Buckets, RemoveBucket(b)
      PROVE  TypeOK'
  BY <1>5 DEF RemoveBucket, StoreBucket, TypeOK
<1>6. CASE Refresh
  BY <1>6 DEF Refresh, TypeOK
<1>7. CASE UNCHANGED vars
  BY <1>7 DEF vars, TypeOK
<1> QED BY <1>1, <1>2, <1>3, <1>4, <1>5, <1>6, <1>7 DEF Next

(* Every variable keeps its type, and a place without a request is empty. *)
THEOREM TypeCorrect == Spec => []TypeOK
<1>1. Init => TypeOK
  BY TypeInit
<1>2. TypeOK /\ [Next]_vars => TypeOK'
  BY TypeStep
<1> QED BY <1>1, <1>2, PTL DEF Spec

-----------------------------------------------------------------------------
(* The quotas: each place keeps what it has stored within every limit.       *)

(* QuotaInv for one assignment of the claims to places. *)
PlacesInv(by) ==
    /\ \A c \in Claims : by[c] = Operator => claim[c].quota = 0
    /\ req[Operator].kind \in {"none", "finalize"}
    /\ \A r \in Slots : AskedWithin(by, r)
    /\ SharesWithin(by)

LEMMA GroupsAreClaims ==
    /\ \A n : NamespaceClaims(n) \in SUBSET Claims
    /\ \A t : TeamClaims(t) \in SUBSET Claims
BY DEF NamespaceClaims, TeamClaims

LEMMA ShareType ==
    ASSUME TypeOK, NEW by, NEW r, NEW S \in SUBSET Claims
    PROVE  Share(by, r, S) \in Nat
<1>1. {d \in S : by[d] = r} \in SUBSET Claims
  OBVIOUS
<1> QED BY <1>1, UsedType DEF Share

(* Fewer claims have less, of one place as of all. *)
LEMMA ShareOfUsed ==
    ASSUME TypeOK, NEW by, NEW r, NEW S \in SUBSET Claims
    PROVE  Share(by, r, S) <= SumFunctionOnSet(Quota, S)
<1>1. {d \in S : by[d] = r} \in SUBSET S
  OBVIOUS
<1>2. IsFiniteSet(S) /\ \A d \in S : Quota[d] \in Nat
  BY UsedType
<1>3. \A d \in {e \in S : by[e] = r} : Quota[d] <= Quota[d]
  BY <1>2
<1> QED BY <1>1, <1>2, <1>3, SumMonotone DEF Share

(* A step that gives the place no claim and no claim more than it had.       *)
LEMMA ShareFalls ==
    ASSUME TypeOK, TypeOK', NEW by, NEW new, NEW r,
           NEW S \in SUBSET Claims, NEW R \in SUBSET S,
           \A d \in R : new[d] = r =>
               by[d] = r /\ claim'[d].quota <= claim[d].quota
    PROVE  Share(new, r, R)' <= Share(by, r, S)
<1> DEFINE U == {d \in S : by[d] = r}
           V == {d \in R : new[d] = r}
<1>1. V \in SUBSET U /\ U \in SUBSET Claims
  OBVIOUS
<1>2. IsFiniteSet(U)
  BY <1>1, UsedType
<1>3. \A d \in U : Quota'[d] \in Nat /\ Quota[d] \in Nat
  BY <1>1 DEF Quota, TypeOK, ClaimRec
<1>4. \A d \in V : Quota'[d] <= Quota[d]
  BY DEF Quota
<1>5. SumFunctionOnSet(Quota', V) <= SumFunctionOnSet(Quota, U)
  <2> HIDE DEF U, V
  <2> QED BY <1>1, <1>2, <1>3, <1>4, SumMonotone
<1> QED BY <1>5 DEF Share

(* A step that gives claim d, with quota q, to the place.                    *)
LEMMA ShareGains ==
    ASSUME TypeOK, TypeOK', NEW by, NEW new, NEW r,
           NEW S \in SUBSET Claims, NEW d \in S,
           new[d] = r, \A e \in S \ {d} : new[e] = by[e] /\ claim'[e] = claim[e]
    PROVE  Share(new, r, S)' = claim'[d].quota + Share(by, r, S \ {d})
<1> DEFINE U == {e \in S : new[e] = r}
           V == {e \in S \ {d} : by[e] = r}
<1>1. d \in U /\ U \ {d} = V /\ U \in SUBSET Claims /\ V \in SUBSET Claims
  OBVIOUS
<1>2. IsFiniteSet(U) /\ IsFiniteSet(V)
  BY <1>1, UsedType
<1>3. /\ \A e \in U : Quota'[e] \in Nat
      /\ \A e \in V : Quota'[e] = Quota[e]
      /\ Quota'[d] = claim'[d].quota
  BY <1>1 DEF Quota, TypeOK, ClaimRec
<1>4. SumFunctionOnSet(Quota', U)
        = claim'[d].quota + SumFunctionOnSet(Quota, V)
  <2> HIDE DEF U, V
  <2>1. SumFunctionOnSet(Quota', U) = Quota'[d] + SumFunctionOnSet(Quota', V)
    BY <1>1, <1>2, <1>3, SumRemove
  <2>2. SumFunctionOnSet(Quota', V) = SumFunctionOnSet(Quota, V)
    BY <1>2, <1>3, SumSame
  <2> QED BY <1>3, <2>1, <2>2
<1> QED BY <1>4 DEF Share

(* What is within a limit stays so when it gets less. *)
LEMMA WithinLess ==
    ASSUME NEW limit \in Nat \cup {NoLimit}, NEW a \in Nat, NEW b \in Nat,
           b <= a, Within(a, limit)
    PROVE  Within(b, limit)
BY DEF Within, Exceeds

LEMMA LimitType ==
    /\ \A n \in Namespaces : NamespaceLimit[n] \in Nat \cup {NoLimit}
    /\ \A t \in Teams : TeamLimit[t] \in Nat \cup {NoLimit}
BY LimitsAssumption

LEMMA ClaimTeam ==
    ASSUME NEW c \in Claims
    PROVE  /\ c[1] \in Namespaces
           /\ TeamOf[c[1]] # NoTeam => TeamOf[c[1]] \in Teams
BY PlacesAssumption DEF Teams

LEMMA QuotaInit == Init => QuotaInv
<1> SUFFICES ASSUME Init
             PROVE  QuotaInv
  OBVIOUS
<1> DEFINE by == [c \in Claims |-> Operator]
<1>1. TypeOK
  BY TypeInit
<1>2. by \in [Claims -> Slots]
  BY DEF Slots
<1>3. \A c \in Claims : claim[c].quota = 0
  BY DEF Init
<1>4. \A r \in Slots : req[r].kind = "none"
  BY DEF Init, Idle
<1>5. Operator \in Slots
  BY DEF Slots
<1>6. ASSUME NEW r \in Requests, NEW S \in SUBSET Claims
      PROVE  Share(by, r, S) = 0
  <2>1. {d \in S : by[d] = r} = {}
    BY <1>6, PlacesAssumption
  <2> QED BY <2>1, SumEmpty DEF Share
<1>7. SharesWithin(by)
  <2>1. \A limit \in Nat \cup {NoLimit} : Within(0, limit)
    BY DEF Within, Exceeds
  <2> HIDE DEF by
  <2> QED BY <1>6, <2>1, GroupsAreClaims, LimitType DEF SharesWithin
<1>8. \A r \in Slots : AskedWithin(by, r)
  BY <1>4 DEF AskedWithin
<1> HIDE DEF by
<1> QED BY <1>2, <1>3, <1>4, <1>5, <1>7, <1>8 DEF QuotaInv

(* A request changes and no claim does. *)
LEMMA QuotaRequest ==
    ASSUME TypeOK, NEW by, PlacesInv(by), NEW r \in Slots,
           claim' = claim,
           \A s \in Slots \ {r} : req'[s] = req[s] /\ total'[s] = total[s],
           r = Operator => req'[r].kind \in {"none", "finalize"},
           AskedWithin(by, r)'
    PROVE  PlacesInv(by)'
<1>1. Quota' = Quota
  BY DEF Quota
<1>2. \A s, S : Share(by, s, S)' = Share(by, s, S)
  BY <1>1 DEF Share
<1>3. ASSUME NEW s \in Slots
      PROVE  AskedWithin(by, s)'
  <2>1. CASE s # r
    <3>1. AskedWithin(by, s)
      BY DEF PlacesInv
    <3>2. req'[s] = req[s] /\ total'[s] = total[s]
      BY <2>1
    <3> QED BY <1>2, <3>1, <3>2 DEF AskedWithin
  <2> QED BY <2>1
<1>4. SharesWithin(by)'
  BY <1>2 DEF PlacesInv, SharesWithin
<1>5. Operator \in Slots /\ req'[Operator].kind \in {"none", "finalize"}
  BY DEF PlacesInv, Slots
<1> QED BY <1>3, <1>4, <1>5 DEF PlacesInv

LEMMA QuotaAnswer ==
    ASSUME TypeOK, NEW by, PlacesInv(by), NEW r \in Slots, Answer(r),
           claim' = claim, \A s \in Slots \ {r} : total'[s] = total[s]
    PROVE  PlacesInv(by)'
<1>1. /\ req'[r] = Idle
      /\ \A s \in Slots \ {r} : req'[s] = req[s]
  BY DEF Answer, TypeOK
<1>2. Idle.kind = "none"
  BY DEF Idle
<1> QED BY <1>1, <1>2, QuotaRequest DEF AskedWithin

LEMMA QuotaArrive ==
    ASSUME TypeOK, NEW by, PlacesInv(by),
           Arrive \/ \E c \in Claims : Finalize(c)
    PROVE  PlacesInv(by)'
<1>0. Requests \subseteq Slots /\ Operator \in Slots /\ Operator \notin Requests
  BY PlacesAssumption DEF Slots
<1>1. ASSUME NEW r \in Slots, NEW q, Receive(r, q),
             q.kind \in {"create", "update"} => q.phase = "namespaceQuota",
             r = Operator => q.kind \in {"none", "finalize"}
      PROVE  PlacesInv(by)'
  <2>1. /\ req'[r] = q
        /\ \A s \in Slots \ {r} : req'[s] = req[s]
        /\ claim' = claim /\ total' = total
    BY <1>1 DEF Receive, TypeOK
  <2>2. AskedWithin(by, r)'
    BY <1>1, <2>1 DEF AskedWithin
  <2> QED BY <1>1, <2>1, <2>2, QuotaRequest
<1>2. ASSUME NEW r \in Requests, NEW c \in Claims,
             CreateClaim(r, c) \/ UpdateClaim(r, c) \/ DeleteClaim(r, c)
      PROVE  PlacesInv(by)'
  <2>1. PICK phase, kind, n :
          /\ Send(r, Request(phase, kind, c, n))
          /\ kind \in {"create", "update"} => phase = "namespaceQuota"
    BY <1>2 DEF CreateClaim, UpdateClaim, DeleteClaim
  <2>2. /\ Request(phase, kind, c, n).kind = kind
        /\ Request(phase, kind, c, n).phase = phase
    BY DEF Request
  <2> QED BY <1>0, <1>1, <2>1, <2>2 DEF Send
<1>3. ASSUME NEW r \in Requests, NEW c \in Claims, NEW b \in Buckets,
             CreateBucket(r, b, c)
      PROVE  PlacesInv(by)'
  <2> DEFINE q == [phase |-> "s3UserRef", kind |-> "createBucket", claim |-> c,
                   quota |-> 0, bucket |-> b, rv |-> 0, todo |-> {}]
  <2>1. q.kind = "createBucket" /\ Receive(r, q)
    BY <1>3 DEF CreateBucket, Send
  <2> QED BY <1>0, <1>1, <2>1
<1>4. ASSUME NEW c \in Claims, Finalize(c)
      PROVE  PlacesInv(by)'
  <2> DEFINE q == Request("namespaceQuota", "finalize", c, claim[c].quota)
  <2>1. q.kind = "finalize" /\ Receive(Operator, q)
    BY <1>4 DEF Finalize, Request
  <2> QED BY <1>0, <1>1, <2>1
<1> QED BY <1>2, <1>3, <1>4 DEF Arrive

(* The first check: the namespace. *)
LEMMA QuotaNamespace ==
    ASSUME TypeOK, NEW by, PlacesInv(by), NEW r \in Slots,
           ValidateNamespaceQuota(r)
    PROVE  PlacesInv(by)'
<1> DEFINE c == req[r].claim
           n == req[r].claim[1]
           q == [phase |-> "clusterQuota", kind |-> req[r].kind,
                 claim |-> req[r].claim, quota |-> req[r].quota,
                 bucket |-> req[r].bucket, rv |-> req[r].rv,
                 todo |-> TeamNamespaces(n)]
<1>1. /\ req[r].phase = "namespaceQuota"
      /\ c \in Claims /\ n \in Namespaces
      /\ req[r].quota \in Nat
      /\ AskedWithin(by, r)
  BY ClaimTeam DEF ValidateNamespaceQuota, TypeOK, RequestRec, PlacesInv
<1>2. CASE Deny(r)
  <2>1. \A s \in Slots \ {r} : total'[s] = total[s]
    BY DEF ValidateNamespaceQuota, TypeOK
  <2> QED BY <1>2, <2>1, QuotaAnswer DEF Deny
<1>3. CASE ~ Deny(r)
  <2>1. /\ TeamOf[n] # NoTeam
        /\ ~ Exceeds(NamespaceSum(r), NamespaceLimit[n])
        /\ req' = [req EXCEPT ![r] = q]
        /\ total' = [total EXCEPT ![r] = req[r].quota]
        /\ claim' = claim
    BY <1>3 DEF ValidateNamespaceQuota
  <2>2. /\ req'[r] = q /\ total'[r] = req[r].quota
        /\ \A s \in Slots \ {r} : req'[s] = req[s] /\ total'[s] = total[s]
    BY <2>1 DEF TypeOK
  <2>3. \A S : Share(by, r, S)' = Share(by, r, S)
    BY <2>1 DEF Quota, Share
  <2>4. Within(req[r].quota + Share(by, r, NamespaceClaims(n) \ {c}),
               NamespaceLimit[n])
    <3> DEFINE S == NamespaceClaims(n) \ {c}
    <3>1. S \in SUBSET Claims /\ UsedByOthers(n, c) = SumFunctionOnSet(Quota, S)
      BY DEF NamespaceClaims, UsedByOthers, Others
    <3>2. /\ SumFunctionOnSet(Quota, S) \in Nat
          /\ Share(by, r, S) \in Nat
          /\ Share(by, r, S) <= SumFunctionOnSet(Quota, S)
      BY <3>1, UsedType, ShareType, ShareOfUsed
    <3>3. Within(req[r].quota + SumFunctionOnSet(Quota, S), NamespaceLimit[n])
      BY <2>1, <3>1 DEF NamespaceSum, Within
    <3> DEFINE a == req[r].quota + SumFunctionOnSet(Quota, S)
               b == req[r].quota + Share(by, r, S)
    <3>4. a \in Nat /\ b \in Nat /\ b <= a
      <4> HIDE DEF S, n, c
      <4> QED BY <1>1, <3>2
    <3>5. NamespaceLimit[n] \in Nat \cup {NoLimit}
      BY <1>1, LimitType
    <3>6. Within(b, NamespaceLimit[n])
      <4> HIDE DEF a, b
      <4> QED BY <3>3, <3>4, <3>5, WithinLess DEF a
    <3> QED BY <3>6
  <2>5. req[r].quota
          + Share(by, r, {d \in TeamClaims(TeamOf[n]) \ {c} :
                            d[1] \notin TeamNamespaces(n)}) <= req[r].quota
    <3>1. {e \in {d \in TeamClaims(TeamOf[n]) \ {c} :
                    d[1] \notin TeamNamespaces(n)} : by[e] = r} = {}
      BY ClaimTeam DEF TeamClaims, TeamNamespaces
    <3>2. Share(by, r, {d \in TeamClaims(TeamOf[n]) \ {c} :
                          d[1] \notin TeamNamespaces(n)}) = 0
      BY <3>1, SumEmpty DEF Share
    <3> QED BY <1>1, <3>2
  <2>6. /\ q.kind = req[r].kind /\ q.phase = "clusterQuota" /\ q.claim = c
        /\ q.quota = req[r].quota /\ q.todo = TeamNamespaces(n)
    OBVIOUS
  <2>7. AskedWithin(by, r)'
    <3>1. /\ req'[r].kind = req[r].kind /\ req'[r].phase = "clusterQuota"
          /\ req'[r].claim = c /\ req'[r].quota = req[r].quota
          /\ req'[r].todo = TeamNamespaces(n)
      BY <2>2, <2>6
    <3>2. /\ req'[r].phase # "namespaceQuota"
          /\ req'[r].phase # "persist"
      BY <3>1
    <3>3. req[r].quota
            + Share(by, r, {d \in TeamClaims(TeamOf[n]) \ {c} :
                              d[1] \notin TeamNamespaces(n)})' <= total'[r]
      BY <2>2, <2>3, <2>5
    <3>4. Within(req[r].quota + Share(by, r, NamespaceClaims(n) \ {c})',
                 NamespaceLimit[n])
      <4>1. Share(by, r, NamespaceClaims(n) \ {c})'
              = Share(by, r, NamespaceClaims(n) \ {c})
        <5>1. c' = c /\ n' = n
          BY <2>2, <2>6
        <5> QED BY <5>1, <2>3, Zenon
      <4> QED BY <4>1, <2>4, Zenon
    <3> HIDE DEF q
    <3> QED BY <2>1, <3>1, <3>2, <3>3, <3>4, Zenon DEF AskedWithin
  <2>8. r = Operator => req'[r].kind \in {"none", "finalize"}
    BY <2>2 DEF PlacesInv
  <2> QED BY <2>1, <2>2, <2>7, <2>8, QuotaRequest
<1> QED BY <1>2, <1>3

(* One more namespace of the team is summed. *)
LEMMA QuotaTeamNamespace ==
    ASSUME TypeOK, NEW by, PlacesInv(by), NEW r \in Slots, NEW n \in Namespaces,
           SumTeamNamespace(r, n)
    PROVE  PlacesInv(by)'
<1> DEFINE c == req[r].claim
           mates == TeamClaims(TeamOf[c[1]]) \ {c}
           q == [req[r] EXCEPT !.todo = req[r].todo \ {n}]
           S == {d \in mates : d[1] \notin req[r].todo}
           R == {d \in mates : d[1] \notin req[r].todo \ {n}}
           N == Others(n, c)
<1>1. /\ req[r].phase = "clusterQuota" /\ n \in req[r].todo
      /\ req[r] \in RequestRec /\ req[r].quota \in Nat /\ c \in Claims
      /\ AskedWithin(by, r)
      /\ r = Operator => req[r].kind \in {"none", "finalize"}
  BY DEF SumTeamNamespace, TypeOK, RequestRec, PlacesInv
<1>2. /\ q.kind = req[r].kind /\ q.phase = req[r].phase /\ q.claim = c
      /\ q.quota = req[r].quota /\ q.todo = req[r].todo \ {n}
  BY <1>1 DEF RequestRec
<1>3. /\ req'[r] = q
      /\ total'[r] = total[r] + UsedByOthers(n, c)
      /\ \A s \in Slots \ {r} : req'[s] = req[s] /\ total'[s] = total[s]
      /\ claim' = claim
  BY DEF SumTeamNamespace, TypeOK
<1>4. Quota' = Quota
  BY <1>3 DEF Quota
<1>5. Share(by, r, R) <= Share(by, r, S) + UsedByOthers(n, c)
  <2> DEFINE A == {d \in R : by[d] = r}
             B == {d \in S : by[d] = r}
             C == {d \in A : d[1] = n}
  <2>1. A \in SUBSET Claims /\ B \in SUBSET A /\ C \in SUBSET N
        /\ N \in SUBSET Claims /\ A \ C \in SUBSET B /\ C \in SUBSET A
    BY DEF TeamClaims, Others
  <2>2. SumFunctionOnSet(Quota, A)
          = SumFunctionOnSet(Quota, A \ C) + SumFunctionOnSet(Quota, C)
    BY <2>1, UsedType, SumSplit
  <2>3. SumFunctionOnSet(Quota, A \ C) <= SumFunctionOnSet(Quota, B)
    BY <2>1, UsedLess
  <2>4. SumFunctionOnSet(Quota, C) <= SumFunctionOnSet(Quota, N)
    BY <2>1, UsedLess
  <2>5. /\ SumFunctionOnSet(Quota, A \ C) \in Nat
        /\ SumFunctionOnSet(Quota, B) \in Nat
        /\ SumFunctionOnSet(Quota, C) \in Nat
        /\ SumFunctionOnSet(Quota, N) \in Nat
    BY <2>1, UsedType
  <2> HIDE DEF A, B, C
  <2>6. SumFunctionOnSet(Quota, A)
          <= SumFunctionOnSet(Quota, B) + SumFunctionOnSet(Quota, N)
    BY <2>2, <2>3, <2>4, <2>5
  <2> QED BY <2>6 DEF Share, UsedByOthers, A, B
<1>6. ASSUME req[r].kind \in {"create", "update"}
      PROVE  req[r].quota + Share(by, r, R) <= total'[r]
  <2>1. req[r].quota + Share(by, r, S) <= total[r]
    BY <1>1, <1>6 DEF AskedWithin
  <2>2. S \in SUBSET Claims /\ R \in SUBSET Claims /\ N \in SUBSET Claims
    BY DEF TeamClaims, Others
  <2>3. /\ Share(by, r, S) \in Nat /\ Share(by, r, R) \in Nat
        /\ UsedByOthers(n, c) \in Nat /\ total[r] \in Nat
    BY <2>2, ShareType, UsedType DEF UsedByOthers, TypeOK
  <2> HIDE DEF S, R, N, c
  <2> QED BY <1>1, <1>3, <1>5, <2>1, <2>3
<1>7. AskedWithin(by, r)'
  <2>1. ASSUME req[r].kind \in {"create", "update"}
        PROVE  /\ TeamOf[c[1]] # NoTeam
               /\ Within(req[r].quota + Share(by, r, NamespaceClaims(c[1]) \ {c}),
                         NamespaceLimit[c[1]])
    BY <1>1, <2>1 DEF AskedWithin
  <2> HIDE DEF q
  <2> QED BY <1>1, <1>2, <1>3, <1>4, <1>6, <2>1 DEF AskedWithin, Share
<1>8. r = Operator => req'[r].kind \in {"none", "finalize"}
  <2> HIDE DEF q
  <2> QED BY <1>1, <1>2, <1>3
<1> QED BY <1>3, <1>7, <1>8, QuotaRequest

(* The second check: the team, whose namespaces have all been summed. *)
LEMMA QuotaCluster ==
    ASSUME TypeOK, NEW by, PlacesInv(by), NEW r \in Slots,
           ValidateClusterQuota(r)
    PROVE  PlacesInv(by)'
<1> DEFINE c == req[r].claim
           n == req[r].claim[1]
           mates == TeamClaims(TeamOf[n]) \ {c}
           limit == TeamLimit[TeamOf[n]]
           q == [req[r] EXCEPT !.phase = "persist"]
<1>1. /\ req[r].phase = "clusterQuota" /\ req[r].todo = {}
      /\ req[r] \in RequestRec /\ req[r].quota \in Nat /\ c \in Claims
      /\ total[r] \in Nat
      /\ AskedWithin(by, r)
      /\ r = Operator => req[r].kind \in {"none", "finalize"}
      /\ \A s \in Slots \ {r} : total'[s] = total[s]
  BY DEF ValidateClusterQuota, TypeOK, RequestRec, PlacesInv
<1>2. CASE Deny(r)
  BY <1>1, <1>2, QuotaAnswer DEF Deny
<1>3. CASE ~ Deny(r)
  <2>1. /\ limit # NoLimit /\ ~ Exceeds(total[r], limit)
        /\ req' = [req EXCEPT ![r] = q]
        /\ claim' = claim
    BY <1>3 DEF ValidateClusterQuota, Advance, TypeOK
  <2>2. /\ req'[r] = q
        /\ \A s \in Slots \ {r} : req'[s] = req[s]
    BY <2>1 DEF TypeOK
  <2>3. /\ q.kind = req[r].kind /\ q.phase = "persist" /\ q.claim = c
        /\ q.quota = req[r].quota
    BY <1>1 DEF RequestRec
  <2>4. /\ req'[r].kind = req[r].kind /\ req'[r].phase = "persist"
        /\ req'[r].claim = c /\ req'[r].quota = req[r].quota
    BY <2>2, <2>3
  <2>5. \A S : Share(by, r, S)' = Share(by, r, S)
    BY <2>1 DEF Quota, Share
  <2>6. ASSUME req[r].kind \in {"create", "update"}
        PROVE  /\ TeamOf[n] # NoTeam
               /\ Within(req[r].quota + Share(by, r, NamespaceClaims(n) \ {c}),
                         NamespaceLimit[n])
               /\ Within(req[r].quota + Share(by, r, mates), limit)
    <3> HIDE DEF q
    <3>1. /\ TeamOf[n] # NoTeam
          /\ Within(req[r].quota + Share(by, r, NamespaceClaims(n) \ {c}),
                    NamespaceLimit[n])
          /\ req[r].quota + Share(by, r, {d \in mates : d[1] \notin req[r].todo})
               <= total[r]
      BY <1>1, <2>6 DEF AskedWithin
    <3>2. {d \in mates : d[1] \notin req[r].todo} = mates
      BY <1>1
    <3>3. req[r].quota + Share(by, r, mates) <= total[r]
      <4>1. Share(by, r, {d \in mates : d[1] \notin req[r].todo})
              = Share(by, r, mates)
        BY <3>2, Zenon
      <4> HIDE DEF mates
      <4> QED BY <3>1, <4>1
    <3>4. Share(by, r, mates) \in Nat
      BY ShareType DEF TeamClaims
    <3>5. limit \in Nat \cup {NoLimit}
      BY <1>1, <3>1, ClaimTeam, LimitType
    <3>6. req[r].quota + Share(by, r, mates) \in Nat
      <4> HIDE DEF mates
      <4> QED BY <1>1, <3>4
    <3>7. Within(req[r].quota + Share(by, r, mates), limit)
      <4> DEFINE a == req[r].quota + Share(by, r, mates)
      <4>1. a \in Nat /\ a <= total[r] /\ Within(total[r], limit)
        BY <2>1, <3>3, <3>6 DEF Within
      <4>2. Within(a, limit)
        <5> HIDE DEF a, limit
        <5> QED BY <1>1, <3>5, <4>1, WithinLess
      <4> QED BY <4>2
    <3> QED BY <3>1, <3>7
  <2>7. AskedWithin(by, r)'
    <3>1. c' = c /\ n' = n /\ mates' = mates
      <4> HIDE DEF q
      <4> QED BY <2>4
    <3>2. /\ Share(by, r, NamespaceClaims(n) \ {c})'
               = Share(by, r, NamespaceClaims(n) \ {c})
          /\ Share(by, r, mates)' = Share(by, r, mates)
      <4> HIDE DEF c, n, mates, q
      <4> QED BY <2>5, <3>1, Zenon
    <3>3. req'[r].phase # "namespaceQuota" /\ req'[r].phase # "clusterQuota"
      BY <2>4
    <3>4. ASSUME req'[r].kind \in {"create", "update"}
          PROVE  /\ TeamOf[n] # NoTeam
                 /\ Within(req'[r].quota
                             + Share(by, r, NamespaceClaims(n) \ {c})',
                           NamespaceLimit[n])
                 /\ Within(req'[r].quota + Share(by, r, mates)', limit)
      <4>1. req[r].kind \in {"create", "update"}
        BY <2>4, <3>4
      <4> HIDE DEF c, n, mates, q
      <4> QED BY <2>4, <2>6, <3>2, <4>1, Zenon
    <3> HIDE DEF q
    <3> QED BY <2>4, <3>1, <3>3, <3>4, Zenon DEF AskedWithin
  <2>8. r = Operator => req'[r].kind \in {"none", "finalize"}
    BY <1>1, <2>4
  <2> QED BY <1>1, <2>1, <2>2, <2>7, <2>8, QuotaRequest
<1> QED BY <1>2, <1>3

(* Requests that ask for no quota. *)
LEMMA QuotaOther ==
    ASSUME TypeOK, NEW by, PlacesInv(by), NEW r \in Slots,
           ValidateDelete(r) \/ ValidateBucketCreate(r)
    PROVE  PlacesInv(by)'
<1> DEFINE q == [req[r] EXCEPT !.phase = "persist"]
<1>1. /\ req[r].phase \in {"buckets", "s3UserRef"}
      /\ req[r] \in RequestRec /\ AskedWithin(by, r)
      /\ total' = total
      /\ r = Operator => req[r].kind \in {"none", "finalize"}
  BY DEF ValidateDelete, ValidateBucketCreate, PlacesInv, TypeOK
<1>2. req[r].kind \notin {"create", "update"}
  BY <1>1 DEF AskedWithin
<1>3. CASE Deny(r)
  BY <1>1, <1>3, QuotaAnswer DEF Deny
<1>4. CASE Advance(r, "persist")
  <2>1. q.kind = req[r].kind
    BY <1>1 DEF RequestRec
  <2>2. /\ req'[r] = q
        /\ \A s \in Slots \ {r} : req'[s] = req[s]
        /\ claim' = claim
    BY <1>4 DEF Advance, TypeOK
  <2>3. req'[r].kind = req[r].kind
    BY <2>1, <2>2
  <2>4. AskedWithin(by, r)'
    BY <1>2, <2>3 DEF AskedWithin
  <2> QED BY <1>1, <2>2, <2>3, <2>4, QuotaRequest
<1> QED BY <1>3, <1>4 DEF ValidateDelete, ValidateBucketCreate

(* What PersistClaim stores: nothing, the quota of the request, or a quota   *)
(* that is no more than the claim has.                                       *)
LEMMA PersistStores ==
    ASSUME TypeOK, NEW r \in Slots, PersistClaim(r)
    PROVE  LET q == req[r]
               d == q.claim
           IN /\ d \in Claims
              /\ \A e \in Claims \ {d} : claim'[e] = claim[e]
              /\ \/ claim' = claim
                 \/ q.kind \in {"create", "update"} /\ claim'[d].quota = q.quota
                 \/ claim'[d].quota \in {claim[d].quota, 0}
<1> DEFINE q == req[r]
           d == q.claim
<1>1. /\ q \in RequestRec /\ d \in Claims /\ claim[d] \in ClaimRec
      /\ q.quota \in Nat /\ claim[d].quota \in Nat
      /\ claim[d].fin \in BOOLEAN
      /\ claim[d].state \in {"absent", "live", "terminating"}
  BY DEF PersistClaim, TypeOK, RequestRec, ClaimRec
<1>2. \/ UNCHANGED <<claim, cachedClaim>>
      \/ /\ q.kind \in {"create", "update"}
         /\ \/ StoreClaim(d, "live", q.quota, FALSE)
            \/ StoreClaim(d, claim[d].state, q.quota, claim[d].fin)
      \/ StoreClaim(d, "live", claim[d].quota, TRUE)
      \/ StoreClaim(d, "terminating", claim[d].quota, TRUE)
      \/ StoreClaim(d, "absent", 0, FALSE)
  <2>1. q.kind \in Kinds /\ q.kind # "createBucket" /\ Unchanged(r) \in BOOLEAN
    BY <1>1 DEF PersistClaim, RequestRec, Unchanged
  <2> QED BY <2>1 DEF PersistClaim, Kinds
<1>3. ASSUME NEW state, NEW n \in Nat, NEW fin, StoreClaim(d, state, n, fin)
      PROVE  /\ claim'[d].quota = n
             /\ \A e \in Claims \ {d} : claim'[e] = claim[e]
  <2>1. claim' = [claim EXCEPT ![d] =
                    [state |-> state, quota |-> n, fin |-> fin,
                     rv |-> claim[d].rv + 1]]
    BY <1>1, <1>3 DEF StoreClaim, TypeOK
  <2> QED BY <1>1, <2>1 DEF TypeOK
<1>4. 0 \in Nat
  OBVIOUS
<1> HIDE DEF q, d
<1>5. /\ \A e \in Claims \ {d} : claim'[e] = claim[e]
      /\ \/ claim' = claim
         \/ q.kind \in {"create", "update"} /\ claim'[d].quota = q.quota
         \/ claim'[d].quota \in {claim[d].quota, 0}
  <2>1. CASE UNCHANGED <<claim, cachedClaim>>
    BY <2>1
  <2>2. CASE q.kind \in {"create", "update"}
             /\ \/ StoreClaim(d, "live", q.quota, FALSE)
                \/ StoreClaim(d, claim[d].state, q.quota, claim[d].fin)
    BY <1>1, <1>3, <2>2
  <2>3. CASE \/ StoreClaim(d, "live", claim[d].quota, TRUE)
             \/ StoreClaim(d, "terminating", claim[d].quota, TRUE)
             \/ StoreClaim(d, "absent", 0, FALSE)
    BY <1>1, <1>3, <1>4, <2>3
  <2> QED BY <1>2, <2>1, <2>2, <2>3
<1> QED BY <1>1, <1>5 DEF q, d

(* A request whose place's claims do not change, while no other place gets   *)
(* more than it had.                                                         *)
LEMMA QuotaOfOthers ==
    ASSUME TypeOK, TypeOK', NEW by, NEW new, NEW s \in Slots,
           AskedWithin(by, s), req'[s] = req[s], total'[s] = total[s],
           \A S \in SUBSET Claims : Share(new, s, S)' <= Share(by, s, S)
    PROVE  AskedWithin(new, s)'
<1> DEFINE q == req[s]
           n == q.claim[1]
           mates == TeamClaims(TeamOf[n]) \ {q.claim}
           N == NamespaceClaims(n) \ {q.claim}
           U == {d \in mates : d[1] \notin q.todo}
<1> SUFFICES ASSUME q.kind \in {"create", "update"}
             PROVE  AskedWithin(new, s)'
  BY DEF AskedWithin
<1>1. /\ q \in RequestRec /\ q.quota \in Nat /\ total[s] \in Nat
      /\ N \in SUBSET Claims /\ U \in SUBSET Claims /\ mates \in SUBSET Claims
  BY DEF TypeOK, RequestRec, NamespaceClaims, TeamClaims
<1>2. /\ q.phase \in {"namespaceQuota", "clusterQuota", "persist"}
      /\ q.phase # "namespaceQuota" =>
           /\ TeamOf[n] # NoTeam
           /\ Within(q.quota + Share(by, s, N), NamespaceLimit[n])
      /\ q.phase = "clusterQuota" => q.quota + Share(by, s, U) <= total[s]
      /\ q.phase = "persist" =>
           Within(q.quota + Share(by, s, mates), TeamLimit[TeamOf[n]])
  BY DEF AskedWithin
<1>3. q.claim \in Claims
  BY <1>2 DEF TypeOK
<1>4. \A S \in SUBSET Claims : Share(by, s, S) \in Nat /\ Share(new, s, S)' \in Nat
  <2>1. ASSUME NEW S \in SUBSET Claims
        PROVE  Share(new, s, S)' \in Nat
    <3>1. {d \in S : new[d] = s} \in SUBSET Claims
      OBVIOUS
    <3>2. IsFiniteSet({d \in S : new[d] = s})
      BY <3>1, UsedType
    <3>3. \A d \in {e \in S : new[e] = s} : Quota'[d] \in Nat
      BY DEF Quota, TypeOK, ClaimRec
    <3> QED BY <3>2, <3>3, SumType DEF Share
  <2> QED BY <2>1, ShareType
<1>5. ASSUME NEW S \in SUBSET Claims, NEW limit \in Nat \cup {NoLimit},
             Within(q.quota + Share(by, s, S), limit)
      PROVE  Within(q.quota + Share(new, s, S)', limit)
  <2> DEFINE a == q.quota + Share(by, s, S)
             b == q.quota + Share(new, s, S)'
  <2>1. a \in Nat /\ b \in Nat /\ b <= a
    <3>1. /\ Share(by, s, S) \in Nat /\ Share(new, s, S)' \in Nat
          /\ Share(new, s, S)' <= Share(by, s, S)
      BY <1>4
    <3> QED BY <1>1, <3>1
  <2> HIDE DEF a, b
  <2> QED BY <1>5, <2>1, WithinLess DEF a, b
<1>0. q' = q /\ n' = n /\ N' = N /\ U' = U /\ mates' = mates
  OBVIOUS
<1>6. q.phase = "clusterQuota" => q.quota + Share(new, s, U)' <= total[s]
  <2>1. \A S \in SUBSET Claims : S = U => Share(new, s, S)' <= Share(by, s, U)
    OBVIOUS
  <2> HIDE DEF U
  <2>2. /\ Share(by, s, U) \in Nat /\ Share(new, s, U)' \in Nat
        /\ Share(new, s, U)' <= Share(by, s, U)
    BY <1>0, <1>1, <1>4, <2>1, Zenon
  <2> HIDE DEF q
  <2> QED BY <1>1, <1>2, <2>2
<1>7. q.phase # "namespaceQuota" =>
        /\ TeamOf[n] # NoTeam
        /\ Within(q.quota + Share(new, s, N)', NamespaceLimit[n])
  <2>1. NamespaceLimit[n] \in Nat \cup {NoLimit}
    BY <1>3, ClaimTeam, LimitType
  <2> HIDE DEF N, n, q
  <2> QED BY <1>0, <1>1, <1>2, <1>5, <2>1, Zenon
<1>8. q.phase = "persist" =>
        Within(q.quota + Share(new, s, mates)', TeamLimit[TeamOf[n]])
  <2>1. q.phase = "persist" =>
          TeamLimit[TeamOf[n]] \in Nat \cup {NoLimit}
    BY <1>2, <1>3, ClaimTeam, LimitType
  <2> HIDE DEF mates, n, q
  <2> QED BY <1>0, <1>1, <1>2, <1>5, <2>1, Zenon
<1> QED BY <1>2, <1>6, <1>7, <1>8 DEF AskedWithin

(* The request of place r is stored: its claim is now the place's, unless    *)
(* the write takes quota away or none is given.                              *)
LEMMA QuotaPersist ==
    ASSUME TypeOK, TypeOK', NEW by \in [Claims -> Slots], PlacesInv(by),
           NEW r \in Slots, PersistClaim(r)
    PROVE  \E new \in [Claims -> Slots] : PlacesInv(new)'
<1>0. req[r].claim \in Claims
  BY PersistStores
<1> PICK d \in Claims : d = req[r].claim
  BY <1>0
<1> DEFINE n == d[1]
           t == TeamOf[d[1]]
<1>1. /\ \A e \in Claims \ {d} : claim'[e] = claim[e]
      /\ \/ claim' = claim
         \/ /\ req[r].kind \in {"create", "update"}
            /\ claim'[d].quota = req[r].quota
         \/ claim'[d].quota \in {claim[d].quota, 0}
  BY PersistStores
<1>2. /\ req'[r] = Idle
      /\ \A s \in Slots \ {r} : req'[s] = req[s] /\ total'[s] = total[s]
      /\ req[r].phase = "persist"
      /\ Operator \in Slots /\ req'[Operator].kind \in {"none", "finalize"}
  <2>1. Idle.kind = "none"
    BY DEF Idle
  <2>2. /\ req'[r] = Idle
        /\ \A s \in Slots \ {r} : req'[s] = req[s] /\ total'[s] = total[s]
        /\ req[r].phase = "persist"
    BY DEF PersistClaim, Answer, TypeOK
  <2> QED BY <2>1, <2>2 DEF PlacesInv, Slots
<1>3. /\ \A e \in Claims : claim[e].quota \in Nat /\ claim'[e].quota \in Nat
      /\ req[r].quota \in Nat
  BY DEF TypeOK, ClaimRec, RequestRec
<1>4. ASSUME NEW new \in [Claims -> Slots], NEW s \in Slots \ {r},
             \A S \in SUBSET Claims : Share(new, s, S)' <= Share(by, s, S)
      PROVE  AskedWithin(new, s)'
  BY <1>2, <1>4, QuotaOfOthers DEF PlacesInv
<1>5. ASSUME NEW new \in [Claims -> Slots]
      PROVE  AskedWithin(new, r)'
  <2>1. req'[r].kind = "none"
    BY <1>2 DEF Idle
  <2> QED BY <2>1 DEF AskedWithin
<1>6. ASSUME NEW new \in [Claims -> Slots], NEW s, NEW S \in SUBSET Claims,
             NEW limit \in Nat \cup {NoLimit}, Within(Share(by, s, S), limit),
             Share(new, s, S)' <= Share(by, s, S)
      PROVE  Within(Share(new, s, S), limit)'
  <2>1. Share(by, s, S) \in Nat
    BY ShareType
  <2>2. Share(new, s, S)' \in Nat
    <3>1. {e \in S : new[e] = s} \in SUBSET Claims
      OBVIOUS
    <3>2. IsFiniteSet({e \in S : new[e] = s})
      BY <3>1, UsedType
    <3>3. \A e \in {x \in S : new[x] = s} : Quota'[e] \in Nat
      BY <1>3 DEF Quota
    <3> QED BY <3>2, <3>3, SumType DEF Share
  <2> QED BY <1>6, <2>1, <2>2, WithinLess DEF Within, Exceeds
<1>7. ASSUME NEW new \in [Claims -> Slots], NEW s \in Requests,
             \A S \in SUBSET Claims : Share(new, s, S)' <= Share(by, s, S)
      PROVE  /\ \A m \in Namespaces :
                  Within(Share(new, s, NamespaceClaims(m)), NamespaceLimit[m])'
             /\ \A u \in Teams :
                  Within(Share(new, s, TeamClaims(u)), TeamLimit[u])'
  BY <1>6, <1>7, LimitType, GroupsAreClaims DEF PlacesInv, SharesWithin
<1>8. CASE claim' = claim \/ claim'[d].quota \in {claim[d].quota, 0}
  <2>1. \A e \in Claims : claim'[e].quota <= claim[e].quota
    <3>1. \A e \in Claims \ {d} : claim'[e].quota <= claim[e].quota
      BY <1>1, <1>3
    <3>2. claim'[d].quota <= claim[d].quota
      BY <1>1, <1>3, <1>8
    <3> QED BY <3>1, <3>2
  <2>2. ASSUME NEW s \in Slots, NEW S \in SUBSET Claims
        PROVE  Share(by, s, S)' <= Share(by, s, S)
    BY <2>1, ShareFalls
  <2>3. \A s \in Slots : AskedWithin(by, s)'
    BY <1>4, <1>5, <2>2
  <2>4. SharesWithin(by)'
    <3>1. Requests \subseteq Slots
      BY DEF Slots
    <3> QED BY <1>7, <2>2, <3>1 DEF SharesWithin
  <2>5. \A e \in Claims : by[e] = Operator => claim'[e].quota = 0
    BY <1>3, <2>1 DEF PlacesInv
  <2> QED BY <1>2, <2>3, <2>4, <2>5 DEF PlacesInv
<1>9. CASE /\ req[r].kind \in {"create", "update"}
           /\ claim'[d].quota = req[r].quota
  <2>1. /\ r \in Requests
        /\ Within(req[r].quota + Share(by, r, NamespaceClaims(n) \ {d}),
                  NamespaceLimit[n])
        /\ Within(req[r].quota + Share(by, r, TeamClaims(t) \ {d}),
                  TeamLimit[t])
    <3>1. AskedWithin(by, r) /\ r # Operator
      BY <1>9 DEF PlacesInv
    <3> QED BY <1>2, <1>9, <3>1 DEF AskedWithin, Slots
  <2>2. PICK new \in [Claims -> Slots] :
          new[d] = r /\ \A e \in Claims \ {d} : new[e] = by[e]
    <3> DEFINE f == [by EXCEPT ![d] = r]
    <3>1. /\ f \in [Claims -> Slots] /\ f[d] = r
          /\ \A e \in Claims \ {d} : f[e] = by[e]
      OBVIOUS
    <3> HIDE DEF f
    <3> QED BY <3>1
  <2>3. ASSUME NEW s \in Slots, NEW S \in SUBSET Claims, s = r => d \notin S
        PROVE  Share(new, s, S)' <= Share(by, s, S)
    <3>1. ASSUME NEW e \in S, new[e] = s
          PROVE  by[e] = s /\ claim'[e].quota <= claim[e].quota
      <4>1. e # d
        BY <2>2, <2>3, <3>1
      <4>2. e \in Claims \ {d}
        BY <4>1
      <4> QED BY <1>1, <1>3, <2>2, <3>1, <4>2
    <3> QED BY <3>1, ShareFalls
  <2>4. ASSUME NEW S \in SUBSET Claims, d \in S
        PROVE  Share(new, r, S)' = req[r].quota + Share(by, r, S \ {d})
    <3>1. \A e \in S \ {d} : new[e] = by[e] /\ claim'[e] = claim[e]
      BY <1>1, <2>2
    <3> QED BY <1>9, <2>2, <2>4, <3>1, ShareGains
  <2>5. ASSUME NEW s \in Slots
        PROVE  AskedWithin(new, s)'
    <3> QED BY <1>4, <1>5, <2>2, <2>3
  <2>6. SharesWithin(new)'
    <3>1. ASSUME NEW s \in Requests
          PROVE  /\ \A m \in Namespaces : Within(Share(new, s, NamespaceClaims(m)),
                                                 NamespaceLimit[m])'
                 /\ \A u \in Teams :
                      Within(Share(new, s, TeamClaims(u)), TeamLimit[u])'
      <4>0. s \in Slots
        BY DEF Slots
      <4>1. CASE s # r
        <5> QED BY <1>7, <2>2, <2>3, <4>0, <4>1
      <4>2. CASE s = r
        <5>1. ASSUME NEW m \in Namespaces
              PROVE  Within(Share(new, r, NamespaceClaims(m)),
                            NamespaceLimit[m])'
          <6>1. CASE d \in NamespaceClaims(m)
            <7>1. m = n
              BY <6>1 DEF NamespaceClaims
            <7>2. Share(new, r, NamespaceClaims(m))'
                    = req[r].quota + Share(by, r, NamespaceClaims(n) \ {d})
              <8> HIDE DEF n
              <8> QED BY <2>4, <6>1, <7>1, GroupsAreClaims
            <7> HIDE DEF n
            <7> QED BY <2>1, <7>1, <7>2, Zenon DEF Within, Exceeds
          <6>2. CASE d \notin NamespaceClaims(m)
            <7> QED BY <1>6, <2>1, <2>2, <2>3, <4>0, <4>2, <6>2, LimitType,
                       GroupsAreClaims DEF PlacesInv, SharesWithin
          <6> QED BY <6>1, <6>2
        <5>2. ASSUME NEW u \in Teams
              PROVE  Within(Share(new, r, TeamClaims(u)), TeamLimit[u])'
          <6>1. CASE d \in TeamClaims(u)
            <7>1. u = t
              BY <6>1 DEF TeamClaims
            <7>2. Share(new, r, TeamClaims(u))'
                    = req[r].quota + Share(by, r, TeamClaims(t) \ {d})
              <8> HIDE DEF t
              <8> QED BY <2>4, <6>1, <7>1, GroupsAreClaims
            <7> HIDE DEF t
            <7> QED BY <2>1, <7>1, <7>2, Zenon DEF Within, Exceeds
          <6>2. CASE d \notin TeamClaims(u)
            <7> QED BY <1>6, <2>1, <2>2, <2>3, <4>0, <4>2, <6>2, LimitType,
                       GroupsAreClaims DEF PlacesInv, SharesWithin
          <6> QED BY <6>1, <6>2
        <5> QED BY <4>2, <5>1, <5>2
      <4> QED BY <4>1, <4>2
    <3> QED BY <3>1 DEF SharesWithin
  <2>7. \A e \in Claims : new[e] = Operator => claim'[e].quota = 0
    <3>1. new[d] # Operator
      BY <2>1, <2>2, PlacesAssumption
    <3>2. \A e \in Claims \ {d} : new[e] = Operator => claim'[e].quota = 0
      <4> QED BY <1>1, <2>2 DEF PlacesInv
    <3> QED BY <3>1, <3>2
  <2>8. PlacesInv(new)'
    <3> QED BY <1>2, <2>5, <2>6, <2>7 DEF PlacesInv
  <2> QED BY <2>2, <2>8
<1> QED BY <1>1, <1>8, <1>9

LEMMA QuotaStep == TypeOK /\ QuotaInv /\ [Next]_vars => QuotaInv'
<1> SUFFICES ASSUME TypeOK, QuotaInv, [Next]_vars
             PROVE  QuotaInv'
  OBVIOUS
<1>0. TypeOK'
  BY TypeStep
<1>1. PICK by \in [Claims -> Slots] : PlacesInv(by)
  BY DEF QuotaInv, PlacesInv
<1>2. ASSUME NEW new \in [Claims -> Slots], PlacesInv(new)'
      PROVE  QuotaInv'
  BY <1>2 DEF QuotaInv, PlacesInv
<1>3. CASE Arrive \/ \E c \in Claims : Finalize(c)
  BY <1>1, <1>2, <1>3, QuotaArrive
<1>4. ASSUME NEW r \in Slots, Validate(r)
      PROVE  QuotaInv'
  BY <1>1, <1>2, <1>4, QuotaNamespace, QuotaTeamNamespace, QuotaCluster,
     QuotaOther DEF Validate
<1>5. ASSUME NEW r \in Slots, Refuse(r)
      PROVE  QuotaInv'
  <2>1. \A s \in Slots \ {r} : total'[s] = total[s]
    BY <1>5 DEF Refuse, TypeOK
  <2> QED BY <1>1, <1>2, <1>5, <2>1, QuotaAnswer DEF Refuse
<1>6. ASSUME NEW r \in Slots, Persist(r)
      PROVE  QuotaInv'
  <2>1. CASE PersistClaim(r)
    BY <1>0, <1>1, <1>2, <2>1, QuotaPersist
  <2>2. CASE PersistBucket(r)
    BY <1>1, <1>2, <2>2, QuotaAnswer DEF PersistBucket
  <2> QED BY <1>6, <2>1, <2>2 DEF Persist
<1>7. CASE UNCHANGED <<claim, req, total>>
  <2>1. Quota' = Quota
    BY <1>7 DEF Quota
  <2>2. \A s, S : Share(by, s, S)' = Share(by, s, S)
    BY <2>1 DEF Share
  <2>3. PlacesInv(by)'
    <3>1. ASSUME NEW r \in Slots
          PROVE  AskedWithin(by, r)'
      <4>1. AskedWithin(by, r)
        BY <1>1 DEF PlacesInv
      <4> QED BY <1>7, <2>2, <4>1 DEF AskedWithin
    <3>2. SharesWithin(by)'
      BY <1>1, <2>2 DEF PlacesInv, SharesWithin
    <3> QED BY <1>1, <1>7, <3>1, <3>2 DEF PlacesInv
  <2> QED BY <1>2, <2>3
<1> QED BY <1>3, <1>4, <1>5, <1>6, <1>7
        DEF Next, vars, RemoveBucket, Refresh

(* Every place keeps what it has stored within each limit, whoever else      *)
(* stores something meanwhile.                                               *)
THEOREM QuotaCorrect == Spec => []QuotaInv
<1>1. Init => TypeOK /\ QuotaInv
  BY TypeInit, QuotaInit
<1>2. TypeOK /\ QuotaInv /\ [Next]_vars => TypeOK' /\ QuotaInv'
  BY TypeStep, QuotaStep
<1> QED BY <1>1, <1>2, PTL DEF Spec

(* What a set of claims holds, when each place is within the limit.          *)
LEMMA UsedBound ==
    ASSUME TypeOK, NEW by \in [Claims -> Slots],
           \A c \in Claims : by[c] = Operator => claim[c].quota = 0,
           NEW S \in SUBSET Claims, NEW limit \in Nat,
           \A r \in Requests : Share(by, r, S) <= limit
    PROVE  SumFunctionOnSet(Quota, S) <= Cardinality(Requests) * limit
<1> DEFINE w == [r \in Slots |-> SumFunctionOnSet(Quota, Class(by, S, r))]
<1>1. \A r : Share(by, r, S) = SumFunctionOnSet(Quota, Class(by, S, r))
  BY DEF Share, Class
<1>2. IsFiniteSet(S) /\ \A d \in S : Quota[d] \in Nat
  BY UsedType
<1>3. /\ IsFiniteSet(Slots) /\ Operator \in Slots
      /\ Slots \ {Operator} = Requests /\ Requests \subseteq Slots
  BY FiniteAssumption, PlacesAssumption, FS_AddElement DEF Slots
<1>4. SumFunctionOnSet(Quota, S) = SumFunctionOnSet(w, Slots)
  <2>1. \A d \in S : by[d] \in Slots
    OBVIOUS
  <2> QED BY <1>2, <1>3, <2>1, SumByClass
<1>5. \A r \in Slots : w[r] = Share(by, r, S) /\ w[r] \in Nat
  BY <1>1, ShareType
<1>6. w[Operator] = 0
  <2>1. {d \in S : by[d] = Operator} \in SUBSET Claims
    OBVIOUS
  <2>2. IsFiniteSet({d \in S : by[d] = Operator})
    BY <2>1, UsedType
  <2>3. \A d \in {e \in S : by[e] = Operator} : Quota[d] = 0
    BY DEF Quota
  <2>4. Share(by, Operator, S) = 0
    BY <2>2, <2>3, SumZero DEF Share
  <2> QED BY <1>3, <1>5, <2>4
<1> HIDE DEF w
<1>7. SumFunctionOnSet(w, Slots) = 0 + SumFunctionOnSet(w, Requests)
  <2>1. SumFunctionOnSet(w, Slots)
          = w[Operator] + SumFunctionOnSet(w, Slots \ {Operator})
    BY <1>3, <1>5, SumRemove
  <2> QED BY <1>3, <1>6, <2>1, Zenon
<1>8. SumFunctionOnSet(w, Requests) <= Cardinality(Requests) * limit
  BY <1>3, <1>5, FiniteAssumption, SumBound
<1>9. SumFunctionOnSet(w, Requests) \in Nat
  BY <1>3, <1>5, FiniteAssumption, SumType
<1> QED BY <1>4, <1>7, <1>8, <1>9

LEMMA QuotaOvershoot == TypeOK /\ QuotaInv => OvershootBounded
<1> SUFFICES ASSUME TypeOK, QuotaInv
             PROVE  OvershootBounded
  OBVIOUS
<1>1. PICK by \in [Claims -> Slots] :
        /\ \A c \in Claims : by[c] = Operator => claim[c].quota = 0
        /\ SharesWithin(by)
  BY DEF QuotaInv
<1>2. ASSUME NEW S \in SUBSET Claims, NEW limit \in Nat \cup {NoLimit},
             limit # NoLimit, \A r \in Requests : Within(Share(by, r, S), limit)
      PROVE  SumFunctionOnSet(Quota, S) <= Cardinality(Requests) * limit
  <2>1. \A r \in Requests : Share(by, r, S) \in Nat
    BY ShareType
  <2>2. \A r \in Requests : Share(by, r, S) <= limit
    BY <1>2, <2>1 DEF Within, Exceeds
  <2> QED BY <1>1, <1>2, <2>2, UsedBound
<1>3. /\ \A n \in Namespaces : NamespaceLimit[n] # NoLimit =>
           NamespaceUsed(n) <= Cardinality(Requests) * NamespaceLimit[n]
      /\ \A t \in Teams : TeamLimit[t] # NoLimit =>
           TeamUsed(t) <= Cardinality(Requests) * TeamLimit[t]
  BY <1>1, <1>2, GroupsAreClaims, LimitType
     DEF SharesWithin, NamespaceUsed, TeamUsed
<1> QED BY <1>3 DEF OvershootBounded

(* Requests that are validated side by side take a namespace or a team over  *)
(* its limit at most as many times as there are requests at a time.          *)
THEOREM OvershootCorrect == Spec => []OvershootBounded
BY TypeCorrect, QuotaCorrect, QuotaOvershoot, PTL

LEMMA QuotaSequential ==
    ASSUME NEW one, Requests = {one}
    PROVE  TypeOK /\ OvershootBounded
             => WithinNamespaceQuota /\ WithinClusterQuota
<1> SUFFICES ASSUME TypeOK, OvershootBounded
             PROVE  WithinNamespaceQuota /\ WithinClusterQuota
  OBVIOUS
<1>1. Cardinality(Requests) = 1
  BY FS_Singleton
<1>2. \A limit \in Nat : 1 * limit = limit
  OBVIOUS
<1>3. /\ \A n \in Namespaces : NamespaceUsed(n) \in Nat
      /\ \A t \in Teams : TeamUsed(t) \in Nat
  BY GroupsAreClaims, UsedType DEF NamespaceUsed, TeamUsed
<1>4. /\ \A n \in Namespaces : NamespaceLimit[n] # NoLimit =>
           NamespaceUsed(n) <= NamespaceLimit[n]
      /\ \A t \in Teams : TeamLimit[t] # NoLimit =>
           TeamUsed(t) <= TeamLimit[t]
  BY <1>1, <1>2, LimitType DEF OvershootBounded
<1> QED BY <1>3, <1>4, LimitType
        DEF WithinNamespaceQuota, WithinClusterQuota, Exceeds

(* One request at a time: no sequence of requests takes a namespace over its *)
(* limit, whatever the teams, the limits and the quotas asked for are.       *)
THEOREM NamespaceCorrect ==
    ASSUME NEW one, Requests = {one}
    PROVE  Spec => []WithinNamespaceQuota
<1>1. TypeOK /\ OvershootBounded => WithinNamespaceQuota
  BY QuotaSequential
<1> QED BY <1>1, TypeCorrect, OvershootCorrect, PTL

(* Nor a team, all of whose namespaces are counted together.                 *)
THEOREM ClusterCorrect ==
    ASSUME NEW one, Requests = {one}
    PROVE  Spec => []WithinClusterQuota
<1>1. TypeOK /\ OvershootBounded => WithinClusterQuota
  BY QuotaSequential
<1> QED BY <1>1, TypeCorrect, OvershootCorrect, PTL
-----------------------------------------------------------------------------
(* The operator's own updates of the finalizer.                              *)

(* A claim is written only as a newer version. *)
LEMMA StoredVersion ==
    ASSUME TypeOK, NEW c \in Claims, NEW state, NEW quota, NEW fin,
           StoreClaim(c, state, quota, fin)
    PROVE  /\ claim'[c].rv = claim[c].rv + 1 /\ claim'[c].fin = fin
           /\ claim'[c].state = state
           /\ \A d \in Claims \ {c} : claim'[d] = claim[d]
BY DEF StoreClaim, TypeOK

(* The claims of namespaces, and their finalizers. *)
ClaimsNamed ==
    \A c \in Claims : /\ claim[c].state # "absent" => TeamOf[c[1]] # NoTeam
                      /\ claim[c].fin => claim[c].state # "absent"

(* What a step does to the claims. *)
ClaimsAdvance ==
    \A c \in Claims : claim'[c] = claim[c] \/ claim'[c].rv = claim[c].rv + 1

(* Only admitted requests, which are for a namespace of a team, make claims. *)
LEMMA FinalizerPersist ==
    ASSUME TypeOK, QuotaInv, ClaimsNamed, NEW r \in Slots, PersistClaim(r)
    PROVE  ClaimsNamed' /\ ClaimsAdvance
<1> DEFINE q == req[r]
           c == claim[req[r].claim]
<1>1. /\ q.claim \in Claims /\ q.phase = "persist"
      /\ q.kind \in {"none", "create", "update", "finalize", "delete"}
      /\ c.state \in {"absent", "live", "terminating"} /\ c.fin \in BOOLEAN
  BY DEF PersistClaim, TypeOK, RequestRec, Kinds, ClaimRec
<1>2. q.kind = "create" => TeamOf[q.claim[1]] # NoTeam
  BY <1>1 DEF QuotaInv, AskedWithin
<1>3. ASSUME NEW state, NEW quota, NEW fin \in BOOLEAN,
             StoreClaim(q.claim, state, quota, fin),
             state # "absent" => TeamOf[q.claim[1]] # NoTeam,
             fin => state # "absent"
      PROVE  ClaimsNamed' /\ ClaimsAdvance
  <2> HIDE DEF c
  <2>1. /\ claim'[q.claim].rv = claim[q.claim].rv + 1
        /\ claim'[q.claim].fin = fin /\ claim'[q.claim].state = state
        /\ \A d \in Claims \ {q.claim} : claim'[d] = claim[d]
    BY <1>1, <1>3, StoredVersion
  <2> HIDE DEF q
  <2> QED BY <1>3, <2>1 DEF ClaimsNamed, ClaimsAdvance
<1>4. /\ c.state # "absent" => TeamOf[q.claim[1]] # NoTeam
      /\ c.fin => c.state # "absent"
  BY <1>1 DEF ClaimsNamed
<1>5. CASE UNCHANGED claim
  BY <1>5 DEF ClaimsNamed, ClaimsAdvance
<1>6. CASE q.kind = "create" /\ StoreClaim(q.claim, "live", q.quota, FALSE)
  BY <1>2, <1>3, <1>6
<1>7. CASE StoreClaim(q.claim, c.state, q.quota, c.fin)
  BY <1>1, <1>3, <1>4, <1>7
<1>8. CASE c.state = "live" /\ StoreClaim(q.claim, "live", c.quota, TRUE)
  BY <1>3, <1>4, <1>8
<1>9. CASE c.fin /\ StoreClaim(q.claim, "terminating", c.quota, TRUE)
  <2>1. TeamOf[q.claim[1]] # NoTeam
    BY <1>4, <1>9
  <2>2. StoreClaim(q.claim, "terminating", c.quota, TRUE)
    BY <1>9
  <2>3. /\ "terminating" # "absent" => TeamOf[q.claim[1]] # NoTeam
        /\ TRUE => "terminating" # "absent"
        /\ TRUE \in BOOLEAN
    BY <2>1
  <2> HIDE DEF q, c
  <2> QED BY <1>3, <2>2, <2>3, Zenon
<1>10. CASE StoreClaim(q.claim, "absent", 0, FALSE)
  BY <1>3, <1>10
<1>11. Unchanged(r) \in BOOLEAN
  BY DEF Unchanged
<1> QED BY <1>1, <1>5, <1>6, <1>7, <1>8, <1>9, <1>10, <1>11 DEF PersistClaim

LEMMA ClaimsStep ==
    ASSUME TypeOK, QuotaInv, ClaimsNamed, Next
    PROVE  ClaimsNamed' /\ ClaimsAdvance
<1>1. ASSUME NEW r \in Slots, PersistClaim(r)
      PROVE  ClaimsNamed' /\ ClaimsAdvance
  BY <1>1, FinalizerPersist
<1>2. CASE claim' = claim
  BY <1>2 DEF ClaimsNamed, ClaimsAdvance
<1> QED BY <1>1, <1>2 DEF Next, Arrive, CreateClaim, UpdateClaim, DeleteClaim,
        CreateBucket, Finalize, Send, Receive, Validate,
        ValidateNamespaceQuota, SumTeamNamespace, ValidateClusterQuota,
        ValidateDelete, ValidateBucketCreate, Deny, Advance, Refuse, Persist,
        PersistBucket, RemoveBucket, Refresh

(* The request of the operator is a new one, is answered, or goes on.        *)
LEMMA OperatorKinds ==
    ASSUME TypeOK, QuotaInv, Next
    PROVE  \/ req'[Operator].phase = "idle"
           \/ /\ req[Operator].phase # "idle"
              /\ req'[Operator].claim = req[Operator].claim
              /\ req'[Operator].rv = req[Operator].rv
              /\ req'[Operator].quota = req[Operator].quota
           \/ \E c \in Claims : Finalize(c)
           \/ UNCHANGED req[Operator]
<1>0. /\ Operator \in Slots /\ req[Operator] \in RequestRec
      /\ Requests \subseteq Slots /\ Operator \notin Requests
  BY PlacesAssumption DEF TypeOK, Slots
<1>1. ASSUME NEW r \in Slots, NEW q, r # Operator,
             req' = [req EXCEPT ![r] = q]
      PROVE  req'[Operator] = req[Operator]
  BY <1>0, <1>1 DEF TypeOK
<1>2. ASSUME NEW q, req' = [req EXCEPT ![Operator] = q]
      PROVE  req'[Operator] = q
  BY <1>0, <1>2 DEF TypeOK
<1>3. ASSUME NEW r \in Slots, Answer(r)
      PROVE  req'[Operator].phase = "idle" \/ req'[Operator] = req[Operator]
  BY <1>1, <1>2, <1>3 DEF Answer, Idle
<1>4. CASE Arrive
  <2>1. PICK r \in Requests : \E q : req' = [req EXCEPT ![r] = q]
    BY <1>4 DEF Arrive, CreateClaim, UpdateClaim, DeleteClaim, CreateBucket,
       Send, Receive
  <2> QED BY <1>0, <1>1, <2>1
<1>5. ASSUME NEW r \in Slots, Validate(r), ~ Answer(r)
      PROVE  \/ /\ req[Operator].phase # "idle"
                /\ req'[Operator].claim = req[Operator].claim
                /\ req'[Operator].rv = req[Operator].rv
                /\ req'[Operator].quota = req[Operator].quota
             \/ req'[Operator] = req[Operator]
  <2>1. req[r].phase # "idle"
    BY <1>5 DEF Validate, ValidateNamespaceQuota, SumTeamNamespace,
       ValidateClusterQuota, ValidateDelete, ValidateBucketCreate
  <2>2. \E q : /\ req' = [req EXCEPT ![r] = q] /\ q.claim = req[r].claim
               /\ q.rv = req[r].rv /\ q.quota = req[r].quota
    <3>0. req[r] \in RequestRec
      BY DEF TypeOK
    <3>1. CASE ValidateNamespaceQuota(r)
      <4> DEFINE q == [phase |-> "clusterQuota", kind |-> req[r].kind,
                       claim |-> req[r].claim, quota |-> req[r].quota,
                       bucket |-> req[r].bucket, rv |-> req[r].rv,
                       todo |-> TeamNamespaces(req[r].claim[1])]
      <4>1. req' = [req EXCEPT ![r] = q]
        BY <1>5, <3>1 DEF ValidateNamespaceQuota, Deny, TypeOK
      <4>2. /\ q.claim = req[r].claim /\ q.rv = req[r].rv
            /\ q.quota = req[r].quota
        OBVIOUS
      <4> HIDE DEF q
      <4> QED BY <4>1, <4>2
    <3>2. ASSUME NEW n \in Namespaces, SumTeamNamespace(r, n)
          PROVE  \E q : /\ req' = [req EXCEPT ![r] = q]
                        /\ q.claim = req[r].claim
                        /\ q.rv = req[r].rv /\ q.quota = req[r].quota
      <4> DEFINE q == [req[r] EXCEPT !.todo = req[r].todo \ {n}]
      <4>1. /\ q.claim = req[r].claim /\ q.rv = req[r].rv
            /\ q.quota = req[r].quota
        BY <3>0 DEF RequestRec
      <4>2. req' = [req EXCEPT ![r] = q]
        BY <3>2 DEF SumTeamNamespace, TypeOK
      <4> QED BY <4>1, <4>2
    <3>3. CASE Advance(r, "persist")
      <4> DEFINE q == [req[r] EXCEPT !.phase = "persist"]
      <4>1. /\ q.claim = req[r].claim /\ q.rv = req[r].rv
            /\ q.quota = req[r].quota
        BY <3>0 DEF RequestRec
      <4>2. req' = [req EXCEPT ![r] = q]
        BY <3>3 DEF Advance, TypeOK
      <4> QED BY <4>1, <4>2
    <3> QED BY <1>5, <3>1, <3>2, <3>3 DEF Validate, ValidateClusterQuota,
            ValidateDelete, ValidateBucketCreate, Deny
  <2> QED BY <1>1, <1>2, <2>1, <2>2
<1>6. CASE \E r \in Slots : Refuse(r) \/ Persist(r)
  BY <1>3, <1>6 DEF Refuse, Persist, PersistClaim, PersistBucket
<1>7. CASE \E b \in Buckets : RemoveBucket(b)
  BY <1>7 DEF RemoveBucket
<1>8. CASE Refresh
  BY <1>8 DEF Refresh
<1> QED BY <1>3, <1>4, <1>5, <1>6, <1>7, <1>8 DEF Next

LEMMA FinalizerStep ==
    ASSUME TypeOK, QuotaInv, FinalizerInv, Next
    PROVE  FinalizerInv'
<1>0. /\ TypeOK' /\ Operator \in Slots
      /\ ClaimsNamed' /\ ClaimsAdvance
  BY TypeStep, ClaimsStep DEF FinalizerInv, ClaimsNamed, Slots
<1> DEFINE p == req[Operator]
           q == req'[Operator]
<1>1. ASSUME q.phase # "idle"
      PROVE  /\ q.rv <= claim'[q.claim].rv
             /\ q.rv = claim'[q.claim].rv =>
                  /\ claim'[q.claim].state # "absent"
                  /\ q.quota = claim'[q.claim].quota
  <2>1. CASE /\ p.phase # "idle" /\ q.claim = p.claim /\ q.rv = p.rv
             /\ q.quota = p.quota
    <3>1. p.claim \in Claims /\ p.rv \in Nat /\ claim[p.claim].rv \in Nat
      BY <1>0, <2>1 DEF TypeOK, RequestRec, ClaimRec
    <3>2. /\ p.rv <= claim[p.claim].rv
          /\ p.rv = claim[p.claim].rv =>
               /\ claim[p.claim].state # "absent"
               /\ p.quota = claim[p.claim].quota
      BY <2>1 DEF FinalizerInv, Unchanged
    <3>3. \/ claim'[p.claim] = claim[p.claim]
          \/ claim'[p.claim].rv = claim[p.claim].rv + 1
      BY <1>0, <3>1 DEF ClaimsAdvance
    <3> QED BY <2>1, <3>1, <3>2, <3>3
  <2>2. ASSUME NEW c \in Claims, Finalize(c)
        PROVE  /\ q.rv <= claim'[q.claim].rv
               /\ q.rv = claim'[q.claim].rv =>
                    /\ claim'[q.claim].state # "absent"
                    /\ q.quota = claim'[q.claim].quota
    <3>1. /\ q = Request("namespaceQuota", "finalize", c, claim[c].quota)
          /\ claim' = claim /\ claim[c].state # "absent"
      BY <1>0, <2>2 DEF Finalize, Receive, TypeOK
    <3>2. q.claim = c /\ q.rv = claim[c].rv /\ q.quota = claim[c].quota
      BY <3>1 DEF Request
    <3>3. claim[c].rv \in Nat
      BY DEF TypeOK, ClaimRec
    <3> QED BY <3>1, <3>2, <3>3
  <2> QED BY <1>1, <2>1, <2>2, OperatorKinds
<1> QED BY <1>0, <1>1 DEF FinalizerInv, ClaimsNamed, Unchanged

LEMMA FinalizerInit == Init => FinalizerInv
BY DEF Init, FinalizerInv, Idle, Slots

(* The sum that is compared is what the namespace uses. *)
LEMMA FinalizerRefused ==
    ASSUME TypeOK, FinalizerInv, Next,
           req[Operator].phase = "namespaceQuota", Unchanged(Operator),
           req'[Operator] = Idle, errors' = errors
    PROVE  Exceeds(NamespaceUsed(req[Operator].claim[1]),
                   NamespaceLimit[req[Operator].claim[1]])
<1> DEFINE c == req[Operator].claim
           n == c[1]
<1>0. /\ Operator \in Slots /\ Operator \notin Requests /\ c \in Claims
      /\ Idle.phase = "idle"
      /\ claim[c].quota \in Nat
  BY PlacesAssumption DEF TypeOK, Slots, Idle, ClaimRec
<1>1. ASSUME NEW r \in Slots, NEW q, req' = [req EXCEPT ![r] = q]
      PROVE  r = Operator
  BY <1>0, <1>1 DEF TypeOK
<1>2. ValidateNamespaceQuota(Operator)
  <2>1. ~ Arrive
    BY <1>0, <1>1 DEF Arrive, CreateClaim, UpdateClaim, DeleteClaim,
       CreateBucket, Send, Receive, Slots
  <2>2. \A d \in Claims : ~ Finalize(d)
    BY <1>0 DEF Finalize, Receive
  <2>3. ~ Refresh /\ \A b \in Buckets : ~ RemoveBucket(b)
    BY <1>0 DEF Refresh, RemoveBucket
  <2>4. \A r \in Slots : ~ Refuse(r) /\ ~ Persist(r)
    <3> SUFFICES ASSUME NEW r \in Slots, Refuse(r) \/ Persist(r)
                 PROVE  FALSE
      OBVIOUS
    <3>1. Answer(r)
      BY DEF Refuse, Persist, PersistClaim, PersistBucket
    <3>2. r = Operator
      BY <1>1, <3>1 DEF Answer
    <3>3. ~ Persist(r)
      BY <3>2 DEF Persist, PersistClaim, PersistBucket
    <3>4. ~ Refuse(r)
      <4>1. errors \in Nat
        BY DEF TypeOK
      <4>2. errors' # errors + 1
        BY <4>1
      <4> QED BY <4>2 DEF Refuse
    <3> QED BY <3>3, <3>4
  <2>5. ASSUME NEW r \in Slots, Validate(r)
        PROVE  ValidateNamespaceQuota(Operator)
    <3>1. \E q : req' = [req EXCEPT ![r] = q]
      BY <2>5 DEF Validate, ValidateNamespaceQuota, SumTeamNamespace,
         ValidateClusterQuota, ValidateDelete, ValidateBucketCreate, Deny,
         Answer, Advance
    <3>2. r = Operator
      BY <1>1, <3>1
    <3> QED BY <2>5, <3>2 DEF Validate, SumTeamNamespace,
            ValidateClusterQuota, ValidateDelete, ValidateBucketCreate
  <2> QED BY <2>1, <2>2, <2>3, <2>4, <2>5 DEF Next
<1>3. TeamOf[n] # NoTeam /\ req[Operator].quota = claim[c].quota
  BY <1>0 DEF FinalizerInv
<1>4. Deny(Operator)
  <2> DEFINE q == [phase |-> "clusterQuota", kind |-> req[Operator].kind,
                   claim |-> c, quota |-> req[Operator].quota,
                   bucket |-> req[Operator].bucket, rv |-> req[Operator].rv,
                   todo |-> TeamNamespaces(n)]
  <2>1. CASE req' = [req EXCEPT ![Operator] = q]
    <3>1. req'[Operator] = q /\ q.phase = "clusterQuota"
      BY <1>0, <2>1 DEF TypeOK
    <3> QED BY <1>0, <3>1
  <2> QED BY <1>2, <2>1 DEF ValidateNamespaceQuota, TypeOK
<1>5. NamespaceSum(Operator) = NamespaceUsed(n)
  <2>1. NamespaceClaims(n) \in SUBSET Claims /\ c \in NamespaceClaims(n)
    BY <1>0 DEF NamespaceClaims
  <2>2. /\ IsFiniteSet(NamespaceClaims(n))
        /\ \A d \in NamespaceClaims(n) : Quota[d] \in Nat
    BY <2>1, UsedType
  <2>3. NamespaceUsed(n)
          = Quota[c] + SumFunctionOnSet(Quota, NamespaceClaims(n) \ {c})
    BY <2>1, <2>2, SumRemove DEF NamespaceUsed
  <2>4. Quota[c] = claim[c].quota
    BY <1>0 DEF Quota
  <2>5. Others(n, c) = NamespaceClaims(n) \ {c}
    BY DEF Others, NamespaceClaims
  <2> QED BY <1>3, <2>3, <2>4, <2>5 DEF NamespaceSum, UsedByOthers
<1>6. Exceeds(NamespaceSum(Operator), NamespaceLimit[n])
  <2> DEFINE q == [phase |-> "clusterQuota", kind |-> req[Operator].kind,
                   claim |-> c, quota |-> req[Operator].quota,
                   bucket |-> req[Operator].bucket, rv |-> req[Operator].rv,
                   todo |-> TeamNamespaces(n)]
  <2>1. req' # [req EXCEPT ![Operator] = q]
    <3>1. CASE req' = [req EXCEPT ![Operator] = q]
      <4>1. req'[Operator] = q /\ q.phase = "clusterQuota"
        BY <1>0, <3>1 DEF TypeOK
      <4> QED BY <1>0, <4>1
    <3> QED BY <3>1
  <2> QED BY <1>2, <1>3, <2>1 DEF ValidateNamespaceQuota, TypeOK
<1> QED BY <1>5, <1>6

(* However requests overlap, the operator's update of a finalizer is refused *)
(* by the quota of the namespace only while that is exceeded already.        *)
THEOREM FinalizersAdmitted == Spec => RefusedOnlyOverLimit
<1>1. TypeOK /\ QuotaInv /\ FinalizerInv /\ [Next]_vars => FinalizerInv'
  <2>1. CASE UNCHANGED vars
    BY <2>1 DEF vars, FinalizerInv, Unchanged
  <2> QED BY <2>1, FinalizerStep
<1>2. TypeOK /\ FinalizerInv /\ [Next]_vars =>
        [LET n == req[Operator].claim[1] IN
         /\ req[Operator].phase = "namespaceQuota" /\ Unchanged(Operator)
         /\ req'[Operator] = Idle /\ errors' = errors
         => Exceeds(NamespaceUsed(n), NamespaceLimit[n])]_vars
  BY FinalizerRefused
<1> QED BY <1>1, <1>2, FinalizerInit, TypeCorrect, QuotaCorrect, PTL
        DEF Spec, RefusedOnlyOverLimit

(* So with one user's request at a time the quota of the namespace never     *)
(* refuses it.                                                               *)
THEOREM FinalizersNeverRefused ==
    ASSUME NEW one, Requests = {one}
    PROVE  Spec =>
             [][~ /\ req[Operator].phase = "namespaceQuota"
                  /\ Unchanged(Operator)
                  /\ req'[Operator] = Idle /\ errors' = errors]_vars
<1>1. /\ TypeOK /\ FinalizerInv /\ WithinNamespaceQuota /\ [Next]_vars
      => [~ /\ req[Operator].phase = "namespaceQuota" /\ Unchanged(Operator)
            /\ req'[Operator] = Idle /\ errors' = errors]_vars
  <2> SUFFICES ASSUME TypeOK, FinalizerInv, WithinNamespaceQuota, Next,
                      req[Operator].phase = "namespaceQuota",
                      Unchanged(Operator),
                      req'[Operator] = Idle, errors' = errors
               PROVE  FALSE
    OBVIOUS
  <2>1. req[Operator].claim[1] \in Namespaces
    BY PlacesAssumption DEF TypeOK, Slots
  <2> QED BY <2>1, FinalizerRefused DEF WithinNamespaceQuota
<1>2. TypeOK /\ QuotaInv /\ FinalizerInv /\ [Next]_vars => FinalizerInv'
  <2>1. CASE UNCHANGED vars
    BY <2>1 DEF vars, FinalizerInv, Unchanged
  <2> QED BY <2>1, FinalizerStep
<1> QED BY <1>1, <1>2, FinalizerInit, TypeCorrect, QuotaCorrect,
        NamespaceCorrect, PTL DEF Spec
-----------------------------------------------------------------------------
(* Deletions of claims that have buckets.                                    *)

(* A request is for a version the claim has had, so that once overtaken it   *)
(* stays so; and a deletion has only the buckets to pass.                    *)
InOrder(q) ==
    /\ q.phase # "idle" => q.kind # "none" /\ q.rv <= claim[q.claim].rv
    /\ q.kind = "delete" => q.phase \in {"buckets", "persist"}

RequestsInv == \A r \in Slots : InOrder(req[r])

LEMMA RequestsInit == Init => RequestsInv
BY DEF Init, RequestsInv, InOrder, Idle

(* The claims do not change and request p becomes q: it arrives, or it goes  *)
(* on, a deletion only while the cache has no bucket of its claim.           *)
Moves(p, q) ==
    /\ claim' = claim
    /\ InOrder(q)
    /\ \/ p.phase = "idle" /\ q.phase # "persist"
       \/ /\ p.phase # "idle" /\ q.claim = p.claim /\ q.rv = p.rv
          /\ q.kind = "delete" =>
               \A b \in Buckets : cachedBucket[b] # q.claim

LEMMA ArrivalMoves ==
    ASSUME TypeOK, Arrive \/ \E c \in Claims : Finalize(c)
    PROVE  \E r \in Slots : \E q : /\ req' = [req EXCEPT ![r] = q]
                                   /\ Moves(req[r], q)
<1>0. /\ Requests \subseteq Slots /\ Operator \in Slots
      /\ \A c \in Claims : claim[c].rv \in Nat
  BY DEF Slots, TypeOK, ClaimRec
<1>1. ASSUME NEW r \in Slots, NEW c \in Claims, NEW phase, NEW kind, NEW n,
             Receive(r, Request(phase, kind, c, n)),
             \/ phase = "namespaceQuota" /\ kind \in {"create", "update",
                                                      "finalize"}
             \/ phase = "buckets" /\ kind = "delete"
      PROVE  /\ req' = [req EXCEPT ![r] = Request(phase, kind, c, n)]
             /\ Moves(req[r], Request(phase, kind, c, n))
  <2>1. claim[c].rv <= claim[c].rv
    BY <1>0
  <2> QED BY <1>1, <2>1 DEF Receive, Request, Moves, InOrder
<1>2. ASSUME NEW r \in Requests, NEW c \in Claims,
             CreateClaim(r, c) \/ UpdateClaim(r, c) \/ DeleteClaim(r, c)
      PROVE  \E q : req' = [req EXCEPT ![r] = q] /\ Moves(req[r], q)
  <2>1. PICK phase, kind, n :
          /\ Receive(r, Request(phase, kind, c, n))
          /\ \/ phase = "namespaceQuota" /\ kind \in {"create", "update"}
             \/ phase = "buckets" /\ kind = "delete"
    BY <1>2 DEF CreateClaim, UpdateClaim, DeleteClaim, Send
  <2> QED BY <1>0, <1>1, <2>1
<1>3. ASSUME NEW r \in Requests, NEW c \in Claims, NEW b \in Buckets,
             CreateBucket(r, b, c)
      PROVE  \E q : req' = [req EXCEPT ![r] = q] /\ Moves(req[r], q)
  <2> DEFINE q == [phase |-> "s3UserRef", kind |-> "createBucket", claim |-> c,
                   quota |-> 0, bucket |-> b, rv |-> 0, todo |-> {}]
  <2>1. 0 <= claim[c].rv
    BY <1>0
  <2>2. req' = [req EXCEPT ![r] = q] /\ claim' = claim /\ req[r].phase = "idle"
    BY <1>3 DEF CreateBucket, Send, Receive
  <2>3. Moves(req[r], q)
    BY <2>1, <2>2 DEF Moves, InOrder
  <2> QED BY <2>2, <2>3
<1>4. ASSUME NEW c \in Claims, Finalize(c)
      PROVE  \E q : req' = [req EXCEPT ![Operator] = q]
                    /\ Moves(req[Operator], q)
  BY <1>0, <1>1, <1>4 DEF Finalize
<1> QED BY <1>0, <1>2, <1>3, <1>4 DEF Arrive

LEMMA ValidationMoves ==
    ASSUME TypeOK, RequestsInv, NEW r \in Slots, Validate(r), ~ Answer(r)
    PROVE  \E q : req' = [req EXCEPT ![r] = q] /\ Moves(req[r], q)
<1>0. /\ req[r] \in RequestRec
      /\ InOrder(req[r])
  BY DEF TypeOK, RequestsInv
<1>1. ASSUME NEW q, req' = [req EXCEPT ![r] = q], claim' = claim,
             q.kind = req[r].kind, q.claim = req[r].claim, q.rv = req[r].rv,
             req[r].phase \notin {"idle", "buckets", "persist"}
      PROVE  Moves(req[r], q)
  BY <1>0, <1>1 DEF Moves, InOrder
<1>2. CASE ValidateNamespaceQuota(r)
  <2> DEFINE q == [phase |-> "clusterQuota", kind |-> req[r].kind,
                   claim |-> req[r].claim, quota |-> req[r].quota,
                   bucket |-> req[r].bucket, rv |-> req[r].rv,
                   todo |-> TeamNamespaces(req[r].claim[1])]
  <2>1. /\ req[r].phase = "namespaceQuota"
        /\ req' = [req EXCEPT ![r] = q] /\ claim' = claim
    BY <1>2 DEF ValidateNamespaceQuota, Deny, TypeOK
  <2>2. q.kind = req[r].kind /\ q.claim = req[r].claim /\ q.rv = req[r].rv
    OBVIOUS
  <2> QED BY <1>1, <2>1, <2>2
<1>3. ASSUME NEW n \in Namespaces, SumTeamNamespace(r, n)
      PROVE  \E q : req' = [req EXCEPT ![r] = q] /\ Moves(req[r], q)
  <2> DEFINE q == [req[r] EXCEPT !.todo = req[r].todo \ {n}]
  <2>1. /\ req[r].phase = "clusterQuota"
        /\ req' = [req EXCEPT ![r] = q] /\ claim' = claim
    BY <1>3 DEF SumTeamNamespace, TypeOK
  <2>2. q.kind = req[r].kind /\ q.claim = req[r].claim /\ q.rv = req[r].rv
    BY <1>0 DEF RequestRec
  <2> QED BY <1>1, <2>1, <2>2
<1> DEFINE q == [req[r] EXCEPT !.phase = "persist"]
<1>4. /\ q.kind = req[r].kind /\ q.claim = req[r].claim /\ q.rv = req[r].rv
      /\ q.phase = "persist"
  BY <1>0 DEF RequestRec
<1>5. CASE ValidateClusterQuota(r) \/ ValidateBucketCreate(r)
  <2>1. /\ req[r].phase \in {"clusterQuota", "s3UserRef"}
        /\ req' = [req EXCEPT ![r] = q] /\ claim' = claim
    BY <1>5 DEF ValidateClusterQuota, ValidateBucketCreate, Deny, Advance,
                TypeOK
  <2> QED BY <1>1, <1>4, <2>1
<1>6. CASE ValidateDelete(r)
  <2>1. /\ req[r].phase = "buckets"
        /\ req' = [req EXCEPT ![r] = q] /\ claim' = claim
        /\ \A b \in Buckets : cachedBucket[b] # req[r].claim
    BY <1>6 DEF ValidateDelete, Deny, Advance, TypeOK
  <2>2. Moves(req[r], q)
    <3> HIDE DEF q
    <3> QED BY <1>0, <1>4, <2>1 DEF Moves, InOrder
  <2> QED BY <2>1, <2>2
<1> QED BY <1>2, <1>3, <1>5, <1>6 DEF Validate

(* What a step does to the request at place s. *)
LEMMA RequestSteps ==
    ASSUME TypeOK, RequestsInv, [Next]_vars, NEW s \in Slots
    PROVE  \/ req'[s] = Idle
           \/ req'[s] = req[s]
           \/ Moves(req[s], req'[s])
<1>1. ASSUME NEW r \in Slots, NEW q, req' = [req EXCEPT ![r] = q]
      PROVE  req'[s] = IF s = r THEN q ELSE req[s]
  BY <1>1 DEF TypeOK
<1>2. ASSUME NEW r \in Slots, NEW q, req' = [req EXCEPT ![r] = q],
             Moves(req[r], q)
      PROVE  req'[s] = req[s] \/ Moves(req[s], req'[s])
  BY <1>1, <1>2
<1>3. ASSUME NEW r \in Slots, Answer(r)
      PROVE  req'[s] = Idle \/ req'[s] = req[s]
  BY <1>1, <1>3 DEF Answer
<1>4. CASE Arrive \/ \E c \in Claims : Finalize(c)
  BY <1>2, <1>4, ArrivalMoves
<1>5. ASSUME NEW r \in Slots, Validate(r)
      PROVE  \/ req'[s] = Idle \/ req'[s] = req[s]
             \/ Moves(req[s], req'[s])
  BY <1>2, <1>3, <1>5, ValidationMoves
<1>6. ASSUME NEW r \in Slots, Refuse(r) \/ Persist(r)
      PROVE  req'[s] = Idle \/ req'[s] = req[s]
  BY <1>3, <1>6 DEF Refuse, Persist, PersistClaim, PersistBucket
<1>7. CASE (\E b \in Buckets : RemoveBucket(b)) \/ Refresh \/ UNCHANGED vars
  BY <1>7 DEF RemoveBucket, Refresh, vars
<1> QED BY <1>4, <1>5, <1>6, <1>7 DEF Next

(* What a step does to a claim: only a deletion takes a live one away.       *)
ClaimMoves(c) ==
    \/ claim'[c] = claim[c]
    \/ /\ claim'[c].rv = claim[c].rv + 1
       /\ claim[c].state # "live" \/ claim'[c].state = "live"
    \/ /\ claim'[c].rv = claim[c].rv + 1
       /\ DeletionUnderWay(c)

LEMMA PersistMoves ==
    ASSUME TypeOK, RequestsInv, NEW r \in Slots, PersistClaim(r),
           NEW c \in Claims
    PROVE  ClaimMoves(c)
<1> DEFINE d == req[r].claim
<1>1. /\ d \in Claims /\ req[r].phase = "persist"
      /\ req[r].kind \notin {"none", "createBucket"}
      /\ req[r].kind \in Kinds
  BY DEF PersistClaim, TypeOK, RequestRec, RequestsInv, InOrder
<1>2. ASSUME NEW state, NEW quota, NEW fin, StoreClaim(d, state, quota, fin),
             \/ claim[d].state # "live" \/ state = "live"
             \/ DeletionUnderWay(d)
      PROVE  ClaimMoves(c)
  <2>1. /\ claim'[d].rv = claim[d].rv + 1 /\ claim'[d].state = state
        /\ \A e \in Claims \ {d} : claim'[e] = claim[e]
    BY <1>1, <1>2, StoredVersion
  <2> HIDE DEF d
  <2>2. CASE c = d
    BY <1>2, <2>1, <2>2 DEF ClaimMoves
  <2> QED BY <2>1, <2>2 DEF ClaimMoves
<1>3. CASE ~ Unchanged(r)
  BY <1>3 DEF PersistClaim, ClaimMoves
<1>4. CASE Unchanged(r)
  <2>1. req[r].kind = "delete" => DeletionUnderWay(d)
    BY <1>1, <1>4 DEF DeletionUnderWay
  <2>2. CASE req[r].kind = "create"
    BY <1>2, <1>4, <2>2 DEF PersistClaim
  <2>3. CASE req[r].kind = "update"
    <3>1. StoreClaim(d, claim[d].state, req[r].quota, claim[d].fin)
      BY <1>4, <2>3 DEF PersistClaim
    <3>2. claim[d].state # "live" \/ claim[d].state = "live"
      OBVIOUS
    <3> QED BY <1>2, <3>1, <3>2
  <2>4. CASE req[r].kind = "finalize"
    <3>1. CASE claim[d].state = "live"
      BY <1>2, <1>4, <2>4, <3>1 DEF PersistClaim
    <3>2. CASE claim[d].state # "live"
      BY <1>2, <1>4, <2>4, <3>2 DEF PersistClaim
    <3> QED BY <3>1, <3>2
  <2>5. CASE req[r].kind = "delete"
    <3>1. CASE claim[d].fin
      BY <1>2, <1>4, <2>1, <2>5, <3>1 DEF PersistClaim
    <3>2. CASE ~ claim[d].fin
      BY <1>2, <1>4, <2>1, <2>5, <3>2 DEF PersistClaim
    <3> QED BY <3>1, <3>2
  <2> QED BY <1>1, <2>2, <2>3, <2>4, <2>5 DEF Kinds
<1>5. Unchanged(r) \in BOOLEAN
  BY DEF Unchanged
<1> QED BY <1>3, <1>4, <1>5

LEMMA ClaimSteps ==
    ASSUME TypeOK, RequestsInv, [Next]_vars, NEW c \in Claims
    PROVE  ClaimMoves(c)
<1>1. ASSUME NEW r \in Slots, PersistClaim(r)
      PROVE  ClaimMoves(c)
  BY <1>1, PersistMoves
<1>2. CASE claim' = claim
  BY <1>2 DEF ClaimMoves
<1> QED BY <1>1, <1>2 DEF Next, vars, Arrive, CreateClaim, UpdateClaim,
        DeleteClaim, CreateBucket, Finalize, Send, Receive, Validate,
        ValidateNamespaceQuota, SumTeamNamespace, ValidateClusterQuota,
        ValidateDelete, ValidateBucketCreate, Deny, Advance, Refuse, Persist,
        PersistBucket, RemoveBucket, Refresh

LEMMA VersionsGrow ==
    ASSUME TypeOK, RequestsInv, [Next]_vars, NEW c \in Claims
    PROVE  /\ claim[c].rv \in Nat /\ claim'[c].rv \in Nat
           /\ claim[c].rv <= claim'[c].rv
<1>1. claim[c].rv \in Nat
  BY DEF TypeOK, ClaimRec
<1> QED BY <1>1, ClaimSteps DEF ClaimMoves

LEMMA RequestsStep ==
    ASSUME TypeOK, RequestsInv, [Next]_vars
    PROVE  RequestsInv'
<1> SUFFICES ASSUME NEW s \in Slots
             PROVE  InOrder(req[s])'
  BY DEF RequestsInv
<1>1. CASE req'[s] = Idle
  BY <1>1 DEF InOrder, Idle
<1>2. CASE req'[s] = req[s]
  <2>1. /\ InOrder(req[s]) /\ req[s].rv \in Nat
        /\ req[s].phase # "idle" => req[s].claim \in Claims
    BY DEF RequestsInv, TypeOK, RequestRec
  <2> QED BY <1>2, <2>1, VersionsGrow DEF InOrder
<1>3. CASE Moves(req[s], req'[s])
  BY <1>3 DEF Moves, InOrder
<1> QED BY <1>1, <1>2, <1>3, RequestSteps

(* A bucket that stays stays in the cache. *)
LEMMA CachedStays ==
    ASSUME TypeOK, [Next]_vars, NEW b \in Buckets,
           cachedBucket[b] = bucket[b], bucket'[b] = bucket[b]
    PROVE  cachedBucket'[b] = cachedBucket[b]
<1>1. ASSUME NEW a \in Buckets, NEW c, StoreBucket(a, c)
      PROVE  cachedBucket'[b] = cachedBucket[b]
  <2>1. CASE a = b
    BY <1>1, <2>1 DEF StoreBucket, TypeOK
  <2>2. CASE a # b
    BY <1>1, <2>2 DEF StoreBucket, TypeOK
  <2> QED BY <2>1, <2>2
<1>2. ASSUME NEW r \in Slots, PersistBucket(r)
      PROVE  cachedBucket'[b] = cachedBucket[b]
  <2>1. req[r].bucket \in Buckets
    BY <1>2 DEF PersistBucket, TypeOK
  <2> QED BY <1>1, <1>2, <2>1 DEF PersistBucket
<1>3. ASSUME NEW a \in Buckets, RemoveBucket(a)
      PROVE  cachedBucket'[b] = cachedBucket[b]
  BY <1>1, <1>3 DEF RemoveBucket
<1>4. CASE Refresh
  BY <1>4 DEF Refresh, TypeOK
<1>5. CASE cachedBucket' = cachedBucket
  BY <1>5
<1> QED BY <1>2, <1>3, <1>4, <1>5 DEF Next, vars, Arrive, CreateClaim,
        UpdateClaim, DeleteClaim, CreateBucket, Finalize, Send, Receive,
        Validate, ValidateNamespaceQuota, SumTeamNamespace,
        ValidateClusterQuota, ValidateDelete, ValidateBucketCreate, Deny,
        Advance, Refuse, Persist, PersistClaim

(* A deletion that is under way after a step was so before, or the cache had *)
(* no bucket of its claim.                                                   *)
LEMMA NoNewDeletion ==
    ASSUME TypeOK, RequestsInv, [Next]_vars, NEW c \in Claims,
           DeletionUnderWay(c)', ~ DeletionUnderWay(c)
    PROVE  \A b \in Buckets : cachedBucket[b] # c
<1>1. PICK r \in Slots : /\ req'[r].phase = "persist"
                         /\ req'[r].kind = "delete" /\ req'[r].claim = c
                         /\ claim'[c].rv = req'[r].rv
  BY DEF DeletionUnderWay, Unchanged
<1>2. req'[r] # Idle
  BY <1>1 DEF Idle
<1>3. CASE req'[r] = req[r]
  <2>1. claim[c].rv # req[r].rv
    BY <1>1, <1>3 DEF DeletionUnderWay, Unchanged
  <2>2. req[r].rv <= claim[c].rv /\ req[r].rv \in Nat
    BY <1>1, <1>3 DEF RequestsInv, InOrder, TypeOK, RequestRec
  <2> QED BY <1>1, <1>3, <2>1, <2>2, VersionsGrow
<1>4. CASE Moves(req[r], req'[r])
  BY <1>1, <1>4 DEF Moves
<1> QED BY <1>2, <1>3, <1>4, RequestSteps

LEMMA ProtectedStays ==
    ASSUME TypeOK, RequestsInv, [Next]_vars, NEW b \in Buckets, NEW c \in Claims,
           Protected(b, c), bucket'[b] = c
    PROVE  Protected(b, c)'
<1>1. cachedBucket'[b] = c
  BY CachedStays DEF Protected
<1>2. claim'[c].state = "live"
  BY ClaimSteps DEF ClaimMoves, Protected
<1>3. ~ DeletionUnderWay(c)'
  BY NoNewDeletion DEF Protected
<1> QED BY <1>1, <1>2, <1>3 DEF Protected

(* However requests overlap and however far the cache is behind: a bucket    *)
(* the operator knows of keeps its claim, unless the deletion had passed     *)
(* ValidateDelete before.                                                    *)
THEOREM BucketsProtect == Spec => KnownBucketsProtect
<1>1. TypeOK /\ RequestsInv /\ [Next]_vars => RequestsInv'
  BY RequestsStep
<1>2. TypeOK /\ RequestsInv /\ [Next]_vars
        => [\A b \in Buckets, c \in Claims :
              Protected(b, c) /\ bucket'[b] = c => Protected(b, c)']_vars
  BY ProtectedStays
<1> QED BY <1>1, <1>2, RequestsInit, TypeCorrect, PTL
        DEF Spec, KnownBucketsProtect
=============================================================================
