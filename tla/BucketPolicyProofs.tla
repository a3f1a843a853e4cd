-------------------------- MODULE BucketPolicyProofs --------------------------
(****************************************************************************)
(* Proofs about BucketPolicy: for bindings of any length, what the policy    *)
(* allows is what the bindings grant.                                        *)
(****************************************************************************)
EXTENDS BucketPolicy, WellFoundedInduction, TLAPS

(* A name that is bound has a last binding. *)
LEMMA LastBindingExists ==
    ASSUME NEW bindings \in Seq(Binding), NEW i \in DOMAIN bindings
    PROVE  \E j \in DOMAIN bindings : /\ bindings[j].name = bindings[i].name
                                      /\ IsLastBinding(bindings, j)
<1> DEFINE S == {j \in DOMAIN bindings : bindings[j].name = bindings[i].name}
           D == {n \in Nat : \E j \in S : n = Len(bindings) - j}
<1>1. DOMAIN bindings = 1 .. Len(bindings) /\ Len(bindings) \in Nat
  OBVIOUS
<1>2. Len(bindings) - i \in D
  BY <1>1
<1>3. PICK n \in D : \A m \in D : ~ (<<m, n>> \in OpToRel(<, Nat))
  BY <1>2, NatLessThanWellFounded, WFMin
<1>4. \A m \in D : ~ (m < n)
  BY <1>3 DEF OpToRel
<1>5. PICK j \in S : n = Len(bindings) - j
  OBVIOUS
<1>6. ASSUME NEW k \in DOMAIN bindings, k > j,
             bindings[k].name = bindings[j].name
      PROVE  FALSE
  <2>1. Len(bindings) - k \in D
    BY <1>1, <1>5, <1>6
  <2> QED BY <1>1, <1>4, <1>5, <1>6, <2>1
<1> QED BY <1>5, <1>6 DEF IsLastBinding

(* There is only one last binding of a name. *)
LEMMA LastBindingUnique ==
    ASSUME NEW bindings \in Seq(Binding),
           NEW i, NEW j, IsLastBinding(bindings, i), IsLastBinding(bindings, j),
           bindings[i].name = bindings[j].name
    PROVE  i = j
<1>1. i \in 1 .. Len(bindings) /\ j \in 1 .. Len(bindings)
  BY DEF IsLastBinding
<1>2. i < j \/ i = j \/ j < i
  BY <1>1
<1> QED BY <1>1, <1>2 DEF IsLastBinding

(* The map has the access of the last binding of each name. *)
LEMMA AccessOfLast ==
    ASSUME NEW bindings \in Seq(Binding), NEW i, IsLastBinding(bindings, i)
    PROVE  /\ bindings[i].name \in DOMAIN SubuserAccessMap(bindings)
           /\ SubuserAccessMap(bindings)[bindings[i].name] = bindings[i].access
<1> DEFINE s == bindings[i].name
           Last(j) == bindings[j].name = s /\ IsLastBinding(bindings, j)
<1>1. i \in DOMAIN bindings
  BY DEF IsLastBinding
<1>2. s \in BoundNames(bindings)
  BY <1>1 DEF BoundNames
<1>3. \A j \in DOMAIN bindings : Last(j) => j = i
  BY LastBindingUnique
<1>4. (CHOOSE j \in DOMAIN bindings : Last(j)) = i
  BY <1>1, <1>3
<1> QED BY <1>2, <1>4 DEF SubuserAccessMap

LEMMA AccessMapType ==
    ASSUME NEW bindings \in Seq(Binding)
    PROVE  /\ SubuserAccessMap(bindings) \in [BoundNames(bindings) -> Access]
           /\ BoundNames(bindings) \subseteq Subusers
<1>1. \A i \in DOMAIN bindings : bindings[i] \in Binding
  OBVIOUS
<1>2. BoundNames(bindings) \subseteq Subusers
  BY <1>1 DEF BoundNames, Binding
<1>3. ASSUME NEW s \in BoundNames(bindings)
      PROVE  SubuserAccessMap(bindings)[s] \in Access
  <2>1. PICK i \in DOMAIN bindings : bindings[i].name = s
    BY DEF BoundNames
  <2>2. PICK j \in DOMAIN bindings : /\ bindings[j].name = bindings[i].name
                                     /\ IsLastBinding(bindings, j)
    BY LastBindingExists
  <2> QED BY <1>1, <2>1, <2>2, AccessOfLast DEF Binding
<1> QED BY <1>2, <1>3 DEF SubuserAccessMap

(* A policy made from bindings is one RGW can store. *)
LEMMA PolicyTypeOfMap ==
    ASSUME NEW map, NEW owner \in Owners, DOMAIN map \subseteq Subusers,
           \A s \in DOMAIN map : map[s] \in Access
    PROVE  PolicyStatements(map, owner) \in SUBSET Statement
<1> DEFINE P(a) == {<<owner, s>> : s \in {t \in DOMAIN map : map[t] = a}}
<1>1. ASSUME NEW a \in Access
      PROVE  [principals |-> P(a), actions |-> GenerateBucketAccessAction[a]]
               \in Statement
  <2>1. P(a) \in SUBSET Principal
    BY DEF Principal
  <2>2. GenerateBucketAccessAction[a] \in SUBSET Actions
    BY DEF GenerateBucketAccessAction, Actions, Access
  <2> HIDE DEF P
  <2> QED BY <2>1, <2>2 DEF Statement
<1>2. ASSUME NEW st \in PolicyStatements(map, owner)
      PROVE  st \in Statement
  <2>1. PICK a \in {map[s] : s \in DOMAIN map} :
          st = [principals |-> P(a), actions |-> GenerateBucketAccessAction[a]]
    BY DEF PolicyStatements
  <2>2. a \in Access
    OBVIOUS
  <2> HIDE DEF P
  <2> QED BY <2>1, <2>2, <1>1
<1> QED BY <1>2

LEMMA PolicyType ==
    ASSUME NEW bindings \in Seq(Binding), NEW owner \in Owners
    PROVE  PolicyStatements(SubuserAccessMap(bindings), owner)
             \in SUBSET Statement
<1>1. /\ DOMAIN SubuserAccessMap(bindings) \subseteq Subusers
      /\ \A s \in DOMAIN SubuserAccessMap(bindings) :
           SubuserAccessMap(bindings)[s] \in Access
  BY AccessMapType
<1> QED BY <1>1, PolicyTypeOfMap

(* A statement is for those who have the access it is made from. *)
LEMMA AllowedByMap ==
    ASSUME NEW map, NEW owner, NEW c, NEW s, NEW action
    PROVE  Allowed(PolicyStatements(map, owner), <<c, s>>, action)
             <=> /\ c = owner
                 /\ s \in DOMAIN map
                 /\ action \in GenerateBucketAccessAction[map[s]]
<1> DEFINE P(a) == {<<owner, u>> : u \in {t \in DOMAIN map : map[t] = a}}
           St(a) == [principals |-> P(a),
                     actions |-> GenerateBucketAccessAction[a]]
<1>1. PolicyStatements(map, owner) = {St(a) : a \in {map[u] : u \in DOMAIN map}}
  BY DEF PolicyStatements
<1>2. \A a : St(a).principals = P(a) /\ St(a).actions = GenerateBucketAccessAction[a]
  OBVIOUS
<1>3. \A a : <<c, s>> \in P(a) <=> c = owner /\ s \in DOMAIN map /\ map[s] = a
  OBVIOUS
<1> HIDE DEF P, St
<1> QED BY <1>1, <1>2, <1>3 DEF Allowed

(* The policy SetBucketPolicy builds from bindings in any order, with any     *)
(* names bound any number of times, allows a subuser of the owner what its   *)
(* last binding grants and everybody else nothing.                           *)
THEOREM PolicyExact ==
    ASSUME NEW bindings \in Seq(Binding), NEW owner \in Owners,
           NEW c \in Owners, NEW s \in Subusers, NEW action \in Actions
    PROVE  Allowed(PolicyStatements(SubuserAccessMap(bindings), owner),
                   <<c, s>>, action)
             <=> c = owner /\ Granted(bindings, s, action)
<1> DEFINE map == SubuserAccessMap(bindings)
           policy == PolicyStatements(map, owner)
<1>1. DOMAIN map = BoundNames(bindings)
  BY DEF SubuserAccessMap
<1>2. \A i : IsLastBinding(bindings, i) =>
         bindings[i].name \in DOMAIN map /\ map[bindings[i].name] = bindings[i].access
  BY AccessOfLast
<1>3. \A t \in DOMAIN map : map[t] \in Access
  BY AccessMapType
<1>4. \A a \in Access : action \in GenerateBucketAccessAction[a] <=>
         action \in {"ListBucket", "GetObject"} \/ a = "write"
  BY DEF GenerateBucketAccessAction, Actions, Access
<1>5. Allowed(policy, <<c, s>>, action) <=>
         /\ c = owner
         /\ s \in DOMAIN map
         /\ action \in GenerateBucketAccessAction[map[s]]
  BY AllowedByMap
<1>6. Granted(bindings, s, action) <=>
         s \in DOMAIN map /\ action \in GenerateBucketAccessAction[map[s]]
  <2>1. ASSUME Granted(bindings, s, action)
        PROVE  s \in DOMAIN map /\ action \in GenerateBucketAccessAction[map[s]]
    <3>1. PICK i \in DOMAIN bindings :
            /\ bindings[i].name = s
            /\ IsLastBinding(bindings, i)
            /\ \/ action \in {"ListBucket", "GetObject"}
               \/ bindings[i].access = "write"
      BY <2>1 DEF Granted
    <3> HIDE DEF map
    <3> QED BY <3>1, <1>2, <1>3, <1>4
  <2>2. ASSUME s \in DOMAIN map, action \in GenerateBucketAccessAction[map[s]]
        PROVE  Granted(bindings, s, action)
    <3>1. PICK i \in DOMAIN bindings : bindings[i].name = s
      BY <1>1, <2>2 DEF BoundNames
    <3>2. PICK j \in DOMAIN bindings : /\ bindings[j].name = bindings[i].name
                                       /\ IsLastBinding(bindings, j)
      BY LastBindingExists
    <3> HIDE DEF map
    <3>3. action \in {"ListBucket", "GetObject"} \/ bindings[j].access = "write"
      BY <2>2, <3>1, <3>2, <1>2, <1>3, <1>4
    <3> QED BY <3>1, <3>2, <3>3 DEF Granted
  <2> QED BY <2>1, <2>2
<1> QED BY <1>5, <1>6
=============================================================================
