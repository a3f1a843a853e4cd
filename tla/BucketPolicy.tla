---------------------------- MODULE BucketPolicy ----------------------------
(****************************************************************************)
(* The policy the S3 agent puts on a bucket (internal/s3_agent): from the    *)
(* bindings of an S3Bucket, which give subusers of a claim read or write     *)
(* access, to statements that allow principals some actions on RGW.          *)
(****************************************************************************)
EXTENDS Integers, Sequences

CONSTANTS
    Owners,    \* the claims whose Ceph users may own a bucket
    Subusers   \* names of their subusers

Access == {"read", "write"}

(* S3 actions, by the part of their names that tells them apart. *)
Actions == {"ListBucket", "GetObject", "DeleteObject", "PutObject"}

Binding == [name : Subusers, access : Access]

(* The user a policy names, "<tenant>:user/<owner>:<subuser>". *)
Principal == Owners \X Subusers

Statement == [principals : SUBSET Principal, actions : SUBSET Actions]

GenerateBucketAccessAction ==
    LET read == {"ListBucket", "GetObject"}
    IN [read |-> read, write |-> read \cup {"DeleteObject", "PutObject"}]

(* The access of a name in the bindings is that of its last binding: the     *)
(* code fills a map in the order of the list.                               *)
BoundNames(bindings) == {bindings[i].name : i \in DOMAIN bindings}

IsLastBinding(bindings, i) ==
    /\ i \in DOMAIN bindings
    /\ \A j \in DOMAIN bindings : j > i => bindings[j].name # bindings[i].name

(* Mutant: the first binding of a name wins. *)
SubuserAccessMapMutant(bindings) ==
    [s \in BoundNames(bindings) |->
        bindings[CHOOSE i \in DOMAIN bindings :
                    /\ bindings[i].name = s
                    /\ \A j \in DOMAIN bindings :
                         bindings[j].name = s => i <= j].access]

SubuserAccessMap(bindings) ==
    [s \in BoundNames(bindings) |->
        bindings[CHOOSE i \in DOMAIN bindings :
                    /\ bindings[i].name = s
                    /\ IsLastBinding(bindings, i)].access]

(* One statement for each access that occurs, for all subusers that have it. *)
PolicyStatements(accessMap, owner) ==
    {[principals |-> {<<owner, s>> : s \in {t \in DOMAIN accessMap :
                                              accessMap[t] = a}},
      actions |-> GenerateBucketAccessAction[a]] :
        a \in {accessMap[s] : s \in DOMAIN accessMap}}

(* The order of the statements and of the principals in one is that of Go's *)
(* maps: a policy for more than one subuser has more than one text.          *)
Forms(accessMap) ==
    IF \E s, t \in DOMAIN accessMap : s # t THEN {"one", "another"} ELSE {"one"}

(* RGW lets the owner do everything and others what a statement allows. *)
Allowed(policy, principal, action) ==
    \E st \in policy : principal \in st.principals /\ action \in st.actions

(* What bindings are meant to give (docs/E2E-TEST-WORKFLOW.md:26), the      *)
(* reference Allowed is compared with.                                      *)
Granted(bindings, name, action) ==
    \E i \in DOMAIN bindings :
        /\ bindings[i].name = name
        /\ IsLastBinding(bindings, i)
        /\ \/ action \in {"ListBucket", "GetObject"}
           \/ bindings[i].access = "write"
=============================================================================
