------------------------ MODULE ClaimLifecycleProofs ------------------------
(****************************************************************************)
(* What every implementation of ClaimLifecycle gives the owner of a claim.   *)
(****************************************************************************)
EXTENDS ClaimLifecycle, TLAPS

LEMMA LifecycleStep == KeysWorkInv /\ [Next]_vars => KeysWorkInv'
<1> SUFFICES ASSUME KeysWorkInv, [Next]_vars
             PROVE  KeysWorkInv'
  OBVIOUS
<1> USE DEF KeysWorkInv, KeysWork, TypeOK, AllAccess
<1>1. ASSUME NEW c \in Claims, Create(c)
      PROVE  KeysWorkInv'
  BY <1>1 DEF Create
<1>2. ASSUME NEW c \in Claims, Rename(c)
      PROVE  KeysWorkInv'
  <2>1. PICK a \in AllAccess : access' = [access EXCEPT ![c] = a]
    BY <1>2 DEF Rename
  <2>2. access'[c] = a
    BY <2>1
  <2> QED BY <1>2, <2>1, <2>2 DEF Rename
<1>3. ASSUME NEW c \in Claims, Terminate(c)
      PROVE  KeysWorkInv'
  BY <1>3 DEF Terminate
<1>4. ASSUME NEW c \in Claims, Leave(c)
      PROVE  KeysWorkInv'
  BY <1>4 DEF Leave
<1>5. ASSUME NEW c \in Claims, Open(c)
      PROVE  KeysWorkInv'
  BY <1>5 DEF Open
<1>6. ASSUME NEW c \in Claims, Grant(c)
      PROVE  KeysWorkInv'
  BY <1>6 DEF Grant
<1>7. ASSUME NEW c \in Claims, Purge(c)
      PROVE  KeysWorkInv'
  BY <1>7 DEF Purge
<1>8. CASE UNCHANGED vars
  BY <1>8 DEF vars
<1> QED BY <1>1, <1>2, <1>3, <1>4, <1>5, <1>6, <1>7, <1>8 DEF Next

(* Under the lifecycle a live claim never names keys that RGW refuses.       *)
THEOREM LifecycleKeysWork == Spec => []KeysWork
<1>1. Init => KeysWorkInv
  BY DEF Init, KeysWorkInv, KeysWork, TypeOK, AllAccess
<1>2. KeysWorkInv => KeysWork
  BY DEF KeysWorkInv
<1> QED BY <1>1, <1>2, LifecycleStep, PTL DEF Spec
=============================================================================
