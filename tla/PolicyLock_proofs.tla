-------------------------- MODULE PolicyLock_proofs --------------------------
(* Proofs about the per-policy lock, for any policies and any workers.     *)
EXTENDS PolicyLock, TLAPS

(* The lock's variables keep their types.                                  *)
THEOREM LockTypeOK == Spec => []TypeOK
<1>1. Init => TypeOK
  BY DEF Init, TypeOK
<1>2. TypeOK /\ [Next]_vars => TypeOK'
  BY LockAssumption DEF TypeOK, Next, vars, Acquire, Release, Crash, Expire
<1>3. QED
  BY <1>1, <1>2, PTL DEF Spec

(* As long as no request outlives the timeout of its key, no worker inside *)
(* a section ever loses the key it added, although release_lock() deletes  *)
(* the key without comparing its value: the only worker that can delete it *)
(* is the one that put it there.                                           *)
THEOREM HolderKeepsKeyTheorem == ~SlowRequests => (Spec => []HolderKeepsKey)
<1> SUFFICES ASSUME ~SlowRequests PROVE Spec => []HolderKeepsKey
  OBVIOUS
<1>1. Init => HolderKeepsKey
  BY DEF Init, HolderKeepsKey
<1>2. TypeOK /\ HolderKeepsKey /\ [Next]_vars => HolderKeepsKey'
  <2> SUFFICES ASSUME TypeOK, HolderKeepsKey, [Next]_vars
               PROVE  HolderKeepsKey'
    OBVIOUS
  <2>1. CASE \E w \in Workers, p \in Policies : Acquire(w, p)
    BY <2>1, LockAssumption DEF TypeOK, HolderKeepsKey, Acquire
  <2>2. CASE \E w \in Workers : Release(w)
    BY <2>2, LockAssumption DEF TypeOK, HolderKeepsKey, Release
  <2>3. CASE \E w \in Workers : Crash(w)
    BY <2>3, LockAssumption DEF TypeOK, HolderKeepsKey, Crash
  <2>4. CASE \E p \in Policies : Expire(p)
    BY <2>4, LockAssumption DEF TypeOK, HolderKeepsKey, Expire
  <2>5. CASE UNCHANGED vars
    BY <2>5 DEF HolderKeepsKey, vars
  <2>6. QED
    BY <2>1, <2>2, <2>3, <2>4, <2>5 DEF Next
<1>3. QED
  BY <1>1, <1>2, LockTypeOK, PTL DEF Spec

(* Then two workers are never inside the section of one policy: both would *)
(* own its one key.                                                        *)
THEOREM MutualExclusionTheorem == ~SlowRequests => (Spec => []MutualExclusion)
<1> SUFFICES ASSUME ~SlowRequests PROVE Spec => []MutualExclusion
  OBVIOUS
<1>1. HolderKeepsKey => MutualExclusion
  BY DEF HolderKeepsKey, MutualExclusion
<1>2. Spec => []HolderKeepsKey
  BY HolderKeepsKeyTheorem
<1>3. QED
  BY <1>1, <1>2, PTL
=============================================================================
