----------------------------- MODULE PolicyLock -----------------------------
(***************************************************************************)
(* The per-policy lock of subsidy_access_policy: SubsidyAccessPolicy.lock()*)
(* (models.py), a key in the Django cache that is added before the body of *)
(* a redeem, allocate or approve request and deleted after it.             *)
(*                                                                         *)
(* What the code decides and the model keeps:                              *)
(*   - cache.add() succeeds only when the key is absent; a request that    *)
(*     finds it present is refused at once (HTTP 429) and never waits, so  *)
(*     a refusal is a stuttering step;                                     *)
(*   - the value stored is a fresh id, but nothing ever compares it:       *)
(*     release_lock() deletes the key whoever added it;                    *)
(*   - no timeout is passed, so Django's default one applies: the key of a *)
(*     worker that died disappears by itself, and so does the key of a     *)
(*     request that runs for longer than the timeout.                      *)
(***************************************************************************)
CONSTANTS
    Policies,       \* the policies that requests lock
    Workers,        \* the processes and threads that serve requests
    NoLock,         \* the cache holds no key for the policy
    Outside,        \* the worker is in no locked section
    SlowRequests    \* may a request outlive the timeout of the key it added?

ASSUME LockAssumption ==
    /\ NoLock \notin Workers
    /\ Outside \notin Policies
    /\ SlowRequests \in BOOLEAN

VARIABLES
    cache,          \* cache[p]: the worker whose id the cache holds, or NoLock
    at              \* at[w]: the policy whose locked section w is in

vars == <<cache, at>>

TypeOK ==
    /\ cache \in [Policies -> Workers \cup {NoLock}]
    /\ at \in [Workers -> Policies \cup {Outside}]

Init ==
    /\ cache = [p \in Policies |-> NoLock]
    /\ at = [w \in Workers |-> Outside]

-----------------------------------------------------------------------------
(* The mutants of this project are definitions named ..Mutant: each is the *)
(* definition that follows it with a mistake, and a run of the project     *)
(* finds its property violated when the mutant takes that definition's     *)
(* place.  Here: the key is set, present or not.                           *)
AcquireMutant(w, p) ==
    /\ at[w] = Outside
    /\ cache' = [cache EXCEPT ![p] = w]
    /\ at' = [at EXCEPT ![w] = p]

(* acquire_lock(): the atomic cache.add().                                 *)
Acquire(w, p) ==
    /\ at[w] = Outside
    /\ cache[p] = NoLock
    /\ cache' = [cache EXCEPT ![p] = w]
    /\ at' = [at EXCEPT ![w] = p]

(* The finally clause of lock(): the key is deleted, whoever added it.     *)
Release(w) ==
    /\ at[w] # Outside
    /\ cache' = [cache EXCEPT ![at[w]] = NoLock]
    /\ at' = [at EXCEPT ![w] = Outside]

(* The worker is killed inside the section: the key stays behind.          *)
Crash(w) ==
    /\ at[w] # Outside
    /\ at' = [at EXCEPT ![w] = Outside]
    /\ UNCHANGED cache

(* Mutant: the key of a worker that died in the section never expires.     *)
ExpireMutant(p) ==
    /\ SlowRequests /\ cache[p] # NoLock /\ at[cache[p]] = p
    /\ cache' = [cache EXCEPT ![p] = NoLock]
    /\ UNCHANGED at

(* The cache drops the key of a dead worker, or of one that is too slow.   *)
Expire(p) ==
    /\ cache[p] # NoLock
    /\ SlowRequests \/ at[cache[p]] # p
    /\ cache' = [cache EXCEPT ![p] = NoLock]
    /\ UNCHANGED at

Next ==
    \/ \E w \in Workers, p \in Policies : Acquire(w, p)
    \/ \E w \in Workers : Release(w)
    \/ \E w \in Workers : Crash(w)
    \/ \E p \in Policies : Expire(p)

Spec == Init /\ [][Next]_vars

(* Requests end (or their worker dies), and the cache drops expired keys.  *)
Fairness ==
    /\ \A w \in Workers : WF_vars(Release(w))
    /\ \A p \in Policies : WF_vars(Expire(p))

FairSpec == Spec /\ Fairness

-----------------------------------------------------------------------------
(* Two requests are never inside the locked section of the same policy,    *)
(* which is what acquire_lock() calls "an exclusive lock".                 *)
MutualExclusion ==
    \A v, w \in Workers : v # w /\ at[v] # Outside => at[v] # at[w]

(* A worker that is inside still owns the key: nobody who left earlier has *)
(* deleted it, although release_lock() compares no id.                     *)
HolderKeepsKey ==
    \A w \in Workers : at[w] # Outside => cache[at[w]] = w

(* A worker that died inside a section does not lock the policy for ever:  *)
(* the key of every policy is absent again and again.                      *)
LockEventuallyFree ==
    \A p \in Policies : []<>(cache[p] = NoLock)
=============================================================================
