----------------------------- MODULE Redemption -----------------------------
(***************************************************************************)
(* Redeeming with a directly redeemable policy: the redeem request of      *)
(* api/v1/views/subsidy_access_policy.py, SubsidyAccessPolicy.can_redeem() *)
(* and .redeem() of subsidy_access_policy/models.py.                       *)
(*                                                                         *)
(* A worker serves one request at a time: it takes the lock of the policy  *)
(* (PolicyLock), reads the transactions of the learner and the content,    *)
(* checks the spend limit, posts a transaction to the subsidy service, and *)
(* releases the lock.  Each of these is a remote call, so each is a step.  *)
(*                                                                         *)
(* The subsidy service is external.  What the code relies on: posting an   *)
(* idempotency key that has been used returns the transaction created for  *)
(* it, any other key creates one; a transaction settles, and a committed   *)
(* one may be reversed, at any time and with no lock.  A call whose caller *)
(* timed out or died may still be served later (LateCalls).                *)
(***************************************************************************)
EXTENDS Integers, FiniteSets, FiniteSetsExt

CONSTANTS
    Policies,       \* policies that draw on one subsidy
    Workers,        \* the processes and threads that serve requests
    Pairs,          \* the (learner, content) pairs that are redeemed
    TxIds,          \* transaction uuids; bounds the ledger in a model check
    Price,          \* Price[x]: the price of the content of pair x
    SpendLimit,     \* the spend_limit of every policy
    NoLock,         \* the cache holds no key for the policy
    Outside,        \* the worker is in no locked section
    NoKey,          \* the worker serves no request
    SlowRequests,   \* may a request outlive the timeout of its lock's key?
    LateCalls       \* may a call be served after its caller is gone?

ASSUME RedemptionAssumption ==
    /\ NoLock \notin Workers
    /\ Outside \notin Policies
    /\ Price \in [Pairs -> Nat]
    /\ SpendLimit \in Nat
    /\ SlowRequests \in BOOLEAN
    /\ LateCalls \in BOOLEAN

VARIABLES
    cache,          \* cache[p]: the worker whose lock id is cached, or NoLock
    pc,             \* pc[w]: where worker w is in its request
    key,            \* key[w]: the idempotency key of w's request, or NoKey
    ledger,         \* the transactions of the subsidy, by their uuid
    late            \* the keys of the posted calls whose caller is gone

vars == <<cache, pc, key, ledger, late>>

(* What create_idempotency_key_for_transaction() hashes: the price is not  *)
(* part of it, and "past" holds the uuids of the historical redemptions.   *)
Keys == [policy : Policies, pair : Pairs, past : SUBSET TxIds]

States == {"pending", "committed", "failed", "reversed"}
Dead == {"failed", "reversed"}

Transactions == [key : Keys, state : States]

Phases == {"idle", "locked", "read", "posted", "leaving"}

TypeOK ==
    /\ cache \in [Policies -> Workers \cup {NoLock}]
    /\ pc \in [Workers -> Phases]
    /\ key \in [Workers -> Keys \cup {NoKey}]
    /\ \A w \in Workers : pc[w] # "idle" => key[w] \in Keys
    /\ DOMAIN ledger \subseteq TxIds
    /\ ledger \in [DOMAIN ledger -> Transactions]
    /\ late \subseteq Keys

Init ==
    /\ cache = [p \in Policies |-> NoLock]
    /\ pc = [w \in Workers |-> "idle"]
    /\ key = [w \in Workers |-> NoKey]
    /\ ledger = <<>>
    /\ late = {}

-----------------------------------------------------------------------------
(* The transactions of the subsidy for a learner and a content, whichever  *)
(* policy made them: the payload of the subsidy's can_redeem endpoint.     *)
History(x) == {i \in DOMAIN ledger : ledger[i].key.pair = x}

(* Mutant: pending transactions count as past ones.                        *)
PastPendingMutant(x) == {i \in History(x) : ledger[i].state # "committed"}

(* _redemptions_for_idempotency_key()                                      *)
Past(x) == {i \in History(x) : ledger[i].state \in Dead}

(* The transactions of a policy that count towards its spend.              *)
LiveOf(p) ==
    {i \in DOMAIN ledger : ledger[i].key.policy = p /\ ledger[i].state \notin Dead}

Spent(p) == MapThenSumSet(LAMBDA i : Price[ledger[i].key.pair], LiveOf(p))

Used(k) == \E i \in DOMAIN ledger : ledger[i].key = k

-----------------------------------------------------------------------------
(* The worker.                                                             *)

(* Mutant: the key is set, present or not.                                 *)
AcquireMutant(w, p, x) ==
    /\ pc[w] = "idle"
    /\ cache' = [cache EXCEPT ![p] = w]
    /\ pc' = [pc EXCEPT ![w] = "locked"]
    /\ key' = [key EXCEPT ![w] = [policy |-> p, pair |-> x, past |-> {}]]
    /\ UNCHANGED <<ledger, late>>

(* The request arrives and lock() adds the key of the policy.              *)
Acquire(w, p, x) ==
    /\ pc[w] = "idle"
    /\ cache[p] = NoLock
    /\ cache' = [cache EXCEPT ![p] = w]
    /\ pc' = [pc EXCEPT ![w] = "locked"]
    /\ key' = [key EXCEPT ![w] = [policy |-> p, pair |-> x, past |-> {}]]
    /\ UNCHANGED <<ledger, late>>

(* can_redeem() asks the subsidy for the transactions of the pair; redeem()*)
(* will derive its idempotency key from this answer.                       *)
ReadHistory(w) ==
    /\ pc[w] = "locked"
    /\ pc' = [pc EXCEPT ![w] = "read"]
    /\ key' = [key EXCEPT ![w].past = Past(key[w].pair)]
    /\ UNCHANGED <<cache, ledger, late>>

(* can_redeem() finds the spend within the limit; redeem() posts the call. *)
Post(w) ==
    /\ pc[w] = "read"
    /\ Spent(key[w].policy) + Price[key[w].pair] <= SpendLimit
    /\ pc' = [pc EXCEPT ![w] = "posted"]
    /\ UNCHANGED <<cache, key, ledger, late>>

(* can_redeem() refuses, for the spend limit or for another reason (422),  *)
(* one of its calls fails, or the subsidy answers the post with an error.  *)
Refuse(w) ==
    /\ pc[w] \in {"locked", "read", "posted"}
    /\ pc' = [pc EXCEPT ![w] = "leaving"]
    /\ UNCHANGED <<cache, key, ledger, late>>

(* requests.Timeout is no HTTPError: it leaves redeem() and the lock, and  *)
(* the call may still be under way.                                        *)
TimeOut(w) ==
    /\ pc[w] = "posted"
    /\ LateCalls
    /\ late' = late \cup {key[w]}
    /\ pc' = [pc EXCEPT ![w] = "leaving"]
    /\ UNCHANGED <<cache, key, ledger>>

(* The finally clause of lock() deletes the policy's key.                  *)
Leave(w) ==
    /\ pc[w] = "leaving"
    /\ cache' = [cache EXCEPT ![key[w].policy] = NoLock]
    /\ pc' = [pc EXCEPT ![w] = "idle"]
    /\ key' = [key EXCEPT ![w] = NoKey]
    /\ UNCHANGED <<ledger, late>>

Crash(w) ==
    /\ pc[w] # "idle"
    /\ pc' = [pc EXCEPT ![w] = "idle"]
    /\ key' = [key EXCEPT ![w] = NoKey]
    /\ late' = IF pc[w] = "posted" /\ LateCalls THEN late \cup {key[w]} ELSE late
    /\ UNCHANGED <<cache, ledger>>

Inside(w, p) == pc[w] # "idle" /\ key[w].policy = p

(* The cache drops the key of a dead worker, or of one that is too slow.   *)
Expire(p) ==
    /\ cache[p] # NoLock
    /\ SlowRequests \/ ~Inside(cache[p], p)
    /\ cache' = [cache EXCEPT ![p] = NoLock]
    /\ UNCHANGED <<pc, key, ledger, late>>

-----------------------------------------------------------------------------
(* The subsidy service.                                                    *)

Create(k) ==
    IF Used(k)
    THEN UNCHANGED ledger
    ELSE \E i \in TxIds \ DOMAIN ledger, s \in {"pending", "committed", "failed"} :
            ledger' = [j \in DOMAIN ledger \cup {i} |->
                        IF j = i THEN [key |-> k, state |-> s] ELSE ledger[j]]

(* The call of a worker that waits for it; it answers with a transaction.  *)
Serve(w) ==
    /\ pc[w] = "posted"
    /\ Create(key[w])
    /\ pc' = [pc EXCEPT ![w] = "leaving"]
    /\ UNCHANGED <<cache, key, late>>

(* A call nobody waits for any more; the second disjunct loses it.         *)
ServeLate(k) ==
    /\ k \in late
    /\ Create(k) \/ UNCHANGED ledger
    /\ late' = late \ {k}
    /\ UNCHANGED <<cache, pc, key>>

SetState(i, s) == ledger' = [ledger EXCEPT ![i].state = s]

Settle(i) ==
    /\ ledger[i].state = "pending"
    /\ \E s \in {"committed", "failed"} : SetState(i, s)
    /\ UNCHANGED <<cache, pc, key, late>>

(* The reversal of a committed transaction has itself been committed.      *)
Reverse(i) ==
    /\ ledger[i].state = "committed"
    /\ SetState(i, "reversed")
    /\ UNCHANGED <<cache, pc, key, late>>

Next ==
    \/ \E w \in Workers, p \in Policies, x \in Pairs : Acquire(w, p, x)
    \/ \E w \in Workers : ReadHistory(w)
    \/ \E w \in Workers : Post(w)
    \/ \E w \in Workers : Refuse(w)
    \/ \E w \in Workers : TimeOut(w)
    \/ \E w \in Workers : Leave(w)
    \/ \E w \in Workers : Crash(w)
    \/ \E p \in Policies : Expire(p)
    \/ \E w \in Workers : Serve(w)
    \/ \E k \in late : ServeLate(k)
    \/ \E i \in DOMAIN ledger : Settle(i)
    \/ \E i \in DOMAIN ledger : Reverse(i)

Spec == Init /\ [][Next]_vars

-----------------------------------------------------------------------------
LiveFor(p, x) == {i \in LiveOf(p) : ledger[i].key.pair = x}

(* Every failed or reversed transaction of the pair was made through p.    *)
OwnPast(p, x) == \A i \in Past(x) : ledger[i].key.policy = p

(* A policy holds at most one live redemption for a learner and a content, *)
(* whatever is retried, lost, served late or run outside the lock, as long *)
(* as no other policy has a failed or reversed one for them.               *)
AtMostOneLive ==
    \A p \in Policies, x \in Pairs :
        OwnPast(p, x) => \A i, j \in LiveFor(p, x) : i = j

(* A failure or a reversal lets the learner try again: the key derived     *)
(* from the history as it is now is never that of a dead transaction.      *)
RetryIsFresh ==
    \A i \in DOMAIN ledger :
        ledger[i].state \in Dead => ledger[i].key.past # Past(ledger[i].key.pair)

-----------------------------------------------------------------------------
(* Why AtMostOneLive and RetryIsFresh hold: the inductive invariant.       *)

(* The keys that may still reach the subsidy service.                      *)
Outstanding(k) ==
    \/ k \in late
    \/ \E w \in Workers : pc[w] \in {"read", "posted"} /\ key[w] = k

(* A key only names transactions that were there before it was derived.    *)
PastIsKnown ==
    /\ \A k \in Keys : Outstanding(k) => k.past \subseteq DOMAIN ledger
    /\ \A i \in DOMAIN ledger : i \notin ledger[i].key.past

OneTxPerKey ==
    \A i, j \in DOMAIN ledger : ledger[i].key = ledger[j].key => i = j

(* Every live redemption was made under the key that a request would       *)
(* derive now, and every key derived earlier has been used: when a         *)
(* transaction of p dies, its own key retires together with the past.      *)
KeysAreCurrent ==
    \A p \in Policies, x \in Pairs :
        OwnPast(p, x) =>
            /\ \A i \in LiveFor(p, x) : ledger[i].key.past = Past(x)
            /\ \A k \in Keys :
                   /\ Outstanding(k)
                   /\ k.policy = p
                   /\ k.pair = x
                   => k.past = Past(x) \/ Used(k)

RedemptionInv == PastIsKnown /\ OneTxPerKey /\ KeysAreCurrent

-----------------------------------------------------------------------------
(* The worker that serves a request owns the lock of its policy, at every  *)
(* step of the request, so two requests never run in one policy.           *)
HolderKeepsLock == \A w \in Workers : pc[w] # "idle" => cache[key[w].policy] = w

(* The request's use of the lock is a behaviour of the lock by itself.     *)
Lock == INSTANCE PolicyLock
    WITH at <- [w \in Workers |-> IF pc[w] = "idle" THEN Outside ELSE key[w].policy]

ImplementsPolicyLock == Lock!Spec
=============================================================================
