---------------------- MODULE SubsidyAccessPolicy_proofs ----------------------
(***************************************************************************)
(* Proofs about policies: redemption with any policy (Redemption), the     *)
(* budgets of policies and of learners (PolicyBudget), and the policies    *)
(* with assignments (AssignedLearnerCredit), which both redeem as the first*)
(* says.  They are for any policies, workers, pairs, transactions, prices, *)
(* limits and admins, and for every value of the fault constants that is   *)
(* not a hypothesis.                                                       *)
(***************************************************************************)
EXTENDS PolicyBudget, AssignedLearnerCredit, FiniteSetTheorems, WellFoundedInduction, TLAPS

-----------------------------------------------------------------------------
(* Redemption, and at the end sums over finite sets and what a policy has  *)
(* spent.                                                                  *)

(* What the inductive argument reads from TypeOK about a ledger entry.     *)
LEMMA LedgerEntry ==
    ASSUME TypeOK, NEW i \in DOMAIN ledger
    PROVE  /\ i \in TxIds
           /\ ledger[i] \in Transactions
           /\ ledger[i].key \in Keys
           /\ ledger[i].key.policy \in Policies
           /\ ledger[i].key.pair \in Pairs
           /\ ledger[i].key.past \subseteq TxIds
           /\ ledger[i].state \in States
  BY DEF TypeOK, Transactions, Keys

(* A key is its policy, its pair and its past.                             *)
LEMMA KeyExtensionality ==
    ASSUME NEW k \in Keys, NEW l \in Keys,
           k.policy = l.policy, k.pair = l.pair, k.past = l.past
    PROVE  k = l
  BY DEF Keys

LEMMA CreateType ==
    ASSUME TypeOK, NEW k \in Keys, Create(k)
    PROVE  /\ DOMAIN ledger' \subseteq TxIds
           /\ ledger' \in [DOMAIN ledger' -> Transactions]
<1>1. CASE UNCHANGED ledger
  BY <1>1 DEF TypeOK
<1>2. CASE ~Used(k)
  <2>1. PICK i \in TxIds \ DOMAIN ledger, s \in {"pending", "committed", "failed"} :
          ledger' = [j \in DOMAIN ledger \cup {i} |->
                      IF j = i THEN [key |-> k, state |-> s] ELSE ledger[j]]
    BY <1>2 DEF Create
  <2>2. [key |-> k, state |-> s] \in Transactions
    BY DEF Transactions, States
  <2>3. QED
    BY <2>1, <2>2, LedgerEntry DEF TypeOK
<1>3. QED
  BY <1>1, <1>2 DEF Create

LEMMA SetStateType ==
    ASSUME TypeOK, NEW i \in DOMAIN ledger, NEW s \in States, SetState(i, s)
    PROVE  /\ DOMAIN ledger' \subseteq TxIds
           /\ ledger' \in [DOMAIN ledger' -> Transactions]
  BY LedgerEntry DEF TypeOK, SetState, Transactions

LEMMA InitType == Init => TypeOK
<1> SUFFICES ASSUME Init PROVE TypeOK
  OBVIOUS
<1>1. DOMAIN ledger = {}
  BY DEF Init
<1>2. ledger \in [DOMAIN ledger -> Transactions]
  BY <1>1 DEF Init
<1>3. QED
  BY <1>1, <1>2 DEF Init, TypeOK, Phases

LEMMA NextType == TypeOK /\ [Next]_vars => TypeOK'
<1> SUFFICES ASSUME TypeOK, [Next]_vars PROVE TypeOK'
  OBVIOUS
<1> USE RedemptionAssumption DEF TypeOK, Phases
<1>1. ASSUME NEW w \in Workers, NEW p \in Policies, NEW x \in Pairs, Acquire(w, p, x)
      PROVE  TypeOK'
  BY <1>1 DEF Acquire, Keys
<1>2. ASSUME NEW w \in Workers, ReadHistory(w) PROVE TypeOK'
  <2>1. Past(key[w].pair) \subseteq TxIds
    BY DEF Past, History
  <2>2. key'[w] \in Keys
    BY <1>2, <2>1 DEF ReadHistory, Keys
  <2>3. key' = [key EXCEPT ![w] = key'[w]]
    BY <1>2 DEF ReadHistory
  <2>4. QED
    BY <1>2, <2>2, <2>3 DEF ReadHistory
<1>3. ASSUME NEW w \in Workers, Post(w) PROVE TypeOK'
  BY <1>3 DEF Post
<1>4. ASSUME NEW w \in Workers, Refuse(w) PROVE TypeOK'
  BY <1>4 DEF Refuse
<1>5. ASSUME NEW w \in Workers, TimeOut(w) PROVE TypeOK'
  BY <1>5 DEF TimeOut
<1>6. ASSUME NEW w \in Workers, Leave(w) PROVE TypeOK'
  BY <1>6 DEF Leave
<1>7. ASSUME NEW w \in Workers, Crash(w) PROVE TypeOK'
  BY <1>7 DEF Crash
<1>8. ASSUME NEW p \in Policies, Expire(p) PROVE TypeOK'
  BY <1>8 DEF Expire
<1>9. ASSUME NEW w \in Workers, Serve(w) PROVE TypeOK'
  <2>1. /\ DOMAIN ledger' \subseteq TxIds
        /\ ledger' \in [DOMAIN ledger' -> Transactions]
    BY <1>9, CreateType DEF Serve
  <2>2. QED
    BY <1>9, <2>1 DEF Serve
<1>10. ASSUME NEW k \in late, ServeLate(k) PROVE TypeOK'
  <2>1. /\ DOMAIN ledger' \subseteq TxIds
        /\ ledger' \in [DOMAIN ledger' -> Transactions]
    BY <1>10, CreateType DEF ServeLate
  <2>2. QED
    BY <1>10, <2>1 DEF ServeLate
<1>11. ASSUME NEW i \in DOMAIN ledger, Settle(i) PROVE TypeOK'
  <2>1. /\ DOMAIN ledger' \subseteq TxIds
        /\ ledger' \in [DOMAIN ledger' -> Transactions]
    BY <1>11, SetStateType DEF Settle, States
  <2>2. QED
    BY <1>11, <2>1 DEF Settle
<1>12. ASSUME NEW i \in DOMAIN ledger, Reverse(i) PROVE TypeOK'
  <2>1. /\ DOMAIN ledger' \subseteq TxIds
        /\ ledger' \in [DOMAIN ledger' -> Transactions]
    BY <1>12, SetStateType DEF Reverse, States
  <2>2. QED
    BY <1>12, <2>1 DEF Reverse
<1>13. CASE UNCHANGED vars
  BY <1>13 DEF vars
<1>14. QED
  BY <1>1, <1>2, <1>3, <1>4, <1>5, <1>6, <1>7, <1>8, <1>9, <1>10, <1>11, <1>12,
     <1>13 DEF Next

(* The variables keep their types.                                         *)
THEOREM RedemptionTypeOK == Spec => []TypeOK
  BY InitType, NextType, PTL DEF Spec

-----------------------------------------------------------------------------
(* The inductive invariant.  The ledger changes in three ways: not at all, *)
(* by a transaction created for an outstanding key, and by a transaction   *)
(* that changes state; each keeps the invariant whatever the workers do,   *)
(* as long as no key becomes outstanding but the current one of its pair.  *)

LEMMA SameLedger ==
    ASSUME TypeOK, RedemptionInv, ledger' = ledger,
           \A k \in Keys : Outstanding(k)' => Outstanding(k) \/ k.past = Past(k.pair)
    PROVE  RedemptionInv'
<1>1. \A p \in Policies, x \in Pairs :
        /\ Past(x)' = Past(x)
        /\ LiveFor(p, x)' = LiveFor(p, x)
        /\ OwnPast(p, x)' = OwnPast(p, x)
  BY DEF Past, History, LiveFor, LiveOf, OwnPast
<1>2. \A k \in Keys : Used(k)' = Used(k)
  BY DEF Used
<1>3. PastIsKnown'
  <2>1. \A x \in Pairs : Past(x) \subseteq DOMAIN ledger
    BY DEF Past, History
  <2>2. \A k \in Keys : k.pair \in Pairs
    BY DEF Keys
  <2>3. QED
    BY <2>1, <2>2 DEF PastIsKnown, RedemptionInv
<1>4. OneTxPerKey'
  BY DEF OneTxPerKey, RedemptionInv
<1>5. KeysAreCurrent'
  BY <1>1, <1>2 DEF KeysAreCurrent, RedemptionInv
<1>6. QED
  BY <1>3, <1>4, <1>5 DEF RedemptionInv

LEMMA CreateKeepsInv ==
    ASSUME TypeOK, RedemptionInv, NEW c \in Keys, Outstanding(c), Create(c),
           \A k \in Keys : Outstanding(k)' => Outstanding(k)
    PROVE  RedemptionInv'
<1>1. CASE UNCHANGED ledger
  BY <1>1, SameLedger
<1>2. CASE ~Used(c)
  <2>1. PICK t \in TxIds \ DOMAIN ledger, s \in {"pending", "committed", "failed"} :
          ledger' = [j \in DOMAIN ledger \cup {t} |->
                      IF j = t THEN [key |-> c, state |-> s] ELSE ledger[j]]
    BY <1>2 DEF Create
  <2>2. /\ DOMAIN ledger' = DOMAIN ledger \cup {t}
        /\ ledger'[t].key = c
        /\ ledger'[t].state = s
        /\ \A j \in DOMAIN ledger : ledger'[j] = ledger[j] /\ j # t
    BY <2>1
  <2>3. PastIsKnown'
    <3>1. c.past \subseteq DOMAIN ledger
      BY DEF RedemptionInv, PastIsKnown
    <3>2. \A i \in DOMAIN ledger' : i \notin ledger'[i].key.past
      BY <2>1, <2>2, <3>1 DEF RedemptionInv, PastIsKnown
    <3>3. \A k \in Keys : Outstanding(k)' => k.past \subseteq DOMAIN ledger'
      BY <2>2 DEF RedemptionInv, PastIsKnown
    <3>4. QED
      BY <3>2, <3>3 DEF PastIsKnown
  <2>4. OneTxPerKey'
    BY <1>2, <2>2 DEF RedemptionInv, OneTxPerKey, Used
  <2>5. KeysAreCurrent'
    <3> SUFFICES ASSUME NEW p \in Policies, NEW x \in Pairs, OwnPast(p, x)'
                 PROVE  /\ \A i \in LiveFor(p, x)' : ledger'[i].key.past = Past(x)'
                        /\ \A k \in Keys :
                              Outstanding(k)' /\ k.policy = p /\ k.pair = x
                                => k.past = Past(x)' \/ Used(k)'
      BY DEF KeysAreCurrent
    <3>1. Past(x) \subseteq Past(x)'
      BY <2>2 DEF Past, History
    <3>2. Past(x)' \subseteq Past(x) \cup {t}
      BY <2>2 DEF Past, History
    <3>3. OwnPast(p, x)
      BY <2>2, <3>1 DEF OwnPast, Past, History
    <3>4. \A k \in Keys : Used(k) => Used(k)'
      BY <2>2 DEF Used
    <3>5. Used(c)'
      BY <2>2 DEF Used
    <3>6. CASE c.pair = x /\ c.policy = p
      <4>1. c.past = Past(x)
        BY <1>2, <3>3, <3>6 DEF RedemptionInv, KeysAreCurrent
      <4>2. LiveFor(p, x) = {}
        <5> SUFFICES ASSUME NEW i \in LiveFor(p, x) PROVE FALSE
          OBVIOUS
        <5>1. i \in DOMAIN ledger /\ ledger[i].key.policy = p /\ ledger[i].key.pair = x
          BY DEF LiveFor, LiveOf
        <5>2. ledger[i].key.past = Past(x)
          BY <3>3 DEF RedemptionInv, KeysAreCurrent
        <5>3. ledger[i].key = c
          BY <3>6, <4>1, <5>1, <5>2, LedgerEntry, KeyExtensionality
        <5>4. QED
          BY <1>2, <5>1, <5>3 DEF Used
      <4>3. LiveFor(p, x)' \subseteq {t}
        BY <2>2, <4>2 DEF LiveFor, LiveOf
      <4>4. \A i \in LiveFor(p, x)' : ledger'[i].key.past = Past(x)'
        <5> SUFFICES ASSUME t \in LiveFor(p, x)' PROVE c.past = Past(x)'
          BY <2>2, <4>3
        <5>1. t \notin Past(x)'
          BY DEF LiveFor, LiveOf, Past
        <5>2. QED
          BY <3>1, <3>2, <4>1, <5>1
      <4>5. ASSUME NEW k \in Keys, Outstanding(k)', k.policy = p, k.pair = x
            PROVE  Used(k)'
        <5>1. k.past = Past(x) \/ Used(k)
          BY <3>3, <4>5 DEF RedemptionInv, KeysAreCurrent
        <5>2. k.past = Past(x) => k = c
          BY <3>6, <4>1, <4>5, KeyExtensionality
        <5>3. QED
          BY <3>4, <3>5, <5>1, <5>2
      <4>6. QED
        BY <4>4, <4>5
    <3>7. CASE c.pair = x /\ c.policy # p
      <4>1. t \notin Past(x)'
        BY <2>2, <3>7 DEF OwnPast
      <4>2. Past(x)' = Past(x)
        BY <3>1, <3>2, <4>1
      <4>3. LiveFor(p, x)' \subseteq LiveFor(p, x)
        BY <2>2, <3>7 DEF LiveFor, LiveOf
      <4>4. \A i \in LiveFor(p, x) : i \in DOMAIN ledger
        BY DEF LiveFor, LiveOf
      <4>5. QED
        BY <2>2, <3>3, <3>4, <4>2, <4>3, <4>4 DEF RedemptionInv, KeysAreCurrent
    <3>8. CASE c.pair # x
      <4>1. Past(x)' = Past(x)
        BY <2>2, <3>8 DEF Past, History
      <4>2. LiveFor(p, x)' \subseteq LiveFor(p, x)
        BY <2>2, <3>8 DEF LiveFor, LiveOf
      <4>3. \A i \in LiveFor(p, x) : i \in DOMAIN ledger
        BY DEF LiveFor, LiveOf
      <4>4. QED
        BY <2>2, <3>3, <3>4, <4>1, <4>2, <4>3 DEF RedemptionInv, KeysAreCurrent
    <3>9. QED
      BY <3>6, <3>7, <3>8
  <2>6. QED
    BY <2>3, <2>4, <2>5 DEF RedemptionInv
<1>3. QED
  BY <1>1, <1>2 DEF Create

LEMMA SetStateKeepsInv ==
    ASSUME TypeOK, RedemptionInv, NEW t \in DOMAIN ledger, NEW s \in States,
           ledger[t].state \notin Dead, SetState(t, s),
           \A k \in Keys : Outstanding(k)' => Outstanding(k)
    PROVE  RedemptionInv'
<1>1. /\ DOMAIN ledger' = DOMAIN ledger
      /\ ledger'[t].state = s
      /\ \A i \in DOMAIN ledger : ledger'[i].key = ledger[i].key
      /\ \A i \in DOMAIN ledger : i # t => ledger'[i].state = ledger[i].state
  BY LedgerEntry DEF TypeOK, SetState, Transactions
<1>2. \A k \in Keys : Used(k)' = Used(k)
  BY <1>1 DEF Used
<1>3. PastIsKnown'
  BY <1>1 DEF RedemptionInv, PastIsKnown
<1>4. OneTxPerKey'
  BY <1>1 DEF RedemptionInv, OneTxPerKey
<1>5. KeysAreCurrent'
  <2> SUFFICES ASSUME NEW p \in Policies, NEW x \in Pairs, OwnPast(p, x)'
               PROVE  /\ \A i \in LiveFor(p, x)' : ledger'[i].key.past = Past(x)'
                      /\ \A k \in Keys :
                            Outstanding(k)' /\ k.policy = p /\ k.pair = x
                              => k.past = Past(x)' \/ Used(k)'
    BY DEF KeysAreCurrent
  <2>1. Past(x) \subseteq Past(x)'
    BY <1>1 DEF Past, History
  <2>2. OwnPast(p, x)
    BY <1>1, <2>1 DEF OwnPast, Past, History
  <2>3. LiveFor(p, x)' \subseteq LiveFor(p, x)
    BY <1>1 DEF LiveFor, LiveOf
  <2>4. \A i \in LiveFor(p, x) : i \in DOMAIN ledger
    BY DEF LiveFor, LiveOf
  <2>5. CASE s \in Dead /\ ledger[t].key.pair = x
    <3>1. t \in Past(x)'
      BY <1>1, <2>5 DEF Past, History
    <3>2. ledger[t].key.policy = p
      BY <1>1, <3>1 DEF OwnPast
    <3>3. t \in LiveFor(p, x)
      BY <2>5, <3>2 DEF LiveFor, LiveOf
    <3>4. ledger[t].key.past = Past(x)
      BY <2>2, <3>3 DEF RedemptionInv, KeysAreCurrent
    <3>5. LiveFor(p, x)' = {}
      <4> SUFFICES ASSUME NEW i \in LiveFor(p, x)' PROVE FALSE
        OBVIOUS
      <4>1. i \in LiveFor(p, x) /\ i \in DOMAIN ledger
        BY <2>3, <2>4
      <4>2. i # t
        BY <1>1, <2>5 DEF LiveFor, LiveOf
      <4>3. ledger[i].key.past = Past(x)
        BY <2>2, <4>1 DEF RedemptionInv, KeysAreCurrent
      <4>4. ledger[i].key.policy = p /\ ledger[i].key.pair = x
        BY <4>1 DEF LiveFor, LiveOf
      <4>5. ledger[i].key = ledger[t].key
        BY <2>5, <3>2, <3>4, <4>1, <4>3, <4>4, LedgerEntry, KeyExtensionality
      <4>6. QED
        BY <4>1, <4>2, <4>5 DEF RedemptionInv, OneTxPerKey
    <3>6. ASSUME NEW k \in Keys, Outstanding(k)', k.policy = p, k.pair = x
          PROVE  Used(k)'
      <4>1. k.past = Past(x) \/ Used(k)
        BY <2>2, <3>6 DEF RedemptionInv, KeysAreCurrent
      <4>2. k.past = Past(x) => k = ledger[t].key
        BY <2>5, <3>2, <3>4, <3>6, LedgerEntry, KeyExtensionality
      <4>3. QED
        BY <1>2, <4>1, <4>2 DEF Used
    <3>7. QED
      BY <3>5, <3>6
  <2>6. CASE s \notin Dead \/ ledger[t].key.pair # x
    <3>1. Past(x)' = Past(x)
      BY <1>1, <2>6 DEF Past, History
    <3>2. QED
      BY <1>1, <1>2, <2>2, <2>3, <2>4, <3>1 DEF RedemptionInv, KeysAreCurrent
  <2>7. QED
    BY <2>5, <2>6
<1>6. QED
  BY <1>3, <1>4, <1>5 DEF RedemptionInv

LEMMA InitInv == Init => RedemptionInv
<1> SUFFICES ASSUME Init PROVE RedemptionInv
  OBVIOUS
<1>1. DOMAIN ledger = {}
  BY DEF Init
<1>2. \A k \in Keys : ~Outstanding(k)
  BY DEF Init, Outstanding
<1>3. QED
  BY <1>1, <1>2 DEF RedemptionInv, PastIsKnown, OneTxPerKey, KeysAreCurrent,
                    LiveFor, LiveOf

LEMMA NextInv == TypeOK /\ RedemptionInv /\ [Next]_vars => RedemptionInv'
<1> SUFFICES ASSUME TypeOK, RedemptionInv, [Next]_vars PROVE RedemptionInv'
  OBVIOUS
<1> USE DEF Outstanding
<1>1. ASSUME NEW w \in Workers, NEW p \in Policies, NEW x \in Pairs, Acquire(w, p, x)
      PROVE  RedemptionInv'
  BY <1>1, SameLedger DEF Acquire, TypeOK
<1>2. ASSUME NEW w \in Workers, ReadHistory(w) PROVE RedemptionInv'
  <2>1. /\ key'[w].past = Past(key[w].pair)
        /\ key'[w].pair = key[w].pair
        /\ \A v \in Workers : v # w => key'[v] = key[v] /\ pc'[v] = pc[v]
    BY <1>2 DEF ReadHistory, TypeOK, Keys
  <2>2. ASSUME NEW k \in Keys, Outstanding(k)'
        PROVE  Outstanding(k) \/ k.past = Past(k.pair)
    BY <1>2, <2>1, <2>2 DEF ReadHistory
  <2>3. QED
    BY <1>2, <2>2, SameLedger DEF ReadHistory
<1>3. ASSUME NEW w \in Workers, Post(w) PROVE RedemptionInv'
  BY <1>3, SameLedger DEF Post, TypeOK
<1>4. ASSUME NEW w \in Workers, Refuse(w) PROVE RedemptionInv'
  BY <1>4, SameLedger DEF Refuse, TypeOK
<1>5. ASSUME NEW w \in Workers, TimeOut(w) PROVE RedemptionInv'
  BY <1>5, SameLedger DEF TimeOut, TypeOK
<1>6. ASSUME NEW w \in Workers, Leave(w) PROVE RedemptionInv'
  BY <1>6, SameLedger DEF Leave, TypeOK
<1>7. ASSUME NEW w \in Workers, Crash(w) PROVE RedemptionInv'
  BY <1>7, SameLedger DEF Crash, TypeOK
<1>8. ASSUME NEW p \in Policies, Expire(p) PROVE RedemptionInv'
  BY <1>8, SameLedger DEF Expire
<1>9. ASSUME NEW w \in Workers, Serve(w) PROVE RedemptionInv'
  <2>1. key[w] \in Keys /\ Outstanding(key[w])
    BY <1>9 DEF Serve, TypeOK
  <2>2. \A k \in Keys : Outstanding(k)' => Outstanding(k)
    BY <1>9 DEF Serve, TypeOK
  <2>3. QED
    BY <1>9, <2>1, <2>2, CreateKeepsInv DEF Serve
<1>10. ASSUME NEW k \in late, ServeLate(k) PROVE RedemptionInv'
  <2>1. k \in Keys /\ Outstanding(k)
    BY DEF TypeOK
  <2>2. \A l \in Keys : Outstanding(l)' => Outstanding(l)
    BY <1>10 DEF ServeLate
  <2>3. CASE Create(k)
    BY <2>1, <2>2, <2>3, CreateKeepsInv
  <2>4. CASE UNCHANGED ledger
    BY <2>2, <2>4, SameLedger
  <2>5. QED
    BY <1>10, <2>3, <2>4 DEF ServeLate
<1>11. ASSUME NEW i \in DOMAIN ledger, Settle(i) PROVE RedemptionInv'
  <2>1. \A k \in Keys : Outstanding(k)' => Outstanding(k)
    BY <1>11 DEF Settle
  <2>2. QED
    BY <1>11, <2>1, SetStateKeepsInv DEF Settle, States, Dead
<1>12. ASSUME NEW i \in DOMAIN ledger, Reverse(i) PROVE RedemptionInv'
  <2>1. \A k \in Keys : Outstanding(k)' => Outstanding(k)
    BY <1>12 DEF Reverse
  <2>2. QED
    BY <1>12, <2>1, SetStateKeepsInv DEF Reverse, States, Dead
<1>13. CASE UNCHANGED vars
  BY <1>13, SameLedger DEF vars
<1>14. QED
  BY <1>1, <1>2, <1>3, <1>4, <1>5, <1>6, <1>7, <1>8, <1>9, <1>10, <1>11, <1>12,
     <1>13 DEF Next

(* The keys of a policy that are still outstanding are current or used, and*)
(* its live redemptions carry the current key: the inductive invariant.    *)
THEOREM RedemptionInvTheorem == Spec => []RedemptionInv
  BY InitInv, NextInv, RedemptionTypeOK, PTL DEF Spec

(* The idempotency key alone, with no help from the lock, keeps a policy to*)
(* one live redemption per learner and content: retries, late and lost     *)
(* calls, crashes and expired locks included.                              *)
THEOREM AtMostOneLiveTheorem == Spec => []AtMostOneLive
<1>1. TypeOK /\ RedemptionInv => AtMostOneLive
  <2> SUFFICES ASSUME TypeOK, RedemptionInv,
                      NEW p \in Policies, NEW x \in Pairs, OwnPast(p, x),
                      NEW i \in LiveFor(p, x), NEW j \in LiveFor(p, x)
               PROVE  i = j
    BY DEF AtMostOneLive
  <2>1. ledger[i].key.past = Past(x) /\ ledger[j].key.past = Past(x)
    BY DEF RedemptionInv, KeysAreCurrent
  <2>2. /\ i \in DOMAIN ledger /\ ledger[i].key.policy = p /\ ledger[i].key.pair = x
        /\ j \in DOMAIN ledger /\ ledger[j].key.policy = p /\ ledger[j].key.pair = x
    BY DEF LiveFor, LiveOf
  <2>3. ledger[i].key = ledger[j].key
    BY <2>1, <2>2, LedgerEntry, KeyExtensionality
  <2>4. QED
    BY <2>2, <2>3 DEF RedemptionInv, OneTxPerKey
<1>2. QED
  BY <1>1, RedemptionTypeOK, RedemptionInvTheorem, PTL

(* A failed or reversed redemption never blocks the next attempt: a key    *)
(* derived from the present history is not that of a dead transaction.     *)
THEOREM RetryIsFreshTheorem == Spec => []RetryIsFresh
<1>1. RedemptionInv => RetryIsFresh
  BY DEF RedemptionInv, PastIsKnown, RetryIsFresh, Past, History
<1>2. QED
  BY <1>1, RedemptionInvTheorem, PTL

-----------------------------------------------------------------------------
(* The redeem request uses the lock as PolicyLock allows: every step is a  *)
(* step of the lock or leaves the lock alone.                              *)
THEOREM RedemptionImplementsPolicyLock == Spec => ImplementsPolicyLock
<1> DEFINE at == [w \in Workers |-> IF pc[w] = "idle" THEN Outside ELSE key[w].policy]
<1>1. Init => Lock!Init
  BY DEF Init, Lock!Init
<1>2. TypeOK /\ [Next]_vars => [Lock!Next]_(Lock!vars)
  <2> SUFFICES ASSUME TypeOK, [Next]_vars
               PROVE  Lock!Next \/ UNCHANGED <<cache, at>>
    BY DEF Lock!vars
  <2> USE RedemptionAssumption DEF TypeOK
  <2>1. ASSUME NEW w \in Workers, NEW p \in Policies, NEW x \in Pairs, Acquire(w, p, x)
        PROVE  Lock!Acquire(w, p)
    BY <2>1 DEF Acquire, Lock!Acquire
  <2>2. ASSUME NEW w \in Workers, ReadHistory(w) PROVE UNCHANGED <<cache, at>>
    BY <2>2 DEF ReadHistory, Keys
  <2>3. ASSUME NEW w \in Workers, Post(w) PROVE UNCHANGED <<cache, at>>
    BY <2>3 DEF Post
  <2>4. ASSUME NEW w \in Workers, Refuse(w) PROVE UNCHANGED <<cache, at>>
    BY <2>4 DEF Refuse
  <2>5. ASSUME NEW w \in Workers, TimeOut(w) PROVE UNCHANGED <<cache, at>>
    BY <2>5 DEF TimeOut
  <2>6. ASSUME NEW w \in Workers, Leave(w) PROVE Lock!Release(w)
    BY <2>6 DEF Leave, Lock!Release, Keys
  <2>7. ASSUME NEW w \in Workers, Crash(w) PROVE Lock!Crash(w)
    BY <2>7 DEF Crash, Lock!Crash, Keys
  <2>8. ASSUME NEW p \in Policies, Expire(p) PROVE Lock!Expire(p)
    BY <2>8 DEF Expire, Lock!Expire, Inside
  <2>9. ASSUME NEW w \in Workers, Serve(w) PROVE UNCHANGED <<cache, at>>
    BY <2>9 DEF Serve
  <2>10. ASSUME NEW k \in late, ServeLate(k) PROVE UNCHANGED <<cache, at>>
    BY <2>10 DEF ServeLate
  <2>11. ASSUME NEW i \in DOMAIN ledger, Settle(i) PROVE UNCHANGED <<cache, at>>
    BY <2>11 DEF Settle
  <2>12. ASSUME NEW i \in DOMAIN ledger, Reverse(i) PROVE UNCHANGED <<cache, at>>
    BY <2>12 DEF Reverse
  <2>13. CASE UNCHANGED vars
    BY <2>13 DEF vars
  <2>14. QED
    BY <2>1, <2>2, <2>3, <2>4, <2>5, <2>6, <2>7, <2>8, <2>9, <2>10, <2>11, <2>12,
       <2>13 DEF Next, Lock!Next
<1>3. QED
  BY <1>1, <1>2, RedemptionTypeOK, PTL DEF Spec, ImplementsPolicyLock, Lock!Spec

(* A request owns its policy's lock from its first step to its last, as    *)
(* long as no request outlives the timeout of its lock's key: what the body*)
(* of the request reads under the lock, no other request of the policy can *)
(* change.                                                                 *)
THEOREM HolderKeepsLockTheorem == ~SlowRequests => (Spec => []HolderKeepsLock)
<1> SUFFICES ASSUME ~SlowRequests PROVE Spec => []HolderKeepsLock
  OBVIOUS
<1>1. Init => HolderKeepsLock
  BY DEF Init, HolderKeepsLock
<1>2. TypeOK /\ HolderKeepsLock /\ [Next]_vars => HolderKeepsLock'
  <2> SUFFICES ASSUME TypeOK, HolderKeepsLock, [Next]_vars PROVE HolderKeepsLock'
    OBVIOUS
  <2> USE RedemptionAssumption DEF TypeOK, HolderKeepsLock
  <2>1. ASSUME NEW w \in Workers, NEW p \in Policies, NEW x \in Pairs, Acquire(w, p, x)
        PROVE  HolderKeepsLock'
    BY <2>1 DEF Acquire, Keys
  <2>2. ASSUME NEW w \in Workers, ReadHistory(w) PROVE HolderKeepsLock'
    BY <2>2 DEF ReadHistory, Keys
  <2>3. CASE \E w \in Workers : Post(w) \/ Refuse(w) \/ TimeOut(w) \/ Serve(w)
    BY <2>3 DEF Post, Refuse, TimeOut, Serve
  <2>4. ASSUME NEW w \in Workers, Leave(w) PROVE HolderKeepsLock'
    BY <2>4 DEF Leave, Keys
  <2>5. ASSUME NEW w \in Workers, Crash(w) PROVE HolderKeepsLock'
    BY <2>5 DEF Crash
  <2>6. ASSUME NEW p \in Policies, Expire(p) PROVE HolderKeepsLock'
    BY <2>6 DEF Expire, Inside
  <2>7. CASE \E k \in late : ServeLate(k)
    BY <2>7 DEF ServeLate
  <2>8. CASE \E i \in DOMAIN ledger : Settle(i) \/ Reverse(i)
    BY <2>8 DEF Settle, Reverse
  <2>9. CASE UNCHANGED vars
    BY <2>9 DEF vars
  <2>10. QED
    BY <2>1, <2>2, <2>3, <2>4, <2>5, <2>6, <2>7, <2>8, <2>9 DEF Next
<1>3. QED
  BY <1>1, <1>2, RedemptionTypeOK, PTL DEF Spec

-----------------------------------------------------------------------------
(* Sums over finite sets, as the fold of the community modules computes    *)
(* them: one element after the other, each chosen from those that are left.*)
(* Induction goes over the finite subsets of a set, by the least of those  *)
(* for which a statement fails.                                            *)
Pick(s) == CHOOSE x \in s : TRUE

SumsUp(g, f, S) ==
    g = [s \in SUBSET S |-> IF s = {} THEN 0 ELSE f[Pick(s)] + g[s \ {Pick(s)}]]

Total(f, S) == (CHOOSE g : SumsUp(g, f, S))[S]

LEMMA LeastSubset ==
    ASSUME NEW S, IsFiniteSet(S), NEW T, T \subseteq SUBSET S, T # {}
    PROVE  \E s \in T : \A t \in SUBSET s : t # s => t \notin T
<1> DEFINE R == StrictSubsetOrdering(S)
<1>1. IsWellFoundedOn(R, SUBSET S)
  BY FS_StrictSubsetOrderingWellFounded, FS_FiniteSubsetsOfFinite
<1>2. PICK s \in T : \A t \in T : ~(<<t, s>> \in R)
  <2> HIDE DEF R
  <2>1. QED
    BY <1>1, WFMin
<1>3. ASSUME NEW t \in SUBSET s, t # s, t \in T PROVE FALSE
  <2>1. <<t, s>> \in R
    BY <1>3 DEF StrictSubsetOrdering
  <2>2. QED
    BY <1>2, <1>3, <2>1
<1>4. QED
  BY <1>2, <1>3

LEMMA PickIn == ASSUME NEW s, s # {} PROVE Pick(s) \in s
  BY DEF Pick

(* The recursion determines its function on every subset.                  *)
LEMMA SumsUpOnce ==
    ASSUME NEW f, NEW S, IsFiniteSet(S), NEW U \in SUBSET S, NEW g, NEW h,
           SumsUp(g, f, S), SumsUp(h, f, U)
    PROVE  \A s \in SUBSET U : g[s] = h[s]
<1> DEFINE T == {s \in SUBSET U : g[s] # h[s]}
<1>1. SUFFICES ASSUME T # {} PROVE FALSE
  OBVIOUS
<1>2. IsFiniteSet(U)
  BY FS_Subset
<1>3. T \subseteq SUBSET U
  OBVIOUS
<1>4. PICK s \in T : \A t \in SUBSET s : t # s => t \notin T
  <2> HIDE DEF T
  <2>1. QED
    BY <1>1, <1>2, <1>3, LeastSubset
<1>5. s \in SUBSET U /\ s \in SUBSET S /\ g[s] # h[s]
  BY <1>4
<1>6. CASE s = {}
  BY <1>5, <1>6 DEF SumsUp
<1>7. CASE s # {}
  <2> DEFINE c == Pick(s)
             t == s \ {c}
  <2>1. c \in s
    BY <1>7, PickIn
  <2>2. t \in SUBSET s /\ t # s /\ t \in SUBSET U
    BY <1>5, <2>1
  <2>3. g[t] = h[t]
    BY <1>4, <2>2
  <2>4. g[s] = f[c] + g[t]
    BY <1>5, <1>7 DEF SumsUp
  <2>5. h[s] = f[c] + h[t]
    BY <1>5, <1>7 DEF SumsUp
  <2>6. QED
    BY <1>5, <2>3, <2>4, <2>5
<1>8. QED
  BY <1>6, <1>7

(* It has a solution, put together from those of the smaller sets.         *)
LEMMA SumsUpExists ==
    ASSUME NEW f, NEW S, IsFiniteSet(S)
    PROVE  \E g : SumsUp(g, f, S)
<1> DEFINE T == {s \in SUBSET S : ~\E g : SumsUp(g, f, s)}
<1>1. SUFFICES ASSUME T # {} PROVE FALSE
  OBVIOUS
<1>2. T \subseteq SUBSET S
  OBVIOUS
<1>3. PICK s \in T : \A t \in SUBSET s : t # s => t \notin T
  <2> HIDE DEF T
  <2>1. QED
    BY <1>1, <1>2, LeastSubset
<1>4. s \in SUBSET S /\ IsFiniteSet(s) /\ ~\E g : SumsUp(g, f, s)
  BY <1>3, FS_Subset
<1> DEFINE G(u) == CHOOSE g : SumsUp(g, f, u)
           c == Pick(s)
           whole == IF s = {} THEN 0 ELSE f[c] + G(s \ {c})[s \ {c}]
           g == [u \in SUBSET s |-> IF u = s THEN whole ELSE G(u)[u]]
<1>5. ASSUME NEW u \in SUBSET s, u # s PROVE SumsUp(G(u), f, u) /\ IsFiniteSet(u)
  <2>1. \E h : SumsUp(h, f, u)
    BY <1>3, <1>4, <1>5
  <2>2. QED
    BY <1>4, <1>5, <2>1, FS_Subset
<1>6. ASSUME NEW u \in SUBSET s
      PROVE  g[u] = IF u = {} THEN 0 ELSE f[Pick(u)] + g[u \ {Pick(u)}]
  <2>1. CASE u = s /\ u = {}
    BY <2>1
  <2>2. CASE u = s /\ u # {}
    <3>1. c \in s
      BY <2>2, PickIn
    <3>2. s \ {c} \in SUBSET s /\ s \ {c} # s
      BY <3>1
    <3>3. g[s \ {c}] = G(s \ {c})[s \ {c}]
      BY <3>2
    <3>4. g[s] = f[c] + G(s \ {c})[s \ {c}]
      BY <2>2
    <3>5. QED
      BY <2>2, <3>3, <3>4
  <2>3. CASE u # s /\ u = {}
    <3>1. g[u] = G(u)[u]
      BY <2>3
    <3>2. G(u)[u] = 0
      <4>1. SumsUp(G(u), f, u)
        BY <1>5, <2>3
      <4> HIDE DEF G
      <4>2. QED
        BY <2>3, <4>1 DEF SumsUp
    <3>3. QED
      BY <2>3, <3>1, <3>2
  <2>4. CASE u # s /\ u # {}
    <3> DEFINE d == Pick(u)
               t == u \ {d}
    <3>1. d \in u
      BY <2>4, PickIn
    <3>2. t \in SUBSET s /\ t # s /\ t \in SUBSET u /\ u \in SUBSET u
      BY <2>4, <3>1
    <3>3. SumsUp(G(u), f, u) /\ SumsUp(G(t), f, t) /\ IsFiniteSet(u)
      BY <1>5, <2>4, <3>2
    <3>4. g[u] = G(u)[u] /\ g[t] = G(t)[t]
      BY <2>4, <3>2
    <3> HIDE DEF G, g, t, d
    <3>5. G(u)[t] = G(t)[t]
      BY <3>2, <3>3, SumsUpOnce
    <3>6. G(u)[u] = f[d] + G(u)[t]
      BY <2>4, <3>2, <3>3 DEF SumsUp, d, t
    <3>7. g[u] = f[d] + g[t]
      BY <3>4, <3>5, <3>6
    <3>8. QED
      BY <2>4, <3>7 DEF d, t
  <2>5. QED
    BY <2>1, <2>2, <2>3, <2>4
<1>7. SumsUp(g, f, s)
  <2>1. g = [u \in SUBSET s |-> g[u]]
    OBVIOUS
  <2> HIDE DEF g
  <2>2. QED
    BY <1>6, <2>1 DEF SumsUp
<1>8. QED
  BY <1>4, <1>7

LEMMA TotalIs ==
    ASSUME NEW f, NEW S, IsFiniteSet(S), NEW g, SumsUp(g, f, S)
    PROVE  \A s \in SUBSET S : Total(f, s) = g[s]
<1> SUFFICES ASSUME NEW s \in SUBSET S PROVE Total(f, s) = g[s]
  OBVIOUS
<1>1. IsFiniteSet(s)
  BY FS_Subset
<1> DEFINE own == CHOOSE h : SumsUp(h, f, s)
<1>2. SumsUp(own, f, s)
  BY <1>1, SumsUpExists
<1>3. Total(f, s) = own[s]
  BY DEF Total
<1> HIDE DEF own
<1>4. g[s] = own[s]
  <2>1. s \in SUBSET s
    OBVIOUS
  <2>2. QED
    BY <1>2, <2>1, SumsUpOnce
<1>5. QED
  BY <1>3, <1>4

(* The recursion, as a fact about totals.                                  *)
LEMMA TotalStep ==
    ASSUME NEW f, NEW S, IsFiniteSet(S)
    PROVE  /\ S = {} => Total(f, S) = 0
           /\ S # {} => Total(f, S) = f[Pick(S)] + Total(f, S \ {Pick(S)})
<1>1. PICK g : SumsUp(g, f, S)
  BY SumsUpExists
<1>2. \A s \in SUBSET S : Total(f, s) = g[s]
  BY <1>1, TotalIs
<1> DEFINE t == S \ {Pick(S)}
<1>3. S \in SUBSET S /\ t \in SUBSET S
  OBVIOUS
<1>4. g[S] = IF S = {} THEN 0 ELSE f[Pick(S)] + g[t]
  BY <1>1, <1>3 DEF SumsUp
<1>5. Total(f, S) = g[S] /\ Total(f, t) = g[t]
  BY <1>2, <1>3
<1>6. QED
  BY <1>4, <1>5

LEMMA TotalEmpty == ASSUME NEW f PROVE Total(f, {}) = 0
  BY TotalStep, FS_EmptySet

(* Sums of naturals are naturals; any element can be taken out first.      *)
LEMMA TotalIsNat ==
    ASSUME NEW f, NEW S, IsFiniteSet(S), \A x \in S : f[x] \in Nat
    PROVE  Total(f, S) \in Nat
<1> DEFINE T == {s \in SUBSET S : Total(f, s) \notin Nat}
<1>1. SUFFICES ASSUME T # {} PROVE FALSE
  BY <1>1
<1>2. T \subseteq SUBSET S
  OBVIOUS
<1>3. PICK s \in T : \A t \in SUBSET s : t # s => t \notin T
  <2> HIDE DEF T
  <2>1. QED
    BY <1>1, <1>2, LeastSubset
<1>4. s \in SUBSET S /\ IsFiniteSet(s) /\ Total(f, s) \notin Nat
  BY <1>3, FS_Subset
<1>5. s # {}
  <2>1. 0 \in Nat
    OBVIOUS
  <2>2. QED
    BY <1>4, <2>1, TotalEmpty
<1> DEFINE c == Pick(s)
           t == s \ {c}
<1>6. c \in s /\ f[c] \in Nat
  BY <1>4, <1>5, PickIn
<1>7. t \in SUBSET s /\ t # s /\ t \in SUBSET S
  BY <1>4, <1>6
<1>8. Total(f, t) \in Nat
  BY <1>3, <1>7
<1>9. Total(f, s) = f[c] + Total(f, t)
  BY <1>4, <1>5, TotalStep
<1>10. QED
  BY <1>4, <1>6, <1>8, <1>9

LEMMA TotalTakesOut ==
    ASSUME NEW f, NEW S, IsFiniteSet(S), \A x \in S : f[x] \in Nat, NEW x \in S
    PROVE  Total(f, S) = f[x] + Total(f, S \ {x})
<1> DEFINE Out(s) == \A y \in s : Total(f, s) = f[y] + Total(f, s \ {y})
           T == {s \in SUBSET S : ~Out(s)}
<1>1. SUFFICES ASSUME T # {} PROVE FALSE
  BY <1>1
<1>2. T \subseteq SUBSET S
  OBVIOUS
<1>3. PICK s \in T : \A t \in SUBSET s : t # s => t \notin T
  <2> HIDE DEF T
  <2>1. QED
    BY <1>1, <1>2, LeastSubset
<1>4. s \in SUBSET S /\ IsFiniteSet(s)
  BY <1>3, FS_Subset
<1>5. PICK y \in s : Total(f, s) # f[y] + Total(f, s \ {y})
  BY <1>3
<1> DEFINE c == Pick(s)
           rest == (s \ {c}) \ {y}
<1>6. c \in s /\ Total(f, s) = f[c] + Total(f, s \ {c})
  BY <1>4, PickIn, TotalStep
<1>7. c # y
  BY <1>5, <1>6
<1> HIDE DEF c
<1>8. s \ {c} \in SUBSET s /\ s \ {c} # s /\ s \ {y} \in SUBSET s /\ s \ {y} # s
  BY <1>6
<1>9. Out(s \ {c}) /\ Out(s \ {y})
  BY <1>3, <1>4, <1>8
<1>10. Total(f, s \ {c}) = f[y] + Total(f, rest)
  BY <1>7, <1>9
<1>11. Total(f, s \ {y}) = f[c] + Total(f, rest)
  <2>1. (s \ {y}) \ {c} = rest
    OBVIOUS
  <2>2. c \in s \ {y}
    BY <1>6, <1>7
  <2>3. QED
    BY <1>9, <2>1, <2>2
<1>12. f[c] \in Nat /\ f[y] \in Nat /\ Total(f, rest) \in Nat
  <2>1. rest \in SUBSET S
    BY <1>4
  <2>2. IsFiniteSet(rest) /\ \A z \in rest : f[z] \in Nat
    BY <2>1, FS_Subset
  <2>3. Total(f, rest) \in Nat
    BY <2>2, TotalIsNat
  <2>4. QED
    BY <1>4, <1>6, <2>3
<1>13. QED
  BY <1>5, <1>6, <1>10, <1>11, <1>12

(* Sums of functions that agree, or of which one is the smaller.           *)
LEMMA TotalAtMost ==
    ASSUME NEW f, NEW g, NEW S, IsFiniteSet(S),
           \A x \in S : f[x] \in Nat /\ g[x] \in Nat /\ f[x] <= g[x]
    PROVE  Total(f, S) <= Total(g, S)
<1> DEFINE T == {s \in SUBSET S : ~(Total(f, s) <= Total(g, s))}
<1>1. SUFFICES ASSUME T # {} PROVE FALSE
  BY <1>1
<1>2. T \subseteq SUBSET S
  OBVIOUS
<1>3. PICK s \in T : \A t \in SUBSET s : t # s => t \notin T
  <2> HIDE DEF T
  <2>1. QED
    BY <1>1, <1>2, LeastSubset
<1>4. s \in SUBSET S /\ IsFiniteSet(s) /\ ~(Total(f, s) <= Total(g, s))
  BY <1>3, FS_Subset
<1>5. s # {}
  <2>1. 0 <= 0
    OBVIOUS
  <2>2. s = {} => Total(f, s) = 0 /\ Total(g, s) = 0
    BY TotalEmpty
  <2>3. QED
    BY <1>4, <2>1, <2>2
<1> DEFINE c == Pick(s)
           t == s \ {c}
<1>6. c \in s /\ f[c] \in Nat /\ g[c] \in Nat /\ f[c] <= g[c]
  BY <1>4, <1>5, PickIn
<1>7. t \in SUBSET s /\ t # s /\ t \in SUBSET S /\ IsFiniteSet(t)
  BY <1>4, <1>6, FS_Subset
<1>8. Total(f, s) = f[c] + Total(f, t) /\ Total(g, s) = g[c] + Total(g, t)
  BY <1>4, <1>5, TotalStep
<1> HIDE DEF c, t
<1>9. Total(f, t) <= Total(g, t)
  BY <1>3, <1>7
<1>10. Total(f, t) \in Nat /\ Total(g, t) \in Nat
  BY <1>7, TotalIsNat
<1>11. QED
  BY <1>4, <1>6, <1>8, <1>9, <1>10

LEMMA TotalSame ==
    ASSUME NEW f, NEW g, NEW S, IsFiniteSet(S), \A x \in S : f[x] = g[x]
    PROVE  Total(f, S) = Total(g, S)
<1>1. PICK h : SumsUp(h, f, S)
  BY SumsUpExists
<1>2. SumsUp(h, g, S)
  <2>1. ASSUME NEW s \in SUBSET S
        PROVE  (IF s = {} THEN 0 ELSE f[Pick(s)] + h[s \ {Pick(s)}])
                 = IF s = {} THEN 0 ELSE g[Pick(s)] + h[s \ {Pick(s)}]
    BY PickIn
  <2>2. QED
    BY <1>1, <2>1 DEF SumsUp
<1>3. QED
  BY <1>1, <1>2, TotalIs

LEMMA TotalPutsIn ==
    ASSUME NEW f, NEW S, IsFiniteSet(S), NEW x, x \notin S, \A y \in S \cup {x} : f[y] \in Nat
    PROVE  Total(f, S \cup {x}) = f[x] + Total(f, S)
<1> DEFINE U == S \cup {x}
<1>1. IsFiniteSet(U) /\ U \ {x} = S /\ x \in U
  BY FS_AddElement
<1> HIDE DEF U
<1>2. Total(f, U) = f[x] + Total(f, U \ {x})
  BY <1>1, TotalTakesOut DEF U
<1>3. QED
  BY <1>1, <1>2 DEF U

LEMMA TotalOfSubset ==
    ASSUME NEW f, NEW S, IsFiniteSet(S), \A x \in S : f[x] \in Nat, NEW U \in SUBSET S
    PROVE  Total(f, U) <= Total(f, S)
<1> DEFINE T == {s \in SUBSET S : U \subseteq s /\ ~(Total(f, U) <= Total(f, s))}
<1>1. SUFFICES ASSUME T # {} PROVE FALSE
  BY <1>1
<1>2. T \subseteq SUBSET S
  OBVIOUS
<1>3. PICK s \in T : \A t \in SUBSET s : t # s => t \notin T
  <2> HIDE DEF T
  <2>1. QED
    BY <1>1, <1>2, LeastSubset
<1>4. s \in SUBSET S /\ IsFiniteSet(s) /\ U \subseteq s /\ ~(Total(f, U) <= Total(f, s))
  BY <1>3, FS_Subset
<1>5. Total(f, U) \in Nat
  BY FS_Subset, TotalIsNat
<1>6. s # U
  BY <1>4, <1>5
<1>7. PICK c \in s : c \notin U
  BY <1>4, <1>6
<1> DEFINE t == s \ {c}
<1>8. t \in SUBSET s /\ t # s /\ t \in SUBSET S /\ IsFiniteSet(t) /\ U \subseteq t
  BY <1>4, <1>7, FS_Subset
<1>9. Total(f, s) = f[c] + Total(f, t) /\ f[c] \in Nat
  BY <1>4, <1>7, TotalTakesOut
<1> HIDE DEF t
<1>10. Total(f, U) <= Total(f, t)
  BY <1>3, <1>8
<1>11. Total(f, t) \in Nat
  BY <1>8, TotalIsNat
<1>12. QED
  BY <1>4, <1>5, <1>9, <1>10, <1>11

(* What is zero can be left out.                                           *)
LEMMA TotalOfZeros ==
    ASSUME NEW f, NEW S, IsFiniteSet(S), \A x \in S : f[x] \in Nat, NEW U \in SUBSET S,
           \A x \in S \ U : f[x] = 0
    PROVE  Total(f, S) = Total(f, U)
<1> DEFINE T == {s \in SUBSET S : U \subseteq s /\ Total(f, s) # Total(f, U)}
<1>1. SUFFICES ASSUME T # {} PROVE FALSE
  BY <1>1
<1>2. T \subseteq SUBSET S
  OBVIOUS
<1>3. PICK s \in T : \A t \in SUBSET s : t # s => t \notin T
  <2> HIDE DEF T
  <2>1. QED
    BY <1>1, <1>2, LeastSubset
<1>4. s \in SUBSET S /\ IsFiniteSet(s) /\ U \subseteq s /\ Total(f, s) # Total(f, U)
  BY <1>3, FS_Subset
<1>5. PICK c \in s : c \notin U
  BY <1>4
<1> DEFINE t == s \ {c}
<1>6. t \in SUBSET s /\ t # s /\ t \in SUBSET S /\ IsFiniteSet(t) /\ U \subseteq t
  BY <1>4, <1>5, FS_Subset
<1>7. Total(f, s) = f[c] + Total(f, t) /\ f[c] = 0
  BY <1>4, <1>5, TotalTakesOut
<1> HIDE DEF t
<1>8. Total(f, t) = Total(f, U)
  BY <1>3, <1>6
<1>9. Total(f, t) \in Nat
  BY <1>6, TotalIsNat
<1>10. QED
  BY <1>4, <1>7, <1>8, <1>9

-----------------------------------------------------------------------------
(* What a ledger has spent.  L and M stand for the ledger before and after *)
(* a step.                                                                 *)
IsLedger(L) == IsFiniteSet(DOMAIN L) /\ L \in [DOMAIN L -> Transactions]

Prices(L) == [i \in DOMAIN L |-> Price[L[i].key.pair]]

PaidIn(L, S) == MapThenSumSet(LAMBDA i : Price[L[i].key.pair], S)

LiveIn(L, p) == {i \in DOMAIN L : L[i].key.policy = p /\ L[i].state \notin Dead}

LEMMA PaidIsTotal ==
    ASSUME NEW L, IsFiniteSet(DOMAIN L), NEW S \in SUBSET DOMAIN L
    PROVE  PaidIn(L, S) = Total(Prices(L), S)
<1> DEFINE Rec(h) == h = [s \in SUBSET S |->
                            IF s = {} THEN 0
                            ELSE Price[L[CHOOSE x \in s : TRUE].key.pair]
                                   + h[s \ {CHOOSE x \in s : TRUE}]]
           g == CHOOSE h : Rec(h)
<1>1. ASSUME NEW h PROVE Rec(h) <=> SumsUp(h, Prices(L), S)
  <2>1. ASSUME NEW s \in SUBSET S
        PROVE  (IF s = {} THEN 0 ELSE Prices(L)[Pick(s)] + h[s \ {Pick(s)}])
                 = IF s = {} THEN 0
                   ELSE Price[L[CHOOSE x \in s : TRUE].key.pair]
                          + h[s \ {CHOOSE x \in s : TRUE}]
    <3>1. s # {} => Pick(s) \in DOMAIN L
      BY PickIn
    <3>2. s # {} => Prices(L)[Pick(s)] = Price[L[Pick(s)].key.pair]
      BY <3>1 DEF Prices
    <3>3. QED
      BY <3>2 DEF Pick
  <2>2. QED
    BY <2>1 DEF SumsUp
<1>2. IsFiniteSet(S)
  BY FS_Subset
<1>3. SumsUp(g, Prices(L), S)
  <2> HIDE DEF Rec
  <2>1. PICK h : SumsUp(h, Prices(L), S)
    BY <1>2, SumsUpExists
  <2>2. Rec(h)
    BY <1>1, <2>1
  <2>3. Rec(g)
    BY <2>2
  <2>4. QED
    BY <1>1, <2>3
<1>4. PaidIn(L, S) = g[S]
  BY DEF PaidIn, MapThenSumSet, MapThenFoldSet
<1> HIDE DEF g
<1>5. S \in SUBSET S
  OBVIOUS
<1>6. QED
  BY <1>2, <1>3, <1>4, <1>5, TotalIs

LEMMA PaidOfNothing == ASSUME NEW L, IsFiniteSet(DOMAIN L) PROVE PaidIn(L, {}) = 0
<1>1. {} \in SUBSET DOMAIN L
  OBVIOUS
<1>2. QED
  BY <1>1, PaidIsTotal, TotalEmpty

LEMMA PricesAreNat ==
    ASSUME NEW L, IsLedger(L)
    PROVE  /\ DOMAIN Prices(L) = DOMAIN L
           /\ \A i \in DOMAIN L : /\ Prices(L)[i] = Price[L[i].key.pair]
                                  /\ Prices(L)[i] \in Nat
  BY RedemptionAssumption DEF IsLedger, Prices, Transactions, Keys

LEMMA PaidIsNat ==
    ASSUME NEW L, IsLedger(L), NEW S \in SUBSET DOMAIN L
    PROVE  PaidIn(L, S) \in Nat
<1>1. IsFiniteSet(DOMAIN L) /\ IsFiniteSet(S)
  BY FS_Subset DEF IsLedger
<1>2. \A i \in S : Prices(L)[i] \in Nat
  BY PricesAreNat
<1>3. QED
  BY <1>1, <1>2, PaidIsTotal, TotalIsNat

LEMMA PaidOfSubset ==
    ASSUME NEW L, IsLedger(L), NEW S \in SUBSET DOMAIN L, NEW U \in SUBSET S
    PROVE  PaidIn(L, U) <= PaidIn(L, S)
<1>1. IsFiniteSet(DOMAIN L) /\ IsFiniteSet(S) /\ U \in SUBSET DOMAIN L
  BY FS_Subset DEF IsLedger
<1>2. \A i \in S : Prices(L)[i] \in Nat
  BY PricesAreNat
<1>3. Total(Prices(L), U) <= Total(Prices(L), S)
  BY <1>1, <1>2, TotalOfSubset
<1>4. QED
  BY <1>1, <1>3, PaidIsTotal

LEMMA PaidOfSameKeys ==
    ASSUME NEW L, NEW M, IsLedger(L), IsLedger(M),
           NEW S \in SUBSET DOMAIN L, S \subseteq DOMAIN M,
           \A i \in S : L[i].key = M[i].key
    PROVE  PaidIn(L, S) = PaidIn(M, S)
<1>1. IsFiniteSet(DOMAIN L) /\ IsFiniteSet(DOMAIN M) /\ IsFiniteSet(S)
  BY FS_Subset DEF IsLedger
<1>2. \A i \in S : Prices(L)[i] = Prices(M)[i]
  BY DEF Prices
<1>3. Total(Prices(L), S) = Total(Prices(M), S)
  BY <1>1, <1>2, TotalSame
<1>4. QED
  BY <1>1, <1>3, PaidIsTotal

LEMMA PaidOfOneMore ==
    ASSUME NEW L, IsLedger(L), NEW i \in DOMAIN L, NEW S \in SUBSET (DOMAIN L \ {i})
    PROVE  PaidIn(L, S \cup {i}) = PaidIn(L, S) + Price[L[i].key.pair]
<1>1. IsFiniteSet(DOMAIN L) /\ IsFiniteSet(S) /\ i \notin S
  BY FS_Subset DEF IsLedger
<1>2. S \in SUBSET DOMAIN L /\ S \cup {i} \in SUBSET DOMAIN L
  OBVIOUS
<1>3. \A j \in S \cup {i} : Prices(L)[j] \in Nat
  BY <1>2, PricesAreNat
<1>4. Total(Prices(L), S \cup {i}) = Prices(L)[i] + Total(Prices(L), S)
  BY <1>1, <1>3, TotalPutsIn
<1>5. Prices(L)[i] = Price[L[i].key.pair] /\ Prices(L)[i] \in Nat /\ PaidIn(L, S) \in Nat
  BY <1>2, PricesAreNat, PaidIsNat
<1>6. QED
  BY <1>1, <1>2, <1>4, <1>5, PaidIsTotal

(* M is L and one more transaction, i, made under the key k.               *)
Adds(L, M, i, k) ==
    /\ i \notin DOMAIN L
    /\ DOMAIN M = DOMAIN L \cup {i}
    /\ M[i].key = k
    /\ \A j \in DOMAIN L : M[j] = L[j]

LEMMA SpentWithOneMore ==
    ASSUME NEW L, NEW M, IsLedger(L), IsLedger(M), NEW i, NEW k, Adds(L, M, i, k), NEW p
    PROVE  PaidIn(M, LiveIn(M, p))
             <= PaidIn(L, LiveIn(L, p)) + (IF p = k.policy THEN Price[k.pair] ELSE 0)
<1> DEFINE S == LiveIn(L, p)
<1>1. S \in SUBSET DOMAIN L /\ S \subseteq DOMAIN M /\ i \in DOMAIN M /\ i \notin S
  BY DEF LiveIn, Adds
<1>2. \A j \in S : L[j].key = M[j].key
  BY <1>1 DEF Adds
<1>3. LiveIn(M, p) = S \/ (LiveIn(M, p) = S \cup {i} /\ p = k.policy)
  BY DEF LiveIn, Adds
<1> HIDE DEF S
<1>4. PaidIn(L, S) = PaidIn(M, S)
  BY <1>1, <1>2, PaidOfSameKeys
<1>5. PaidIn(L, S) \in Nat
  BY <1>1, PaidIsNat
<1>6. S \in SUBSET (DOMAIN M \ {i})
  BY <1>1
<1>7. PaidIn(M, S \cup {i}) = PaidIn(M, S) + Price[M[i].key.pair]
  BY <1>1, <1>6, PaidOfOneMore
<1>8. M[i].key = k
  BY DEF Adds
<1>9. Price[k.pair] \in Nat
  BY <1>1, <1>8, PricesAreNat
<1>10. CASE LiveIn(M, p) = S
  <2>1. PaidIn(M, LiveIn(M, p)) = PaidIn(L, S)
    BY <1>4, <1>10
  <2>2. QED
    BY <1>5, <1>9, <2>1 DEF S
<1>11. CASE LiveIn(M, p) = S \cup {i} /\ p = k.policy
  <2>1. PaidIn(M, LiveIn(M, p)) = PaidIn(L, S) + Price[k.pair]
    BY <1>4, <1>7, <1>8, <1>11
  <2>2. QED
    BY <1>5, <1>9, <1>11, <2>1 DEF S
<1>12. QED
  BY <1>3, <1>10, <1>11

LEMMA SpentWithFewerLive ==
    ASSUME NEW L, NEW M, IsLedger(L), IsLedger(M), DOMAIN M = DOMAIN L,
           \A j \in DOMAIN L : M[j].key = L[j].key,
           \A j \in DOMAIN L : M[j].state \notin Dead => L[j].state \notin Dead,
           NEW p
    PROVE  PaidIn(M, LiveIn(M, p)) <= PaidIn(L, LiveIn(L, p))
<1> DEFINE S == LiveIn(L, p)
           U == LiveIn(M, p)
<1>1. S \in SUBSET DOMAIN L /\ S \subseteq DOMAIN M /\ U \in SUBSET S
  BY DEF LiveIn
<1>2. \A j \in S : L[j].key = M[j].key
  BY <1>1
<1> HIDE DEF S, U
<1>3. PaidIn(M, U) <= PaidIn(M, S)
  BY <1>1, PaidOfSubset
<1>4. PaidIn(L, S) = PaidIn(M, S)
  BY <1>1, <1>2, PaidOfSameKeys
<1>5. QED
  BY <1>3, <1>4 DEF S, U

(* The ledger is finite, as long as transactions are made one at a time.   *)
LedgerOK == TypeOK /\ IsFiniteSet(DOMAIN ledger)

LEMMA LedgerIsLedger == LedgerOK => IsLedger(ledger)
  BY DEF LedgerOK, TypeOK, IsLedger

LEMMA SpentIsPaid ==
    ASSUME NEW p
    PROVE  /\ Spent(p) = PaidIn(ledger, LiveIn(ledger, p))
           /\ Spent(p)' = PaidIn(ledger', LiveIn(ledger', p))
<1>1. Spent(p) = PaidIn(ledger, LiveIn(ledger, p))
  BY DEF Spent, LiveOf, PaidIn, LiveIn, MapThenSumSet, MapThenFoldSet
<1>2. Spent(p)' = PaidIn(ledger', LiveIn(ledger', p))
  BY DEF Spent, LiveOf, PaidIn, LiveIn, MapThenSumSet, MapThenFoldSet
<1>3. QED
  BY <1>1, <1>2

LEMMA SpentIsNat == ASSUME LedgerOK, NEW p PROVE Spent(p) \in Nat
<1>1. LiveIn(ledger, p) \in SUBSET DOMAIN ledger
  BY DEF LiveIn
<1>2. QED
  BY <1>1, LedgerIsLedger, PaidIsNat, SpentIsPaid

LEMMA CreateAdds ==
    ASSUME LedgerOK, NEW k \in Keys, Create(k)
    PROVE  /\ IsLedger(ledger')
           /\ UNCHANGED ledger \/ \E i \in TxIds : Adds(ledger, ledger', i, k)
<1>1. CASE UNCHANGED ledger
  BY <1>1, LedgerIsLedger
<1>2. CASE ~Used(k)
  <2>1. PICK i \in TxIds \ DOMAIN ledger, s \in {"pending", "committed", "failed"} :
          ledger' = [j \in DOMAIN ledger \cup {i} |->
                      IF j = i THEN [key |-> k, state |-> s] ELSE ledger[j]]
    BY <1>2 DEF Create
  <2>2. Adds(ledger, ledger', i, k)
    BY <2>1 DEF Adds
  <2>3. IsFiniteSet(DOMAIN ledger')
    BY <2>2, FS_AddElement DEF Adds, LedgerOK
  <2>4. ledger' \in [DOMAIN ledger' -> Transactions]
    BY CreateType DEF LedgerOK
  <2>5. QED
    BY <2>2, <2>3, <2>4 DEF IsLedger
<1>3. QED
  BY <1>1, <1>2 DEF Create

(* A transaction that is made costs its policy its price, and the others   *)
(* nothing.                                                                *)
LEMMA SpentAfterCreate ==
    ASSUME LedgerOK, NEW k \in Keys, Create(k), NEW p
    PROVE  Spent(p)' <= Spent(p) + (IF p = k.policy THEN Price[k.pair] ELSE 0)
<1>1. IsLedger(ledger) /\ IsLedger(ledger')
  BY LedgerIsLedger, CreateAdds
<1>2. Spent(p) \in Nat /\ Price[k.pair] \in Nat
  BY SpentIsNat, RedemptionAssumption DEF Keys
<1>3. CASE UNCHANGED ledger
  <2>1. Spent(p)' = Spent(p)
    BY <1>3, SpentIsPaid
  <2>2. QED
    BY <1>2, <2>1
<1>4. CASE \E i \in TxIds : Adds(ledger, ledger', i, k)
  <2>1. PICK i : Adds(ledger, ledger', i, k)
    BY <1>4
  <2>2. QED
    BY <1>1, <2>1, SpentWithOneMore, SpentIsPaid
<1>5. QED
  BY <1>3, <1>4, CreateAdds

(* A transaction that settles or is reversed costs nothing more.           *)
LEMMA SpentAfterSetState ==
    ASSUME LedgerOK, NEW i \in DOMAIN ledger, NEW s \in States, SetState(i, s),
           ledger[i].state \notin Dead, NEW p
    PROVE  IsLedger(ledger') /\ Spent(p)' <= Spent(p)
<1>1. IsLedger(ledger)
  BY LedgerIsLedger
<1>2. DOMAIN ledger' = DOMAIN ledger
  BY DEF SetState
<1>3. \A j \in DOMAIN ledger :
        /\ ledger'[j].key = ledger[j].key
        /\ ledger'[j].state \notin Dead => ledger[j].state \notin Dead
  BY DEF SetState
<1>4. IsLedger(ledger')
  BY <1>1, <1>2, SetStateType DEF IsLedger, LedgerOK
<1>5. PaidIn(ledger', LiveIn(ledger', p)) <= PaidIn(ledger, LiveIn(ledger, p))
  BY <1>1, <1>2, <1>3, <1>4, SpentWithFewerLive
<1>6. QED
  BY <1>4, <1>5, SpentIsPaid

(* A transaction that dies gives its price back to its policy; another one *)
(* that changes its state costs what it did.                               *)
LEMMA SpentWhenOneDies ==
    ASSUME LedgerOK, NEW i \in DOMAIN ledger, NEW s \in States, SetState(i, s),
           ledger[i].state \notin Dead, NEW p
    PROVE  Spent(p) = Spent(p)' + (IF s \in Dead /\ ledger[i].key.policy = p
                                   THEN Price[ledger[i].key.pair] ELSE 0)
<1> DEFINE S == LiveIn(ledger, p)
           U == LiveIn(ledger', p)
<1>1. IsLedger(ledger) /\ IsLedger(ledger')
  BY LedgerIsLedger, SpentAfterSetState
<1>2. /\ DOMAIN ledger' = DOMAIN ledger
      /\ \A j \in DOMAIN ledger :
            /\ ledger'[j].key = ledger[j].key
            /\ ledger'[j].state = IF j = i THEN s ELSE ledger[j].state
  BY LedgerEntry DEF SetState, LedgerOK, Transactions
<1>3. S \in SUBSET DOMAIN ledger /\ U \in SUBSET DOMAIN ledger' /\ U \in SUBSET S
  BY <1>2 DEF LiveIn
<1>4. CASE s \in Dead /\ ledger[i].key.policy = p
  <2>1. i \notin U /\ S = U \cup {i}
    BY <1>2, <1>4 DEF LiveIn
  <2> HIDE DEF S, U
  <2>2. U \in SUBSET (DOMAIN ledger \ {i})
    BY <1>2, <1>3, <2>1
  <2>3. PaidIn(ledger, S) = PaidIn(ledger, U) + Price[ledger[i].key.pair]
    BY <1>1, <2>1, <2>2, PaidOfOneMore
  <2>4. PaidIn(ledger, U) = PaidIn(ledger', U)
    BY <1>1, <1>2, <1>3, PaidOfSameKeys
  <2>5. QED
    BY <1>4, <2>3, <2>4, SpentIsPaid DEF S, U
<1>5. CASE ~(s \in Dead /\ ledger[i].key.policy = p)
  <2>1. U = S
    BY <1>2, <1>5 DEF LiveIn
  <2> HIDE DEF S, U
  <2>2. PaidIn(ledger, S) = PaidIn(ledger', S)
    BY <1>1, <1>2, <1>3, PaidOfSameKeys
  <2>3. PaidIn(ledger, S) \in Nat
    BY <1>1, <1>3, PaidIsNat
  <2>4. QED
    BY <1>5, <2>1, <2>2, <2>3, SpentIsPaid DEF S, U
<1>6. QED
  BY <1>4, <1>5

(* A transaction that fails as it is made costs nothing.                   *)
LEMMA SpentWithOneDead ==
    ASSUME LedgerOK, IsLedger(ledger'), NEW i, NEW k, Adds(ledger, ledger', i, k),
           ledger'[i].state \in Dead, NEW p
    PROVE  Spent(p)' = Spent(p)
<1> DEFINE S == LiveIn(ledger, p)
<1>1. LiveIn(ledger', p) = S
  BY DEF LiveIn, Adds
<1>2. S \in SUBSET DOMAIN ledger /\ S \subseteq DOMAIN ledger'
  BY DEF LiveIn, Adds
<1>3. \A j \in S : ledger[j].key = ledger'[j].key
  BY <1>2 DEF Adds
<1> HIDE DEF S
<1>4. PaidIn(ledger, S) = PaidIn(ledger', S)
  BY <1>2, <1>3, LedgerIsLedger, PaidOfSameKeys
<1>5. QED
  BY <1>1, <1>4, SpentIsPaid DEF S

LEMMA LedgerStep == LedgerOK /\ [Next]_vars => LedgerOK'
<1> SUFFICES ASSUME LedgerOK, [Next]_vars PROVE IsFiniteSet(DOMAIN ledger')
  BY NextType DEF LedgerOK
<1>1. ASSUME NEW w \in Workers, Serve(w) PROVE IsFiniteSet(DOMAIN ledger')
  <2>1. Create(key[w]) /\ key[w] \in Keys
    BY <1>1 DEF Serve, LedgerOK, TypeOK
  <2> DEFINE k == key[w]
  <2> HIDE DEF k
  <2>2. QED
    BY <2>1, CreateAdds DEF IsLedger, k
<1>2. ASSUME NEW k \in late, ServeLate(k) PROVE IsFiniteSet(DOMAIN ledger')
  <2>1. k \in Keys
    BY DEF LedgerOK, TypeOK
  <2>2. CASE Create(k)
    BY <2>1, <2>2, CreateAdds DEF IsLedger
  <2>3. CASE UNCHANGED ledger
    BY <2>3 DEF LedgerOK
  <2>4. QED
    BY <1>2, <2>2, <2>3 DEF ServeLate
<1>3. ASSUME NEW i \in DOMAIN ledger, Settle(i) \/ Reverse(i)
      PROVE  IsFiniteSet(DOMAIN ledger')
  BY <1>3 DEF Settle, Reverse, SetState, LedgerOK
<1>4. CASE UNCHANGED ledger
  BY <1>4 DEF LedgerOK
<1>5. QED
  BY <1>1, <1>2, <1>3, <1>4
     DEF Next, vars, Acquire, ReadHistory, Post, Refuse, TimeOut, Leave, Crash, Expire

LEMMA LedgerInit == Init => LedgerOK
<1>1. Init => DOMAIN ledger = {}
  BY DEF Init
<1>2. QED
  BY <1>1, InitType, FS_EmptySet DEF LedgerOK

-----------------------------------------------------------------------------
(* The budgets of policies and of learners.                                *)

(* Every step is a step of Redemption, or changes only the policies, what  *)
(* their editors hold and what the page shows.                             *)
LEMMA BudgetStep == [BudgetNext]_bvars => [Next]_vars
<1> SUFFICES ASSUME [BudgetNext]_bvars PROVE Next \/ UNCHANGED vars
  OBVIOUS
<1>1. CASE \E x \in Pairs, override \in BOOLEAN : View(x, override)
  BY <1>1 DEF View
<1>2. CASE \E w \in Workers, p \in Policies, x \in Pairs : StartRedeem(w, p, x)
  BY <1>2 DEF StartRedeem, Next
<1>3. CASE \E w \in Workers : Redeem(w)
  BY <1>3 DEF Redeem, Next
<1>4. CASE \E w \in Workers : EndRedeem(w)
  BY <1>4 DEF EndRedeem, Next
<1>5. CASE Proceed
  BY <1>5 DEF Proceed, Next
<1>6. CASE \E a \in Admins, p \in Policies, r \in Rows : OpenEdit(a, p, r) \/ OpenCreate(a, p, r)
  BY <1>6 DEF OpenEdit, OpenCreate
<1>7. CASE \E a \in Admins, p \in Policies :
              OpenDelete(a, p) \/ OpenLateRedemption(a, p) \/ Deposit(a, p)
  BY <1>7 DEF OpenDelete, OpenLateRedemption, Deposit
<1>8. CASE \E a \in Admins : TopUp(a) \/ Store(a) \/ Abandon(a)
  BY <1>8 DEF TopUp, Store, Abandon
<1>9. CASE UNCHANGED bvars
  BY <1>9 DEF bvars
<1>10. QED
  BY <1>1, <1>2, <1>3, <1>4, <1>5, <1>6, <1>7, <1>8, <1>9 DEF BudgetNext

(* Whatever the budgets refuse and the admins edit meanwhile, the requests *)
(* are those of Redemption, so what is proved of it holds here: one live   *)
(* redemption per policy and pair, fresh keys for retries, and the lock.   *)
THEOREM BudgetImplementsRedeem == BudgetSpec => ImplementsRedeem
<1>1. BudgetInit => Init
  BY DEF BudgetInit
<1>2. QED
  BY <1>1, BudgetStep, PTL DEF BudgetSpec, ImplementsRedeem, Spec

(* In particular they use the lock of their policy as PolicyLock says.     *)
THEOREM BudgetImplementsPolicyLock == BudgetSpec => ImplementsPolicyLock
<1>1. BudgetSpec => Spec
  BY BudgetImplementsRedeem DEF ImplementsRedeem
<1>2. Spec => ImplementsPolicyLock
  BY RedemptionImplementsPolicyLock
<1>3. QED
  BY <1>1, <1>2, PTL

-----------------------------------------------------------------------------
(* Types.                                                                  *)

(* The page offers one of the policies it was given.                       *)
LEMMA FirstIsIn ==
    ASSUME NEW S \in SUBSET Policies, S # {}
    PROVE  First(S) \in S
<1> DEFINE T == {Rank[p] : p \in S}
<1>1. T \subseteq Nat /\ T # {}
  BY BudgetAssumption
<1>2. \E m \in T : \A n \in T : m <= n
  <2> HIDE DEF T
  <2>1. PICK m \in T : \A n \in T : <<n, m>> \notin OpToRel(<, Nat)
    BY <1>1, NatLessThanWellFounded, WFMin
  <2>2. \A n \in T : ~(n < m)
    BY <1>1, <2>1, Zenon DEF OpToRel
  <2>3. QED
    BY <1>1, <2>2
<1>3. \E p \in S : \A q \in S : Rank[p] <= Rank[q]
  BY <1>2
<1>4. QED
  BY <1>3 DEF First

(* A deposit is only made for a limit that can still grow.                 *)
RoomToTopUp ==
    \A a \in Admins : edit[a] # NoEdit /\ ~edit[a].checked => edit[a].row.limit < SpendLimit

BudgetTypeInv == BudgetTypeOK /\ RoomToTopUp

Edits == [policy : Policies, row : Rows, checked : BOOLEAN]

LEMMA RowsAreRecords ==
    ASSUME NEW r \in Rows
    PROVE  /\ r.status \in {"absent", "inactive", "active", "retired"}
           /\ r.limit \in Nat /\ r.limit <= SpendLimit
           /\ [r EXCEPT !.status = "inactive"] \in Rows
           /\ r.limit < SpendLimit => [r EXCEPT !.limit = @ + 1] \in Rows
  BY RedemptionAssumption DEF Rows

LEMMA BudgetTypeInit == BudgetInit => BudgetTypeInv
<1> SUFFICES ASSUME BudgetInit PROVE BudgetTypeInv
  OBVIOUS
<1>1. PICK p \in Policies :
        row = [q \in Policies |-> [status |-> IF q = p THEN "active" ELSE "absent",
                                   limit |-> IF q = p THEN 1 ELSE 0]]
  BY DEF BudgetInit
<1>2. row \in [Policies -> Rows]
  BY <1>1, BudgetAssumption DEF Rows
<1>3. TypeOK
  BY InitType DEF BudgetInit
<1>4. QED
  BY <1>2, <1>3, BudgetAssumption DEF BudgetInit, BudgetTypeInv, BudgetTypeOK, RoomToTopUp

LEMMA BudgetTypeStep == BudgetTypeInv /\ [BudgetNext]_bvars => BudgetTypeInv'
<1> SUFFICES ASSUME BudgetTypeInv, [BudgetNext]_bvars PROVE BudgetTypeInv'
  OBVIOUS
<1> DEFINE Types == /\ row \in [Policies -> Rows]
                    /\ deposits \in 0..MaxDeposits
                    /\ edit \in [Admins -> Edits \cup {NoEdit}]
                    /\ seen \in [Workers -> Rows \cup {NoEdit}]
                    /\ offer \in [Pairs -> Policies \cup {NoOffer}]
<1>1. TypeOK'
  BY BudgetStep, NextType DEF BudgetTypeInv, BudgetTypeOK
<1>2. Types /\ RoomToTopUp
  BY DEF BudgetTypeInv, BudgetTypeOK, Edits
<1>3. SUFFICES Types' /\ RoomToTopUp'
  BY <1>1 DEF BudgetTypeInv, BudgetTypeOK, Edits
<1>4. ASSUME NEW x \in Pairs, NEW override \in BOOLEAN, View(x, override) PROVE Types' /\ RoomToTopUp'
  <2>1. Candidates(x, ~override) \in SUBSET Policies
    BY DEF Candidates, EnabledPolicies
  <2>2. PICK o \in Policies \cup {NoOffer} : offer' = [offer EXCEPT ![x] = o]
    BY <1>4, <2>1, FirstIsIn DEF View
  <2>3. QED
    BY <1>2, <1>4, <2>2 DEF View, RoomToTopUp
<1>5. ASSUME NEW w \in Workers, NEW p \in Policies, NEW x \in Pairs, StartRedeem(w, p, x)
      PROVE  Types' /\ RoomToTopUp'
  BY <1>2, <1>5 DEF StartRedeem, RoomToTopUp
<1>6. CASE Proceed \/ \E w \in Workers : Redeem(w)
  BY <1>2, <1>6 DEF Proceed, Redeem, mine, RoomToTopUp
<1>7. ASSUME NEW w \in Workers, EndRedeem(w) PROVE Types' /\ RoomToTopUp'
  BY <1>2, <1>7 DEF EndRedeem, RoomToTopUp
<1>8. ASSUME NEW a \in Admins, NEW p \in Policies, NEW r \in Rows, Checked(a, p, r),
             UNCHANGED <<row, deposits, seen, offer>>
      PROVE  Types' /\ RoomToTopUp'
  <2>1. [policy |-> p, row |-> r, checked |-> TRUE] \in Edits
    BY DEF Edits
  <2>2. QED
    BY <1>2, <1>8, <2>1 DEF Checked, RoomToTopUp
<1>9. ASSUME NEW a \in Admins, edit' = [edit EXCEPT ![a] = NoEdit],
             row' \in [Policies -> Rows], UNCHANGED <<deposits, seen, offer>>
      PROVE  Types' /\ RoomToTopUp'
  BY <1>2, <1>9 DEF RoomToTopUp
<1>10. ASSUME NEW a \in Admins, NEW p \in Policies, NEW r \in Rows,
              OpenEdit(a, p, r) \/ OpenCreate(a, p, r)
       PROVE  Types' /\ RoomToTopUp'
  BY <1>8, <1>10 DEF OpenEdit, OpenCreate
<1>11. ASSUME NEW a \in Admins, NEW p \in Policies, OpenDelete(a, p) \/ OpenLateRedemption(a, p)
       PROVE  Types' /\ RoomToTopUp'
  <2>1. row[p] \in Rows /\ Deactivated(p) \in Rows
    BY <1>2, RowsAreRecords DEF Deactivated
  <2> DEFINE d == Deactivated(p)
             r == row[p]
  <2>2. Checked(a, p, d) \/ Checked(a, p, r)
    BY <1>11 DEF OpenDelete, OpenLateRedemption
  <2>3. UNCHANGED <<row, deposits, seen, offer>>
    BY <1>11 DEF OpenDelete, OpenLateRedemption
  <2> HIDE DEF d, r
  <2>4. QED
    BY <1>8, <2>1, <2>2, <2>3 DEF d, r
<1>12. ASSUME NEW a \in Admins, NEW p \in Policies, Deposit(a, p)
       PROVE  Types' /\ RoomToTopUp'
  <2>1. deposits' \in 0..MaxDeposits
    BY <1>2, <1>12, BudgetAssumption DEF Deposit
  <2>2. [policy |-> p, row |-> row[p], checked |-> FALSE] \in Edits
    BY <1>2 DEF Edits
  <2>3. UNCHANGED <<row, seen, offer>> /\ row[p].limit < SpendLimit
    BY <1>12 DEF Deposit
  <2>4. CASE edit' = [edit EXCEPT ![a] = [policy |-> p, row |-> row[p], checked |-> FALSE]]
    BY <1>2, <2>1, <2>2, <2>3, <2>4 DEF RoomToTopUp
  <2>5. CASE UNCHANGED edit
    BY <1>2, <2>1, <2>3, <2>5 DEF RoomToTopUp
  <2>6. QED
    BY <1>12, <2>4, <2>5 DEF Deposit
<1>13. ASSUME NEW a \in Admins, TopUp(a) PROVE Types' /\ RoomToTopUp'
  <2> DEFINE p == edit[a].policy
             q == edit[a].row
             r == [q EXCEPT !.limit = @ + 1]
  <2>1. edit[a] \in Edits /\ q.limit < SpendLimit
    BY <1>2, <1>13 DEF TopUp, RoomToTopUp
  <2>2. p \in Policies /\ q \in Rows
    BY <2>1 DEF Edits
  <2>3. UNCHANGED <<row, deposits, seen, offer>>
    BY <1>13 DEF TopUp
  <2>4. Checked(a, p, r) \/ edit' = [edit EXCEPT ![a] = NoEdit]
    BY <1>13 DEF TopUp
  <2> HIDE DEF p, q
  <2>5. r \in Rows
    BY <2>1, <2>2, RowsAreRecords
  <2> HIDE DEF r
  <2>6. CASE Checked(a, p, r)
    BY <1>8, <2>2, <2>3, <2>5, <2>6
  <2>7. CASE edit' = [edit EXCEPT ![a] = NoEdit]
    BY <1>2, <1>9, <2>3, <2>7
  <2>8. QED
    BY <2>4, <2>6, <2>7
<1>14. ASSUME NEW a \in Admins, Store(a) PROVE Types' /\ RoomToTopUp'
  <2>1. edit[a].policy \in Policies /\ edit[a].row \in Rows
    BY <1>2, <1>14 DEF Store, Edits
  <2>2. row' \in [Policies -> Rows]
    BY <1>2, <1>14, <2>1 DEF Store
  <2>3. QED
    BY <1>9, <1>14, <2>2 DEF Store
<1>15. ASSUME NEW a \in Admins, Abandon(a) PROVE Types' /\ RoomToTopUp'
  BY <1>2, <1>9, <1>15 DEF Abandon
<1>16. CASE UNCHANGED bvars
  BY <1>2, <1>16 DEF bvars, mine, RoomToTopUp
<1> HIDE DEF Types
<1>17. QED
  BY <1>4, <1>5, <1>6, <1>7, <1>10, <1>11, <1>12, <1>13, <1>14, <1>15, <1>16 DEF BudgetNext

(* Every policy, edit, offer and loaded policy keeps its type: in          *)
(* particular a deposit never lifts a limit above the largest one.         *)
THEOREM BudgetTypeTheorem == BudgetSpec => []BudgetTypeOK
<1>1. BudgetTypeInv => BudgetTypeOK
  BY DEF BudgetTypeInv
<1>2. QED
  BY <1>1, BudgetTypeInit, BudgetTypeStep, PTL DEF BudgetSpec

-----------------------------------------------------------------------------
(* What a learner has used of a policy, in a ledger L.                     *)
UsesIn(L, p, l) == {i \in DOMAIN L : L[i].key.policy = p /\ Learner[L[i].key.pair] = l}

UseOf(L, p, l) ==
    IF LimitKind[p] = "spend" THEN PaidIn(L, UsesIn(L, p, l)) ELSE Cardinality(UsesIn(L, p, l))

(* What one more redemption of a pair counts towards the limit.            *)
Cost(p, x) == IF LimitKind[p] = "spend" THEN Price[x] ELSE 1

LEMMA UseIs ==
    ASSUME NEW p, NEW l
    PROVE  /\ LearnerUse(p, l) = UseOf(ledger, p, l)
           /\ LearnerUse(p, l)' = UseOf(ledger', p, l)
<1>1. OfLearner(p, l) = UsesIn(ledger, p, l)
  BY DEF OfLearner, UsesIn
<1>2. OfLearner(p, l)' = UsesIn(ledger', p, l)
  BY DEF OfLearner, UsesIn
<1>3. LearnerUse(p, l) = UseOf(ledger, p, l)
  BY <1>1 DEF LearnerUse, UseOf, PaidIn, MapThenSumSet, MapThenFoldSet
<1>4. LearnerUse(p, l)' = UseOf(ledger', p, l)
  BY <1>2 DEF LearnerUse, UseOf, PaidIn, MapThenSumSet, MapThenFoldSet
<1>5. QED
  BY <1>3, <1>4

LEMMA UseIsNat == ASSUME NEW L, IsLedger(L), NEW p, NEW l PROVE UseOf(L, p, l) \in Nat
<1> DEFINE S == UsesIn(L, p, l)
<1>1. S \in SUBSET DOMAIN L /\ IsFiniteSet(S)
  BY FS_Subset DEF UsesIn, IsLedger
<1> HIDE DEF S
<1>2. PaidIn(L, S) \in Nat /\ Cardinality(S) \in Nat
  BY <1>1, PaidIsNat, FS_CardinalityType
<1>3. QED
  BY <1>2 DEF UseOf, S

LEMMA UseWithOneMore ==
    ASSUME NEW L, NEW M, IsLedger(L), IsLedger(M), NEW i, NEW k \in Keys, Adds(L, M, i, k),
           NEW p, NEW l
    PROVE  UseOf(M, p, l) <= UseOf(L, p, l)
             + (IF p = k.policy /\ l = Learner[k.pair] THEN Cost(p, k.pair) ELSE 0)
<1> DEFINE S == UsesIn(L, p, l)
           mineToo == p = k.policy /\ l = Learner[k.pair]
<1>1. S \in SUBSET DOMAIN L /\ S \subseteq DOMAIN M /\ i \in DOMAIN M /\ i \notin S
  BY DEF UsesIn, Adds
<1>2. \A j \in S : L[j].key = M[j].key
  BY <1>1 DEF Adds
<1>3. UsesIn(M, p, l) = IF mineToo THEN S \cup {i} ELSE S
  BY DEF UsesIn, Adds
<1> HIDE DEF S
<1>4. IsFiniteSet(S) /\ S \in SUBSET (DOMAIN M \ {i})
  BY <1>1, FS_Subset DEF IsLedger
<1>5. PaidIn(L, S) = PaidIn(M, S) /\ PaidIn(L, S) \in Nat
  BY <1>1, <1>2, PaidOfSameKeys, PaidIsNat
<1>6. PaidIn(M, S \cup {i}) = PaidIn(M, S) + Price[k.pair]
  BY <1>1, <1>4, PaidOfOneMore DEF Adds
<1>7. Cardinality(S \cup {i}) = Cardinality(S) + 1 /\ Cardinality(S) \in Nat
  BY <1>1, <1>4, FS_AddElement, FS_CardinalityType
<1>8. Price[k.pair] \in Nat
  BY RedemptionAssumption DEF Keys
<1>9. CASE mineToo
  BY <1>3, <1>5, <1>6, <1>7, <1>8, <1>9 DEF UseOf, Cost, S
<1>10. CASE ~mineToo
  <2>1. UsesIn(M, p, l) = S
    BY <1>3, <1>10
  <2>2. UseOf(M, p, l) = UseOf(L, p, l) /\ UseOf(L, p, l) \in Nat
    BY <1>5, <1>7, <2>1 DEF UseOf, S
  <2>3. QED
    BY <1>10, <2>2
<1>11. QED
  BY <1>9, <1>10

LEMMA UseOfSameKeys ==
    ASSUME NEW L, NEW M, IsLedger(L), IsLedger(M), DOMAIN M = DOMAIN L,
           \A j \in DOMAIN L : M[j].key = L[j].key, NEW p, NEW l
    PROVE  UseOf(M, p, l) = UseOf(L, p, l)
<1> DEFINE S == UsesIn(L, p, l)
<1>1. S \in SUBSET DOMAIN L /\ S \subseteq DOMAIN M /\ UsesIn(M, p, l) = S
  BY DEF UsesIn
<1>2. \A j \in S : L[j].key = M[j].key
  BY <1>1
<1> HIDE DEF S
<1>3. PaidIn(L, S) = PaidIn(M, S)
  BY <1>1, <1>2, PaidOfSameKeys
<1>4. QED
  BY <1>1, <1>3 DEF UseOf, S

(* A transaction that is made counts for its own learner and policy, and   *)
(* one that settles or is reversed changes nothing.                        *)
LEMMA UseAfterCreate ==
    ASSUME LedgerOK, NEW k \in Keys, Create(k), NEW p, NEW l
    PROVE  /\ LearnerUse(p, l) \in Nat /\ LearnerUse(p, l)' \in Nat
           /\ LearnerUse(p, l)' <= LearnerUse(p, l)
                + (IF p = k.policy /\ l = Learner[k.pair] THEN Cost(p, k.pair) ELSE 0)
<1>1. IsLedger(ledger) /\ IsLedger(ledger')
  BY LedgerIsLedger, CreateAdds
<1>2. UseOf(ledger, p, l) \in Nat /\ UseOf(ledger', p, l) \in Nat
  BY <1>1, UseIsNat
<1>3. Cost(p, k.pair) \in Nat
  BY RedemptionAssumption DEF Cost, Keys
<1>4. CASE UNCHANGED ledger
  <2>1. UseOf(ledger', p, l) = UseOf(ledger, p, l)
    BY <1>4
  <2>2. QED
    BY <1>2, <1>3, <2>1, UseIs
<1>5. CASE \E i \in TxIds : Adds(ledger, ledger', i, k)
  <2>1. PICK i : Adds(ledger, ledger', i, k)
    BY <1>5
  <2>2. QED
    BY <1>1, <1>2, <2>1, UseWithOneMore, UseIs
<1>6. QED
  BY <1>4, <1>5, CreateAdds

LEMMA UseAfterSetState ==
    ASSUME LedgerOK, NEW i \in DOMAIN ledger, NEW s \in States, SetState(i, s),
           ledger[i].state \notin Dead, NEW p, NEW l
    PROVE  LearnerUse(p, l)' = LearnerUse(p, l)
<1>1. IsLedger(ledger) /\ IsLedger(ledger')
  BY LedgerIsLedger, SpentAfterSetState
<1>2. DOMAIN ledger' = DOMAIN ledger /\ \A j \in DOMAIN ledger : ledger'[j].key = ledger[j].key
  BY DEF SetState
<1>3. UseOf(ledger', p, l) = UseOf(ledger, p, l)
  BY <1>1, <1>2, UseOfSameKeys
<1>4. QED
  BY <1>3, UseIs

LEMMA UseIsNatNow == ASSUME LedgerOK, NEW p, NEW l PROVE LearnerUse(p, l) \in Nat
  BY LedgerIsLedger, UseIsNat, UseIs

(* The check per learner, of either kind.                                  *)
LEMMA WithinLimitIs ==
    ASSUME LedgerOK, NEW p \in Policies, NEW x \in Pairs
    PROVE  WithinLearnerLimit(p, x) <=>
             (LimitKind[p] # "none" => LearnerUse(p, Learner[x]) + Cost(p, x) <= LearnerLimit)
<1>1. LearnerUse(p, Learner[x]) \in Nat /\ LearnerLimit \in Nat /\ Price[x] \in Nat
  BY UseIsNatNow, BudgetAssumption, RedemptionAssumption
<1>2. LimitKind[p] \in {"enrollments", "spend", "none"}
  BY BudgetAssumption
<1>3. CASE LimitKind[p] = "enrollments"
  BY <1>1, <1>3 DEF WithinLearnerLimit, EnrollmentAllowed, Cost
<1>4. CASE LimitKind[p] = "spend"
  BY <1>1, <1>4 DEF WithinLearnerLimit, SpendAllowed, WouldExceed, Cost
<1>5. CASE LimitKind[p] = "none"
  BY <1>5 DEF WithinLearnerLimit
<1>6. QED
  BY <1>2, <1>3, <1>4, <1>5

-----------------------------------------------------------------------------
(* While no policy is edited under a request: what a step can disturb of   *)
(* BudgetInv.  Most steps make no policy and no learner spend more.        *)
BudgetOK == BudgetTypeInv /\ LedgerOK

LighterAt(p) ==
    /\ Spent(p)' <= Spent(p)
    /\ \A x \in Pairs : LearnerUse(p, Learner[x])' <= LearnerUse(p, Learner[x])

Lighter == \A p \in Policies : LighterAt(p)

LEMMA BudgetNumbers ==
    ASSUME BudgetOK, NEW p \in Policies
    PROVE  /\ Spent(p) \in Nat
           /\ row[p] \in Rows /\ row[p].limit \in Nat
           /\ \A x \in Pairs :
                 /\ Price[x] \in Nat
                 /\ LearnerUse(p, Learner[x]) \in Nat
                 /\ Cost(p, x) \in Nat
<1>1. LedgerOK /\ row[p] \in Rows
  BY DEF BudgetOK, BudgetTypeInv, BudgetTypeOK
<1>2. \A x \in Pairs : Price[x] \in Nat
  BY RedemptionAssumption
<1>3. \A x \in Pairs : Cost(p, x) \in Nat
  BY <1>2 DEF Cost
<1>4. QED
  BY <1>1, <1>2, <1>3, SpentIsNat, UseIsNatNow, RowsAreRecords

LEMMA NumbersNext ==
    ASSUME BudgetOK', NEW p \in Policies
    PROVE  /\ IsLedger(ledger')
           /\ Spent(p)' \in Nat
           /\ \A l : LearnerUse(p, l)' \in Nat
<1>1. IsLedger(ledger')
  BY DEF BudgetOK, LedgerOK, TypeOK, IsLedger
<1>2. LiveIn(ledger', p) \in SUBSET DOMAIN ledger'
  BY DEF LiveIn
<1>3. Spent(p)' \in Nat
  BY <1>1, <1>2, PaidIsNat, SpentIsPaid
<1>4. ASSUME NEW l PROVE LearnerUse(p, l)' \in Nat
  BY <1>1, UseIs, UseIsNat
<1>5. QED
  BY <1>1, <1>3, <1>4

(* The check per learner, in the next state.                               *)
LEMMA WithinLimitNext ==
    ASSUME BudgetOK', NEW p \in Policies, NEW x \in Pairs,
           LimitKind[p] # "none" => LearnerUse(p, Learner[x])' + Cost(p, x) <= LearnerLimit
    PROVE  WithinLearnerLimit(p, x)'
<1>1. LearnerUse(p, Learner[x])' \in Nat /\ LearnerLimit \in Nat /\ Price[x] \in Nat
  BY NumbersNext, BudgetAssumption, RedemptionAssumption
<1>2. LimitKind[p] \in {"enrollments", "spend", "none"}
  BY BudgetAssumption
<1>3. CASE LimitKind[p] = "enrollments"
  BY <1>1, <1>3 DEF WithinLearnerLimit, EnrollmentAllowed, Cost
<1>4. CASE LimitKind[p] = "spend"
  BY <1>1, <1>4 DEF WithinLearnerLimit, SpendAllowed, WouldExceed, Cost
<1>5. CASE LimitKind[p] = "none"
  BY <1>5 DEF WithinLearnerLimit
<1>6. QED
  BY <1>2, <1>3, <1>4, <1>5

LEMMA SameLedgerIsLighter == ASSUME BudgetOK, UNCHANGED ledger PROVE Lighter
<1> SUFFICES ASSUME NEW p \in Policies
             PROVE  /\ Spent(p)' <= Spent(p)
                    /\ \A x \in Pairs : LearnerUse(p, Learner[x])' <= LearnerUse(p, Learner[x])
  BY DEF Lighter, LighterAt
<1>1. Spent(p)' = Spent(p)
  BY SpentIsPaid
<1>2. ASSUME NEW x \in Pairs PROVE LearnerUse(p, Learner[x])' <= LearnerUse(p, Learner[x])
  <2>1. LearnerUse(p, Learner[x])' = LearnerUse(p, Learner[x])
    <3> DEFINE l == Learner[x]
    <3> HIDE DEF l
    <3>1. LearnerUse(p, l)' = LearnerUse(p, l)
      BY UseIs
    <3>2. QED
      BY <3>1 DEF l
  <2>2. QED
    BY <2>1, BudgetNumbers
<1>3. QED
  BY <1>1, <1>2, BudgetNumbers

LEMMA SetStateIsLighter ==
    ASSUME BudgetOK, NEW i \in DOMAIN ledger, Settle(i) \/ Reverse(i)
    PROVE  Lighter
<1>1. LedgerOK
  BY DEF BudgetOK
<1>2. PICK s \in States : SetState(i, s) /\ ledger[i].state \notin Dead
  BY DEF Settle, Reverse, States, Dead
<1>3. ASSUME NEW p \in Policies PROVE Spent(p)' <= Spent(p)
  BY <1>1, <1>2, SpentAfterSetState
<1>4. ASSUME NEW p \in Policies, NEW x \in Pairs
      PROVE  LearnerUse(p, Learner[x])' <= LearnerUse(p, Learner[x])
  <2> DEFINE l == Learner[x]
  <2> HIDE DEF l
  <2>1. LearnerUse(p, l)' = LearnerUse(p, l)
    BY <1>1, <1>2, UseAfterSetState
  <2>2. LearnerUse(p, l)' = LearnerUse(p, l) /\ LearnerUse(p, l) \in Nat
    BY <2>1, <1>1, UseIsNatNow
  <2>3. LearnerUse(p, l)' <= LearnerUse(p, l)
    BY <2>2
  <2>4. QED
    BY <2>3 DEF l
<1>5. QED
  BY <1>3, <1>4 DEF Lighter, LighterAt

(* What is posted still fits when nothing was spent meanwhile.             *)
LEMMA StillFits ==
    ASSUME BudgetOK, BudgetOK', NEW p \in Policies, NEW x \in Pairs, LighterAt(p),
           row'[p] = row[p],
           ~WillExceedSpendLimit(row[p], p, x), WithinLearnerLimit(p, x)
    PROVE  ~WillExceedSpendLimit(row[p], p, x)' /\ WithinLearnerLimit(p, x)'
<1>1. Spent(p)' <= Spent(p) /\ LearnerUse(p, Learner[x])' <= LearnerUse(p, Learner[x])
  BY DEF Lighter, LighterAt
<1>2. /\ Spent(p) \in Nat /\ LearnerUse(p, Learner[x]) \in Nat
      /\ row[p].limit \in Nat /\ Price[x] \in Nat /\ Cost(p, x) \in Nat /\ LearnerLimit \in Nat
  BY BudgetNumbers, BudgetAssumption
<1>3. Spent(p)' \in Nat /\ LearnerUse(p, Learner[x])' \in Nat
  BY NumbersNext
<1>4. ~WillExceedSpendLimit(row[p], p, x)'
  BY <1>1, <1>2, <1>3 DEF WillExceedSpendLimit, WouldExceed
<1>5. LimitKind[p] # "none" => LearnerUse(p, Learner[x]) + Cost(p, x) <= LearnerLimit
  BY WithinLimitIs DEF BudgetOK
<1>6. LimitKind[p] # "none" => LearnerUse(p, Learner[x])' + Cost(p, x) <= LearnerLimit
  BY <1>1, <1>2, <1>3, <1>5
<1>7. WithinLearnerLimit(p, x)'
  BY <1>6, WithinLimitNext
<1>8. QED
  BY <1>4, <1>7

(* The parts of BudgetInv about the policies and their editors, where      *)
(* neither changes and nothing more is spent.                              *)
LEMMA LighterKeepsBudgets ==
    ASSUME BudgetOK, BudgetOK', BudgetInv, Lighter, UNCHANGED <<row, edit>>
    PROVE  SpendWithinLimit' /\ EditsFit' /\ InactiveIsUnspent' /\ LearnerWithinLimit'
<1>1. ASSUME NEW p \in Policies
      PROVE  /\ Spent(p)' <= Spent(p) /\ Spent(p) \in Nat /\ Spent(p)' \in Nat
             /\ row[p].limit \in Nat
  BY BudgetNumbers, NumbersNext DEF Lighter, LighterAt
<1>2. SpendWithinLimit'
  BY <1>1 DEF BudgetInv, SpendWithinLimit
<1>3. ASSUME NEW a \in Admins, edit[a] # NoEdit
      PROVE  /\ edit[a].policy \in Policies /\ edit[a].row \in Rows
             /\ edit[a].row.limit \in Nat
  BY <1>3, RowsAreRecords DEF BudgetOK, BudgetTypeInv, BudgetTypeOK
<1>4. EditsFit'
  <2> SUFFICES ASSUME NEW a \in Admins, edit[a] # NoEdit
               PROVE  /\ Lowers \/ Spent(edit[a].policy)' <= edit[a].row.limit
                      /\ edit[a].row.status \in {"absent", "inactive"}
                            => Spent(edit[a].policy)' = 0
    BY DEF EditsFit
  <2> DEFINE p == edit[a].policy
             r == edit[a].row
  <2>1. Lowers \/ Spent(p) <= r.limit
    BY DEF BudgetInv, EditsFit
  <2>2. r.status \in {"absent", "inactive"} => Spent(p) = 0
    BY DEF BudgetInv, EditsFit
  <2>3. p \in Policies /\ r.limit \in Nat
    BY <1>3
  <2>4. /\ UNCHANGED <<p, r>>
    OBVIOUS
  <2> HIDE DEF p, r
  <2>5. PICK q \in Policies : q = p /\ Spent(q)' = Spent(p)'
    BY <2>3, <2>4
  <2>6. Spent(q) = Spent(p)
    BY <2>5
  <2>7. Spent(q)' <= Spent(q) /\ Spent(q) \in Nat /\ Spent(q)' \in Nat
    BY <1>1
  <2>8. QED
    BY <2>1, <2>2, <2>3, <2>5, <2>6, <2>7 DEF p, r
<1>5. InactiveIsUnspent'
  BY <1>1 DEF BudgetInv, InactiveIsUnspent
<1>6. LearnerWithinLimit'
  <2> SUFFICES ASSUME NEW p \in Policies, NEW x \in Pairs, LimitKind[p] # "none"
               PROVE  LearnerUse(p, Learner[x])' <= LearnerLimit
    BY DEF LearnerWithinLimit
  <2>1. LearnerUse(p, Learner[x]) <= LearnerLimit
    BY DEF BudgetInv, LearnerWithinLimit
  <2>2. LearnerUse(p, Learner[x])' <= LearnerUse(p, Learner[x])
    BY DEF Lighter, LighterAt
  <2>3. /\ LearnerUse(p, Learner[x]) \in Nat /\ LearnerUse(p, Learner[x])' \in Nat
        /\ LearnerLimit \in Nat
    BY BudgetNumbers, NumbersNext, BudgetAssumption
  <2>4. QED
    BY <2>1, <2>2, <2>3
<1>7. QED
  BY <1>2, <1>4, <1>5, <1>6

(* The policy a request has loaded stays the one in the database: editors  *)
(* wait for requests and requests for editors.                             *)
LEMMA LoadedStep ==
    ASSUME ~Overlap, BudgetOK, LoadedIsCurrent, [BudgetNext]_bvars
    PROVE  LoadedIsCurrent'
<1>1. /\ \A w \in Workers : pc[w] # "idle" => key[w] \in Keys
      /\ key \in [Workers -> Keys \cup {NoKey}] /\ pc \in [Workers -> Phases]
      /\ row \in [Policies -> Rows]
      /\ edit \in [Admins -> Edits \cup {NoEdit}]
      /\ seen \in [Workers -> Rows \cup {NoEdit}]
  BY DEF BudgetOK, LedgerOK, TypeOK, BudgetTypeInv, BudgetTypeOK, Edits
<1>2. SUFFICES ASSUME NEW w \in Workers, pc'[w] # "idle"
               PROVE  /\ seen'[w] = row'[key'[w].policy]
                      /\ \A a \in Admins : edit'[a] # NoEdit => edit'[a].policy # key'[w].policy
  BY DEF LoadedIsCurrent, Editing
<1> DEFINE Current == /\ seen'[w] = row'[key'[w].policy]
                      /\ \A a \in Admins : edit'[a] # NoEdit => edit'[a].policy # key'[w].policy
           Before == /\ pc[w] # "idle" /\ key[w].policy = key'[w].policy
                     /\ seen[w] = row[key[w].policy]
                     /\ \A a \in Admins : edit[a] # NoEdit => edit[a].policy # key[w].policy
<1>3. pc[w] # "idle" => /\ seen[w] = row[key[w].policy]
                        /\ \A a \in Admins : edit[a] # NoEdit => edit[a].policy # key[w].policy
  BY DEF LoadedIsCurrent, Editing
<1>4. ASSUME NEW a \in Admins, NEW p \in Policies, NEW e, e.policy = p,
             edit' = [edit EXCEPT ![a] = e], ~Inside(w, p), Before, UNCHANGED <<row, seen>>
      PROVE  Current
  BY <1>1, <1>4 DEF Inside
<1>5. ASSUME NEW a \in Admins, edit' = [edit EXCEPT ![a] = NoEdit], Before,
             UNCHANGED <<row, seen>>
      PROVE  Current
  BY <1>1, <1>5
<1>6. ASSUME NEW x \in Pairs, NEW override \in BOOLEAN, View(x, override) PROVE Current
  BY <1>2, <1>3, <1>6 DEF View, vars
<1>7. ASSUME NEW v \in Workers, NEW p \in Policies, NEW x \in Pairs, StartRedeem(v, p, x)
      PROVE  Current
  <2>1. /\ seen' = [seen EXCEPT ![v] = row[p]]
        /\ key' = [key EXCEPT ![v] = [policy |-> p, pair |-> x, past |-> {}]]
        /\ pc' = [pc EXCEPT ![v] = "locked"]
        /\ UNCHANGED <<row, edit>>
        /\ \A a \in Admins : edit[a] # NoEdit => edit[a].policy # p
    BY <1>7 DEF StartRedeem, Acquire, Editing
  <2>2. CASE v = w
    BY <1>1, <2>1, <2>2
  <2>3. CASE v # w
    BY <1>1, <1>2, <1>3, <2>1, <2>3
  <2>4. QED
    BY <2>2, <2>3
<1>8. ASSUME NEW v \in Workers, Redeem(v) PROVE Current
  BY <1>1, <1>2, <1>3, <1>8 DEF Redeem, Post, mine
<1>9. ASSUME NEW v \in Workers, EndRedeem(v) PROVE Current
  <2>1. /\ seen' = [seen EXCEPT ![v] = NoEdit]
        /\ key' = [key EXCEPT ![v] = NoKey]
        /\ pc' = [pc EXCEPT ![v] = "idle"]
        /\ UNCHANGED <<row, edit>>
    BY <1>9 DEF EndRedeem, Leave, Crash
  <2>2. v # w
    BY <1>1, <1>2, <2>1
  <2>3. QED
    BY <1>1, <1>2, <1>3, <2>1, <2>2
<1>10. ASSUME Proceed PROVE Current
  <2>1. UNCHANGED <<row, edit, seen>>
    BY <1>10 DEF Proceed, mine
  <2>2. pc[w] # "idle" /\ key'[w].policy = key[w].policy
    <3>1. ASSUME NEW v \in Workers, ReadHistory(v) PROVE <2>2!1 /\ <2>2!2
      BY <1>1, <1>2, <3>1 DEF ReadHistory, Keys
    <3>2. ASSUME NEW v \in Workers, Refuse(v) \/ Serve(v) PROVE <2>2!1 /\ <2>2!2
      BY <1>1, <1>2, <3>2 DEF Refuse, Serve
    <3>3. CASE \/ \E p \in Policies : Expire(p)
               \/ \E i \in DOMAIN ledger : Settle(i) \/ Reverse(i)
      BY <1>2, <3>3 DEF Expire, Settle, Reverse
    <3>4. QED
      BY <1>10, <3>1, <3>2, <3>3 DEF Proceed
  <2>3. QED
    BY <1>3, <2>1, <2>2
<1>11. ASSUME NEW a \in Admins, NEW p \in Policies, NEW e, Idle(a, p), e.policy = p,
              edit' = [edit EXCEPT ![a] = e] \/ UNCHANGED edit,
              UNCHANGED <<vars, row, seen>>
       PROVE  Current
  <2>1. Before
    BY <1>2, <1>3, <1>11 DEF vars
  <2>2. ~Inside(w, p)
    BY <1>11 DEF Idle
  <2>3. CASE UNCHANGED edit
    BY <1>11, <2>1, <2>3
  <2>4. QED
    BY <1>4, <1>11, <2>1, <2>2, <2>3
<1>12. ASSUME NEW a \in Admins, NEW p \in Policies, NEW r, Idle(a, p), Checked(a, p, r),
              UNCHANGED <<vars, row, seen>>
       PROVE  Current
  <2> DEFINE e == [policy |-> p, row |-> r, checked |-> TRUE]
  <2>1. edit' = [edit EXCEPT ![a] = e] /\ e.policy = p
    BY <1>12 DEF Checked
  <2> HIDE DEF e
  <2>2. QED
    BY <1>11, <1>12, <2>1
<1>13. ASSUME NEW a \in Admins, NEW p \in Policies, NEW r \in Rows,
              OpenEdit(a, p, r) \/ OpenCreate(a, p, r)
       PROVE  Current
  BY <1>12, <1>13 DEF OpenEdit, OpenCreate
<1>14. ASSUME NEW a \in Admins, NEW p \in Policies, OpenDelete(a, p) \/ OpenLateRedemption(a, p)
       PROVE  Current
  <2>1. PICK r : Idle(a, p) /\ Checked(a, p, r) /\ UNCHANGED <<vars, row, seen>>
    BY <1>14 DEF OpenDelete, OpenLateRedemption
  <2>2. QED
    BY <1>12, <2>1
<1>15. ASSUME NEW a \in Admins, NEW p \in Policies, Deposit(a, p) PROVE Current
  <2> DEFINE e == [policy |-> p, row |-> row[p], checked |-> FALSE]
  <2>1. /\ Idle(a, p) /\ UNCHANGED <<vars, row, seen>>
        /\ edit' = [edit EXCEPT ![a] = e] \/ UNCHANGED edit
        /\ e.policy = p
    BY <1>15 DEF Deposit
  <2> HIDE DEF e
  <2>2. QED
    BY <1>11, <2>1
<1>16. ASSUME NEW a \in Admins, TopUp(a) PROVE Current
  <2>1. Before /\ UNCHANGED <<row, seen>> /\ edit[a] \in Edits
    BY <1>1, <1>2, <1>3, <1>16 DEF TopUp, vars
  <2>2. edit[a].policy \in Policies /\ ~Inside(w, edit[a].policy)
    BY <1>16, <2>1 DEF TopUp, Inside, Edits
  <2>3. CASE edit' = [edit EXCEPT ![a] = NoEdit]
    BY <1>5, <2>1, <2>3
  <2>4. CASE \E r : Checked(a, edit[a].policy, r)
    <3>1. PICK r : Checked(a, edit[a].policy, r)
      BY <2>4
    <3>2. PICK p \in Policies : p = edit[a].policy
      BY <2>2
    <3>3. ~Inside(w, p) /\ Checked(a, p, r)
      BY <2>2, <3>1, <3>2
    <3> DEFINE e == [policy |-> p, row |-> r, checked |-> TRUE]
    <3>4. edit' = [edit EXCEPT ![a] = e] /\ e.policy = p
      BY <3>3 DEF Checked
    <3> HIDE DEF e
    <3>5. QED
      BY <1>4, <2>1, <3>3, <3>4
  <2>5. QED
    BY <1>16, <2>3, <2>4 DEF TopUp
<1>17. ASSUME NEW a \in Admins, Store(a) PROVE Current
  <2>1. Before /\ UNCHANGED seen /\ edit[a] \in Edits /\ edit[a] # NoEdit
    BY <1>1, <1>2, <1>3, <1>17 DEF Store, vars
  <2>2. edit[a].policy # key[w].policy
    BY <2>1
  <2>3. row' = [row EXCEPT ![edit[a].policy] = edit[a].row] /\ edit' = [edit EXCEPT ![a] = NoEdit]
    BY <1>17 DEF Store
  <2>4. key[w].policy \in Policies
    BY <1>1, <2>1 DEF Keys
  <2>5. row'[key[w].policy] = row[key[w].policy]
    BY <1>1, <2>2, <2>3, <2>4
  <2>6. QED
    BY <1>1, <2>1, <2>3, <2>5
<1>18. ASSUME NEW a \in Admins, Abandon(a) PROVE Current
  BY <1>2, <1>3, <1>5, <1>18 DEF Abandon, vars
<1>19. ASSUME UNCHANGED bvars PROVE Current
  BY <1>2, <1>3, <1>19 DEF bvars, vars, mine
<1> HIDE DEF Current, Before
<1>20. Current
  BY <1>6, <1>7, <1>8, <1>9, <1>10, <1>13, <1>14, <1>15, <1>16, <1>17, <1>18, <1>19
     DEF BudgetNext
<1>21. QED
  BY <1>20 DEF Current

-----------------------------------------------------------------------------
(* The rest of BudgetInv, kind of step by kind of step.                    *)
LEMMA FitsStays ==
    ASSUME BudgetOK, BudgetOK', NEW p \in Policies, NEW x \in Pairs, LighterAt(p),
           row'[p] = row[p], Fits(p, x)
    PROVE  Fits(p, x)'
<1>1. ~WillExceedSpendLimit(row[p], p, x)' /\ WithinLearnerLimit(p, x)'
  BY StillFits DEF Fits
<1>2. Enabled(row[p])'
  BY DEF Fits, Enabled
<1>3. QED
  BY <1>1, <1>2 DEF Fits

LEMMA KeyIsIn ==
    ASSUME BudgetOK, NEW w \in Workers, pc[w] # "idle"
    PROVE  key[w] \in Keys /\ key[w].policy \in Policies /\ key[w].pair \in Pairs
  BY DEF BudgetOK, LedgerOK, TypeOK, Keys

LEMMA WorkerFits ==
    ASSUME BudgetOK, BudgetOK', NEW w \in Workers, pc[w] # "idle", LighterAt(key[w].policy),
           key'[w] = key[w], row'[key[w].policy] = row[key[w].policy],
           Fits(key[w].policy, key[w].pair)
    PROVE  Fits(key[w].policy, key[w].pair)'
<1>1. key[w] \in Keys
  BY DEF BudgetOK, LedgerOK, TypeOK
<1>2. PICK p \in Policies, x \in Pairs : p = key[w].policy /\ x = key[w].pair
  BY <1>1 DEF Keys
<1>3. Fits(p, x)'
  BY <1>2, FitsStays
<1>4. p = key'[w].policy /\ x = key'[w].pair
  BY <1>2
<1>5. QED
  BY <1>3, <1>4

(* Nothing is spent, edited or saved, and nothing is posted that does not  *)
(* fit.                                                                    *)
LEMMA CalmStep ==
    ASSUME BudgetOK, BudgetOK', BudgetInv, Lighter, UNCHANGED <<row, edit>>,
           \A w \in Workers : pc'[w] = "posted" =>
              /\ pc[w] # "idle" /\ key'[w] = key[w]
              /\ pc[w] = "posted" \/ Fits(key[w].policy, key[w].pair)
    PROVE  PostedFits' /\ SpendWithinLimit' /\ EditsFit' /\ InactiveIsUnspent' /\ LearnerWithinLimit'
<1>1. SUFFICES PostedFits'
  BY LighterKeepsBudgets
<1>2. SUFFICES ASSUME NEW w \in Workers, pc'[w] = "posted"
               PROVE  Fits(key[w].policy, key[w].pair)'
  BY DEF PostedFits
<1>3. pc[w] # "idle" /\ key'[w] = key[w] /\ Fits(key[w].policy, key[w].pair)
  BY <1>2 DEF BudgetInv, PostedFits
<1>4. row'[key[w].policy] = row[key[w].policy] /\ LighterAt(key[w].policy)
  BY <1>3, KeyIsIn DEF Lighter
<1>5. QED
  BY <1>3, <1>4, WorkerFits

(* A request opens, changes or ends an edit that fits.                     *)
LEMMA EditStep ==
    ASSUME BudgetOK, BudgetOK', BudgetInv, UNCHANGED <<vars, row>>, NEW a \in Admins, NEW e,
           edit' = [edit EXCEPT ![a] = e],
           e # NoEdit =>
              /\ Lowers \/ Spent(e.policy) <= e.row.limit
              /\ e.row.status \in {"absent", "inactive"} => Spent(e.policy) = 0
    PROVE  PostedFits' /\ SpendWithinLimit' /\ EditsFit' /\ InactiveIsUnspent' /\ LearnerWithinLimit'
<1>1. UNCHANGED <<pc, key, ledger, row>>
  BY DEF vars
<1>2. ASSUME NEW p PROVE Spent(p)' = Spent(p)
  BY <1>1, SpentIsPaid
<1>3. PostedFits'
  <2>1. SUFFICES ASSUME NEW w \in Workers, pc'[w] = "posted"
                 PROVE  Fits(key[w].policy, key[w].pair)'
    BY DEF PostedFits
  <2>2. pc[w] # "idle" /\ key'[w] = key[w] /\ Fits(key[w].policy, key[w].pair)
    BY <1>1, <2>1 DEF BudgetInv, PostedFits
  <2>3. row'[key[w].policy] = row[key[w].policy] /\ LighterAt(key[w].policy)
    BY <1>1, <2>2, KeyIsIn, SameLedgerIsLighter DEF Lighter
  <2>4. QED
    BY <2>2, <2>3, WorkerFits
<1>4. SpendWithinLimit' /\ InactiveIsUnspent'
  BY <1>1, <1>2 DEF BudgetInv, SpendWithinLimit, InactiveIsUnspent
<1>5. LearnerWithinLimit'
  <2>1. ASSUME NEW p, NEW l PROVE LearnerUse(p, l)' = LearnerUse(p, l)
    BY <1>1, UseIs
  <2>2. QED
    BY <2>1 DEF BudgetInv, LearnerWithinLimit
<1>6. EditsFit'
  <2> SUFFICES ASSUME NEW b \in Admins, edit'[b] # NoEdit
               PROVE  /\ Lowers \/ Spent(edit[b].policy)' <= edit'[b].row.limit
                      /\ edit'[b].row.status \in {"absent", "inactive"}
                            => Spent(edit[b].policy)' = 0
    BY DEF EditsFit
  <2>1. PICK p : p = edit'[b].policy
    OBVIOUS
  <2>2. Spent(edit[b].policy)' = Spent(p)
    BY <1>2, <2>1
  <2>3. edit \in [Admins -> Edits \cup {NoEdit}]
    BY DEF BudgetOK, BudgetTypeInv, BudgetTypeOK, Edits
  <2>4. CASE b = a
    <3>1. edit'[b] = e
      BY <2>3, <2>4
    <3>2. QED
      BY <2>1, <2>2, <3>1
  <2>5. CASE b # a
    <3>1. edit'[b] = edit[b]
      BY <2>3, <2>5
    <3>2. QED
      BY <2>1, <2>2, <3>1 DEF BudgetInv, EditsFit
  <2>6. QED
    BY <2>4, <2>5
<1>7. QED
  BY <1>3, <1>4, <1>5, <1>6

(* The post is served: what it costs has been checked since the request    *)
(* took the lock, and nobody else spends from the policy meanwhile.        *)
LEMMA ServeStep ==
    ASSUME BudgetOK, BudgetOK', BudgetInv, HolderKeepsLock, NEW w \in Workers, Serve(w),
           UNCHANGED mine
    PROVE  PostedFits' /\ SpendWithinLimit' /\ EditsFit' /\ InactiveIsUnspent' /\ LearnerWithinLimit'
<1>1. /\ pc[w] = "posted" /\ pc' = [pc EXCEPT ![w] = "leaving"] /\ key' = key
      /\ UNCHANGED <<row, edit>>
  BY DEF Serve, mine
<1>2. PICK k \in Keys : k = key[w] /\ Create(k)
  BY <1>1, KeyIsIn DEF Serve
<1>3. PICK p0 \in Policies, x0 \in Pairs : p0 = k.policy /\ x0 = k.pair
  BY <1>2 DEF Keys
<1>4. Fits(p0, x0)
  BY <1>1, <1>2, <1>3 DEF BudgetInv, PostedFits
<1>5. LedgerOK
  BY DEF BudgetOK
<1>6. /\ Price[x0] \in Nat /\ Cost(p0, x0) \in Nat /\ LearnerLimit \in Nat
      /\ row[p0].limit \in Nat /\ Spent(p0) \in Nat
  BY BudgetNumbers, BudgetAssumption
<1>7. /\ Enabled(row[p0])
      /\ Spent(p0) + Price[x0] <= row[p0].limit
      /\ LimitKind[p0] # "none" => LearnerUse(p0, Learner[x0]) + Cost(p0, x0) <= LearnerLimit
  <2>1. Spent(p0) + Price[x0] <= row[p0].limit
    BY <1>4, <1>6 DEF Fits, WillExceedSpendLimit, WouldExceed
  <2>2. QED
    BY <1>4, <1>5, <2>1, WithinLimitIs DEF Fits
<1>8. ASSUME NEW p \in Policies
      PROVE  /\ Spent(p)' <= Spent(p) + (IF p = p0 THEN Price[x0] ELSE 0)
             /\ Spent(p) \in Nat /\ Spent(p)' \in Nat /\ row[p].limit \in Nat
  BY <1>2, <1>3, <1>5, SpentAfterCreate, BudgetNumbers, NumbersNext
<1>9. ASSUME NEW p \in Policies, NEW l
      PROVE  /\ LearnerUse(p, l)' <= LearnerUse(p, l)
                   + (IF p = p0 /\ l = Learner[x0] THEN Cost(p, x0) ELSE 0)
             /\ LearnerUse(p, l) \in Nat /\ LearnerUse(p, l)' \in Nat
  BY <1>2, <1>3, <1>5, UseAfterCreate
<1>10. ASSUME NEW p \in Policies, p # p0 PROVE LighterAt(p)
  <2>1. Spent(p)' <= Spent(p)
    BY <1>8, <1>10
  <2>2. ASSUME NEW l PROVE LearnerUse(p, l)' <= LearnerUse(p, l)
    BY <1>9, <1>10
  <2>3. QED
    BY <2>1, <2>2 DEF LighterAt
<1>11. PostedFits'
  <2>1. SUFFICES ASSUME NEW v \in Workers, pc'[v] = "posted"
                 PROVE  Fits(key[v].policy, key[v].pair)'
    BY DEF PostedFits
  <2>2. v # w /\ pc[v] = "posted"
    BY <1>1, <2>1 DEF BudgetOK, LedgerOK, TypeOK
  <2>3. key[v].policy \in Policies /\ key[v].policy # p0
    BY <1>1, <1>2, <1>3, <2>2, KeyIsIn DEF HolderKeepsLock
  <2>4. LighterAt(key[v].policy) /\ row'[key[v].policy] = row[key[v].policy] /\ key'[v] = key[v]
    BY <1>1, <1>10, <2>3
  <2>5. Fits(key[v].policy, key[v].pair)
    BY <2>2 DEF BudgetInv, PostedFits
  <2>6. QED
    BY <2>2, <2>4, <2>5, WorkerFits
<1>12. SpendWithinLimit'
  <2>1. SUFFICES ASSUME ~Lowers, NEW p \in Policies PROVE Spent(p)' <= row[p].limit
    BY <1>1 DEF SpendWithinLimit
  <2>2. Spent(p) <= row[p].limit
    BY <2>1 DEF BudgetInv, SpendWithinLimit
  <2>3. CASE p = p0
    BY <1>7, <1>8, <1>6, <2>3
  <2>4. CASE p # p0
    BY <1>8, <2>2, <2>4
  <2>5. QED
    BY <2>3, <2>4
<1>13. EditsFit'
  <2> SUFFICES ASSUME NEW a \in Admins, edit[a] # NoEdit
               PROVE  /\ Lowers \/ Spent(edit[a].policy)' <= edit[a].row.limit
                      /\ edit[a].row.status \in {"absent", "inactive"}
                            => Spent(edit[a].policy)' = 0
    BY <1>1 DEF EditsFit
  <2>1. edit[a].policy \in Policies /\ edit[a].row.limit \in Nat
    BY RowsAreRecords DEF BudgetOK, BudgetTypeInv, BudgetTypeOK
  <2>2. edit[a].policy # p0
    BY <1>1, <1>2, <1>3 DEF BudgetInv, LoadedIsCurrent, Editing
  <2>3. PICK q \in Policies : q = edit[a].policy
    BY <2>1
  <2>4. Spent(edit[a].policy)' = Spent(q)'
    BY <1>1, <2>3
  <2>5. Spent(q)' <= Spent(q) /\ Spent(q) \in Nat /\ Spent(q)' \in Nat
    BY <1>8, <2>2, <2>3
  <2>6. /\ Lowers \/ Spent(q) <= edit[a].row.limit
        /\ edit[a].row.status \in {"absent", "inactive"} => Spent(q) = 0
    BY <2>3 DEF BudgetInv, EditsFit
  <2> HIDE DEF EditsFit
  <2>7. QED
    BY <2>1, <2>4, <2>5, <2>6
<1>14. InactiveIsUnspent'
  <2>1. SUFFICES ASSUME NEW p \in Policies, row[p].status \in {"absent", "inactive"}
                 PROVE  Spent(p)' = 0
    BY <1>1 DEF InactiveIsUnspent
  <2>2. p # p0
    BY <1>7, <2>1 DEF Enabled
  <2>3. Spent(p) = 0
    BY <2>1 DEF BudgetInv, InactiveIsUnspent
  <2>4. QED
    BY <1>8, <2>2, <2>3
<1>15. LearnerWithinLimit'
  <2>1. SUFFICES ASSUME NEW p \in Policies, NEW l, LimitKind[p] # "none",
                        \E x \in Pairs : l = Learner[x]
                 PROVE  LearnerUse(p, l)' <= LearnerLimit
    BY <2>1 DEF LearnerWithinLimit
  <2>2. LearnerUse(p, l) <= LearnerLimit
    BY <2>1 DEF BudgetInv, LearnerWithinLimit
  <2>3. CASE p = p0 /\ l = Learner[x0]
    BY <1>6, <1>7, <1>9, <2>1, <2>3
  <2>4. CASE ~(p = p0 /\ l = Learner[x0])
    BY <1>6, <1>9, <2>2, <2>4
  <2>5. QED
    BY <2>3, <2>4
<1>16. QED
  BY <1>11, <1>12, <1>13, <1>14, <1>15

(* What is saved has been compared with what is spent, and no request that *)
(* runs can have spent since.                                              *)
LEMMA StoreStep ==
    ASSUME BudgetOK, BudgetOK', BudgetInv, NEW a \in Admins, Store(a)
    PROVE  PostedFits' /\ SpendWithinLimit' /\ EditsFit' /\ InactiveIsUnspent' /\ LearnerWithinLimit'
<1>1. /\ edit[a] # NoEdit /\ UNCHANGED <<pc, key, ledger>>
      /\ row' = [row EXCEPT ![edit[a].policy] = edit[a].row]
      /\ edit' = [edit EXCEPT ![a] = NoEdit]
  BY DEF Store, vars
<1>2. PICK p0 \in Policies, r \in Rows : p0 = edit[a].policy /\ r = edit[a].row
  BY <1>1 DEF BudgetOK, BudgetTypeInv, BudgetTypeOK
<1>3. /\ row \in [Policies -> Rows] /\ edit \in [Admins -> Edits \cup {NoEdit}]
      /\ row' = [row EXCEPT ![p0] = r]
  BY <1>1, <1>2 DEF BudgetOK, BudgetTypeInv, BudgetTypeOK, Edits
<1>4. /\ Lowers \/ Spent(p0) <= r.limit
      /\ r.status \in {"absent", "inactive"} => Spent(p0) = 0
  BY <1>1, <1>2 DEF BudgetInv, EditsFit
<1>5. ASSUME NEW p PROVE Spent(p)' = Spent(p)
  BY <1>1, SpentIsPaid
<1>6. PostedFits'
  <2>1. SUFFICES ASSUME NEW w \in Workers, pc'[w] = "posted"
                 PROVE  Fits(key[w].policy, key[w].pair)'
    BY DEF PostedFits
  <2>2. pc[w] = "posted" /\ key'[w] = key[w]
    BY <1>1, <2>1
  <2>3. key[w].policy \in Policies /\ key[w].policy # p0
    BY <1>1, <1>2, <2>2, KeyIsIn DEF BudgetInv, LoadedIsCurrent, Editing
  <2>4. row'[key[w].policy] = row[key[w].policy]
    BY <1>3, <2>3
  <2>5. LighterAt(key[w].policy)
    BY <1>1, <2>3, SameLedgerIsLighter DEF Lighter
  <2>6. Fits(key[w].policy, key[w].pair)
    BY <2>2 DEF BudgetInv, PostedFits
  <2>7. QED
    BY <2>2, <2>4, <2>5, <2>6, WorkerFits
<1>7. SpendWithinLimit'
  <2>1. SUFFICES ASSUME ~Lowers, NEW p \in Policies PROVE Spent(p)' <= row'[p].limit
    BY DEF SpendWithinLimit
  <2>2. Spent(p) <= row[p].limit
    BY <2>1 DEF BudgetInv, SpendWithinLimit
  <2>3. QED
    BY <1>3, <1>4, <1>5, <2>1, <2>2
<1>8. InactiveIsUnspent'
  <2>1. SUFFICES ASSUME NEW p \in Policies, row'[p].status \in {"absent", "inactive"}
                 PROVE  Spent(p)' = 0
    BY DEF InactiveIsUnspent
  <2>2. CASE p = p0
    BY <1>3, <1>4, <1>5, <2>1, <2>2
  <2>3. CASE p # p0
    BY <1>3, <1>5, <2>1, <2>3 DEF BudgetInv, InactiveIsUnspent
  <2>4. QED
    BY <2>2, <2>3
<1>9. EditsFit'
  <2> SUFFICES ASSUME NEW b \in Admins, edit'[b] # NoEdit
               PROVE  /\ Lowers \/ Spent(edit[b].policy)' <= edit'[b].row.limit
                      /\ edit'[b].row.status \in {"absent", "inactive"}
                            => Spent(edit[b].policy)' = 0
    BY DEF EditsFit
  <2>1. PICK p : p = edit'[b].policy
    OBVIOUS
  <2>2. Spent(edit[b].policy)' = Spent(p)
    BY <1>5, <2>1
  <2>3. edit'[b] = edit[b]
    BY <1>1, <1>3
  <2>4. QED
    BY <2>1, <2>2, <2>3 DEF BudgetInv, EditsFit
<1>10. LearnerWithinLimit'
  <2>1. ASSUME NEW p, NEW l PROVE LearnerUse(p, l)' = LearnerUse(p, l)
    BY <1>1, UseIs
  <2>2. QED
    BY <2>1 DEF BudgetInv, LearnerWithinLimit
<1>11. QED
  BY <1>6, <1>7, <1>8, <1>9, <1>10

(* What clean() and the guards of the requests that edit a policy leave.   *)
LEMMA OpenedFits ==
    ASSUME BudgetOK, BudgetInv, NEW p \in Policies, NEW r \in Rows,
           \/ Clean(p, r) /\ (Lowers \/ r.limit >= Spent(p)) /\ r.status # "absent"
           \/ row[p].status = "absent"
           \/ r = row[p]
    PROVE  /\ Lowers \/ Spent(p) <= r.limit
           /\ r.status \in {"absent", "inactive"} => Spent(p) = 0
<1>1. Spent(p) \in Nat /\ r.limit \in Nat /\ row[p] \in Rows
  BY BudgetNumbers, RowsAreRecords
<1>2. row[p].status \in {"absent", "inactive"} => Spent(p) = 0
  BY DEF BudgetInv, InactiveIsUnspent
<1>3. Lowers \/ Spent(p) <= row[p].limit
  BY DEF BudgetInv, SpendWithinLimit
<1>4. CASE r = row[p]
  BY <1>2, <1>3, <1>4
<1>5. CASE row[p].status = "absent"
  BY <1>1, <1>2, <1>5
<1>6. CASE Clean(p, r) /\ (Lowers \/ r.limit >= Spent(p)) /\ r.status # "absent"
  <2>1. r.status = "inactive" /\ row[p].status \in Counted => Spent(p) = 0
    BY <1>6 DEF Clean, CleanDeactivation
  <2>2. row[p].status \in Counted \cup {"absent", "inactive"}
    BY <1>1, RowsAreRecords DEF Counted
  <2>3. QED
    BY <1>1, <1>2, <1>6, <2>1, <2>2
<1>7. QED
  BY <1>4, <1>5, <1>6

LEMMA BudgetInvStep ==
    ASSUME ~Overlap, BudgetOK, BudgetOK', HolderKeepsLock, BudgetInv, [BudgetNext]_bvars
    PROVE  BudgetInv'
<1> DEFINE Rest == /\ PostedFits' /\ SpendWithinLimit' /\ EditsFit'
                   /\ InactiveIsUnspent' /\ LearnerWithinLimit'
<1>1. LoadedIsCurrent'
  BY LoadedStep DEF BudgetInv
<1>2. SUFFICES Rest
  BY <1>1 DEF BudgetInv
<1>3. pc \in [Workers -> Phases] /\ key \in [Workers -> Keys \cup {NoKey}]
  BY DEF BudgetOK, LedgerOK, TypeOK
<1>4. ASSUME UNCHANGED <<ledger, row, edit>>,
             \A w \in Workers : pc'[w] = "posted" =>
                /\ pc[w] # "idle" /\ key'[w] = key[w]
                /\ pc[w] = "posted" \/ Fits(key[w].policy, key[w].pair)
      PROVE  Rest
  BY <1>4, CalmStep, SameLedgerIsLighter
<1>5. ASSUME NEW a \in Admins, NEW p \in Policies, NEW r \in Rows, Checked(a, p, r),
             UNCHANGED <<vars, row>>,
             \/ Clean(p, r) /\ (Lowers \/ r.limit >= Spent(p)) /\ r.status # "absent"
             \/ row[p].status = "absent"
             \/ r = row[p]
      PROVE  Rest
  <2>1. /\ Lowers \/ Spent(p) <= r.limit
        /\ r.status \in {"absent", "inactive"} => Spent(p) = 0
    BY <1>5, OpenedFits
  <2> DEFINE e == [policy |-> p, row |-> r, checked |-> TRUE]
  <2>2. edit' = [edit EXCEPT ![a] = e] /\ e.policy = p /\ e.row = r
    BY <1>5 DEF Checked
  <2> HIDE DEF e
  <2>3. QED
    BY <1>5, <2>1, <2>2, EditStep
<1>6. ASSUME NEW a \in Admins, edit' = [edit EXCEPT ![a] = NoEdit], UNCHANGED <<vars, row>>
      PROVE  Rest
  BY <1>6, EditStep
<1>7. ASSUME NEW x \in Pairs, NEW override \in BOOLEAN, View(x, override) PROVE Rest
  BY <1>4, <1>7 DEF View, vars
<1>8. ASSUME NEW w \in Workers, NEW p \in Policies, NEW x \in Pairs, StartRedeem(w, p, x)
      PROVE  Rest
  <2>1. /\ UNCHANGED <<ledger, row, edit>> /\ pc' = [pc EXCEPT ![w] = "locked"]
        /\ key' = [key EXCEPT ![w] = [policy |-> p, pair |-> x, past |-> {}]]
    BY <1>8 DEF StartRedeem, Acquire
  <2>2. QED
    BY <1>3, <1>4, <2>1
<1>9. ASSUME NEW w \in Workers, Redeem(w) PROVE Rest
  <2>1. /\ UNCHANGED <<ledger, key, row, edit>> /\ pc[w] = "read"
        /\ pc' = [pc EXCEPT ![w] = "posted"]
        /\ Redeemable(seen[w], key[w].policy, key[w].pair, FALSE)
    BY <1>9 DEF Redeem, Post, mine
  <2>2. seen[w] = row[key[w].policy]
    BY <2>1 DEF BudgetInv, LoadedIsCurrent
  <2>3. Fits(key[w].policy, key[w].pair)
    BY <2>1, <2>2 DEF Redeemable, Fits
  <2>4. QED
    BY <1>3, <1>4, <2>1, <2>3
<1>10. ASSUME NEW w \in Workers, EndRedeem(w) PROVE Rest
  <2>1. /\ UNCHANGED <<ledger, row, edit>> /\ pc' = [pc EXCEPT ![w] = "idle"]
        /\ key' = [key EXCEPT ![w] = NoKey]
    BY <1>10 DEF EndRedeem, Leave, Crash
  <2>2. QED
    BY <1>3, <1>4, <2>1
<1>11. ASSUME NEW w \in Workers, ReadHistory(w) \/ Refuse(w), UNCHANGED mine PROVE Rest
  BY <1>3, <1>4, <1>11 DEF ReadHistory, Refuse, mine
<1>12. ASSUME NEW w \in Workers, Serve(w), UNCHANGED mine PROVE Rest
  BY <1>12, ServeStep
<1>13. ASSUME NEW p \in Policies, Expire(p), UNCHANGED mine PROVE Rest
  BY <1>3, <1>4, <1>13 DEF Expire, mine
<1>14. ASSUME NEW i \in DOMAIN ledger, Settle(i) \/ Reverse(i), UNCHANGED mine PROVE Rest
  <2>1. UNCHANGED <<pc, key, row, edit>>
    BY <1>14 DEF Settle, Reverse, mine
  <2>2. QED
    BY <1>14, <2>1, SetStateIsLighter, CalmStep
<1>15. ASSUME NEW a \in Admins, NEW p \in Policies, NEW r \in Rows, OpenEdit(a, p, r) PROVE Rest
  BY <1>5, <1>15 DEF OpenEdit, Writable
<1>16. ASSUME NEW a \in Admins, NEW p \in Policies, NEW r \in Rows, OpenCreate(a, p, r) PROVE Rest
  BY <1>5, <1>16 DEF OpenCreate
<1>17. ASSUME NEW a \in Admins, NEW p \in Policies, OpenDelete(a, p) PROVE Rest
  <2> DEFINE r == Deactivated(p)
  <2>1. row[p] \in Rows
    BY BudgetNumbers
  <2>2. r \in Rows /\ r.status = "inactive" /\ r.limit = row[p].limit
    BY <2>1, RowsAreRecords DEF Deactivated, Rows
  <2>3. Spent(p) \in Nat /\ row[p].limit \in Nat /\ (Lowers \/ Spent(p) <= row[p].limit)
    BY BudgetNumbers DEF BudgetInv, SpendWithinLimit
  <2>4. Checked(a, p, r) /\ UNCHANGED <<vars, row>> /\ Clean(p, r)
    BY <1>17 DEF OpenDelete
  <2> HIDE DEF r
  <2>5. Lowers \/ r.limit >= Spent(p)
    BY <2>2, <2>3
  <2>6. QED
    BY <1>5, <2>2, <2>4, <2>5
<1>18. ASSUME NEW a \in Admins, NEW p \in Policies, OpenLateRedemption(a, p) PROVE Rest
  <2>1. PICK r \in Rows : r = row[p]
    BY BudgetNumbers
  <2>2. Checked(a, p, r) /\ UNCHANGED <<vars, row>>
    BY <1>18, <2>1 DEF OpenLateRedemption
  <2>3. QED
    BY <1>5, <2>1, <2>2
<1>19. ASSUME NEW a \in Admins, NEW p \in Policies, Deposit(a, p) PROVE Rest
  <2> DEFINE e == [policy |-> p, row |-> row[p], checked |-> FALSE]
  <2>1. UNCHANGED <<vars, row>> /\ (edit' = [edit EXCEPT ![a] = e] \/ UNCHANGED edit)
    BY <1>19 DEF Deposit
  <2>2. e.policy = p /\ e.row = row[p]
    OBVIOUS
  <2> HIDE DEF e
  <2>3. /\ Lowers \/ Spent(e.policy) <= e.row.limit
        /\ e.row.status \in {"absent", "inactive"} => Spent(e.policy) = 0
    BY <2>2 DEF BudgetInv, SpendWithinLimit, InactiveIsUnspent
  <2>4. CASE UNCHANGED edit
    BY <1>4, <2>1, <2>4 DEF vars
  <2>5. QED
    BY <2>1, <2>3, <2>4, EditStep
<1>20. ASSUME NEW a \in Admins, TopUp(a) PROVE Rest
  <2>1. UNCHANGED <<vars, row>> /\ edit[a] # NoEdit /\ ~edit[a].checked
    BY <1>20 DEF TopUp
  <2>2. PICK p \in Policies, q \in Rows : p = edit[a].policy /\ q = edit[a].row
    BY <2>1 DEF BudgetOK, BudgetTypeInv, BudgetTypeOK
  <2>3. q.limit < SpendLimit
    BY <2>1, <2>2 DEF BudgetOK, BudgetTypeInv, RoomToTopUp
  <2> DEFINE r == [q EXCEPT !.limit = @ + 1]
  <2>4. r \in Rows /\ r.limit = q.limit + 1 /\ r.status = q.status
    BY <2>3, RowsAreRecords DEF Rows
  <2>5. Checked(a, p, r) \/ edit' = [edit EXCEPT ![a] = NoEdit]
    BY <1>20, <2>2 DEF TopUp
  <2>6. CASE Checked(a, p, r)
    <3> DEFINE e == [policy |-> p, row |-> r, checked |-> TRUE]
    <3>1. edit' = [edit EXCEPT ![a] = e]
      BY <2>6 DEF Checked
    <3>2. e.policy = p /\ e.row.limit = q.limit + 1 /\ e.row.status = q.status
      BY <2>4
    <3> HIDE DEF e, r
    <3>3. /\ Lowers \/ Spent(p) <= q.limit
          /\ q.status \in {"absent", "inactive"} => Spent(p) = 0
      BY <2>1, <2>2 DEF BudgetInv, EditsFit
    <3>4. Spent(p) \in Nat /\ q.limit \in Nat
      BY BudgetNumbers, RowsAreRecords
    <3>5. /\ Lowers \/ Spent(e.policy) <= e.row.limit
          /\ e.row.status \in {"absent", "inactive"} => Spent(e.policy) = 0
      BY <3>2, <3>3, <3>4
    <3>6. QED
      BY <2>1, <3>1, <3>5, EditStep
  <2>7. QED
    BY <1>6, <2>1, <2>5, <2>6
<1>21. ASSUME NEW a \in Admins, Store(a) PROVE Rest
  BY <1>21, StoreStep
<1>22. ASSUME NEW a \in Admins, Abandon(a) PROVE Rest
  BY <1>6, <1>22 DEF Abandon
<1>23. ASSUME UNCHANGED bvars PROVE Rest
  <2>1. UNCHANGED <<pc, key, ledger, row, edit>>
    BY <1>23 DEF bvars, vars, mine
  <2>2. \A w \in Workers : pc'[w] = "posted" => pc[w] = "posted" /\ key'[w] = key[w]
    BY <2>1
  <2>3. QED
    BY <1>4, <2>1, <2>2
<1> HIDE DEF Rest
<1>24. ASSUME Proceed PROVE Rest
  BY <1>11, <1>12, <1>13, <1>14, <1>24 DEF Proceed
<1>25. QED
  BY <1>7, <1>8, <1>9, <1>10, <1>15, <1>16, <1>17, <1>18, <1>19, <1>20, <1>21, <1>22,
     <1>23, <1>24 DEF BudgetNext

LEMMA BudgetInvInit == BudgetInit => BudgetInv
<1> SUFFICES ASSUME BudgetInit PROVE BudgetInv
  OBVIOUS
<1>1. BudgetOK /\ LedgerOK /\ DOMAIN ledger = {}
  BY BudgetTypeInit, LedgerInit DEF BudgetOK, BudgetInit, Init
<1>2. ASSUME NEW p PROVE Spent(p) = 0
  <2>1. LiveIn(ledger, p) = {}
    BY <1>1 DEF LiveIn
  <2>2. IsFiniteSet(DOMAIN ledger)
    BY <1>1 DEF LedgerOK
  <2>3. QED
    BY <2>1, <2>2, PaidOfNothing, SpentIsPaid
<1>3. ASSUME NEW p, NEW l PROVE LearnerUse(p, l) = 0
  <2>1. UsesIn(ledger, p, l) = {}
    BY <1>1 DEF UsesIn
  <2>2. IsFiniteSet(DOMAIN ledger)
    BY <1>1 DEF LedgerOK
  <2>3. UseOf(ledger, p, l) = 0
    BY <2>1, <2>2, PaidOfNothing, FS_EmptySet DEF UseOf
  <2>4. QED
    BY <2>3, UseIs
<1>4. \A w \in Workers : pc[w] = "idle"
  BY DEF BudgetInit, Init
<1>5. \A a \in Admins : edit[a] = NoEdit
  BY DEF BudgetInit
<1>6. LoadedIsCurrent /\ PostedFits
  BY <1>4 DEF LoadedIsCurrent, PostedFits
<1>7. SpendWithinLimit /\ InactiveIsUnspent
  <2>1. ASSUME NEW p \in Policies PROVE Spent(p) <= row[p].limit
    BY <1>1, <1>2, BudgetNumbers
  <2>2. QED
    BY <1>2, <2>1 DEF SpendWithinLimit, InactiveIsUnspent
<1>8. EditsFit
  BY <1>5 DEF EditsFit
<1>9. LearnerWithinLimit
  BY <1>3, BudgetAssumption DEF LearnerWithinLimit
<1>10. QED
  BY <1>6, <1>7, <1>8, <1>9 DEF BudgetInv

-----------------------------------------------------------------------------
(* No policy is edited while a redemption runs in it, and no request       *)
(* outlives the timeout of its lock's key.                                 *)
Undisturbed == ~SlowRequests /\ ~Overlap

LEMMA BudgetOKTheorem == BudgetSpec => []BudgetOK
<1>1. BudgetInit => BudgetOK
  BY BudgetTypeInit, LedgerInit DEF BudgetOK, BudgetInit
<1>2. BudgetOK /\ [BudgetNext]_bvars => BudgetOK'
  BY BudgetTypeStep, LedgerStep, BudgetStep DEF BudgetOK
<1>3. QED
  BY <1>1, <1>2, PTL DEF BudgetSpec

(* What a request checks with the policy as it has loaded it, before it    *)
(* took the lock, is still so when its post is served: the budget of the   *)
(* policy and the limit of the learner, and that it is active.             *)
THEOREM BudgetInvTheorem == Undisturbed => (BudgetSpec => []BudgetInv)
<1> SUFFICES ASSUME Undisturbed PROVE BudgetSpec => []BudgetInv
  OBVIOUS
<1>1. BudgetSpec => []HolderKeepsLock
  <2>1. Spec => []HolderKeepsLock
    BY HolderKeepsLockTheorem DEF Undisturbed
  <2>2. BudgetSpec => Spec
    BY BudgetImplementsRedeem DEF ImplementsRedeem
  <2>3. QED
    BY <2>1, <2>2
<1>2. BudgetOK /\ BudgetOK' /\ HolderKeepsLock /\ BudgetInv /\ [BudgetNext]_bvars => BudgetInv'
  BY BudgetInvStep DEF Undisturbed
<1>3. QED
  BY <1>1, <1>2, BudgetInvInit, BudgetOKTheorem, PTL DEF BudgetSpec

(* No learner gets more out of a policy than its limit per learner,        *)
(* although can_redeem() counts the transactions of the learner and the    *)
(* subsidy makes the next one later: all of them are made under the lock   *)
(* of the policy, after a check made under the same lock.                  *)
THEOREM LearnerLimitTheorem == Undisturbed => (BudgetSpec => []LearnerWithinLimit)
<1>1. BudgetInv => LearnerWithinLimit
  BY DEF BudgetInv
<1>2. QED
  BY <1>1, BudgetInvTheorem, PTL

(* A policy through which something was spent is not deactivated: the      *)
(* validation compares the spend with a row it has read before, and a      *)
(* redemption that would spend in between is kept out.                     *)
THEOREM InactiveIsUnspentTheorem == Undisturbed => (BudgetSpec => []InactiveIsUnspent)
<1>1. BudgetInv => InactiveIsUnspent
  BY DEF BudgetInv
<1>2. QED
  BY <1>1, BudgetInvTheorem, PTL

-----------------------------------------------------------------------------
(* Sums over policies.  R stands for the rows before or after a step.      *)
Limits(R) == [p \in Policies |-> R[p].limit]

LimitsIn(R, S) == MapThenSumSet(LAMBDA p : R[p].limit, S)

CountedIn(R) == {p \in Policies : R[p].status \in Counted}

LEMMA LimitsAreTotal ==
    ASSUME NEW R, NEW S \in SUBSET Policies
    PROVE  LimitsIn(R, S) = Total(Limits(R), S)
<1> DEFINE Rec(h) == h = [s \in SUBSET S |->
                            IF s = {} THEN 0
                            ELSE R[CHOOSE x \in s : TRUE].limit + h[s \ {CHOOSE x \in s : TRUE}]]
           g == CHOOSE h : Rec(h)
<1>1. ASSUME NEW h PROVE Rec(h) <=> SumsUp(h, Limits(R), S)
  <2>1. ASSUME NEW s \in SUBSET S
        PROVE  (IF s = {} THEN 0 ELSE Limits(R)[Pick(s)] + h[s \ {Pick(s)}])
                 = IF s = {} THEN 0
                   ELSE R[CHOOSE x \in s : TRUE].limit + h[s \ {CHOOSE x \in s : TRUE}]
    <3>1. s # {} => Limits(R)[Pick(s)] = R[Pick(s)].limit
      BY PickIn DEF Limits
    <3>2. QED
      BY <3>1 DEF Pick
  <2>2. QED
    BY <2>1 DEF SumsUp
<1>2. IsFiniteSet(S)
  BY FS_Subset, BudgetAssumption
<1>3. SumsUp(g, Limits(R), S)
  <2> HIDE DEF Rec
  <2>1. PICK h : SumsUp(h, Limits(R), S)
    BY <1>2, SumsUpExists
  <2>2. Rec(h)
    BY <1>1, <2>1
  <2>3. Rec(g)
    BY <2>2
  <2>4. QED
    BY <1>1, <2>3
<1>4. LimitsIn(R, S) = g[S]
  BY DEF LimitsIn, MapThenSumSet, MapThenFoldSet
<1> HIDE DEF g
<1>5. S \in SUBSET S
  OBVIOUS
<1>6. QED
  BY <1>2, <1>3, <1>4, <1>5, TotalIs

(* Saving p as r makes the sum of the limits what SumOfLimits computes.    *)
LEMMA SumOfLimitsIs ==
    ASSUME NEW p, NEW r
    PROVE  /\ SumOfLimits(p, r) = LimitsIn(row, CountedIn(row) \ {p})
                                    + (IF r.status \in Counted THEN r.limit ELSE 0)
           /\ SumOfLimits(p, r)' = LimitsIn(row', CountedIn(row') \ {p})
                                    + (IF r.status \in Counted THEN r.limit ELSE 0)
<1> DEFINE others == {q \in Policies \ {p} : row[q].status \in Counted}
<1>1. others = CountedIn(row) \ {p}
  BY DEF CountedIn
<1>2. others' = CountedIn(row') \ {p}
  BY DEF CountedIn
<1>3. SumOfLimits(p, r) = LimitsIn(row, others)
                            + (IF r.status \in Counted THEN r.limit ELSE 0)
  BY DEF SumOfLimits, LimitsIn, MapThenSumSet, MapThenFoldSet
<1>4. SumOfLimits(p, r)' = LimitsIn(row', others')
                            + (IF r.status \in Counted THEN r.limit ELSE 0)
  BY DEF SumOfLimits, LimitsIn, MapThenSumSet, MapThenFoldSet
<1>5. QED
  BY <1>1, <1>2, <1>3, <1>4

LEMMA LimitsWithinIs ==
    /\ LimitsWithinDeposits <=> LimitsIn(row, CountedIn(row)) <= deposits
    /\ LimitsWithinDeposits' <=> LimitsIn(row', CountedIn(row')) <= deposits'
<1>1. LimitsWithinDeposits <=> LimitsIn(row, CountedIn(row)) <= deposits
  BY DEF LimitsWithinDeposits, LimitsIn, CountedIn, MapThenSumSet, MapThenFoldSet
<1>2. LimitsWithinDeposits' <=> LimitsIn(row', CountedIn(row')) <= deposits'
  BY DEF LimitsWithinDeposits, LimitsIn, CountedIn, MapThenSumSet, MapThenFoldSet
<1>3. QED
  BY <1>1, <1>2

LEMMA LimitsWithout ==
    ASSUME NEW R, R \in [Policies -> Rows], NEW S \in SUBSET Policies, NEW p \in Policies
    PROVE  /\ LimitsIn(R, S) \in Nat /\ LimitsIn(R, S \ {p}) \in Nat
           /\ LimitsIn(R, S) = LimitsIn(R, S \ {p}) + (IF p \in S THEN R[p].limit ELSE 0)
<1>1. IsFiniteSet(S) /\ S \ {p} \in SUBSET Policies /\ IsFiniteSet(S \ {p})
  BY FS_Subset, BudgetAssumption
<1>2. \A q \in Policies : Limits(R)[q] = R[q].limit /\ Limits(R)[q] \in Nat
  BY RowsAreRecords DEF Limits
<1>3. Total(Limits(R), S) \in Nat /\ Total(Limits(R), S \ {p}) \in Nat
  BY <1>1, <1>2, TotalIsNat
<1>4. p \in S => Total(Limits(R), S) = Limits(R)[p] + Total(Limits(R), S \ {p})
  BY <1>1, <1>2, TotalTakesOut
<1> DEFINE T == S \ {p}
<1>5. p \notin S => T = S
  OBVIOUS
<1>6. T \in SUBSET Policies /\ Total(Limits(R), T) \in Nat
  BY <1>1, <1>3
<1>7. p \in S => Total(Limits(R), S) = Limits(R)[p] + Total(Limits(R), T)
  BY <1>4
<1> HIDE DEF T
<1>8. LimitsIn(R, S) = Total(Limits(R), S) /\ LimitsIn(R, T) = Total(Limits(R), T)
  BY <1>6, LimitsAreTotal
<1>9. R[p].limit \in Nat /\ Limits(R)[p] = R[p].limit
  BY <1>2
<1>10. LimitsIn(R, S) = LimitsIn(R, T) + (IF p \in S THEN R[p].limit ELSE 0)
  BY <1>3, <1>5, <1>6, <1>7, <1>8, <1>9
<1>11. QED
  BY <1>3, <1>6, <1>8, <1>10 DEF T

LEMMA LimitsOfSame ==
    ASSUME NEW R, NEW Q, NEW S \in SUBSET Policies, \A q \in S : R[q].limit = Q[q].limit
    PROVE  LimitsIn(R, S) = LimitsIn(Q, S)
<1>1. IsFiniteSet(S)
  BY FS_Subset, BudgetAssumption
<1>2. \A q \in S : Limits(R)[q] = Limits(Q)[q]
  BY DEF Limits
<1>3. QED
  BY <1>1, <1>2, TotalSame, LimitsAreTotal

-----------------------------------------------------------------------------
(* Limits and deposits, while one request at a time edits policies.        *)

(* An edit that was validated, or that leaves the limit and the activity   *)
(* of the policy alone, keeps the limits within the deposits.              *)
LEMMA EditKeepsLimits ==
    ASSUME BudgetTypeInv, LimitsWithinDeposits, NEW p \in Policies, NEW r \in Rows,
           Clean(p, r) \/ r.status \notin Counted \/ r = row[p]
    PROVE  SumOfLimits(p, r) <= deposits
<1> DEFINE C == CountedIn(row)
           T == C \ {p}
<1>1. row \in [Policies -> Rows] /\ deposits \in Nat /\ C \in SUBSET Policies
  BY BudgetAssumption DEF BudgetTypeInv, BudgetTypeOK, CountedIn
<1>2. p \in C <=> row[p].status \in Counted
  BY DEF CountedIn
<1> HIDE DEF C
<1>3. /\ LimitsIn(row, C) \in Nat /\ LimitsIn(row, T) \in Nat
      /\ LimitsIn(row, C) = LimitsIn(row, T) + (IF p \in C THEN row[p].limit ELSE 0)
  BY <1>1, LimitsWithout
<1>4. LimitsIn(row, C) <= deposits
  BY LimitsWithinIs DEF C
<1>5. SumOfLimits(p, r) = LimitsIn(row, T) + (IF r.status \in Counted THEN r.limit ELSE 0)
  BY SumOfLimitsIs DEF C
<1>6. r.limit \in Nat /\ row[p].limit \in Nat
  BY <1>1, RowsAreRecords
<1> HIDE DEF T
<1>7. CASE r.status \notin Counted
  BY <1>1, <1>3, <1>4, <1>5, <1>6, <1>7
<1>8. CASE r.status \in Counted /\ row[p].status \in Counted /\ r.limit = row[p].limit
  BY <1>1, <1>2, <1>3, <1>4, <1>5, <1>6, <1>8
<1>9. CASE Clean(p, r) /\ r.status \in Counted
             /\ ~(row[p].status \in Counted /\ r.limit = row[p].limit)
  BY <1>9 DEF Clean, CleanSpendLimit, IsActiveUpdated, IsSpendLimitUpdated
<1>10. QED
  BY <1>7, <1>8, <1>9

(* Nothing that the limits depend on changes, but perhaps an edit.         *)
LEMMA LimitsStay ==
    ASSUME BudgetTypeInv, BudgetTypeInv', LimitsInv, UNCHANGED row, deposits <= deposits',
           \A a \in Admins : edit'[a] # NoEdit /\ edit'[a].checked =>
              \/ edit'[a] = edit[a]
              \/ SumOfLimits(edit'[a].policy, edit'[a].row) <= deposits
    PROVE  LimitsInv'
<1>1. deposits \in Nat /\ deposits' \in Nat /\ row \in [Policies -> Rows]
  BY BudgetAssumption DEF BudgetTypeInv, BudgetTypeOK
<1>2. LimitsWithinDeposits'
  <2> DEFINE C == CountedIn(row)
  <2>1. C \in SUBSET Policies /\ CountedIn(row') = C /\ LimitsIn(row', C) = LimitsIn(row, C)
    BY DEF CountedIn
  <2> HIDE DEF C
  <2>2. LimitsIn(row, C) <= deposits
    BY LimitsWithinIs DEF LimitsInv, C
  <2>3. LimitsIn(row, C) \in Nat
    <3>1. IsFiniteSet(C) /\ \A q \in C : Limits(row)[q] \in Nat
      BY <1>1, <2>1, FS_Subset, BudgetAssumption, RowsAreRecords DEF Limits
    <3>2. QED
      BY <2>1, <3>1, TotalIsNat, LimitsAreTotal
  <2>4. QED
    BY <1>1, <2>1, <2>2, <2>3, LimitsWithinIs
<1>3. ASSUME NEW a \in Admins, edit'[a] # NoEdit /\ edit'[a].checked
      PROVE  SumOfLimits(edit[a].policy, edit[a].row)' <= deposits'
  <2>1. PICK p \in Policies, r \in Rows : p = edit'[a].policy /\ r = edit'[a].row
    BY <1>3 DEF BudgetTypeInv, BudgetTypeOK
  <2>2. SumOfLimits(p, r) <= deposits
    BY <1>3, <2>1 DEF LimitsInv
  <2>3. SumOfLimits(p, r)' = SumOfLimits(p, r)
    BY SumOfLimitsIs
  <2>4. SumOfLimits(edit[a].policy, edit[a].row)' = SumOfLimits(p, r)'
    BY <2>1
  <2>5. SumOfLimits(p, r) \in Nat
    <3> DEFINE C == CountedIn(row)
    <3>1. C \in SUBSET Policies
      BY DEF CountedIn
    <3> HIDE DEF C
    <3>2. LimitsIn(row, C \ {p}) \in Nat
      BY <1>1, <3>1, LimitsWithout
    <3>3. SumOfLimits(p, r) = LimitsIn(row, C \ {p})
                                + (IF r.status \in Counted THEN r.limit ELSE 0)
      BY SumOfLimitsIs DEF C
    <3>4. r.limit \in Nat
      BY RowsAreRecords
    <3>5. QED
      BY <3>2, <3>3, <3>4
  <2>6. QED
    BY <1>1, <2>2, <2>3, <2>4, <2>5
<1>4. QED
  BY <1>2, <1>3 DEF LimitsInv

(* The row that is saved has been compared with the deposits.              *)
LEMMA StoreKeepsLimits ==
    ASSUME BudgetTypeInv, LimitsInv, \A a, b \in Admins : a = b, NEW a \in Admins, Store(a)
    PROVE  LimitsInv'
<1>1. /\ edit[a] # NoEdit /\ edit[a].checked /\ UNCHANGED deposits
      /\ row' = [row EXCEPT ![edit[a].policy] = edit[a].row]
      /\ edit' = [edit EXCEPT ![a] = NoEdit]
  BY DEF Store
<1>2. PICK p \in Policies, r \in Rows : p = edit[a].policy /\ r = edit[a].row
  BY <1>1 DEF BudgetTypeInv, BudgetTypeOK
<1>3. /\ row \in [Policies -> Rows] /\ edit \in [Admins -> Edits \cup {NoEdit}]
      /\ row' = [row EXCEPT ![p] = r]
  BY <1>1, <1>2 DEF BudgetTypeInv, BudgetTypeOK, Edits
<1>4. row' \in [Policies -> Rows] /\ row'[p] = r
  BY <1>3
<1>5. \A b \in Admins : edit'[b] = NoEdit
  BY <1>1, <1>3
<1> DEFINE C == CountedIn(row')
           T == C \ {p}
<1>6. T = CountedIn(row) \ {p} /\ C \in SUBSET Policies /\ T \in SUBSET Policies
  BY <1>3 DEF CountedIn
<1>7. p \in C <=> r.status \in Counted
  BY <1>4 DEF CountedIn
<1>8. \A q \in T : row'[q].limit = row[q].limit
  BY <1>3, <1>6
<1>9. SumOfLimits(p, r) <= deposits
  BY <1>1, <1>2 DEF LimitsInv
<1>10. SumOfLimits(p, r) = LimitsIn(row, T) + (IF r.status \in Counted THEN r.limit ELSE 0)
  BY <1>6, SumOfLimitsIs
<1> HIDE DEF C
<1>11. LimitsIn(row', C) = LimitsIn(row', T) + (IF p \in C THEN row'[p].limit ELSE 0)
  BY <1>4, <1>6, LimitsWithout
<1> HIDE DEF T
<1>12. LimitsIn(row', T) = LimitsIn(row, T)
  BY <1>6, <1>8, LimitsOfSame
<1>13. LimitsIn(row', C) <= deposits'
  BY <1>1, <1>4, <1>7, <1>9, <1>10, <1>11, <1>12
<1>14. QED
  BY <1>5, <1>13, LimitsWithinIs DEF LimitsInv, C

LEMMA LimitsInit == BudgetInit => LimitsInv
<1> SUFFICES ASSUME BudgetInit PROVE LimitsInv
  OBVIOUS
<1>1. PICK p \in Policies :
        row = [q \in Policies |-> [status |-> IF q = p THEN "active" ELSE "absent",
                                   limit |-> IF q = p THEN 1 ELSE 0]]
  BY DEF BudgetInit
<1> DEFINE C == CountedIn(row)
<1>2. C = {p} /\ C \in SUBSET Policies /\ C \ {p} = {}
  BY <1>1 DEF CountedIn, Counted
<1>3. row \in [Policies -> Rows]
  BY BudgetTypeInit DEF BudgetTypeInv, BudgetTypeOK
<1> HIDE DEF C
<1>4. LimitsIn(row, C) = LimitsIn(row, C \ {p}) + (IF p \in C THEN row[p].limit ELSE 0)
  BY <1>2, <1>3, LimitsWithout
<1>5. LimitsIn(row, {}) = 0
  BY LimitsAreTotal, TotalEmpty
<1>6. row[p].limit = 1
  BY <1>1
<1>7. LimitsIn(row, C) = 1
  BY <1>2, <1>4, <1>5, <1>6
<1>8. deposits = 1 /\ \A a \in Admins : edit[a] = NoEdit
  BY DEF BudgetInit
<1>9. LimitsWithinDeposits
  BY <1>7, <1>8, LimitsWithinIs DEF C
<1>10. QED
  BY <1>8, <1>9 DEF LimitsInv

LEMMA LimitsStep ==
    ASSUME ~CreatedActive, \A a, b \in Admins : a = b,
           BudgetTypeInv, BudgetTypeInv', LimitsInv, [BudgetNext]_bvars
    PROVE  LimitsInv'
<1>1. deposits \in Nat /\ edit \in [Admins -> Edits \cup {NoEdit}]
  BY BudgetAssumption DEF BudgetTypeInv, BudgetTypeOK, Edits
<1>2. ASSUME UNCHANGED <<row, edit, deposits>> PROVE LimitsInv'
  BY <1>1, <1>2, LimitsStay
<1>3. ASSUME NEW a \in Admins, edit' = [edit EXCEPT ![a] = NoEdit], UNCHANGED <<row, deposits>>
      PROVE  LimitsInv'
  BY <1>1, <1>3, LimitsStay
<1>4. ASSUME NEW a \in Admins, NEW p \in Policies, NEW r \in Rows, Checked(a, p, r),
             Clean(p, r) \/ r.status \notin Counted \/ r = row[p],
             UNCHANGED <<row, deposits>>
      PROVE  LimitsInv'
  <2>1. SumOfLimits(p, r) <= deposits
    BY <1>4, EditKeepsLimits DEF LimitsInv
  <2> DEFINE e == [policy |-> p, row |-> r, checked |-> TRUE]
  <2>2. edit' = [edit EXCEPT ![a] = e] /\ e.policy = p /\ e.row = r
    BY <1>4 DEF Checked
  <2> HIDE DEF e
  <2>3. \A b \in Admins : edit'[b] = edit[b]
                            \/ SumOfLimits(edit'[b].policy, edit'[b].row) <= deposits
    BY <1>1, <2>1, <2>2
  <2>4. QED
    BY <1>1, <1>4, <2>3, LimitsStay
<1>5. CASE \E a \in Admins, p \in Policies, r \in Rows : OpenEdit(a, p, r)
  BY <1>4, <1>5 DEF OpenEdit
<1>6. CASE \E a \in Admins, p \in Policies, r \in Rows : OpenCreate(a, p, r)
  BY <1>4, <1>6 DEF OpenCreate, Counted
<1>7. ASSUME NEW a \in Admins, NEW p \in Policies, OpenDelete(a, p) \/ OpenLateRedemption(a, p)
      PROVE  LimitsInv'
  <2>1. row[p] \in Rows /\ Deactivated(p) \in Rows
    BY RowsAreRecords DEF BudgetTypeInv, BudgetTypeOK, Deactivated
  <2>2. PICK r \in Rows : Checked(a, p, r) /\ (Clean(p, r) \/ r = row[p])
    BY <1>7, <2>1 DEF OpenDelete, OpenLateRedemption
  <2>3. UNCHANGED <<row, deposits>>
    BY <1>7 DEF OpenDelete, OpenLateRedemption
  <2>4. QED
    BY <1>4, <2>2, <2>3
<1>8. ASSUME NEW a \in Admins, NEW p \in Policies, Deposit(a, p) PROVE LimitsInv'
  <2> DEFINE e == [policy |-> p, row |-> row[p], checked |-> FALSE]
  <2>1. UNCHANGED row /\ deposits' = deposits + 1
        /\ (edit' = [edit EXCEPT ![a] = e] \/ UNCHANGED edit)
    BY <1>8 DEF Deposit
  <2>2. ~e.checked
    OBVIOUS
  <2> HIDE DEF e
  <2>3. \A b \in Admins : edit'[b] # NoEdit /\ edit'[b].checked => edit'[b] = edit[b]
    BY <1>1, <2>1, <2>2
  <2>4. deposits <= deposits'
    BY <1>1, <2>1
  <2>5. QED
    BY <2>1, <2>3, <2>4, LimitsStay
<1>9. ASSUME NEW a \in Admins, TopUp(a) PROVE LimitsInv'
  <2>1. UNCHANGED <<row, deposits>> /\ edit[a] # NoEdit /\ ~edit[a].checked
    BY <1>9 DEF TopUp
  <2>2. PICK p \in Policies, q \in Rows : p = edit[a].policy /\ q = edit[a].row
    BY <2>1 DEF BudgetTypeInv, BudgetTypeOK
  <2>3. q.limit < SpendLimit
    BY <2>1, <2>2 DEF BudgetTypeInv, RoomToTopUp
  <2> DEFINE r == [q EXCEPT !.limit = @ + 1]
  <2>4. r \in Rows
    BY <2>3, RowsAreRecords
  <2>5. (Checked(a, p, r) /\ Clean(p, r)) \/ edit' = [edit EXCEPT ![a] = NoEdit]
    BY <1>9, <2>2 DEF TopUp
  <2> HIDE DEF r
  <2>6. QED
    BY <1>3, <1>4, <2>1, <2>4, <2>5
<1>10. CASE \E a \in Admins : Store(a)
  BY <1>10, StoreKeepsLimits
<1>11. CASE \E a \in Admins : Abandon(a)
  BY <1>3, <1>11 DEF Abandon
<1>12. CASE \/ \E x \in Pairs, override \in BOOLEAN : View(x, override)
            \/ \E w \in Workers, p \in Policies, x \in Pairs : StartRedeem(w, p, x)
            \/ \E w \in Workers : Redeem(w) \/ EndRedeem(w)
            \/ Proceed
            \/ UNCHANGED bvars
  BY <1>2, <1>12 DEF View, StartRedeem, Redeem, EndRedeem, Proceed, mine, bvars
<1>13. QED
  BY <1>5, <1>6, <1>7, <1>8, <1>9, <1>10, <1>11, <1>12 DEF BudgetNext

(* One request at a time edits policies, and policies are made inactive.   *)
OneEditor == (\A a, b \in Admins : a = b) /\ ~CreatedActive

(* Then the limits of the active policies never exceed what was deposited, *)
(* through edits, activations, deletions and deposits and wherever one of  *)
(* these requests dies: clean() compares them when a limit or the activity *)
(* of a policy changes, and what it compared is what is saved.  Redemptions*)
(* do not matter.                                                          *)
THEOREM LimitsTheorem == OneEditor => (BudgetSpec => []LimitsWithinDeposits)
<1> SUFFICES ASSUME OneEditor PROVE BudgetSpec => []LimitsWithinDeposits
  OBVIOUS
<1>1. BudgetTypeInv /\ BudgetTypeInv' /\ LimitsInv /\ [BudgetNext]_bvars => LimitsInv'
  BY LimitsStep DEF OneEditor
<1>2. LimitsInv => LimitsWithinDeposits
  BY DEF LimitsInv
<1>3. BudgetSpec => []BudgetTypeInv
  BY BudgetTypeInit, BudgetTypeStep, PTL DEF BudgetSpec
<1>4. QED
  BY <1>1, <1>2, <1>3, LimitsInit, PTL DEF BudgetSpec

-----------------------------------------------------------------------------
(* The spend of all policies together.                                     *)
SpentOf == [p \in Policies |-> Spent(p)]

LEMMA TotalSpentIs == TotalSpent = Total(SpentOf, Policies)
<1> DEFINE Rec(h) == h = [s \in SUBSET Policies |->
                            IF s = {} THEN 0
                            ELSE Spent(CHOOSE x \in s : TRUE) + h[s \ {CHOOSE x \in s : TRUE}]]
           g == CHOOSE h : Rec(h)
<1>1. ASSUME NEW h PROVE Rec(h) <=> SumsUp(h, SpentOf, Policies)
  <2>1. ASSUME NEW s \in SUBSET Policies
        PROVE  (IF s = {} THEN 0 ELSE SpentOf[Pick(s)] + h[s \ {Pick(s)}])
                 = IF s = {} THEN 0
                   ELSE Spent(CHOOSE x \in s : TRUE) + h[s \ {CHOOSE x \in s : TRUE}]
    <3>1. s # {} => SpentOf[Pick(s)] = Spent(Pick(s))
      BY PickIn DEF SpentOf
    <3>2. QED
      BY <3>1 DEF Pick
  <2>2. QED
    BY <2>1 DEF SumsUp
<1>2. IsFiniteSet(Policies)
  BY BudgetAssumption
<1>3. SumsUp(g, SpentOf, Policies)
  <2> HIDE DEF Rec
  <2>1. PICK h : SumsUp(h, SpentOf, Policies)
    BY <1>2, SumsUpExists
  <2>2. Rec(h)
    BY <1>1, <2>1
  <2>3. Rec(g)
    BY <2>2
  <2>4. QED
    BY <1>1, <2>3
<1>4. TotalSpent = g[Policies]
  BY DEF TotalSpent, MapThenSumSet, MapThenFoldSet
<1> HIDE DEF g
<1>5. Policies \in SUBSET Policies
  OBVIOUS
<1>6. QED
  BY <1>2, <1>3, <1>4, <1>5, TotalIs

LEMMA TotalSpentIsNat == BudgetOK => TotalSpent \in Nat
<1> SUFFICES ASSUME BudgetOK PROVE TotalSpent \in Nat
  OBVIOUS
<1>1. \A p \in Policies : SpentOf[p] \in Nat
  BY BudgetNumbers DEF SpentOf
<1>2. QED
  BY <1>1, TotalSpentIs, TotalIsNat, BudgetAssumption

(* Policies that are not active have spent nothing, and the others at most *)
(* their limits, whose sum is at most the deposits.                        *)
LEMMA BudgetsFitDeposits ==
    ASSUME BudgetOK, ~Lowers, SpendWithinLimit, InactiveIsUnspent, LimitsWithinDeposits
    PROVE  SpendWithinDeposits
<1> DEFINE C == CountedIn(row)
<1>1. C \in SUBSET Policies
  BY DEF CountedIn
<1>2. IsFiniteSet(Policies) /\ IsFiniteSet(C)
  BY <1>1, FS_Subset, BudgetAssumption
<1>3. ASSUME NEW p \in Policies
      PROVE  /\ SpentOf[p] \in Nat /\ Limits(row)[p] \in Nat
             /\ SpentOf[p] <= Limits(row)[p]
             /\ p \notin C => SpentOf[p] = 0
  <2>1. SpentOf[p] = Spent(p) /\ Limits(row)[p] = row[p].limit
    BY DEF SpentOf, Limits
  <2>2. Spent(p) \in Nat /\ row[p].limit \in Nat /\ row[p] \in Rows
    BY BudgetNumbers
  <2>3. Spent(p) <= row[p].limit
    BY DEF SpendWithinLimit
  <2>4. p \notin C => Spent(p) = 0
    BY <2>2, RowsAreRecords DEF CountedIn, Counted, InactiveIsUnspent
  <2>5. QED
    BY <2>1, <2>2, <2>3, <2>4
<1> HIDE DEF C
<1>4. Total(SpentOf, Policies) = Total(SpentOf, C)
  BY <1>1, <1>2, <1>3, TotalOfZeros
<1>5. Total(SpentOf, C) <= Total(Limits(row), C)
  BY <1>1, <1>2, <1>3, TotalAtMost
<1>6. Total(SpentOf, C) \in Nat /\ Total(Limits(row), C) \in Nat
  BY <1>1, <1>2, <1>3, TotalIsNat
<1>7. Total(Limits(row), C) <= deposits
  BY <1>1, LimitsAreTotal, LimitsWithinIs DEF C
<1>8. deposits \in Nat
  BY BudgetAssumption DEF BudgetOK, BudgetTypeInv, BudgetTypeOK
<1>9. QED
  BY <1>4, <1>5, <1>6, <1>7, <1>8, TotalSpentIs DEF SpendWithinDeposits

(* Policies that share a subsidy, each with a lock of its own, never spend *)
(* more than was deposited, although no check of a redemption is atomic    *)
(* with one of another policy: each stays within its own limit, and it is  *)
(* the limits that are compared with the deposits.                         *)
THEOREM SpendWithinDepositsTheorem ==
    Undisturbed /\ OneEditor /\ ~Lowers => (BudgetSpec => []SpendWithinDeposits)
<1> SUFFICES ASSUME Undisturbed, OneEditor, ~Lowers
             PROVE  BudgetSpec => []SpendWithinDeposits
  OBVIOUS
<1>1. BudgetSpec => []BudgetInv
  BY BudgetInvTheorem
<1>2. BudgetSpec => []LimitsWithinDeposits
  BY LimitsTheorem
<1>3. BudgetOK /\ BudgetInv /\ LimitsWithinDeposits => SpendWithinDeposits
  BY BudgetsFitDeposits DEF BudgetInv
<1>4. QED
  BY <1>1, <1>2, <1>3, BudgetOKTheorem, PTL

-----------------------------------------------------------------------------
(* One charge for a content, through whatever policies.                    *)

(* A live transaction of something that costs shows in its policy's spend. *)
LEMMA LiveIsPaid ==
    ASSUME BudgetOK, NEW i \in DOMAIN ledger, ledger[i].state \notin Dead,
           \A x \in Pairs : Price[x] > 0
    PROVE  Spent(ledger[i].key.policy) > 0
<1> DEFINE p == ledger[i].key.policy
           S == LiveIn(ledger, p)
           x == ledger[i].key.pair
<1>1. IsLedger(ledger) /\ x \in Pairs
  BY LedgerIsLedger, LedgerEntry DEF BudgetOK, LedgerOK
<1>2. S \in SUBSET DOMAIN ledger /\ i \in S /\ {i} \in SUBSET S /\ {i} \in SUBSET DOMAIN ledger
  BY DEF LiveIn
<1> HIDE DEF S
<1>3. PaidIn(ledger, {i}) = Price[x]
  <2>1. {} \in SUBSET (DOMAIN ledger \ {i}) /\ {} \cup {i} = {i}
    OBVIOUS
  <2>2. PaidIn(ledger, {} \cup {i}) = PaidIn(ledger, {}) + Price[x]
    BY <1>1, <2>1, PaidOfOneMore
  <2>3. PaidIn(ledger, {}) = 0
    BY <1>1, PaidOfNothing DEF IsLedger
  <2>4. Price[x] \in Nat
    BY <1>1, RedemptionAssumption
  <2>5. QED
    BY <2>1, <2>2, <2>3, <2>4
<1>4. PaidIn(ledger, {i}) <= PaidIn(ledger, S)
  BY <1>1, <1>2, PaidOfSubset
<1>5. PaidIn(ledger, S) \in Nat
  BY <1>1, <1>2, PaidIsNat
<1>6. Price[x] \in Nat /\ Price[x] > 0
  BY <1>1, RedemptionAssumption
<1>7. PaidIn(ledger, S) > 0
  BY <1>3, <1>4, <1>5, <1>6
<1>8. QED
  BY <1>7, SpentIsPaid DEF S

(* What the page may offer a policy for has no live transaction at all: one*)
(* through another policy counts towards that policy's spend, so the policy*)
(* is still active and its transactions are among those the view looks at. *)
LEMMA OfferedIsUnredeemed ==
    ASSUME BudgetOK, InactiveIsUnspent, \A p \in Policies : row[p].status # "retired",
           \A x \in Pairs : Price[x] > 0,
           NEW x \in Pairs, ~Waiting(x), Successful(x) = {}
    PROVE  Unredeemed(x)
<1> SUFFICES ASSUME NEW i \in History(x), ledger[i].state \notin Dead PROVE FALSE
  BY DEF Unredeemed
<1>1. i \in DOMAIN ledger /\ ledger[i].key.pair = x
  BY DEF History
<1>2. ledger[i].key.policy \in Policies /\ ledger[i].state \in States
  BY <1>1, LedgerEntry DEF BudgetOK, LedgerOK
<1>3. ledger[i].state = "committed"
  BY <1>2 DEF Waiting, States, Dead
<1> DEFINE p == ledger[i].key.policy
<1>4. Spent(p) > 0
  BY <1>1, LiveIsPaid
<1>5. p \in Policies /\ row[p] \in Rows
  BY <1>2, BudgetNumbers
<1> HIDE DEF p
<1>6. row[p].status = "active"
  <2>1. Spent(p) # 0
    BY <1>4 DEF p
  <2>2. row[p].status \notin {"absent", "inactive", "retired"}
    BY <1>5, <2>1 DEF InactiveIsUnspent
  <2>3. QED
    BY <1>5, <2>2, RowsAreRecords
<1>7. i \in OfLearner(p, Learner[x]) /\ p \in EnabledPolicies
  BY <1>1, <1>2, <1>6 DEF OfLearner, EnabledPolicies, Enabled, p
<1>8. i \in Redemptions(x)
  BY <1>7 DEF Redemptions, RedemptionsThrough
<1>9. QED
  BY <1>3, <1>8 DEF Successful

(* No transaction becomes live, no request starts and nothing is offered.  *)
LEMMA ChargesStay ==
    ASSUME BudgetOK, BudgetOK', ChargesOK, UNCHANGED offer,
           DOMAIN ledger' = DOMAIN ledger,
           \A i \in DOMAIN ledger :
              /\ ledger'[i].key = ledger[i].key
              /\ ledger[i].state \in Dead => ledger'[i].state \in Dead,
           \A w \in Workers : pc'[w] # "idle" =>
              /\ pc[w] # "idle" /\ key'[w].pair = key[w].pair
              /\ pc'[w] \in {"locked", "read", "posted"} => pc[w] \in {"locked", "read", "posted"}
    PROVE  ChargesOK'
<1>1. ChargedOnce'
  BY DEF ChargesOK, ChargedOnce
<1>2. ASSUME NEW x, Unredeemed(x) PROVE Unredeemed(x)'
  BY <1>2 DEF Unredeemed, History
<1>3. ASSUME NEW w \in Workers, NEW x, Serving(w, x)' PROVE Serving(w, x)
  BY <1>3 DEF Serving
<1>4. \A x \in Pairs : offer'[x] # NoOffer =>
        Unredeemed(x)' /\ \A w \in Workers : ~Serving(w, x)'
  BY <1>2, <1>3 DEF ChargesOK
<1>5. ASSUME NEW w \in Workers, pc'[w] \in {"locked", "read", "posted"}
      PROVE  Unredeemed(key[w].pair)'
  <2>1. PICK x : x = key[w].pair
    OBVIOUS
  <2>2. key'[w].pair = x /\ Unredeemed(x)
    BY <1>5, <2>1 DEF ChargesOK
  <2>3. QED
    BY <1>2, <2>2
<1>6. \A v, w \in Workers, x \in Pairs : Serving(v, x)' /\ Serving(w, x)' => v = w
  BY <1>3 DEF ChargesOK
<1>7. QED
  BY <1>1, <1>4, <1>5, <1>6 DEF ChargesOK

LEMMA ViewKeepsCharges ==
    ASSUME BudgetOK, ChargesOK, Portal, InactiveIsUnspent,
           \A p \in Policies : row[p].status # "retired", \A x \in Pairs : Price[x] > 0,
           NEW x \in Pairs, NEW override \in BOOLEAN, View(x, override)
    PROVE  ChargesOK'
<1>1. /\ ~Waiting(x) /\ UNCHANGED <<pc, key, ledger>>
      /\ \A y \in Pairs : y # x => offer'[y] = offer[y]
      /\ offer'[x] # NoOffer => Successful(x) = {}
  <2>1. offer \in [Pairs -> Policies \cup {NoOffer}]
    BY DEF BudgetOK, BudgetTypeInv, BudgetTypeOK
  <2>2. QED
    BY <2>1 DEF View, vars
<1>2. ChargedOnce'
  BY <1>1 DEF ChargesOK, ChargedOnce
<1>3. ASSUME NEW y PROVE Unredeemed(y)' <=> Unredeemed(y)
  BY <1>1 DEF Unredeemed, History
<1>4. ASSUME NEW w, NEW y PROVE Serving(w, y)' <=> Serving(w, y)
  BY <1>1 DEF Serving
<1>5. ASSUME NEW y \in Pairs, offer'[y] # NoOffer
      PROVE  Unredeemed(y)' /\ \A w \in Workers : ~Serving(w, y)'
  <2>1. CASE y = x
    <3>1. Unredeemed(x)
      BY <1>1, <1>5, <2>1, OfferedIsUnredeemed
    <3>2. \A w \in Workers : ~Serving(w, x)
      BY <1>1 DEF Waiting, Serving
    <3>3. QED
      BY <1>3, <1>4, <2>1, <3>1, <3>2
  <2>2. CASE y # x
    BY <1>1, <1>3, <1>4, <1>5, <2>2 DEF ChargesOK
  <2>3. QED
    BY <2>1, <2>2
<1>6. ASSUME NEW w \in Workers, pc'[w] \in {"locked", "read", "posted"}
      PROVE  Unredeemed(key[w].pair)'
  <2>1. PICK y : y = key[w].pair
    OBVIOUS
  <2>2. key'[w].pair = y /\ Unredeemed(y)
    BY <1>1, <1>6, <2>1 DEF ChargesOK
  <2>3. QED
    BY <1>3, <2>2
<1>7. \A v, w \in Workers, y \in Pairs : Serving(v, y)' /\ Serving(w, y)' => v = w
  BY <1>4 DEF ChargesOK
<1>8. QED
  BY <1>2, <1>5, <1>6, <1>7 DEF ChargesOK

(* A request starts with a policy that the page has offered.               *)
LEMMA StartKeepsCharges ==
    ASSUME BudgetOK, ChargesOK, Portal, NEW w \in Workers, NEW p \in Policies, NEW x \in Pairs,
           StartRedeem(w, p, x)
    PROVE  ChargesOK'
<1>1. /\ offer[x] = p /\ UNCHANGED ledger
      /\ pc' = [pc EXCEPT ![w] = "locked"]
      /\ key' = [key EXCEPT ![w] = [policy |-> p, pair |-> x, past |-> {}]]
      /\ offer' = [offer EXCEPT ![x] = NoOffer]
  BY DEF StartRedeem, Acquire
<1>2. /\ pc \in [Workers -> Phases] /\ key \in [Workers -> Keys \cup {NoKey}]
      /\ offer \in [Pairs -> Policies \cup {NoOffer}]
  BY DEF BudgetOK, BudgetTypeInv, BudgetTypeOK, TypeOK
<1>3. Unredeemed(x) /\ \A v \in Workers : ~Serving(v, x)
  BY <1>1, BudgetAssumption DEF ChargesOK
<1>4. ChargedOnce'
  BY <1>1 DEF ChargesOK, ChargedOnce
<1>5. ASSUME NEW y PROVE Unredeemed(y)' <=> Unredeemed(y)
  BY <1>1 DEF Unredeemed, History
<1>6. ASSUME NEW v \in Workers, NEW y
      PROVE  Serving(v, y)' <=> IF v = w THEN y = x ELSE Serving(v, y)
  <2>1. CASE v = w
    BY <1>1, <1>2, <2>1 DEF Serving
  <2>2. CASE v # w
    BY <1>1, <1>2, <2>2 DEF Serving
  <2>3. QED
    BY <2>1, <2>2
<1>7. ASSUME NEW y \in Pairs, offer'[y] # NoOffer
      PROVE  Unredeemed(y)' /\ \A v \in Workers : ~Serving(v, y)'
  <2>1. y # x /\ offer'[y] = offer[y]
    BY <1>1, <1>2, <1>7
  <2>2. Unredeemed(y) /\ \A v \in Workers : ~Serving(v, y)
    BY <1>7, <2>1 DEF ChargesOK
  <2>3. QED
    BY <1>5, <1>6, <2>1, <2>2
<1>8. ASSUME NEW v \in Workers, pc'[v] \in {"locked", "read", "posted"}
      PROVE  Unredeemed(key[v].pair)'
  <2>1. PICK y : y = key'[v].pair
    OBVIOUS
  <2>2. CASE v = w
    <3>1. y = x
      BY <1>1, <1>2, <2>1, <2>2
    <3>2. QED
      BY <1>3, <1>5, <2>1, <3>1
  <2>3. CASE v # w
    <3>1. y = key[v].pair /\ pc[v] \in {"locked", "read", "posted"}
      BY <1>1, <1>2, <1>8, <2>1, <2>3
    <3>2. Unredeemed(y)
      BY <3>1 DEF ChargesOK
    <3>3. QED
      BY <1>5, <2>1, <3>2
  <2>4. QED
    BY <2>2, <2>3
<1>9. \A v, u \in Workers, y \in Pairs : Serving(v, y)' /\ Serving(u, y)' => v = u
  BY <1>3, <1>6 DEF ChargesOK
<1>10. QED
  BY <1>4, <1>7, <1>8, <1>9 DEF ChargesOK

(* The only live transaction of a pair is made by the only request for it. *)
LEMMA ServeKeepsCharges ==
    ASSUME BudgetOK, BudgetOK', ChargesOK, NEW w \in Workers, Serve(w), UNCHANGED offer
    PROVE  ChargesOK'
<1>1. /\ pc[w] = "posted" /\ pc' = [pc EXCEPT ![w] = "leaving"] /\ key' = key
      /\ pc \in [Workers -> Phases]
  BY DEF Serve, BudgetOK, LedgerOK, TypeOK
<1>2. PICK k \in Keys : k = key[w] /\ Create(k)
  BY <1>1, KeyIsIn DEF Serve
<1>3. PICK x \in Pairs : x = k.pair
  BY <1>2 DEF Keys
<1>4. CASE UNCHANGED ledger
  BY <1>1, <1>4, ChargesStay
<1>5. CASE \E i \in TxIds : Adds(ledger, ledger', i, k)
  <2>1. PICK i : Adds(ledger, ledger', i, k)
    BY <1>5
  <2>2. Unredeemed(x) /\ Serving(w, x)
    BY <1>1, <1>2, <1>3 DEF ChargesOK, Serving
  <2>3. ASSUME NEW y, y # x, Unredeemed(y) PROVE Unredeemed(y)'
    BY <1>3, <2>1, <2>3 DEF Unredeemed, History, Adds
  <2>4. ASSUME NEW v \in Workers, NEW y PROVE Serving(v, y)' <=> Serving(v, y)
    BY <1>1 DEF Serving
  <2>5. ChargedOnce'
    <3> SUFFICES ASSUME NEW j \in DOMAIN ledger', NEW l \in DOMAIN ledger',
                        ledger'[j].key.pair = ledger'[l].key.pair,
                        {ledger'[j].state, ledger'[l].state} \cap Dead = {}
                 PROVE  j = l
      BY DEF ChargedOnce
    <3>1. ASSUME NEW h \in DOMAIN ledger, ledger[h].key.pair = x PROVE ledger[h].state \in Dead
      BY <2>2, <3>1 DEF Unredeemed, History
    <3>2. \A h \in DOMAIN ledger' : h = i \/ (h \in DOMAIN ledger /\ ledger'[h] = ledger[h])
      BY <2>1 DEF Adds
    <3>3. ledger'[i].key.pair = x
      BY <1>3, <2>1 DEF Adds
    <3>4. CASE j # i /\ l # i
      BY <3>2, <3>4 DEF ChargesOK, ChargedOnce
    <3>5. CASE j = i \/ l = i
      BY <3>1, <3>2, <3>3, <3>5
    <3>6. QED
      BY <3>4, <3>5
  <2>6. ASSUME NEW y \in Pairs, offer[y] # NoOffer
        PROVE  Unredeemed(y)' /\ \A v \in Workers : ~Serving(v, y)'
    BY <2>2, <2>3, <2>4, <2>6 DEF ChargesOK
  <2>7. ASSUME NEW v \in Workers, pc'[v] \in {"locked", "read", "posted"}
        PROVE  Unredeemed(key[v].pair)'
    <3>1. v # w /\ pc[v] \in {"locked", "read", "posted"}
      BY <1>1, <2>7
    <3>2. PICK y \in Pairs : y = key[v].pair
      BY <3>1, KeyIsIn
    <3>3. Unredeemed(y) /\ Serving(v, y)
      BY <3>1, <3>2 DEF ChargesOK, Serving
    <3>4. y # x
      BY <2>2, <3>1, <3>3 DEF ChargesOK
    <3>5. QED
      BY <1>1, <2>3, <3>2, <3>3, <3>4
  <2>8. \A v, u \in Workers, y \in Pairs : Serving(v, y)' /\ Serving(u, y)' => v = u
    BY <2>4 DEF ChargesOK
  <2>9. QED
    BY <2>5, <2>6, <2>7, <2>8 DEF ChargesOK
<1>6. QED
  BY <1>2, <1>4, <1>5, CreateAdds DEF BudgetOK

(* Nobody retires a policy.                                                *)
LEMMA NotRetiredStep ==
    ASSUME ~Retires, ~CreatedActive, BudgetTypeInv, NotRetired, [BudgetNext]_bvars
    PROVE  NotRetired'
<1>1. row \in [Policies -> Rows] /\ edit \in [Admins -> Edits \cup {NoEdit}]
  BY DEF BudgetTypeInv, BudgetTypeOK, Edits
<1>2. ASSUME NEW a \in Admins, NEW e, edit' = [edit EXCEPT ![a] = e], UNCHANGED row,
             e # NoEdit => e.row.status # "retired"
      PROVE  NotRetired'
  BY <1>1, <1>2 DEF NotRetired
<1>3. ASSUME NEW a \in Admins, NEW p \in Policies, NEW r \in Rows, Checked(a, p, r),
             UNCHANGED row, r.status # "retired"
      PROVE  NotRetired'
  <2> DEFINE e == [policy |-> p, row |-> r, checked |-> TRUE]
  <2>1. edit' = [edit EXCEPT ![a] = e] /\ e.row = r
    BY <1>3 DEF Checked
  <2> HIDE DEF e
  <2>2. QED
    BY <1>2, <1>3, <2>1
<1>4. CASE \E a \in Admins, p \in Policies, r \in Rows : OpenEdit(a, p, r) \/ OpenCreate(a, p, r)
  BY <1>3, <1>4 DEF OpenEdit, OpenCreate
<1>5. ASSUME NEW a \in Admins, NEW p \in Policies, OpenDelete(a, p) \/ OpenLateRedemption(a, p)
      PROVE  NotRetired'
  <2>1. row[p] \in Rows
    BY <1>1
  <2>2. /\ Deactivated(p) \in Rows /\ Deactivated(p).status = "inactive"
        /\ row[p].status # "retired"
    BY <2>1, RowsAreRecords DEF Deactivated, Rows, NotRetired
  <2>3. PICK r \in Rows : Checked(a, p, r) /\ r.status # "retired"
    BY <1>5, <2>1, <2>2 DEF OpenDelete, OpenLateRedemption
  <2>4. UNCHANGED row
    BY <1>5 DEF OpenDelete, OpenLateRedemption
  <2>5. QED
    BY <1>3, <2>3, <2>4
<1>6. ASSUME NEW a \in Admins, NEW p \in Policies, Deposit(a, p) PROVE NotRetired'
  <2> DEFINE e == [policy |-> p, row |-> row[p], checked |-> FALSE]
  <2>1. UNCHANGED row /\ (edit' = [edit EXCEPT ![a] = e] \/ UNCHANGED edit)
    BY <1>6 DEF Deposit
  <2>2. e.row.status # "retired"
    BY DEF NotRetired
  <2> HIDE DEF e
  <2>3. CASE UNCHANGED edit
    BY <2>1, <2>3 DEF NotRetired
  <2>4. QED
    BY <1>2, <2>1, <2>2, <2>3
<1>7. ASSUME NEW a \in Admins, TopUp(a) PROVE NotRetired'
  <2>1. UNCHANGED row /\ edit[a] # NoEdit /\ ~edit[a].checked
    BY <1>7 DEF TopUp
  <2>2. PICK p \in Policies, q \in Rows : p = edit[a].policy /\ q = edit[a].row
    BY <1>1, <2>1 DEF Edits
  <2>3. q.limit < SpendLimit /\ q.status # "retired"
    BY <2>1, <2>2 DEF BudgetTypeInv, RoomToTopUp, NotRetired
  <2> DEFINE r == [q EXCEPT !.limit = @ + 1]
  <2>4. r \in Rows /\ r.status # "retired"
    BY <2>3, RowsAreRecords DEF Rows
  <2>5. Checked(a, p, r) \/ edit' = [edit EXCEPT ![a] = NoEdit]
    BY <1>7, <2>2 DEF TopUp
  <2> HIDE DEF r
  <2>6. QED
    BY <1>2, <1>3, <2>1, <2>4, <2>5
<1>8. ASSUME NEW a \in Admins, Store(a) PROVE NotRetired'
  BY <1>1, <1>8 DEF Store, NotRetired, Edits
<1>9. ASSUME NEW a \in Admins, Abandon(a) PROVE NotRetired'
  BY <1>2, <1>9 DEF Abandon
<1>10. CASE \/ \E x \in Pairs, override \in BOOLEAN : View(x, override)
            \/ \E w \in Workers, p \in Policies, x \in Pairs : StartRedeem(w, p, x)
            \/ \E w \in Workers : Redeem(w) \/ EndRedeem(w)
            \/ Proceed
            \/ UNCHANGED bvars
  BY <1>10 DEF View, StartRedeem, Redeem, EndRedeem, Proceed, mine, bvars, NotRetired
<1>11. QED
  BY <1>4, <1>5, <1>6, <1>7, <1>8, <1>9, <1>10 DEF BudgetNext

LEMMA ChargesStep ==
    ASSUME Portal, \A x \in Pairs : Price[x] > 0, InactiveIsUnspent, NotRetired,
           BudgetOK, BudgetOK', ChargesOK, [BudgetNext]_bvars
    PROVE  ChargesOK'
<1>1. pc \in [Workers -> Phases] /\ key \in [Workers -> Keys \cup {NoKey}]
  BY DEF BudgetOK, LedgerOK, TypeOK
<1>2. ASSUME UNCHANGED <<ledger, offer>>,
             \A w \in Workers : pc'[w] # "idle" =>
                /\ pc[w] # "idle" /\ key'[w].pair = key[w].pair
                /\ pc'[w] \in {"locked", "read", "posted"} => pc[w] \in {"locked", "read", "posted"}
      PROVE  ChargesOK'
  BY <1>2, ChargesStay
<1>3. CASE \E x \in Pairs, override \in BOOLEAN : View(x, override)
  BY <1>3, ViewKeepsCharges DEF NotRetired
<1>4. CASE \E w \in Workers, p \in Policies, x \in Pairs : StartRedeem(w, p, x)
  BY <1>4, StartKeepsCharges
<1>5. ASSUME NEW w \in Workers, Redeem(w) PROVE ChargesOK'
  BY <1>1, <1>2, <1>5 DEF Redeem, Post, mine
<1>6. ASSUME NEW w \in Workers, EndRedeem(w) PROVE ChargesOK'
  <2>1. /\ UNCHANGED <<ledger, offer>> /\ pc' = [pc EXCEPT ![w] = "idle"]
        /\ key' = [key EXCEPT ![w] = NoKey]
    BY <1>6 DEF EndRedeem, Leave, Crash
  <2>2. QED
    BY <1>1, <1>2, <2>1
<1>7. ASSUME NEW w \in Workers, ReadHistory(w), UNCHANGED mine PROVE ChargesOK'
  <2>1. /\ UNCHANGED <<ledger, offer>> /\ pc[w] = "locked" /\ pc' = [pc EXCEPT ![w] = "read"]
        /\ key' = [key EXCEPT ![w].past = Past(key[w].pair)]
    BY <1>7 DEF ReadHistory, mine
  <2>2. \A v \in Workers : pc[v] # "idle" => key'[v].pair = key[v].pair
    BY <1>1, <2>1, KeyIsIn DEF Keys
  <2>3. QED
    BY <1>1, <1>2, <2>1, <2>2
<1>8. ASSUME NEW w \in Workers, Refuse(w), UNCHANGED mine PROVE ChargesOK'
  BY <1>1, <1>2, <1>8 DEF Refuse, mine
<1>9. ASSUME NEW w \in Workers, Serve(w), UNCHANGED mine PROVE ChargesOK'
  BY <1>9, ServeKeepsCharges DEF mine
<1>10. ASSUME NEW p \in Policies, Expire(p), UNCHANGED mine PROVE ChargesOK'
  BY <1>1, <1>2, <1>10 DEF Expire, mine
<1>11. ASSUME NEW i \in DOMAIN ledger, Settle(i) \/ Reverse(i), UNCHANGED mine PROVE ChargesOK'
  <2>1. PICK s \in States : SetState(i, s) /\ ledger[i].state \notin Dead
    BY <1>11 DEF Settle, Reverse, States, Dead
  <2>2. /\ DOMAIN ledger' = DOMAIN ledger
        /\ \A j \in DOMAIN ledger :
              /\ ledger'[j].key = ledger[j].key
              /\ ledger[j].state \in Dead => ledger'[j].state \in Dead
    BY <2>1 DEF SetState
  <2>3. UNCHANGED <<pc, key, offer>>
    BY <1>11 DEF Settle, Reverse, mine
  <2>4. QED
    BY <2>2, <2>3, ChargesStay
<1>12. CASE Proceed
  BY <1>7, <1>8, <1>9, <1>10, <1>11, <1>12 DEF Proceed
<1>13. CASE \/ \E a \in Admins, p \in Policies, r \in Rows :
                  OpenEdit(a, p, r) \/ OpenCreate(a, p, r)
            \/ \E a \in Admins, p \in Policies :
                  OpenDelete(a, p) \/ OpenLateRedemption(a, p) \/ Deposit(a, p)
            \/ \E a \in Admins : TopUp(a) \/ Store(a) \/ Abandon(a)
            \/ UNCHANGED bvars
  <2>1. UNCHANGED <<pc, key, ledger, offer>>
    BY <1>13 DEF OpenEdit, OpenCreate, OpenDelete, OpenLateRedemption, Deposit, TopUp, Store,
                 Abandon, vars, bvars, mine
  <2>2. QED
    BY <1>2, <2>1
<1>14. QED
  BY <1>3, <1>4, <1>5, <1>6, <1>12, <1>13 DEF BudgetNext

LEMMA ChargesInit == BudgetInit => ChargesOK /\ NotRetired
<1> SUFFICES ASSUME BudgetInit PROVE ChargesOK /\ NotRetired
  OBVIOUS
<1>1. /\ DOMAIN ledger = {} /\ \A w \in Workers : pc[w] = "idle"
      /\ \A x \in Pairs : offer[x] = NoOffer
      /\ \A a \in Admins : edit[a] = NoEdit
      /\ \A p \in Policies : row[p].status # "retired"
  BY DEF BudgetInit, Init
<1>2. QED
  BY <1>1 DEF ChargesOK, ChargedOnce, Serving, NotRetired

(* A learner who redeems only what the portal has offered is charged for a *)
(* content once, although each policy hashes another idempotency key and   *)
(* the view only looks at active policies: a live charge keeps its policy  *)
(* active.  A retired policy would not be looked at, hence ~Retires.       *)
THEOREM ChargedOnceTheorem ==
    Undisturbed /\ Portal /\ ~Retires /\ ~CreatedActive /\ (\A x \in Pairs : Price[x] > 0)
        => (BudgetSpec => []ChargedOnce)
<1> SUFFICES ASSUME Undisturbed, Portal, ~Retires, ~CreatedActive, \A x \in Pairs : Price[x] > 0
             PROVE  BudgetSpec => []ChargedOnce
  OBVIOUS
<1>1. BudgetSpec => []InactiveIsUnspent
  BY InactiveIsUnspentTheorem
<1>2. BudgetOK /\ NotRetired /\ [BudgetNext]_bvars => NotRetired'
  BY NotRetiredStep DEF BudgetOK
<1>3. /\ InactiveIsUnspent /\ NotRetired /\ BudgetOK /\ BudgetOK' /\ ChargesOK
      /\ [BudgetNext]_bvars
      => ChargesOK'
  BY ChargesStep
<1>4. ChargesOK => ChargedOnce
  BY DEF ChargesOK
<1>5. QED
  BY <1>1, <1>2, <1>3, <1>4, ChargesInit, BudgetOKTheorem, PTL DEF BudgetSpec

-----------------------------------------------------------------------------
(* The policy with assignments.                                            *)

(* Every step of the assigned policy is a step of Redemption, or changes   *)
(* only rows and the requests' own data.                                   *)
LEMMA AssignedStep == [AssignedNext]_assignedVars => [Next]_vars
<1> SUFFICES ASSUME [AssignedNext]_assignedVars PROVE Next \/ UNCHANGED vars
  OBVIOUS
<1> USE AssignedAssumption
<1>1. CASE \E w \in Workers, x \in Pairs : StartAssigned(w, x)
  BY <1>1 DEF StartAssigned, Next
<1>2. CASE \E w \in Workers : ReadTransactions(w)
  BY <1>2 DEF ReadTransactions, Next
<1>3. CASE \E w \in Workers : PostAssigned(w)
  BY <1>3 DEF PostAssigned, Next
<1>4. CASE \E w \in Workers : RefuseAssigned(w)
  BY <1>4 DEF RefuseAssigned, Next
<1>5. CASE \E w \in Workers : TimeOutAssigned(w)
  BY <1>5 DEF TimeOutAssigned, Next
<1>6. CASE \E w \in Workers : ServeAssigned(w)
  BY <1>6 DEF ServeAssigned, Next
<1>7. CASE \E w \in Workers : SaveRow(w)
  BY <1>7 DEF SaveRow, vars
<1>8. CASE \E w \in Workers, X \in SUBSET Pairs : StartAllocate(w, X)
  BY <1>8 DEF StartAllocate, Next
<1>9. CASE \E w \in Workers : CheckBudget(w)
  BY <1>9 DEF CheckBudget, vars
<1>10. CASE \E w \in Workers : WriteRows(w)
  BY <1>10 DEF WriteRows, Next
<1>11. CASE \E w \in Workers : LeaveAssigned(w)
  BY <1>11 DEF LeaveAssigned, Next
<1>12. CASE \E w \in Workers : CrashAssigned(w)
  BY <1>12 DEF CrashAssigned, Next
<1>13. CASE ExpireAssigned
  BY <1>13 DEF ExpireAssigned, Next
<1>14. CASE \E h \in Handlers, op \in Ops, x \in Pairs : ReadRow(h, op, x)
  BY <1>14 DEF ReadRow, vars
<1>15. CASE \E h \in Handlers : WriteRow(h)
  BY <1>15 DEF WriteRow, vars
<1>16. CASE SubsidyStep
  BY <1>16 DEF SubsidyStep, Next
<1>17. CASE UNCHANGED assignedVars
  BY <1>17 DEF assignedVars, vars
<1>18. QED
  BY <1>1, <1>2, <1>3, <1>4, <1>5, <1>6, <1>7, <1>8, <1>9, <1>10, <1>11, <1>12,
     <1>13, <1>14, <1>15, <1>16, <1>17 DEF AssignedNext

(* The assigned policy implements Redemption, whatever the unlocked writers*)
(* do to the rows.                                                         *)
THEOREM AssignedImplementsRedemption == AssignedSpec => ImplementsRedemption
<1>1. AssignedInit => Init
  BY DEF AssignedInit
<1>2. QED
  BY <1>1, AssignedStep, PTL DEF AssignedSpec, ImplementsRedemption, Spec

(* An assigned policy redeems at most once per learner and content, with   *)
(* unlocked writers that may bring a row back to allocated while it is     *)
(* redeemed: allocating again and redeeming again finds the same           *)
(* transaction.                                                            *)
THEOREM AssignedAtMostOneLive == AssignedSpec => []AtMostOneLive
  BY AssignedImplementsRedemption, AtMostOneLiveTheorem, PTL DEF ImplementsRedemption

-----------------------------------------------------------------------------
LEMMA CopyType ==
    ASSUME NEW c
    PROVE  c \in UNION {[X -> Assignments] : X \in SUBSET Pairs}
             <=> DOMAIN c \subseteq Pairs /\ c \in [DOMAIN c -> Assignments]
  OBVIOUS

LEMMA EmptyCopy == <<>> \in UNION {[X -> Assignments] : X \in SUBSET Pairs}
<1>1. <<>> \in [{} -> Assignments]
  OBVIOUS
<1>2. QED
  BY <1>1

LEMMA RowUpdate ==
    ASSUME NEW r \in Assignments, NEW s \in RowStates
    PROVE  /\ [r EXCEPT !.state = s] \in Assignments
           /\ [r EXCEPT !.state = s].state = s
           /\ [r EXCEPT !.state = s].tx = r.tx
  BY DEF Assignments

(* Transactions are never taken off the ledger and keep their keys.        *)
LEMMA LedgerGrows ==
    ASSUME TypeOK, [Next]_vars, NEW i \in DOMAIN ledger
    PROVE  i \in DOMAIN ledger' /\ ledger'[i].key = ledger[i].key
<1>1. ASSUME NEW k \in Keys, Create(k)
      PROVE  i \in DOMAIN ledger' /\ ledger'[i].key = ledger[i].key
  BY <1>1 DEF Create
<1>2. ASSUME NEW j \in DOMAIN ledger, NEW s \in States, SetState(j, s)
      PROVE  i \in DOMAIN ledger' /\ ledger'[i].key = ledger[i].key
  BY <1>2, LedgerEntry DEF SetState, TypeOK, Transactions
<1>3. CASE UNCHANGED ledger
  BY <1>3
<1>4. CASE \E w \in Workers : Serve(w)
  BY <1>1, <1>4 DEF Serve, TypeOK
<1>5. CASE \E k \in late : ServeLate(k)
  BY <1>1, <1>3, <1>5 DEF ServeLate, TypeOK
<1>6. CASE \E j \in DOMAIN ledger : Settle(j)
  BY <1>2, <1>6 DEF Settle, States
<1>7. CASE \E j \in DOMAIN ledger : Reverse(j)
  BY <1>2, <1>7 DEF Reverse, States
<1>8. QED
  BY <1>3, <1>4, <1>5, <1>6, <1>7
     DEF Next, vars, Acquire, ReadHistory, Post, Refuse, TimeOut, Leave, Crash, Expire

(* A key that the subsidy has served is used.                              *)
LEMMA CreateUses ==
    ASSUME NEW k, NEW l, Create(k), l = k
    PROVE  \E i \in DOMAIN ledger' : ledger'[i].key = l
<1>1. CASE Used(k)
  BY <1>1 DEF Create, Used
<1>2. CASE ~Used(k)
  <2>1. PICK i \in TxIds \ DOMAIN ledger, s \in {"pending", "committed", "failed"} :
          ledger' = [j \in DOMAIN ledger \cup {i} |->
                      IF j = i THEN [key |-> k, state |-> s] ELSE ledger[j]]
    BY <1>2 DEF Create
  <2>2. QED
    BY <2>1
<1>3. QED
  BY <1>1, <1>2

LEMMA UsedStable ==
    ASSUME TypeOK, [Next]_vars, NEW k, Used(k)
    PROVE  Used(k)'
  BY LedgerGrows DEF Used

-----------------------------------------------------------------------------
LEMMA AssignedInitInv == AssignedInit => AssignedTypeOK /\ AssignedInv
<1> SUFFICES ASSUME AssignedInit PROVE AssignedTypeOK /\ AssignedInv
  OBVIOUS
<1>1. AssignedTypeOK
  <2>1. TypeOK
    BY InitType DEF AssignedInit
  <2>2. <<>> \in UNION {[X -> Assignments] : X \in SUBSET Pairs}
    BY EmptyCopy
  <2>3. NoRow \in Assignments
    BY DEF NoRow, Assignments, RowStates
  <2>4. QED
    BY <2>1, <2>2, <2>3 DEF AssignedInit, AssignedTypeOK, Stages
<1>2. AssignedInv
  BY AssignedAssumption
     DEF AssignedInit, Init, AssignedInv, StagesFollowRequest, ReadsAreGood,
         AcceptedHasTransaction, OwnTransaction, NoRow
<1>3. QED
  BY <1>1, <1>2

(* The answer to a posted key, once it is used, is a transaction of its    *)
(* pair.                                                                   *)
LEMMA AnswerIsOwn ==
    ASSUME TypeOK, NEW w \in Workers, Used(key[w])
    PROVE  /\ Answer(w) \in DOMAIN ledger
           /\ Answer(w) \in TxIds
           /\ ledger[Answer(w)].key = key[w]
<1>1. Answer(w) \in DOMAIN ledger /\ ledger[Answer(w)].key = key[w]
  BY DEF Used, Answer
<1>2. QED
  BY <1>1 DEF TypeOK

(* What an unlocked writer writes is a row, and is as good as the row it   *)
(* read and the row that is there now.                                     *)
LEMMA WrittenIsGood ==
    ASSUME NEW op \in UnlockedOps, NEW read \in Assignments, NEW now \in Assignments, NEW x \in Pairs,
           OwnTransaction(x, read), OwnTransaction(x, now),
           op = "remind" => read.state = "allocated"
    PROVE  Written(op, read, now) \in Assignments /\ OwnTransaction(x, Written(op, read, now))
<1>1. /\ Written(op, read, now) \in Assignments
      /\ Written(op, read, now).state # "accepted"
      /\ Written(op, read, now).tx \in {read.tx, now.tx}
  <2>1. CASE op = "cancel"
    BY <2>1, RowUpdate DEF Written, RowStates
  <2>2. CASE op = "remind"
    <3>1. read.state = "allocated" /\ read.state \in RowStates
      BY <2>2 DEF RowStates
    <3>2. Written(op, read, now) = [now EXCEPT !.state = read.state]
      BY <2>2 DEF Written
    <3>3. /\ [now EXCEPT !.state = read.state] \in Assignments
          /\ [now EXCEPT !.state = read.state].state = read.state
          /\ [now EXCEPT !.state = read.state].tx = now.tx
      BY <3>1, RowUpdate
    <3>4. QED
      BY <3>1, <3>2, <3>3
  <2>3. CASE op = "expire"
    BY <2>3, RowUpdate DEF Written, RowStates
  <2>4. CASE op = "reverse"
    BY <2>4, RowUpdate DEF Written, RowStates
  <2>5. CASE op = "fail"
    BY <2>5, RowUpdate DEF Written, RowStates
  <2>6. CASE op = "force"
    BY <2>6, RowUpdate DEF Written, RowStates
  <2>7. QED
    BY <2>1, <2>2, <2>3, <2>4, <2>5, <2>6 DEF UnlockedOps
<1>2. QED
  BY <1>1 DEF OwnTransaction

LEMMA WrittenNotAccepted ==
    ASSUME NEW op \in UnlockedOps, NEW read \in Assignments, NEW now \in Assignments,
           op = "remind" => read.state = "allocated"
    PROVE  Written(op, read, now).state # "accepted"
<1>1. CASE op = "remind"
  <2>1. Written(op, read, now) = [now EXCEPT !.state = read.state]
    BY <1>1 DEF Written
  <2>2. read.state = "allocated" /\ read.state \in RowStates
    BY <1>1 DEF RowStates
  <2>3. QED
    BY <2>1, <2>2, RowUpdate
<1>2. CASE op # "remind"
  BY <1>2, RowUpdate DEF Written, RowStates, UnlockedOps
<1>3. QED
  BY <1>1, <1>2

LEMMA AssignedNextType ==
    AssignedTypeOK /\ AssignedInv /\ [AssignedNext]_assignedVars => AssignedTypeOK'
<1> SUFFICES ASSUME AssignedTypeOK, AssignedInv, [AssignedNext]_assignedVars
             PROVE  AssignedTypeOK'
  OBVIOUS
<1> DEFINE Copies == UNION {[X -> Assignments] : X \in SUBSET Pairs}
<1>1. TypeOK'
  BY AssignedStep, NextType DEF AssignedTypeOK
<1>2. /\ assignment \in [Pairs -> Assignments]
      /\ stage \in [Workers -> Stages]
      /\ copy \in [Workers -> Copies]
      /\ handler \in [Handlers -> {Free} \cup Reads]
  BY DEF AssignedTypeOK
<1>3. <<>> \in Copies
  BY EmptyCopy
<1>4. \A w \in Workers : pc[w] # "idle" =>
         key[w] \in Keys /\ key[w].pair \in Pairs
  BY DEF AssignedTypeOK, TypeOK, Keys
<1>5. SUFFICES /\ assignment' \in [Pairs -> Assignments]
               /\ stage' \in [Workers -> Stages]
               /\ copy' \in [Workers -> Copies]
               /\ handler' \in [Handlers -> {Free} \cup Reads]
  BY <1>1 DEF AssignedTypeOK
<1> HIDE DEF Copies
<1>6. CASE UNCHANGED <<assignment, stage, copy, handler>>
  BY <1>2, <1>6
<1>7. ASSUME NEW w \in Workers, EndRequest(w), UNCHANGED handler, assignment' \in [Pairs -> Assignments]
      PROVE  /\ assignment' \in [Pairs -> Assignments]
             /\ stage' \in [Workers -> Stages]
             /\ copy' \in [Workers -> Copies]
             /\ handler' \in [Handlers -> {Free} \cup Reads]
  BY <1>2, <1>3, <1>7 DEF EndRequest, SetStage, Stages
<1>8. CASE \E w \in Workers, x \in Pairs : StartAssigned(w, x)
  BY <1>2, <1>8 DEF StartAssigned, SetStage, Stages
<1>9. ASSUME NEW w \in Workers, PostAssigned(w)
      PROVE  copy' \in [Workers -> Copies]
  <2>1. key[w].pair \in Pairs
    BY <1>4, <1>9 DEF PostAssigned, Post
  <2>2. [x \in {key[w].pair} |-> assignment[x]] \in [{key[w].pair} -> Assignments]
    BY <1>2, <2>1
  <2>3. [x \in {key[w].pair} |-> assignment[x]] \in Copies
    BY <2>1, <2>2 DEF Copies
  <2>4. QED
    BY <1>2, <1>9, <2>3 DEF PostAssigned, GetAssignment, AssignmentForLearner
<1>10. CASE \E w \in Workers : PostAssigned(w)
  BY <1>2, <1>9, <1>10 DEF PostAssigned
<1>11. CASE \E w \in Workers : RefuseAssigned(w) \/ TimeOutAssigned(w)
  BY <1>2, <1>7, <1>11 DEF RefuseAssigned, TimeOutAssigned, SetStage, Stages
<1>12. CASE \E w \in Workers : ServeAssigned(w)
  BY <1>2, <1>12 DEF ServeAssigned, SetStage, Stages
<1>13. ASSUME NEW w \in Workers, SaveRow(w)
       PROVE  assignment' \in [Pairs -> Assignments]
  <2>1. CASE stage[w] = "accept"
    <3>1. Used(key[w])
      BY <2>1 DEF AssignedInv, StagesFollowRequest
    <3>2. [state |-> "accepted", tx |-> Answer(w)] \in Assignments
      BY <3>1, AnswerIsOwn DEF AssignedTypeOK, Assignments, RowStates
    <3>3. QED
      BY <1>2, <1>13, <2>1, <3>2 DEF SaveRow
  <2>2. CASE stage[w] = "error"
    <3>1. DOMAIN copy[w] = {key[w].pair}
      BY <2>2 DEF AssignedInv, StagesFollowRequest
    <3>2. copy[w] \in Copies
      BY <1>2
    <3>3. copy[w][key[w].pair] \in Assignments
      BY <3>1, <3>2, CopyType DEF Copies
    <3>4. [copy[w][key[w].pair] EXCEPT !.state = "errored"] \in Assignments
      BY <3>3, RowUpdate DEF RowStates
    <3>5. QED
      BY <1>2, <1>13, <2>2, <3>4 DEF SaveRow
  <2>3. QED
    BY <1>13, <2>1, <2>2 DEF SaveRow
<1>14. CASE \E w \in Workers : SaveRow(w)
  BY <1>7, <1>13, <1>14 DEF SaveRow
<1>15. ASSUME NEW w \in Workers, NEW X \in SUBSET Pairs, StartAllocate(w, X)
       PROVE  copy' \in [Workers -> Copies]
  <2>1. [x \in X |-> NoRow] \in Copies
    BY DEF Copies, NoRow, Assignments, RowStates
  <2>2. QED
    BY <1>2, <1>15, <2>1 DEF StartAllocate
<1>16. CASE \E w \in Workers, X \in SUBSET Pairs : StartAllocate(w, X)
  BY <1>2, <1>15, <1>16 DEF StartAllocate, SetStage, Stages
<1>17. ASSUME NEW w \in Workers, CheckBudget(w)
       PROVE  copy' \in [Workers -> Copies]
  <2>1. DOMAIN copy[w] \subseteq Pairs
    BY <1>2, CopyType DEF Copies
  <2>2. [x \in DOMAIN copy[w] |-> assignment[x]] \in Copies
    BY <1>2, <2>1 DEF Copies
  <2>3. QED
    BY <1>2, <1>17, <2>2 DEF CheckBudget
<1>18. CASE \E w \in Workers : CheckBudget(w)
  BY <1>2, <1>17, <1>18 DEF CheckBudget, SetStage, Stages
<1>19. ASSUME NEW w \in Workers, WriteRows(w)
       PROVE  assignment' \in [Pairs -> Assignments]
  <2>1. \A x \in Pairs : [assignment[x] EXCEPT !.state = "allocated"] \in Assignments
    BY <1>2, RowUpdate DEF RowStates
  <2>2. QED
    BY <1>2, <1>19, <2>1 DEF WriteRows
<1>20. CASE \E w \in Workers : WriteRows(w)
  BY <1>7, <1>19, <1>20 DEF WriteRows
<1>21. CASE \E w \in Workers : CrashAssigned(w)
  BY <1>2, <1>7, <1>21 DEF CrashAssigned
<1>22. CASE \E h \in Handlers, op \in Ops, x \in Pairs : ReadRow(h, op, x)
  BY <1>2, <1>22 DEF ReadRow, Reads
<1>23. ASSUME NEW h \in Handlers, WriteRow(h)
       PROVE  assignment' \in [Pairs -> Assignments]
  <2>1. handler[h] \in Reads
    BY <1>2, <1>23 DEF WriteRow
  <2>2. /\ handler[h].op \in UnlockedOps
        /\ handler[h].pair \in Pairs
        /\ handler[h].row \in Assignments
    BY <2>1, AssignedAssumption DEF Reads
  <2>3. OwnTransaction(handler[h].pair, assignment[handler[h].pair])
    BY <2>2 DEF AssignedInv, AcceptedHasTransaction
  <2>4. Written(handler[h].op, handler[h].row, assignment[handler[h].pair]) \in Assignments
    BY <1>2, <1>23, <2>2, <2>3, WrittenIsGood DEF AssignedInv, ReadsAreGood, WriteRow
  <2>5. QED
    BY <1>2, <1>23, <2>2, <2>4 DEF WriteRow
<1>24. CASE \E h \in Handlers : WriteRow(h)
  BY <1>2, <1>23, <1>24 DEF WriteRow
<1>25. QED
  BY <1>6, <1>8, <1>10, <1>11, <1>12, <1>14, <1>16, <1>18, <1>20, <1>21, <1>22, <1>24
     DEF AssignedNext, ReadTransactions, LeaveAssigned, ExpireAssigned, SubsidyStep,
         assignedVars

LEMMA AssignedNextInv ==
    AssignedTypeOK /\ AssignedInv /\ [AssignedNext]_assignedVars => AssignedInv'
<1> SUFFICES ASSUME AssignedTypeOK, AssignedInv, [AssignedNext]_assignedVars
             PROVE  AssignedInv'
  OBVIOUS
<1>1. TypeOK /\ [Next]_vars
  BY AssignedStep DEF AssignedTypeOK
<1>2. /\ \A x \in Pairs : OwnTransaction(x, assignment[x])
      /\ \A w \in Workers : \A x \in DOMAIN copy[w] :
            x \in Pairs /\ OwnTransaction(x, copy[w][x])
  BY CopyType DEF AssignedTypeOK, AssignedInv, AcceptedHasTransaction, ReadsAreGood
<1>3. \A h \in Handlers : handler[h] # Free =>
        /\ handler[h].op \in UnlockedOps
        /\ handler[h].pair \in Pairs
        /\ handler[h].row \in Assignments
        /\ OwnTransaction(handler[h].pair, handler[h].row)
        /\ handler[h].op = "remind" => handler[h].row.state = "allocated"
  BY AssignedAssumption DEF AssignedTypeOK, Reads, AssignedInv, ReadsAreGood
<1>4. \A w \in Workers : pc[w] # "idle" =>
         key[w] \in Keys /\ key[w].pair \in Pairs
  BY <1>1 DEF TypeOK, Keys
<1>5. StagesFollowRequest'
  <2> USE <1>1 DEF TypeOK, AssignedTypeOK, AssignedInv, StagesFollowRequest
  <2>1. CASE \E w \in Workers, x \in Pairs : StartAssigned(w, x)
    BY <2>1, UsedStable DEF StartAssigned, Acquire, SetStage
  <2>2. ASSUME NEW w \in Workers, ReadTransactions(w) PROVE StagesFollowRequest'
    BY <2>2, UsedStable DEF ReadTransactions, ReadHistory
  <2>3. CASE \E w \in Workers : PostAssigned(w)
    BY <2>3, UsedStable DEF PostAssigned, GetAssignment, Post
  <2>4. CASE \E w \in Workers : RefuseAssigned(w)
    BY <2>4, UsedStable DEF RefuseAssigned, Refuse, SetStage, EndRequest
  <2>5. CASE \E w \in Workers : TimeOutAssigned(w)
    BY <2>5, UsedStable DEF TimeOutAssigned, TimeOut, SetStage, EndRequest
  <2>6. ASSUME NEW w \in Workers, ServeAssigned(w) PROVE StagesFollowRequest'
    <3>1. Create(key[w]) /\ UNCHANGED key
      BY <2>6 DEF ServeAssigned, Serve
    <3>2. Used(key[w])'
      BY <3>1, CreateUses DEF Used
    <3>3. QED
      BY <2>6, <3>2, UsedStable DEF ServeAssigned, Serve, SetStage
  <2>7. CASE \E w \in Workers : SaveRow(w)
    BY <2>7, UsedStable DEF SaveRow, EndRequest, SetStage
  <2>8. CASE \E w \in Workers, X \in SUBSET Pairs : StartAllocate(w, X)
    BY <2>8, UsedStable DEF StartAllocate, Acquire, SetStage
  <2>9. CASE \E w \in Workers : CheckBudget(w)
    BY <2>9, UsedStable DEF CheckBudget, SetStage
  <2>10. CASE \E w \in Workers : WriteRows(w)
    BY <2>10, UsedStable DEF WriteRows, Refuse, EndRequest, SetStage
  <2>11. CASE \E w \in Workers : LeaveAssigned(w)
    BY <2>11, UsedStable DEF LeaveAssigned, Leave, Stages
  <2>12. CASE \E w \in Workers : CrashAssigned(w)
    BY <2>12, UsedStable DEF CrashAssigned, Crash, EndRequest, SetStage
  <2>13. CASE UNCHANGED <<pc, key, stage, copy>>
    BY <2>13, UsedStable
  <2>14. QED
    BY <2>1, <2>2, <2>3, <2>4, <2>5, <2>6, <2>7, <2>8, <2>9, <2>10, <2>11, <2>12, <2>13
       DEF AssignedNext, ExpireAssigned, Expire, ReadRow, WriteRow, SubsidyStep,
           ServeLate, Settle, Reverse, assignedVars
<1>6. AcceptedHasTransaction'
  <2> SUFFICES ASSUME NEW y \in Pairs PROVE OwnTransaction(y, assignment[y])'
    BY DEF AcceptedHasTransaction
  <2>1. \A r : OwnTransaction(y, r) /\ r = assignment'[y] => OwnTransaction(y, assignment[y])'
    BY <1>1, LedgerGrows DEF OwnTransaction
  <2>2. CASE assignment'[y] = assignment[y]
    BY <1>2, <2>1, <2>2
  <2>3. ASSUME NEW w \in Workers, SaveRow(w), stage[w] = "accept"
        PROVE  OwnTransaction(y, assignment[y])'
    <3>1. CASE y = key[w].pair
      <4>1. Used(key[w])
        BY <2>3 DEF AssignedInv, StagesFollowRequest
      <4>2. OwnTransaction(y, [state |-> "accepted", tx |-> Answer(w)])
        BY <1>1, <3>1, <4>1, AnswerIsOwn, AssignedAssumption DEF OwnTransaction
      <4>3. assignment'[y] = [state |-> "accepted", tx |-> Answer(w)]
        BY <2>3, <3>1 DEF SaveRow, AssignedTypeOK
      <4>4. QED
        BY <2>1, <4>2, <4>3
    <3>2. QED
      BY <2>2, <2>3, <3>1 DEF SaveRow, AssignedTypeOK
  <2>4. ASSUME NEW w \in Workers, SaveRow(w), stage[w] = "error"
        PROVE  OwnTransaction(y, assignment[y])'
    <3>1. CASE y = key[w].pair
      <4>1. y \in DOMAIN copy[w]
        BY <2>4, <3>1 DEF AssignedInv, StagesFollowRequest
      <4>2. OwnTransaction(y, copy[w][y]) /\ copy[w][y] \in Assignments
        BY <1>2, <4>1, CopyType DEF AssignedTypeOK
      <4>3. OwnTransaction(y, [copy[w][y] EXCEPT !.state = "errored"])
        BY <4>2, RowUpdate DEF OwnTransaction, RowStates
      <4>4. assignment'[y] = [copy[w][y] EXCEPT !.state = "errored"]
        BY <2>4, <3>1 DEF SaveRow, AssignedTypeOK
      <4>5. QED
        BY <2>1, <4>3, <4>4
    <3>2. QED
      BY <2>2, <2>4, <3>1 DEF SaveRow, AssignedTypeOK
  <2>5. ASSUME NEW w \in Workers, WriteRows(w)
        PROVE  OwnTransaction(y, assignment[y])'
    <3>1. assignment'[y] \in {assignment[y], [assignment[y] EXCEPT !.state = "allocated"]}
      BY <2>5 DEF WriteRows
    <3>2. OwnTransaction(y, [assignment[y] EXCEPT !.state = "allocated"])
      <4>1. assignment[y] \in Assignments /\ OwnTransaction(y, assignment[y])
        BY <1>2 DEF AssignedTypeOK
      <4>2. [assignment[y] EXCEPT !.state = "allocated"].state = "allocated"
            /\ [assignment[y] EXCEPT !.state = "allocated"].tx = assignment[y].tx
        BY <4>1, RowUpdate DEF RowStates
      <4>3. QED
        BY <4>1, <4>2 DEF OwnTransaction
    <3>3. QED
      BY <2>1, <2>2, <3>1, <3>2
  <2>6. ASSUME NEW h \in Handlers, WriteRow(h)
        PROVE  OwnTransaction(y, assignment[y])'
    <3>1. handler[h] # Free
      BY <2>6 DEF WriteRow
    <3>2. CASE y = handler[h].pair
      <4>1. OwnTransaction(y, Written(handler[h].op, handler[h].row, assignment[y]))
        BY <1>2, <1>3, <3>1, <3>2, WrittenIsGood DEF AssignedTypeOK
      <4>2. assignment'[y] \in {assignment[y], Written(handler[h].op, handler[h].row, assignment[y])}
        BY <2>6, <3>2 DEF WriteRow, AssignedTypeOK
      <4>3. QED
        BY <2>1, <2>2, <4>1, <4>2
    <3>3. QED
      BY <2>2, <2>6, <3>2 DEF WriteRow, AssignedTypeOK
  <2>7. QED
    BY <2>2, <2>3, <2>4, <2>5, <2>6
       DEF AssignedNext, StartAssigned, ReadTransactions, PostAssigned, RefuseAssigned,
           TimeOutAssigned, ServeAssigned, SaveRow, StartAllocate, CheckBudget,
           LeaveAssigned, CrashAssigned, ExpireAssigned, ReadRow, SubsidyStep,
           assignedVars
<1>7. ReadsAreGood'
  <2>1. ASSUME NEW w \in Workers, NEW x \in DOMAIN copy'[w]
        PROVE  OwnTransaction(x, copy[w][x])'
    <3>1. CASE copy'[w] = copy[w]
      BY <1>1, <1>2, <2>1, <3>1, LedgerGrows DEF OwnTransaction
    <3>2. CASE copy'[w] = <<>>
      BY <2>1, <3>2
    <3>3. CASE \E X \in SUBSET Pairs : copy'[w] = [z \in X |-> NoRow]
      BY <2>1, <3>3 DEF OwnTransaction, NoRow
    <3>4. CASE \E X \in SUBSET Pairs : copy'[w] = [z \in X |-> assignment[z]]
      <4>1. x \in Pairs /\ copy'[w][x] = assignment[x]
        BY <2>1, <3>4
      <4>2. QED
        BY <1>1, <1>2, <4>1, LedgerGrows DEF OwnTransaction
    <3>5. ASSUME NEW v \in Workers, PostAssigned(v), v = w
          PROVE  \E X \in SUBSET Pairs : copy'[w] = [z \in X |-> assignment[z]]
      <4>1. key[w].pair \in Pairs
        BY <1>4, <3>5 DEF PostAssigned, Post
      <4>2. copy'[w] = [z \in {key[w].pair} |-> assignment[z]]
        BY <3>5 DEF PostAssigned, GetAssignment, AssignmentForLearner, AssignedTypeOK
      <4>3. QED
        BY <4>1, <4>2
    <3>6. ASSUME NEW v \in Workers, CheckBudget(v), v = w
          PROVE  \E X \in SUBSET Pairs : copy'[w] = [z \in X |-> assignment[z]]
      <4>1. DOMAIN copy[w] \subseteq Pairs
        BY CopyType DEF AssignedTypeOK
      <4>2. copy'[w] = [z \in DOMAIN copy[w] |-> assignment[z]]
        BY <3>6 DEF CheckBudget, AssignedTypeOK
      <4>3. QED
        BY <4>1, <4>2
    <3>7. ASSUME NEW v \in Workers, NEW X \in SUBSET Pairs, StartAllocate(v, X), v = w
          PROVE  \E Y \in SUBSET Pairs : copy'[w] = [z \in Y |-> NoRow]
      BY <3>7 DEF StartAllocate, AssignedTypeOK
    <3>8. \/ copy'[w] = copy[w]
          \/ copy'[w] = <<>>
          \/ PostAssigned(w)
          \/ CheckBudget(w)
          \/ \E X \in SUBSET Pairs : StartAllocate(w, X)
      BY DEF AssignedTypeOK, AssignedNext, StartAssigned, ReadTransactions, PostAssigned, GetAssignment,
             RefuseAssigned, TimeOutAssigned, ServeAssigned, SaveRow, StartAllocate,
             CheckBudget, WriteRows, LeaveAssigned, CrashAssigned, ExpireAssigned,
             ReadRow, WriteRow, SubsidyStep, EndRequest, assignedVars
    <3>9. QED
      BY <3>1, <3>2, <3>3, <3>4, <3>5, <3>6, <3>7, <3>8
  <2>2. ASSUME NEW h \in Handlers, handler'[h] # Free
        PROVE  /\ OwnTransaction(handler[h].pair, handler[h].row)'
               /\ handler'[h].op = "remind" => handler'[h].row.state = "allocated"
    <3>1. CASE handler'[h] = handler[h]
      BY <1>1, <1>3, <2>2, <3>1, LedgerGrows DEF OwnTransaction
    <3>2. ASSUME NEW op \in Ops, NEW x \in Pairs, ReadRow(h, op, x)
          PROVE  /\ OwnTransaction(handler[h].pair, handler[h].row)'
                 /\ handler'[h].op = "remind" => handler'[h].row.state = "allocated"
      <4>1. handler'[h] = [op |-> op, pair |-> x, row |-> assignment[x]]
        BY <3>2 DEF ReadRow, AssignedTypeOK
      <4>2. op = "remind" => assignment[x].state = "allocated"
        BY <3>2 DEF ReadRow, Eligible, RemindableStates
      <4>3. OwnTransaction(x, assignment[x])
        BY <1>2
      <4>4. QED
        BY <1>1, <4>1, <4>2, <4>3, LedgerGrows DEF OwnTransaction
    <3>3. \/ handler'[h] = handler[h]
          \/ handler'[h] = Free
          \/ \E op \in Ops, x \in Pairs : ReadRow(h, op, x)
      BY DEF AssignedTypeOK, AssignedNext, StartAssigned, ReadTransactions, PostAssigned,
             RefuseAssigned, TimeOutAssigned, ServeAssigned, SaveRow, StartAllocate,
             CheckBudget, WriteRows, LeaveAssigned, CrashAssigned, ExpireAssigned,
             ReadRow, WriteRow, SubsidyStep, assignedVars
    <3>4. QED
      BY <2>2, <3>1, <3>2, <3>3
  <2>3. QED
    BY <2>1, <2>2 DEF ReadsAreGood
<1>8. QED
  BY <1>5, <1>6, <1>7 DEF AssignedInv

(* The variables keep their types, and requests, reads and rows fit        *)
(* together as AssignedInv says.                                           *)
THEOREM AssignedInvTheorem == AssignedSpec => [](AssignedTypeOK /\ AssignedInv)
  BY AssignedInitInv, AssignedNextType, AssignedNextInv, PTL DEF AssignedSpec

(* An accepted assignment always names a transaction of its own learner and*)
(* content, and no row names that of another pair: late saves, stale writes*)
(* and lost calls included.                                                *)
THEOREM AcceptedHasTransactionTheorem == AssignedSpec => []AcceptedHasTransaction
<1>1. AssignedInv => AcceptedHasTransaction
  BY DEF AssignedInv
<1>2. QED
  BY <1>1, AssignedInvTheorem, PTL

-----------------------------------------------------------------------------
(* The lock at work: only one request of the policy is under way.          *)
LEMMA OneRequest ==
    ASSUME TypeOK, HolderKeepsLock, NEW v \in Workers, NEW w \in Workers,
           pc[v] # "idle", pc[w] # "idle"
    PROVE  v = w
  BY AssignedAssumption DEF HolderKeepsLock, TypeOK, Keys

LEMMA CopiesStep ==
    ASSUME AssignedTypeOK, AssignedInv, HolderKeepsLock, CopiesAreCurrent,
           [AssignedNext]_assignedVars
    PROVE  CopiesAreCurrent'
<1> SUFFICES ASSUME NEW w \in Workers, stage'[w] = "write",
                    NEW x \in DOMAIN copy'[w], assignment'[x].state = "accepted"
             PROVE  copy'[w][x].state = "accepted"
  BY DEF CopiesAreCurrent
<1> USE DEF AssignedTypeOK
<1>1. CASE CheckBudget(w)
  <2>1. copy'[w] = [y \in DOMAIN copy[w] |-> assignment[y]] /\ assignment' = assignment
    BY <1>1 DEF CheckBudget
  <2>2. QED
    BY <2>1
<1>2. CASE ~CheckBudget(w)
  <2>1. stage[w] = "write" /\ copy'[w] = copy[w]
    BY <1>2 DEF AssignedNext, StartAssigned, ReadTransactions, PostAssigned, GetAssignment, RefuseAssigned,
                TimeOutAssigned, ServeAssigned, SaveRow, StartAllocate, CheckBudget,
                WriteRows, LeaveAssigned, CrashAssigned, ExpireAssigned, ReadRow, WriteRow,
                SubsidyStep, SetStage, EndRequest, AssignedInv, StagesFollowRequest, Post,
                assignedVars
  <2>2. x \in Pairs
    BY <2>1, CopyType
  <2>3. pc[w] # "idle"
    BY <2>1 DEF AssignedInv, StagesFollowRequest
  <2>4. ASSUME NEW v \in Workers, SaveRow(v) PROVE FALSE
    <3>1. stage[v] \in {"accept", "error"}
      BY <2>4 DEF SaveRow
    <3>2. pc[v] = "leaving"
      BY <3>1 DEF AssignedInv, StagesFollowRequest
    <3>3. v = w
      BY <2>3, <3>2, OneRequest
    <3>4. QED
      BY <2>1, <3>1, <3>3
  <2>5. assignment'[x] = assignment[x] \/ assignment'[x].state # "accepted"
    <3>1. ASSUME NEW h \in Handlers, WriteRow(h)
          PROVE  assignment'[x] = assignment[x] \/ assignment'[x].state # "accepted"
      <4>1. /\ handler[h].op \in UnlockedOps
            /\ handler[h].row \in Assignments
            /\ handler[h].op = "remind" => handler[h].row.state = "allocated"
        BY <3>1, AssignedAssumption DEF WriteRow, Reads, AssignedInv, ReadsAreGood
      <4>2. assignment[x] \in Assignments
        BY <2>2
      <4>3. assignment'[x] \in {assignment[x], Written(handler[h].op, handler[h].row, assignment[x])}
        BY <2>2, <3>1 DEF WriteRow
      <4>4. Written(handler[h].op, handler[h].row, assignment[x]).state # "accepted"
        BY <4>1, <4>2, WrittenNotAccepted
      <4>5. QED
        BY <4>3, <4>4
    <3>2. ASSUME NEW v \in Workers, WriteRows(v)
          PROVE  assignment'[x] = assignment[x] \/ assignment'[x].state # "accepted"
      <4>1. assignment'[x] \in {assignment[x], [assignment[x] EXCEPT !.state = "allocated"]}
        BY <2>2, <3>2 DEF WriteRows
      <4>2. assignment[x] \in Assignments
        BY <2>2
      <4>3. [assignment[x] EXCEPT !.state = "allocated"].state = "allocated"
        BY <4>2, RowUpdate DEF RowStates
      <4>4. QED
        BY <4>1, <4>3
    <3>3. QED
      BY <2>4, <3>1, <3>2
         DEF AssignedNext, StartAssigned, ReadTransactions, PostAssigned, RefuseAssigned,
             TimeOutAssigned, ServeAssigned, StartAllocate, CheckBudget, LeaveAssigned,
             CrashAssigned, ExpireAssigned, ReadRow, SubsidyStep, assignedVars
  <2>6. QED
    BY <2>1, <2>5 DEF CopiesAreCurrent
<1>3. QED
  BY <1>1, <1>2

LEMMA AcceptedStays ==
    ASSUME AssignedTypeOK, AssignedInv, CopiesAreCurrent,
           Ops \cap {"remind", "force"} = {}, [AssignedNext]_assignedVars,
           NEW x \in Pairs, assignment[x].state = "accepted"
    PROVE  assignment'[x].state # "allocated"
<1> USE DEF AssignedTypeOK
<1>1. ASSUME NEW w \in Workers, SaveRow(w) PROVE assignment'[x].state # "allocated"
  <2>1. assignment[x] \in Assignments
    OBVIOUS
  <2>2. CASE x # key[w].pair
    BY <1>1, <2>2 DEF SaveRow
  <2>3. CASE x = key[w].pair /\ stage[w] = "accept"
    BY <1>1, <2>3 DEF SaveRow
  <2>4. CASE x = key[w].pair /\ stage[w] = "error"
    <3>1. x \in DOMAIN copy[w]
      BY <2>4 DEF AssignedInv, StagesFollowRequest
    <3>2. copy[w][x] \in Assignments
      BY <3>1, CopyType
    <3>3. assignment'[x] = [copy[w][x] EXCEPT !.state = "errored"]
      BY <1>1, <2>4 DEF SaveRow
    <3>4. QED
      BY <3>2, <3>3, RowUpdate DEF RowStates
  <2>5. QED
    BY <1>1, <2>2, <2>3, <2>4 DEF SaveRow
<1>2. ASSUME NEW w \in Workers, WriteRows(w) PROVE assignment'[x].state # "allocated"
  <2>1. stage[w] = "write"
    BY <1>2 DEF WriteRows
  <2>2. x \in DOMAIN copy[w] => copy[w][x].state = "accepted"
    BY <2>1 DEF CopiesAreCurrent
  <2>3. assignment'[x] = assignment[x]
    BY <1>2, <2>2 DEF WriteRows, ReallocateStates
  <2>4. QED
    BY <2>3
<1>3. ASSUME NEW h \in Handlers, WriteRow(h) PROVE assignment'[x].state # "allocated"
  <2>1. handler[h].op \in {"cancel", "expire", "reverse", "fail"} /\ handler[h].row \in Assignments
    BY <1>3, AssignedAssumption DEF WriteRow, Reads, UnlockedOps
  <2>2. assignment[x] \in Assignments
    OBVIOUS
  <2>3. Written(handler[h].op, handler[h].row, assignment[x]).state # "allocated"
    BY <2>1, <2>2, RowUpdate DEF Written, RowStates
  <2>4. assignment'[x] \in {assignment[x], Written(handler[h].op, handler[h].row, assignment[x])}
    BY <1>3 DEF WriteRow
  <2>5. QED
    BY <2>3, <2>4
<1>4. QED
  BY <1>1, <1>2, <1>3
     DEF AssignedNext, StartAssigned, ReadTransactions, PostAssigned, RefuseAssigned,
         TimeOutAssigned, ServeAssigned, StartAllocate, CheckBudget, LeaveAssigned,
         CrashAssigned, ExpireAssigned, ReadRow, SubsidyStep, assignedVars

(* The lock protects accepted assignments from allocations that read their *)
(* rows before they were redeemed: with no request outliving the timeout of*)
(* its lock's key, and no unlocked writer that writes "allocated", no step *)
(* takes a row from accepted to allocated.                                 *)
THEOREM AcceptedNotReallocatedTheorem ==
    ASSUME ~SlowRequests, Ops \cap {"remind", "force"} = {}
    PROVE  AssignedSpec => AcceptedNotReallocated
<1>1. AssignedInit => CopiesAreCurrent
  BY DEF AssignedInit, CopiesAreCurrent
<1>2. /\ AssignedTypeOK /\ AssignedInv /\ HolderKeepsLock /\ CopiesAreCurrent
      /\ [AssignedNext]_assignedVars
      => CopiesAreCurrent'
  BY CopiesStep
<1>3. /\ AssignedTypeOK /\ AssignedInv /\ CopiesAreCurrent
      /\ [AssignedNext]_assignedVars
      => [\A x \in Pairs :
            assignment[x].state = "accepted" => assignment'[x].state # "allocated"]_assignedVars
  BY AcceptedStays
<1>4. Spec => []HolderKeepsLock
  BY HolderKeepsLockTheorem
<1>5. QED
  BY <1>1, <1>2, <1>3, <1>4, AssignedInvTheorem, AssignedImplementsRedemption, PTL
     DEF AssignedSpec, ImplementsRedemption, AcceptedNotReallocated

-----------------------------------------------------------------------------
(* The price of a set of pairs, as a sum.                                  *)
LEMMA PriceIsTotal ==
    ASSUME NEW X \in SUBSET Pairs
    PROVE  PriceOf(X) = Total(Price, X) /\ IsFiniteSet(X)
<1> DEFINE Rec(h) == h = [s \in SUBSET X |->
                            IF s = {} THEN 0
                            ELSE Price[CHOOSE x \in s : TRUE]
                                   + h[s \ {CHOOSE x \in s : TRUE}]]
           g == CHOOSE h : Rec(h)
<1>1. ASSUME NEW h PROVE Rec(h) <=> SumsUp(h, Price, X)
  BY DEF SumsUp, Pick
<1>2. IsFiniteSet(X)
  BY AssignedAssumption, FS_Subset
<1>3. SumsUp(g, Price, X)
  <2> HIDE DEF Rec
  <2>1. PICK h : SumsUp(h, Price, X)
    BY <1>2, SumsUpExists
  <2>2. Rec(h)
    BY <1>1, <2>1
  <2>3. Rec(g)
    BY <2>2
  <2>4. QED
    BY <1>1, <2>3
<1>4. PriceOf(X) = g[X]
  BY DEF PriceOf, MapThenSumSet, MapThenFoldSet
<1> HIDE DEF g
<1>5. X \in SUBSET X
  OBVIOUS
<1>6. QED
  BY <1>2, <1>3, <1>4, <1>5, TotalIs

LEMMA PriceIsNat ==
    ASSUME NEW X \in SUBSET Pairs
    PROVE  PriceOf(X) \in Nat
<1>1. \A x \in X : Price[x] \in Nat
  BY RedemptionAssumption
<1>2. QED
  BY <1>1, PriceIsTotal, TotalIsNat

LEMMA PriceOfSubset ==
    ASSUME NEW X \in SUBSET Pairs, NEW Y \in SUBSET X
    PROVE  PriceOf(Y) <= PriceOf(X)
<1>1. \A x \in X : Price[x] \in Nat
  BY RedemptionAssumption
<1>2. Total(Price, Y) <= Total(Price, X)
  BY <1>1, PriceIsTotal, TotalOfSubset
<1>3. QED
  BY <1>2, PriceIsTotal

LEMMA PriceOfOneMore ==
    ASSUME NEW X \in SUBSET Pairs, NEW y \in Pairs, y \notin X
    PROVE  PriceOf(X \cup {y}) = PriceOf(X) + Price[y]
<1>1. \A x \in X \cup {y} : Price[x] \in Nat
  BY RedemptionAssumption
<1>2. Total(Price, X \cup {y}) = Price[y] + Total(Price, X)
  BY <1>1, PriceIsTotal, TotalPutsIn
<1>3. PriceOf(X) \in Nat /\ Price[y] \in Nat
  BY <1>1, PriceIsNat
<1>4. QED
  BY <1>2, <1>3, PriceIsTotal

(* The price of two sets is at most the sum of their prices.               *)
LEMMA PriceOfBoth ==
    ASSUME NEW X \in SUBSET Pairs, NEW Y \in SUBSET Pairs
    PROVE  PriceOf(X \cup Y) <= PriceOf(X) + PriceOf(Y)
<1> DEFINE T == {s \in SUBSET Y : ~(PriceOf(X \cup s) <= PriceOf(X) + PriceOf(s))}
<1>1. SUFFICES ASSUME T # {} PROVE FALSE
  BY <1>1
<1>2. T \subseteq SUBSET Y /\ IsFiniteSet(Y)
  BY PriceIsTotal
<1>3. PICK s \in T : \A t \in SUBSET s : t # s => t \notin T
  <2> HIDE DEF T
  <2>1. QED
    BY <1>1, <1>2, LeastSubset
<1>4. s \in SUBSET Y /\ ~(PriceOf(X \cup s) <= PriceOf(X) + PriceOf(s))
  BY <1>3
<1>5. PriceOf(X) \in Nat /\ PriceOf(s) \in Nat
  BY <1>4, PriceIsNat
<1>6. PICK c \in s : c \notin X
  <2>1. X \cup s = X => PriceOf(X \cup s) = PriceOf(X)
    OBVIOUS
  <2>2. PriceOf(X) <= PriceOf(X) + PriceOf(s)
    BY <1>5
  <2>3. X \cup s # X
    BY <1>4, <2>1, <2>2
  <2>4. QED
    BY <2>3
<1> DEFINE t == s \ {c}
           u == X \cup t
<1>7. t \in SUBSET s /\ t # s /\ t \in SUBSET Y /\ c \in Pairs /\ t \in SUBSET Pairs
  BY <1>4, <1>6
<1>8. PriceOf(u) <= PriceOf(X) + PriceOf(t)
  BY <1>3, <1>7
<1>9. u \in SUBSET Pairs /\ c \notin u /\ c \notin t /\ X \cup s = u \cup {c} /\ s = t \cup {c}
  BY <1>4, <1>6
<1> HIDE DEF t, u
<1>10. PriceOf(X \cup s) = PriceOf(u) + Price[c] /\ PriceOf(s) = PriceOf(t) + Price[c]
  <2>1. PriceOf(u \cup {c}) = PriceOf(u) + Price[c]
    BY <1>7, <1>9, PriceOfOneMore
  <2>2. PriceOf(t \cup {c}) = PriceOf(t) + Price[c]
    BY <1>7, <1>9, PriceOfOneMore
  <2>3. QED
    BY <1>9, <2>1, <2>2
<1>11. PriceOf(u) \in Nat /\ PriceOf(t) \in Nat /\ Price[c] \in Nat
  BY <1>7, <1>9, PriceIsNat, RedemptionAssumption
<1>12. QED
  BY <1>4, <1>5, <1>8, <1>10, <1>11

-----------------------------------------------------------------------------
(* The budget.  What is held next, and what it costs.                      *)
LEMMA HeldNext ==
    ASSUME NEW H, H = NotLive(Held)', Spent(Policy)' + PriceOf(H) <= SpendLimit
    PROVE  HeldWithinBudget'
BY DEF HeldWithinBudget, PriceOf, MapThenSumSet, MapThenFoldSet

LEMMA NotLiveIn ==
    /\ NotLive(Held) \in SUBSET Pairs
    /\ NotLive(Held)' \in SUBSET Pairs
  BY DEF NotLive, Held

(* It costs no more if the set gets no larger and the spend no higher.     *)
LEMMA HeldGetsCheaper ==
    ASSUME LedgerOK, LedgerOK', HeldWithinBudget, Spent(Policy)' <= Spent(Policy),
           NotLive(Held)' \subseteq NotLive(Held)
    PROVE  HeldWithinBudget'
<1>1. PICK H, G : H = NotLive(Held) /\ G = NotLive(Held)'
  OBVIOUS
<1>2. H \in SUBSET Pairs /\ G \in SUBSET H
  BY <1>1, NotLiveIn
<1>3. PriceOf(G) <= PriceOf(H) /\ PriceOf(G) \in Nat /\ PriceOf(H) \in Nat
  BY <1>2, PriceOfSubset, PriceIsNat
<1>4. Spent(Policy) + PriceOf(H) <= SpendLimit
  BY <1>1 DEF HeldWithinBudget
<1>5. Spent(Policy) \in Nat
  BY SpentIsNat
<1>6. Spent(Policy)' \in Nat
  <2>1. LiveIn(ledger', Policy) \in SUBSET DOMAIN ledger'
    BY DEF LiveIn
  <2>2. IsLedger(ledger')
    BY DEF LedgerOK, TypeOK, IsLedger
  <2>3. QED
    BY <2>1, <2>2, PaidIsNat, SpentIsPaid
<1> DEFINE s == Spent(Policy)
           t == Spent(Policy)'
<1>7. s \in Nat /\ t \in Nat /\ t <= s /\ s + PriceOf(H) <= SpendLimit
  BY <1>4, <1>5, <1>6
<1> HIDE DEF s, t
<1>8. t + PriceOf(G) <= SpendLimit
  BY <1>3, <1>7, RedemptionAssumption
<1>9. QED
  BY <1>1, <1>8, HeldNext DEF t

(* Nothing new is held as long as no allocation checks the budget: an      *)
(* allocation writes what it held, and a posted call holds an allocated    *)
(* pair already.                                                           *)
LEMMA RowsWereHeld ==
    ASSUME AssignedTypeOK, AssignedInv, Ops \cap {"remind", "force"} = {},
           [AssignedNext]_assignedVars, NEW x \in Pairs, assignment'[x].state = "allocated"
    PROVE  x \in Held
<1> USE DEF AssignedTypeOK
<1>1. CASE assignment'[x] = assignment[x]
  BY <1>1 DEF Held
<1>2. ASSUME NEW w \in Workers, SaveRow(w) PROVE assignment'[x] = assignment[x]
  <2>1. CASE x = key[w].pair /\ stage[w] = "accept"
    BY <1>2, <2>1 DEF SaveRow
  <2>2. CASE x = key[w].pair /\ stage[w] = "error"
    <3>1. x \in DOMAIN copy[w]
      BY <2>2 DEF AssignedInv, StagesFollowRequest
    <3>2. copy[w][x] \in Assignments
      BY <3>1, CopyType
    <3>3. assignment'[x] = [copy[w][x] EXCEPT !.state = "errored"]
      BY <1>2, <2>2 DEF SaveRow
    <3>4. QED
      BY <3>2, <3>3, RowUpdate DEF RowStates
  <2>3. QED
    BY <1>2, <2>1, <2>2 DEF SaveRow
<1>3. ASSUME NEW w \in Workers, WriteRows(w) PROVE x \in Held
  <2>1. stage[w] = "write"
    BY <1>3 DEF WriteRows
  <2>2. CASE x \in DOMAIN copy[w]
    BY <2>1, <2>2 DEF Held, UnderWay
  <2>3. CASE x \notin DOMAIN copy[w]
    BY <1>1, <1>3, <2>3 DEF WriteRows
  <2>4. QED
    BY <2>2, <2>3
<1>4. ASSUME NEW h \in Handlers, WriteRow(h) PROVE assignment'[x] = assignment[x]
  <2>1. handler[h].op \in {"cancel", "expire", "reverse", "fail"} /\ handler[h].row \in Assignments
    BY <1>4, AssignedAssumption DEF WriteRow, Reads, UnlockedOps
  <2>2. assignment[x] \in Assignments
    OBVIOUS
  <2>3. Written(handler[h].op, handler[h].row, assignment[x]).state # "allocated"
    BY <2>1, <2>2, RowUpdate DEF Written, RowStates
  <2>4. assignment'[x] \in {assignment[x], Written(handler[h].op, handler[h].row, assignment[x])}
    BY <1>4 DEF WriteRow
  <2>5. QED
    BY <2>3, <2>4
<1>5. QED
  BY <1>1, <1>2, <1>3, <1>4
     DEF AssignedNext, StartAssigned, ReadTransactions, PostAssigned, RefuseAssigned,
         TimeOutAssigned, ServeAssigned, StartAllocate, CheckBudget, LeaveAssigned,
         CrashAssigned, ExpireAssigned, ReadRow, SubsidyStep, assignedVars

LEMMA RequestsHeld ==
    ASSUME AssignedTypeOK, AssignedInv, [AssignedNext]_assignedVars,
           ~\E v \in Workers : CheckBudget(v),
           NEW w \in Workers, NEW x \in Pairs, UnderWay(w, x)'
    PROVE  x \in Held
<1> USE DEF AssignedTypeOK
<1> SUFFICES UnderWay(w, x) \/ assignment[x].state = "allocated"
  BY DEF Held
<1>1. CASE stage'[w] = "write" /\ x \in DOMAIN copy'[w]
  <2>1. stage[w] = "write" /\ copy'[w] = copy[w]
    BY <1>1 DEF AssignedNext, StartAssigned, ReadTransactions, PostAssigned, RefuseAssigned,
                TimeOutAssigned, ServeAssigned, SaveRow, StartAllocate, WriteRows,
                GetAssignment, LeaveAssigned, CrashAssigned, ExpireAssigned, ReadRow, WriteRow,
                SubsidyStep, SetStage, EndRequest, AssignedInv, StagesFollowRequest, Post,
                assignedVars
  <2>2. QED
    BY <1>1, <2>1 DEF UnderWay
<1>2. CASE pc'[w] = "posted" /\ key'[w].pair = x
  <2>1. CASE pc[w] = "posted" /\ key'[w] = key[w]
    BY <1>2, <2>1 DEF UnderWay
  <2>2. CASE PostAssigned(w)
    BY <1>2, <2>2 DEF PostAssigned, Post, AssignmentForLearner
  <2>3. CASE UNCHANGED <<pc, key>>
    BY <1>2, <2>1, <2>3
  <2>4. ASSUME NEW v \in Workers, PostAssigned(v)
        PROVE  UnderWay(w, x) \/ assignment[x].state = "allocated"
    <3>1. v # w => pc'[w] = pc[w] /\ key'[w] = key[w]
      BY <2>4 DEF PostAssigned, Post, TypeOK
    <3>2. QED
      BY <1>2, <2>1, <2>2, <2>4, <3>1
  <2>5. ASSUME NEW v \in Workers,
               pc'[v] # "posted", \A u \in Workers : u # v => pc'[u] = pc[u] /\ key'[u] = key[u]
        PROVE  UnderWay(w, x) \/ assignment[x].state = "allocated"
    BY <1>2, <2>1, <2>5
  <2>6. CASE \E v \in Workers, y \in Pairs, X \in SUBSET Pairs :
                StartAssigned(v, y) \/ StartAllocate(v, X)
    BY <2>5, <2>6 DEF StartAssigned, StartAllocate, Acquire, TypeOK
  <2>7. CASE \E v \in Workers : ReadTransactions(v) \/ RefuseAssigned(v) \/ TimeOutAssigned(v)
                               \/ ServeAssigned(v) \/ WriteRows(v)
    BY <2>5, <2>7 DEF ReadTransactions, ReadHistory, RefuseAssigned, TimeOutAssigned, TimeOut,
                      ServeAssigned, Serve, WriteRows, Refuse, TypeOK
  <2>8. CASE \E v \in Workers : LeaveAssigned(v) \/ CrashAssigned(v)
    BY <2>5, <2>8 DEF LeaveAssigned, Leave, CrashAssigned, Crash, TypeOK
  <2>9. QED
    BY <2>3, <2>4, <2>6, <2>7, <2>8
       DEF AssignedNext, SaveRow, ExpireAssigned, Expire, ReadRow, WriteRow, SubsidyStep,
           ServeLate, Settle, Reverse, assignedVars
<1>3. QED
  BY <1>1, <1>2 DEF UnderWay

LEMMA HeldShrinks ==
    ASSUME AssignedTypeOK, AssignedInv, Ops \cap {"remind", "force"} = {},
           [AssignedNext]_assignedVars, ~\E v \in Workers : CheckBudget(v)
    PROVE  Held' \subseteq Held
<1>1. SUFFICES ASSUME NEW x \in Pairs, x \in Held' PROVE x \in Held
  BY DEF Held
<1>2. CASE assignment'[x].state = "allocated"
  BY <1>2, RowsWereHeld
<1>3. CASE \E w \in Workers : UnderWay(w, x)'
  BY <1>3, RequestsHeld
<1>4. QED
  BY <1>1, <1>2, <1>3 DEF Held

(* The pair of a transaction that is made live was held and unpaid.        *)
LEMMA LiveOneWasHeld ==
    ASSUME AssignedTypeOK, LedgerOK', AtMostOneLive', NEW i, NEW k \in Keys,
           Adds(ledger, ledger', i, k), ledger'[i].state \notin Dead
    PROVE  /\ LiveFor(Policy, k.pair) = {}
           /\ LiveFor(Policy, k.pair)' # {}
           /\ \A x \in Pairs : LiveFor(Policy, x)' = {} => LiveFor(Policy, x) = {}
<1>1. k.policy = Policy /\ k.pair \in Pairs
  BY AssignedAssumption DEF Keys
<1>2. \A x \in Pairs, j \in DOMAIN ledger :
        j \in LiveFor(Policy, x) => j \in LiveFor(Policy, x)'
  BY DEF LiveFor, LiveOf, Adds
<1>3. i \in LiveFor(Policy, k.pair)'
  BY <1>1 DEF LiveFor, LiveOf, Adds
<1>4. OwnPast(Policy, k.pair)'
  BY AssignedAssumption DEF LedgerOK, TypeOK, Transactions, Keys, OwnPast, Past, History
<1>5. ASSUME NEW j \in LiveFor(Policy, k.pair) PROVE FALSE
  <2>1. j \in DOMAIN ledger
    BY <1>5 DEF LiveFor, LiveOf
  <2>2. j \in LiveFor(Policy, k.pair)' /\ j # i
    BY <1>1, <1>2, <1>5, <2>1 DEF Adds
  <2>3. QED
    BY <1>1, <1>3, <1>4, <2>2, AssignedAssumption DEF AtMostOneLive
<1>6. \A x \in Pairs : LiveFor(Policy, x) \subseteq DOMAIN ledger
  BY DEF LiveFor, LiveOf
<1>7. QED
  BY <1>2, <1>3, <1>5, <1>6

LEMMA ServeKeepsBudget ==
    ASSUME AssignedTypeOK, LedgerOK, LedgerOK', AtMostOneLive', HeldWithinBudget,
           NEW w \in Workers, Serve(w), Held' \subseteq Held
    PROVE  HeldWithinBudget'
<1>1. PICK k \in Keys : k = key[w] /\ Create(k)
  BY DEF Serve, LedgerOK, TypeOK
<1>2. k.pair \in Held /\ k.policy = Policy /\ k.pair \in Pairs
  BY <1>1, AssignedAssumption DEF Serve, Held, UnderWay, Keys
<1>3. CASE UNCHANGED ledger
  <2>1. Spent(Policy)' = Spent(Policy)
    BY <1>3, SpentIsPaid
  <2>2. NotLive(Held)' \subseteq NotLive(Held)
    BY <1>3 DEF NotLive, LiveFor, LiveOf
  <2>3. QED
    BY <2>1, <2>2, SpentIsNat, HeldGetsCheaper
<1>4. ASSUME NEW i, Adds(ledger, ledger', i, k), ledger'[i].state \in Dead
      PROVE  HeldWithinBudget'
  <2>1. Spent(Policy)' = Spent(Policy)
    BY <1>1, <1>4, CreateAdds, SpentWithOneDead
  <2>2. \A x \in Pairs : LiveFor(Policy, x)' = LiveFor(Policy, x)
    BY <1>4 DEF LiveFor, LiveOf, Adds
  <2>3. NotLive(Held)' \subseteq NotLive(Held)
    BY <2>2, NotLiveIn DEF NotLive
  <2>4. QED
    BY <2>1, <2>3, SpentIsNat, HeldGetsCheaper
<1>5. ASSUME NEW i, Adds(ledger, ledger', i, k), ledger'[i].state \notin Dead
      PROVE  HeldWithinBudget'
  <2>1. PICK H, G : H = NotLive(Held) /\ G = NotLive(Held)'
    OBVIOUS
  <2>2. /\ LiveFor(Policy, k.pair) = {}
        /\ LiveFor(Policy, k.pair)' # {}
        /\ \A x \in Pairs : LiveFor(Policy, x)' = {} => LiveFor(Policy, x) = {}
    BY <1>5, LiveOneWasHeld
  <2>3. H \in SUBSET Pairs /\ G \in SUBSET (H \ {k.pair}) /\ k.pair \in H
    BY <1>2, <2>1, <2>2, NotLiveIn DEF NotLive
  <2> DEFINE R == H \ {k.pair}
             s == Spent(Policy)
             t == Spent(Policy)'
  <2>4. R \in SUBSET Pairs /\ G \in SUBSET R /\ k.pair \notin R /\ H = R \cup {k.pair}
    BY <2>3
  <2>5. t <= s + Price[k.pair] /\ s \in Nat /\ s + PriceOf(H) <= SpendLimit
    BY <1>1, <1>2, <2>1, SpentAfterCreate, SpentIsNat DEF HeldWithinBudget
  <2>6. t \in Nat
    <3>1. LiveIn(ledger', Policy) \in SUBSET DOMAIN ledger' /\ IsLedger(ledger')
      BY DEF LiveIn, LedgerOK, TypeOK, IsLedger
    <3>2. QED
      BY <3>1, PaidIsNat, SpentIsPaid
  <2> HIDE DEF R, s, t
  <2>7. PriceOf(H) = PriceOf(R) + Price[k.pair]
    BY <1>2, <2>4, PriceOfOneMore
  <2>8. PriceOf(G) <= PriceOf(R) /\ PriceOf(G) \in Nat /\ PriceOf(R) \in Nat
    BY <2>4, PriceOfSubset, PriceIsNat
  <2>9. t + PriceOf(G) <= SpendLimit
    BY <1>2, <2>5, <2>6, <2>7, <2>8, RedemptionAssumption
  <2>10. QED
    BY <2>1, <2>9, HeldNext DEF t
<1>6. QED
  BY <1>1, <1>3, <1>4, <1>5, CreateAdds

(* What a dying transaction gives back pays for its pair, which is unpaid  *)
(* again.                                                                  *)
LEMMA SetStateKeepsBudget ==
    ASSUME LedgerOK, LedgerOK', HeldWithinBudget, NEW i \in DOMAIN ledger, NEW s \in States,
           SetState(i, s), ledger[i].state \notin Dead, Held' \subseteq Held
    PROVE  HeldWithinBudget'
<1> DEFINE x == ledger[i].key.pair
<1>1. ledger[i].key.policy = Policy /\ x \in Pairs
  BY LedgerEntry, AssignedAssumption DEF LedgerOK
<1>2. /\ DOMAIN ledger' = DOMAIN ledger
      /\ \A j \in DOMAIN ledger :
            /\ ledger'[j].key = ledger[j].key
            /\ ledger'[j].state = IF j = i THEN s ELSE ledger[j].state
  BY LedgerEntry DEF SetState, LedgerOK, Transactions
<1>3. Spent(Policy) = Spent(Policy)' + (IF s \in Dead THEN Price[x] ELSE 0)
  BY <1>1, SpentWhenOneDies
<1>4. Spent(Policy)' <= Spent(Policy)
  BY SpentAfterSetState
<1>5. CASE s \notin Dead
  <2>1. \A y \in Pairs : LiveFor(Policy, y)' = {} => LiveFor(Policy, y) = {}
    BY <1>2, <1>5 DEF LiveFor, LiveOf
  <2>2. NotLive(Held)' \subseteq NotLive(Held)
    BY <2>1, NotLiveIn DEF NotLive
  <2>3. QED
    BY <1>4, <2>2, HeldGetsCheaper
<1>6. CASE s \in Dead
  <2>1. \A y \in Pairs : y # x /\ LiveFor(Policy, y)' = {} => LiveFor(Policy, y) = {}
    BY <1>2 DEF LiveFor, LiveOf
  <2>2. PICK H, G : H = NotLive(Held) /\ G = NotLive(Held)'
    OBVIOUS
  <2>3. H \in SUBSET Pairs /\ G \in SUBSET (H \cup {x})
    BY <2>1, <2>2, NotLiveIn DEF NotLive
  <2> DEFINE a == Spent(Policy)
             b == Spent(Policy)'
             c == PriceOf(H \cup {x})
  <2>4. a = b + Price[x] /\ a \in Nat /\ a + PriceOf(H) <= SpendLimit
    BY <1>3, <1>6, <2>2, SpentIsNat DEF HeldWithinBudget
  <2>5. b \in Nat
    <3>1. LiveIn(ledger', Policy) \in SUBSET DOMAIN ledger' /\ IsLedger(ledger')
      BY DEF LiveIn, LedgerOK, TypeOK, IsLedger
    <3>2. QED
      BY <3>1, PaidIsNat, SpentIsPaid
  <2>6. c <= PriceOf(H) + Price[x]
    <3>1. CASE x \in H
      <4>1. H \cup {x} = H
        BY <3>1
      <4>2. PriceOf(H) \in Nat /\ Price[x] \in Nat
        BY <1>1, <2>3, PriceIsNat, RedemptionAssumption
      <4>3. c = PriceOf(H)
        BY <4>1
      <4> HIDE DEF c, x
      <4>4. QED
        BY <4>2, <4>3
    <3>2. CASE x \notin H
      <4>1. PICK y \in Pairs : y = x
        BY <1>1
      <4>2. PriceOf(H \cup {y}) = PriceOf(H) + Price[y]
        BY <2>3, <3>2, <4>1, PriceOfOneMore
      <4>3. PriceOf(H) \in Nat /\ Price[y] \in Nat
        BY <2>3, PriceIsNat, RedemptionAssumption
      <4>4. QED
        BY <4>1, <4>2, <4>3
    <3>3. QED
      BY <3>1, <3>2
  <2>7. PriceOf(G) <= c /\ PriceOf(G) \in Nat /\ c \in Nat
    BY <1>1, <2>3, PriceOfSubset, PriceIsNat
  <2>8. PriceOf(H) \in Nat /\ Price[x] \in Nat
    BY <1>1, <2>3, PriceIsNat, RedemptionAssumption
  <2> HIDE DEF a, b, c, x
  <2>9. b + PriceOf(G) <= SpendLimit
    BY <2>4, <2>5, <2>6, <2>7, <2>8, RedemptionAssumption
  <2>10. QED
    BY <2>2, <2>9, HeldNext DEF b
<1>7. QED
  BY <1>5, <1>6

(* An allocation checks the budget alone, behind the lock: it holds what   *)
(* is allocated and what it is about to allocate.                          *)
LEMMA CheckBudgetKeepsBudget ==
    ASSUME AssignedTypeOK, AssignedInv, HolderKeepsLock, LedgerOK,
           NEW w \in Workers, CheckBudget(w)
    PROVE  HeldWithinBudget'
<1> DEFINE X == DOMAIN copy[w]
           A == InState("allocated")
<1>1. X \in SUBSET Pairs /\ A \in SUBSET Pairs
  BY CopyType DEF AssignedTypeOK, InState
<1>2. /\ pc[w] = "locked" /\ stage[w] = "allocate"
      /\ UNCHANGED <<pc, key, ledger, assignment>>
      /\ DOMAIN copy'[w] = X
      /\ \A v \in Workers : v # w => copy'[v] = copy[v] /\ stage'[v] = stage[v]
  BY DEF CheckBudget, SetStage, AssignedTypeOK
<1>3. ASSUME NEW x \in Pairs, NEW v \in Workers, UnderWay(v, x)' PROVE x \in X
  <2>1. v # w => pc[v] = "idle"
    BY <1>2, OneRequest DEF AssignedTypeOK
  <2>2. v # w => stage'[v] = "redeem" /\ pc'[v] = "idle"
    BY <1>2, <2>1 DEF AssignedInv, StagesFollowRequest
  <2>3. v = w
    BY <1>3, <2>2 DEF UnderWay
  <2>4. QED
    BY <1>2, <1>3, <2>3 DEF UnderWay
<1>4. Held' \subseteq A \cup X
  BY <1>2, <1>3 DEF Held, InState
<1>5. PICK G : G = NotLive(Held)'
  OBVIOUS
<1>6. G \in SUBSET (A \cup X)
  BY <1>4, <1>5 DEF NotLive
<1>7. Spent(Policy)' = Spent(Policy)
  BY <1>2, SpentIsPaid
<1>8. Spent(Policy) + PriceOf(A) + PriceOf(X) <= SpendLimit
  BY DEF CheckBudget, TotalAllocated
<1>9. Spent(Policy) \in Nat
  BY SpentIsNat
<1> HIDE DEF A, X
<1>10. PriceOf(G) <= PriceOf(A \cup X) /\ PriceOf(A \cup X) <= PriceOf(A) + PriceOf(X)
  BY <1>1, <1>6, PriceOfSubset, PriceOfBoth
<1>11. /\ PriceOf(G) \in Nat /\ PriceOf(A \cup X) \in Nat
       /\ PriceOf(A) \in Nat /\ PriceOf(X) \in Nat
  BY <1>1, <1>6, PriceIsNat
<1>12. Spent(Policy) + PriceOf(G) <= SpendLimit
  BY <1>8, <1>9, <1>10, <1>11, RedemptionAssumption
<1>13. QED
  BY <1>5, <1>7, <1>12, HeldNext

LEMMA HeldStep ==
    ASSUME Ops \cap {"remind", "force"} = {}, AssignedTypeOK, AssignedInv, HolderKeepsLock,
           late = {}, LedgerOK, LedgerOK', AtMostOneLive', HeldWithinBudget,
           [AssignedNext]_assignedVars
    PROVE  HeldWithinBudget'
<1>1. CASE \E w \in Workers : CheckBudget(w)
  BY <1>1, CheckBudgetKeepsBudget
<1>2. CASE ~\E w \in Workers : CheckBudget(w)
  <2>1. Held' \subseteq Held
    BY <1>2, HeldShrinks
  <2>2. CASE UNCHANGED ledger
    <3>1. Spent(Policy)' = Spent(Policy)
      BY <2>2, SpentIsPaid
    <3>2. NotLive(Held)' \subseteq NotLive(Held)
      BY <2>1, <2>2 DEF NotLive, LiveFor, LiveOf
    <3>3. QED
      BY <3>1, <3>2, SpentIsNat, HeldGetsCheaper
  <2>3. CASE \E w \in Workers : Serve(w)
    BY <2>1, <2>3, ServeKeepsBudget
  <2>4. CASE \E i \in DOMAIN ledger : Settle(i) \/ Reverse(i)
    <3>1. PICK i \in DOMAIN ledger, s \in States : SetState(i, s) /\ ledger[i].state \notin Dead
      BY <2>4 DEF Settle, Reverse, States, Dead
    <3>2. QED
      BY <2>1, <3>1, SetStateKeepsBudget
  <2>5. [Next]_vars
    BY AssignedStep
  <2>6. QED
    BY <2>2, <2>3, <2>4, <2>5
       DEF Next, vars, Acquire, ReadHistory, Post, Refuse, TimeOut, Leave, Crash, Expire,
           ServeLate
<1>3. QED
  BY <1>1, <1>2

LEMMA HeldInit == AssignedInit => HeldWithinBudget
<1> SUFFICES ASSUME AssignedInit PROVE HeldWithinBudget
  OBVIOUS
<1>1. NotLive(Held) = {}
  BY DEF AssignedInit, Init, NotLive, Held, UnderWay, NoRow
<1>2. PriceOf({}) = 0
  <2>1. {} \in SUBSET Pairs
    OBVIOUS
  <2>2. QED
    BY <2>1, PriceIsTotal, TotalEmpty
<1>3. Spent(Policy) = 0
  <2>1. ledger = <<>>
    BY DEF AssignedInit, Init
  <2>2. LiveIn(ledger, Policy) = {} /\ IsFiniteSet(DOMAIN ledger)
    BY <2>1, FS_EmptySet DEF LiveIn
  <2>3. QED
    BY <2>2, PaidOfNothing, SpentIsPaid
<1>4. QED
  BY <1>1, <1>2, <1>3, RedemptionAssumption DEF HeldWithinBudget

LEMMA HeldCoversUnpaid == LedgerOK /\ HeldWithinBudget => WithinBudget
<1> SUFFICES ASSUME LedgerOK, HeldWithinBudget PROVE WithinBudget
  OBVIOUS
<1>1. NotLive(Held) \in SUBSET Pairs /\ Unpaid \in SUBSET NotLive(Held)
  BY DEF Unpaid, NotLive, Held, InState
<1>2. PriceOf(Unpaid) <= PriceOf(NotLive(Held))
  BY <1>1, PriceOfSubset
<1>3. PriceOf(Unpaid) \in Nat /\ PriceOf(NotLive(Held)) \in Nat /\ Spent(Policy) \in Nat
  BY <1>1, PriceIsNat, SpentIsNat
<1>4. QED
  BY <1>2, <1>3, RedemptionAssumption DEF HeldWithinBudget, WithinBudget

(* The spend of the policy and the price of what is allocated and unpaid   *)
(* stay within the spend limit, although allocating and redeeming read the *)
(* spend from a remote service and cancelling, expiring, failing and       *)
(* reversing take no lock: as long as no request outlives the timeout of   *)
(* its lock's key, no call is served after its caller is gone, and no row  *)
(* is brought back to allocated outside the lock.                          *)
THEOREM WithinBudgetTheorem ==
    ASSUME ~SlowRequests, ~LateCalls, Ops \cap {"remind", "force"} = {}
    PROVE  AssignedSpec => []WithinBudget
<1>1. AssignedInit => HeldWithinBudget /\ LedgerOK /\ late = {}
  BY HeldInit, LedgerInit DEF AssignedInit, Init
<1>2. LedgerOK /\ [AssignedNext]_assignedVars => LedgerOK'
  BY AssignedStep, LedgerStep
<1>3. late = {} /\ [AssignedNext]_assignedVars => (late = {})'
  BY AssignedStep
     DEF Next, vars, Acquire, ReadHistory, Post, Refuse, TimeOut, Leave, Crash, Expire,
         Serve, ServeLate, Settle, Reverse
<1>4. /\ AssignedTypeOK /\ AssignedInv /\ HolderKeepsLock /\ late = {}
      /\ LedgerOK /\ LedgerOK' /\ AtMostOneLive' /\ HeldWithinBudget
      /\ [AssignedNext]_assignedVars
      => HeldWithinBudget'
  BY HeldStep
<1>5. LedgerOK /\ HeldWithinBudget => WithinBudget
  BY HeldCoversUnpaid
<1>6. Spec => []HolderKeepsLock
  BY HolderKeepsLockTheorem
<1>7. QED
  BY <1>1, <1>2, <1>3, <1>4, <1>5, <1>6, AssignedInvTheorem, AssignedAtMostOneLive,
     AssignedImplementsRedemption, PTL
     DEF AssignedSpec, ImplementsRedemption
=============================================================================
