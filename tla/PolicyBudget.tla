---------------------------- MODULE PolicyBudget ----------------------------
(***************************************************************************)
(* The budgets that redemptions draw on: the limits of a policy and of its *)
(* learners, the choice of a policy for a learner and a content (the       *)
(* can-redeem view), and the requests that create, edit, deactivate and    *)
(* top up policies (subsidy_access_policy/models.py, api/v1/views and      *)
(* api/serializers/subsidy_access_policy.py, the Django admin).            *)
(*                                                                         *)
(* Redemption models the redeem request; here its checks are those of      *)
(* can_redeem() with the policy as the request loaded it, before the lock. *)
(* A request that edits a policy loads it, compares it with the other      *)
(* policies and the deposits of the subsidy, and saves it whole, with no   *)
(* lock (OpenEdit, Store); a deposit is made before the policy is saved.   *)
(*                                                                         *)
(* Every policy has a spend limit and a deposit is one unit.  Calls that   *)
(* outlive their request are left to Redemption: every limit below is one  *)
(* that such a call may break, served after the next request has checked.  *)
(***************************************************************************)
EXTENDS Redemption

CONSTANTS
    Admins,         \* the requests that edit policies at the same time
    NoEdit,         \* the admin edits nothing, or the worker has no policy
    NoOffer,        \* the page of the learner offers no policy
    Learner,        \* Learner[x]: the learner of pair x
    Params,         \* Params[p]: customer, subsidy, catalog and method of p
    Catalog,        \* Catalog[p]: the pairs whose content p's catalog has
    Groups,         \* Groups[p]: the groups of p
    Members,        \* Members[g]: the learners of group g
    Rank,           \* Rank[p]: priority of the type of p, then expiration
    LimitKind,      \* LimitKind[p]: what p limits for a learner
    LearnerLimit,   \* the limit per learner
    MaxDeposits,    \* bounds the deposits of a model check
    Overlap,        \* may a policy be edited while a redemption runs in it?
    Portal,         \* do learners redeem only what the portal offered?
    CreatedActive,  \* may a policy be created active?
    Retires,        \* may a policy be retired?
    Lowers          \* may a spend limit be set below what is spent?

ASSUME BudgetAssumption ==
    /\ ~LateCalls
    /\ IsFiniteSet(Policies)
    /\ NoOffer \notin Policies
    /\ LimitKind \in [Policies -> {"enrollments", "spend", "none"}]
    /\ Rank \in [Policies -> Nat]
    /\ LearnerLimit \in Nat
    /\ {SpendLimit, MaxDeposits} \subseteq Nat \ {0}
    /\ {Overlap, Portal, CreatedActive, Retires, Lowers} \subseteq BOOLEAN

VARIABLES
    row,            \* row[p]: the policy in the database
    deposits,       \* the sum of the deposits of the subsidy
    edit,           \* edit[a]: the policy a request is about to save
    seen,           \* seen[w]: the policy as the request of w loaded it
    offer           \* offer[x]: the policy the page offers for a pair

mine == <<row, deposits, edit, seen, offer>>
bvars == <<vars, mine>>

(* A retired policy is still active; an inactive one may be anything else. *)
Rows == [status : {"absent", "inactive", "active", "retired"}, limit : 0..SpendLimit]
Counted == {"active", "retired"}

BudgetTypeOK ==
    /\ TypeOK
    /\ row \in [Policies -> Rows]
    /\ deposits \in 0..MaxDeposits
    /\ edit \in [Admins -> [policy : Policies, row : Rows, checked : BOOLEAN] \cup {NoEdit}]
    /\ seen \in [Workers -> Rows \cup {NoEdit}]
    /\ offer \in [Pairs -> Policies \cup {NoOffer}]

(* One policy may spend what is deposited; the others do not exist yet.    *)
BudgetInit ==
    /\ Init
    /\ \E p \in Policies :
           row = [q \in Policies |->
                    [status |-> IF q = p THEN "active" ELSE "absent",
                     limit |-> IF q = p THEN 1 ELSE 0]]
    /\ deposits = 1
    /\ edit = [a \in Admins |-> NoEdit]
    /\ seen = [w \in Workers |-> NoEdit]
    /\ offer = [x \in Pairs |-> NoOffer]

-----------------------------------------------------------------------------
(* What can_redeem() and the pages compute.                                *)

(* is_redemption_enabled: active, and not retired.                         *)
Enabled(r) == r.status = "active"

(* includes_learner(): a policy without a group is open to every learner.  *)
IncludesLearner(p, l) == Groups[p] = {} \/ \E g \in Groups[p] : l \in Members[g]

CatalogContains(p, x) == x \in Catalog[p]

TotalSpent == MapThenSumSet(LAMBDA p : Spent(p), Policies)

(* The current balance of the subsidy, from which its can_redeem answers.  *)
Balance == deposits - TotalSpent

(* content_would_exceed_limit()                                            *)
WouldExceed(spent, limit, price) == spent + price > limit

(* transactions_for_learner(): every transaction of the learner through p, *)
(* the failed and the reversed ones too.                                   *)
OfLearner(p, l) ==
    {i \in DOMAIN ledger : ledger[i].key.policy = p /\ Learner[ledger[i].key.pair] = l}

LearnerUse(p, l) ==
    IF LimitKind[p] = "spend"
    THEN MapThenSumSet(LAMBDA i : Price[ledger[i].key.pair], OfLearner(p, l))
    ELSE Cardinality(OfLearner(p, l))

(* PerLearnerEnrollmentCreditAccessPolicy: one more is within the limit.   *)
EnrollmentAllowed(p, x) == LearnerUse(p, Learner[x]) < LearnerLimit

(* PerLearnerSpendCreditAccessPolicy without requests: so is the price.    *)
SpendAllowed(p, x) == ~WouldExceed(LearnerUse(p, Learner[x]), LearnerLimit, Price[x])

(* Mutant: an exhausted limit lets one more pass.                          *)
WithinLearnerLimitMutant(p, x) ==
    LimitKind[p] # "none" => LearnerUse(p, Learner[x]) <= LearnerLimit

WithinLearnerLimit(p, x) ==
    CASE LimitKind[p] = "enrollments" -> EnrollmentAllowed(p, x)
      [] LimitKind[p] = "spend" -> SpendAllowed(p, x)
      [] OTHER -> TRUE

(* will_exceed_spend_limit() of a policy that was loaded as r.             *)
WillExceedSpendLimit(r, p, x) == WouldExceed(Spent(p), r.limit, Price[x])

(* Mutant: the balance of the subsidy stands for the limit of the policy.  *)
RedeemableMutant(r, p, x, skip) ==
    /\ Enabled(r)
    /\ skip \/ IncludesLearner(p, Learner[x])
    /\ CatalogContains(p, x)
    /\ ~WouldExceed(TotalSpent, deposits, Price[x])
    /\ WithinLearnerLimit(p, x)

(* can_redeem() of a policy that was loaded as r; skip is its              *)
(* skip_customer_user_check.                                               *)
Redeemable(r, p, x, skip) ==
    /\ Enabled(r)
    /\ skip \/ IncludesLearner(p, Learner[x])
    /\ CatalogContains(p, x)
    /\ Price[x] <= Balance
    /\ ~WillExceedSpendLimit(r, p, x)
    /\ WithinLearnerLimit(p, x)

(* The policies of the customer that the views look at.                    *)
EnabledPolicies == {p \in Policies : Enabled(row[p])}

-----------------------------------------------------------------------------
(* The can-redeem view.                                                    *)

(* The transactions of a learner through some policies: those of other     *)
(* policies of the subsidy are left out.                                   *)
RedemptionsThrough(P, l) == UNION {OfLearner(p, l) : p \in P}

(* get_existing_redemptions() of the pair.                                 *)
Redemptions(x) == RedemptionsThrough(EnabledPolicies, Learner[x]) \cap History(x)

(* Mutant: a redemption that succeeded does not matter.                    *)
SuccessfulMutant(x) == {}

Successful(x) == {i \in Redemptions(x) : ledger[i].state = "committed"}

(* evaluate_policies(): the policies that can_redeem() accepts.            *)
Candidates(x, skip) == {p \in EnabledPolicies : Redeemable(row[p], p, x, skip)}

(* sort_subsidy_access_policies_for_redemption(); the balance is the same. *)
First(S) == CHOOSE p \in S : \A q \in S : Rank[p] <= Rank[q]

(* The page waits for its request, and polls a pending transaction.        *)
Waiting(x) ==
    \/ \E w \in Workers : pc[w] # "idle" /\ key[w].pair = x
    \/ \E i \in History(x) : ledger[i].state = "pending"

(* The page asks for a policy to redeem the pair with.  Whether the learner*)
(* may use a policy is looked at only if an operator asks on her behalf    *)
(* (lms_user_id_override); otherwise the redeem request finds that out.    *)
View(x, override) ==
    /\ Portal => ~Waiting(x)
    /\ LET candidates == Candidates(x, ~override)
       IN  offer' = [offer EXCEPT ![x] =
                       IF Successful(x) # {} \/ candidates = {} THEN NoOffer
                       ELSE First(candidates)]
    /\ UNCHANGED <<vars, row, deposits, edit, seen>>

-----------------------------------------------------------------------------
(* The redeem request.                                                     *)

Editing(p) == \E a \in Admins : edit[a] # NoEdit /\ edit[a].policy = p

(* redeem() loads the policy and then takes its lock.                      *)
StartRedeem(w, p, x) ==
    /\ row[p].status # "absent"
    /\ Portal => offer[x] = p
    /\ Overlap \/ ~Editing(p)
    /\ Acquire(w, p, x)
    /\ seen' = [seen EXCEPT ![w] = row[p]]
    /\ offer' = [offer EXCEPT ![x] = NoOffer]
    /\ UNCHANGED <<row, deposits, edit>>

(* can_redeem() accepts and redeem() posts the call.                       *)
Redeem(w) ==
    /\ pc[w] = "read"
    /\ Redeemable(seen[w], key[w].policy, key[w].pair, FALSE)
    /\ Post(w)
    /\ UNCHANGED mine

(* The request ends, and with it what it has loaded.                       *)
EndRedeem(w) ==
    /\ Leave(w) \/ Crash(w)
    /\ seen' = [seen EXCEPT ![w] = NoEdit]
    /\ UNCHANGED <<row, deposits, edit, offer>>

(* The rest of the request, the cache and the subsidy, as in Redemption.   *)
Proceed ==
    /\ \/ \E w \in Workers : ReadHistory(w) \/ Refuse(w) \/ Serve(w)
       \/ \E p \in Policies : Expire(p)
       \/ \E i \in DOMAIN ledger : Settle(i) \/ Reverse(i)
    /\ UNCHANGED mine

-----------------------------------------------------------------------------
(* The requests that edit policies.                                        *)

(* total_spend_limits_for_subsidy, if p were saved as r.                   *)
SumOfLimits(p, r) ==
    LET others == {q \in Policies \ {p} : row[q].status \in Counted}
    IN  MapThenSumSet(LAMBDA q : row[q].limit, others)
            + (IF r.status \in Counted THEN r.limit ELSE 0)

IsActiveUpdated(p, r) == (r.status \in Counted) # (row[p].status \in Counted)

IsSpendLimitUpdated(p, r) == r.limit # row[p].limit

(* Mutant: only a new limit is compared with the deposits.                 *)
CleanSpendLimitMutant(p, r) ==
    r.status \in Counted /\ IsSpendLimitUpdated(p, r) => SumOfLimits(p, r) <= deposits

(* clean_spend_limit()                                                     *)
CleanSpendLimit(p, r) ==
    r.status \in Counted /\ (IsActiveUpdated(p, r) \/ IsSpendLimitUpdated(p, r))
        => SumOfLimits(p, r) <= deposits

(* Mutant: only retired policies keep their spend.                         *)
CleanDeactivationMutant(p, r) ==
    r.status = "inactive" /\ row[p].status = "retired" => Spent(p) = 0

(* validate_budget_deactivation_with_spend()                               *)
CleanDeactivation(p, r) ==
    r.status = "inactive" /\ row[p].status \in Counted => Spent(p) = 0

(* clean() of a policy that exists.                                        *)
Clean(p, r) == CleanSpendLimit(p, r) /\ CleanDeactivation(p, r)

Idle(a, p) == edit[a] = NoEdit /\ (Overlap \/ \A w \in Workers : ~Inside(w, p))

Checked(a, p, r) == edit' = [edit EXCEPT ![a] = [policy |-> p, row |-> r, checked |-> TRUE]]

(* What a serializer lets a request write: whether the policy is active or *)
(* retired, and its spend limit.                                           *)
Writable == {r \in Rows : r.status # "absent"}

(* PUT and PATCH: the row is read, changed and validated.                  *)
OpenEdit(a, p, r) ==
    /\ Idle(a, p)
    /\ row[p].status # "absent" /\ r \in Writable
    /\ Retires \/ r.status # "retired"
    /\ Lowers \/ r.limit >= Spent(p)
    /\ Clean(p, r)
    /\ Checked(a, p, r)
    /\ UNCHANGED <<vars, row, deposits, seen, offer>>

(* DELETE is a soft one, of an active policy.                              *)
Deactivated(p) == [row[p] EXCEPT !.status = "inactive"]

OpenDelete(a, p) ==
    /\ Idle(a, p)
    /\ row[p].status \in Counted
    /\ Clean(p, Deactivated(p))
    /\ Checked(a, p, Deactivated(p))
    /\ UNCHANGED <<vars, row, deposits, seen, offer>>

(* POST: an active policy with the same parameters is returned, otherwise  *)
(* a new one is made, whose limit is not compared with the deposits.       *)
Exists(p) == \E q \in Policies : Params[q] = Params[p] /\ row[q].status \in Counted

OpenCreate(a, p, r) ==
    /\ Idle(a, p)
    /\ row[p].status = "absent" /\ r \in Writable
    /\ CreatedActive \/ r.status = "inactive"
    /\ ~Exists(p)
    /\ Checked(a, p, r)
    /\ UNCHANGED <<vars, row, deposits, seen, offer>>

(* "Set late redemption" of the Django admin saves the row as it is.       *)
OpenLateRedemption(a, p) ==
    /\ Idle(a, p)
    /\ row[p].status # "absent"
    /\ Checked(a, p, row[p])
    /\ UNCHANGED <<vars, row, deposits, seen, offer>>

(* create_deposit(): the subsidy has made the deposit; the answer may be   *)
(* lost, which ends the request.                                           *)
Deposit(a, p) ==
    /\ Idle(a, p)
    /\ row[p].status # "absent"
    /\ deposits < MaxDeposits /\ row[p].limit < SpendLimit
    /\ deposits' = deposits + 1
    /\ \/ edit' = [edit EXCEPT ![a] = [policy |-> p, row |-> row[p], checked |-> FALSE]]
       \/ UNCHANGED edit
    /\ UNCHANGED <<vars, row, seen, offer>>

(* It adds the deposit to the limit it has loaded; save() validates that.  *)
TopUp(a) ==
    /\ edit[a] # NoEdit /\ ~edit[a].checked
    /\ LET p == edit[a].policy
           r == [edit[a].row EXCEPT !.limit = @ + 1]
       IN  IF Clean(p, r) THEN Checked(a, p, r) ELSE edit' = [edit EXCEPT ![a] = NoEdit]
    /\ UNCHANGED <<vars, row, deposits, seen, offer>>

(* save() stores the whole row.                                            *)
Store(a) ==
    /\ edit[a] # NoEdit /\ edit[a].checked
    /\ row' = [row EXCEPT ![edit[a].policy] = edit[a].row]
    /\ edit' = [edit EXCEPT ![a] = NoEdit]
    /\ UNCHANGED <<vars, deposits, seen, offer>>

(* The worker of the request dies.                                         *)
Abandon(a) ==
    /\ edit[a] # NoEdit
    /\ edit' = [edit EXCEPT ![a] = NoEdit]
    /\ UNCHANGED <<vars, row, deposits, seen, offer>>

BudgetNext ==
    \/ \E x \in Pairs, override \in BOOLEAN : View(x, override)
    \/ \E w \in Workers, p \in Policies, x \in Pairs : StartRedeem(w, p, x)
    \/ \E w \in Workers : Redeem(w)
    \/ \E w \in Workers : EndRedeem(w)
    \/ Proceed
    \/ \E a \in Admins, p \in Policies, r \in Rows : OpenEdit(a, p, r) \/ OpenCreate(a, p, r)
    \/ \E a \in Admins, p \in Policies :
           OpenDelete(a, p) \/ OpenLateRedemption(a, p) \/ Deposit(a, p)
    \/ \E a \in Admins : TopUp(a) \/ Store(a) \/ Abandon(a)

BudgetSpec == BudgetInit /\ [][BudgetNext]_bvars

-----------------------------------------------------------------------------
(* No learner uses more of a policy than its limit per learner, although   *)
(* the check counts transactions that other requests are creating.         *)
LearnerWithinLimit ==
    \A p \in Policies, x \in Pairs :
        LimitKind[p] # "none" => LearnerUse(p, Learner[x]) <= LearnerLimit

(* The limits of the active policies never exceed the deposits, whatever   *)
(* is edited, activated and deposited, and wherever a request dies.        *)
LimitsWithinDeposits ==
    MapThenSumSet(LAMBDA p : row[p].limit, {p \in Policies : row[p].status \in Counted})
        <= deposits

(* Two policies of a subsidy, each under its own lock, never spend more    *)
(* than was deposited: what the comparison of limits and deposits is for.  *)
SpendWithinDeposits == TotalSpent <= deposits

(* What was spent through a policy that has been deactivated is nothing.   *)
InactiveIsUnspent ==
    \A p \in Policies : row[p].status \in {"absent", "inactive"} => Spent(p) = 0

(* A learner who follows the portal is charged for a content through one   *)
(* policy only, although idempotency keys differ between policies.         *)
ChargedOnce ==
    \A i, j \in DOMAIN ledger :
        /\ ledger[i].key.pair = ledger[j].key.pair
        /\ {ledger[i].state, ledger[j].state} \cap Dead = {}
        => i = j

(* "A prior attempt to redeem has been reversed": it can be retried, as    *)
(* far as the limit per learner is concerned.  No run checks it: failed    *)
(* and reversed transactions still count towards that limit.               *)
RetryIsAllowed ==
    \A p \in Policies, x \in Pairs :
        OfLearner(p, Learner[x]) \subseteq Past(x) => WithinLearnerLimit(p, x)

-----------------------------------------------------------------------------
(* Why they hold.  While no policy is edited under a request (~Overlap) and*)
(* no request outlives its lock (~SlowRequests), the policy that a request *)
(* has loaded is the one in the database, and what it has checked before   *)
(* its post is still so when the post is served.                           *)
LoadedIsCurrent ==
    \A w \in Workers : pc[w] # "idle" =>
        seen[w] = row[key[w].policy] /\ ~Editing(key[w].policy)

Fits(p, x) ==
    /\ Enabled(row[p])
    /\ ~WillExceedSpendLimit(row[p], p, x)
    /\ WithinLearnerLimit(p, x)

PostedFits == \A w \in Workers : pc[w] = "posted" => Fits(key[w].policy, key[w].pair)

SpendWithinLimit == Lowers \/ \A p \in Policies : Spent(p) <= row[p].limit

EditsFit ==
    \A a \in Admins : edit[a] # NoEdit =>
        /\ Lowers \/ Spent(edit[a].policy) <= edit[a].row.limit
        /\ edit[a].row.status \in {"absent", "inactive"} => Spent(edit[a].policy) = 0

BudgetInv ==
    /\ LoadedIsCurrent
    /\ PostedFits
    /\ SpendWithinLimit
    /\ EditsFit
    /\ InactiveIsUnspent
    /\ LearnerWithinLimit

(* What one admin at a time is about to save has been compared with the    *)
(* deposits, or needs no comparison.                                       *)
LimitsInv ==
    /\ LimitsWithinDeposits
    /\ \A a \in Admins : edit[a] # NoEdit /\ edit[a].checked =>
          SumOfLimits(edit[a].policy, edit[a].row) <= deposits

(* The portal offers a policy, and a request runs up to its post, only for *)
(* a pair without a live redemption, and for one request at a time.        *)
Unredeemed(x) == \A i \in History(x) : ledger[i].state \in Dead

Serving(w, x) == pc[w] # "idle" /\ key[w].pair = x

ChargesOK ==
    /\ ChargedOnce
    /\ \A x \in Pairs : offer[x] # NoOffer =>
          Unredeemed(x) /\ \A w \in Workers : ~Serving(w, x)
    /\ \A w \in Workers : pc[w] \in {"locked", "read", "posted"} => Unredeemed(key[w].pair)
    /\ \A v, w \in Workers, x \in Pairs : Serving(v, x) /\ Serving(w, x) => v = w

NotRetired ==
    /\ \A p \in Policies : row[p].status # "retired"
    /\ \A a \in Admins : edit[a] # NoEdit => edit[a].row.status # "retired"

(* Whatever these checks refuse, a redeem request is one of Redemption.    *)
ImplementsRedeem == Spec
=============================================================================
