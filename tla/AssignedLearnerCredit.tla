------------------------ MODULE AssignedLearnerCredit ------------------------
(***************************************************************************)
(* An assignment-based policy: AssignedLearnerCreditAccessPolicy of        *)
(* subsidy_access_policy/models.py with the LearnerContentAssignment rows  *)
(* of content_assignments.  It composes the redeem request of Redemption,  *)
(* and so PolicyLock, with the assignment table:                           *)
(*   - a redeem request needs an allocated row, and saves it as accepted   *)
(*     or errored after the subsidy has answered, under the lock;          *)
(*   - an allocate (or approve) request checks the budget, reads the rows  *)
(*     of its learners and writes them, under the same lock;               *)
(*   - cancel, remind and expire requests, the handler of reversed         *)
(*     transactions, failing Celery tasks and forced redemptions read a row*)
(*     and write it later, with no lock and no row version.                *)
(*                                                                         *)
(* The database makes (configuration, learner, content) unique, so there is*)
(* one row per pair.  A row is its state and its transaction_uuid; its     *)
(* content_quantity is the price of the pair.                              *)
(***************************************************************************)
EXTENDS Redemption

CONSTANTS
    Policy,         \* the assignment-based policy
    Handlers,       \* the processes that write rows without the lock
    Ops,            \* which of UnlockedOps they run
    NoTx            \* transaction_uuid is null

UnlockedOps == {"cancel", "remind", "expire", "reverse", "fail", "force"}

ASSUME AssignedAssumption ==
    /\ Policies = {Policy}
    /\ IsFiniteSet(Pairs)
    /\ Ops \subseteq UnlockedOps
    /\ NoTx \notin TxIds

VARIABLES
    assignment,     \* assignment[x]: the row of pair x
    stage,          \* stage[w]: what w's request has left to do
    copy,           \* copy[w]: the rows w has read, by pair
    handler         \* handler[h]: the row handler h has read, and for what

assignedVars == <<cache, pc, key, ledger, late, assignment, stage, copy, handler>>

RowStates ==
    {"none", "allocated", "accepted", "cancelled", "expired", "errored", "reversed"}

Assignments == [state : RowStates, tx : TxIds \cup {NoTx}]

NoRow == [state |-> "none", tx |-> NoTx]

(* Mutant: an accepted assignment may be allocated again.                  *)
ReallocateStatesMutant == {"accepted", "cancelled", "errored", "expired", "reversed"}

(* LearnerContentAssignmentStateChoices                                    *)
ReallocateStates == {"cancelled", "errored", "expired", "reversed"}
CancelableStates == {"allocated", "errored"}
RemindableStates == {"allocated"}
ExpirableStates == {"allocated"}
ReversibleStates == {"accepted"}

Stages == {"redeem", "accept", "error", "allocate", "write"}

Free == [op |-> "idle"]
Reads == [op : Ops, pair : Pairs, row : Assignments]

AssignedTypeOK ==
    /\ TypeOK
    /\ assignment \in [Pairs -> Assignments]
    /\ stage \in [Workers -> Stages]
    /\ copy \in [Workers -> UNION {[X -> Assignments] : X \in SUBSET Pairs}]
    /\ handler \in [Handlers -> {Free} \cup Reads]

AssignedInit ==
    /\ Init
    /\ assignment = [x \in Pairs |-> NoRow]
    /\ stage = [w \in Workers |-> "redeem"]
    /\ copy = [w \in Workers |-> <<>>]
    /\ handler = [h \in Handlers |-> Free]

-----------------------------------------------------------------------------
PriceOf(X) == MapThenSumSet(LAMBDA x : Price[x], X)

InState(s) == {x \in Pairs : assignment[x].state = s}

(* Mutant: what is accepted is held back, not what is allocated.           *)
TotalAllocatedMutant == PriceOf(InState("accepted"))

(* total_allocated: get_allocated_quantity_for_configuration()             *)
TotalAllocated == PriceOf(InState("allocated"))

(* The transaction the subsidy answers a posted key with.                  *)
Answer(w) == CHOOSE i \in DOMAIN ledger : ledger[i].key = key[w]

SetStage(w, s) == stage' = [stage EXCEPT ![w] = s]

(* Nothing is left to do but to leave the lock.                            *)
EndRequest(w) ==
    /\ SetStage(w, "redeem")
    /\ copy' = [copy EXCEPT ![w] = <<>>]

-----------------------------------------------------------------------------
(* A redeem request.                                                       *)

StartAssigned(w, x) ==
    /\ Acquire(w, Policy, x)
    /\ SetStage(w, "redeem")
    /\ UNCHANGED <<assignment, copy, handler>>

ReadTransactions(w) ==
    /\ stage[w] = "redeem"
    /\ ReadHistory(w)
    /\ UNCHANGED <<assignment, stage, copy, handler>>

(* Mutant: the call is posted before the history is read.                  *)
PostAssignedMutant(w) ==
    /\ pc[w] = "locked"
    /\ stage[w] = "redeem"
    /\ pc' = [pc EXCEPT ![w] = "posted"]
    /\ copy' = [copy EXCEPT ![w] = [x \in {key[w].pair} |-> assignment[x]]]
    /\ UNCHANGED <<cache, key, ledger, late, assignment, stage, handler>>

(* The row of a learner and a content, whichever of a course and its run   *)
(* the request and the row have as their content_key.                      *)
AssignmentForLearner(x) == assignment[x]

(* get_assignment(): the row is cached for the request.                    *)
GetAssignment(w) ==
    copy' = [copy EXCEPT ![w] = [x \in {key[w].pair} |-> AssignmentForLearner(x)]]

(* The base checks pass, can_redeem() finds an allocated row, and redeem() *)
(* posts; it reuses the row that can_redeem() found.                       *)
PostAssigned(w) ==
    /\ Post(w)
    /\ AssignmentForLearner(key[w].pair).state = "allocated"
    /\ GetAssignment(w)
    /\ UNCHANGED <<assignment, stage, handler>>

(* can_redeem() or can_allocate() refuses, a call fails, or allocation     *)
(* meets an error and its transaction rolls back; an HTTPError of the post *)
(* leaves the row to be saved as errored.                                  *)
RefuseAssigned(w) ==
    /\ Refuse(w)
    /\ IF pc[w] = "posted"
       THEN SetStage(w, "error") /\ UNCHANGED copy
       ELSE EndRequest(w)
    /\ UNCHANGED <<assignment, handler>>

(* Nobody waits for the call any more: after a Timeout the row is left     *)
(* alone, after the HTTPError of a gateway it becomes errored.             *)
TimeOutAssigned(w) ==
    /\ TimeOut(w)
    /\ EndRequest(w) \/ (SetStage(w, "error") /\ UNCHANGED copy)
    /\ UNCHANGED <<assignment, handler>>

ServeAssigned(w) ==
    /\ Serve(w)
    /\ SetStage(w, "accept")
    /\ UNCHANGED <<assignment, copy, handler>>

(* Mutants: the row is saved as accepted without its transaction, or with  *)
(* the idempotency key in its place.                                       *)
SaveRowBareMutant(w) ==
    /\ stage[w] = "accept"
    /\ assignment' = [assignment EXCEPT ![key[w].pair] =
                  [copy[w][key[w].pair] EXCEPT !.state = "accepted"]]
    /\ EndRequest(w)
    /\ UNCHANGED <<cache, pc, key, ledger, late, handler>>

(* redeem() saves the row it read, every column of it.                     *)
SaveRow(w) ==
    /\ \/ /\ stage[w] = "accept"
          /\ assignment' = [assignment EXCEPT ![key[w].pair] = [state |-> "accepted", tx |-> Answer(w)]]
       \/ /\ stage[w] = "error"
          /\ assignment' = [assignment EXCEPT ![key[w].pair] =
                        [copy[w][key[w].pair] EXCEPT !.state = "errored"]]
    /\ EndRequest(w)
    /\ UNCHANGED <<cache, pc, key, ledger, late, handler>>

-----------------------------------------------------------------------------
(* An allocate request for the pairs of X; which of them is in the key     *)
(* does not matter, for this request derives none.                         *)

StartAllocate(w, X) ==
    /\ \E x \in X : Acquire(w, Policy, x)
    /\ SetStage(w, "allocate")
    /\ copy' = [copy EXCEPT ![w] = [x \in X |-> NoRow]]
    /\ UNCHANGED <<assignment, handler>>

(* can_allocate() and can_allocate_all() charge every learner of the       *)
(* request, those who already have an allocated row included;              *)
(* allocate_assignments() then reads the rows.                             *)
CheckBudget(w) ==
    LET X == DOMAIN copy[w] IN
    /\ pc[w] = "locked"
    /\ stage[w] = "allocate"
    /\ Spent(Policy) + TotalAllocated + PriceOf(X) <= SpendLimit
    /\ copy' = [copy EXCEPT ![w] = [x \in X |-> assignment[x]]]
    /\ SetStage(w, "write")
    /\ UNCHANGED <<cache, pc, key, ledger, late, assignment, handler>>

(* One database transaction.  Rows read in a reallocatable state become    *)
(* allocated, and so do some read as allocated: those whose preferred run  *)
(* or parent key is out of date are written back with the state they were  *)
(* read in.  transaction_uuid is not among ASSIGNMENT_REALLOCATION_FIELDS. *)
(* A row made by somebody else in the meantime breaks the unique key.      *)
WriteRows(w) ==
    LET seen(S) == {x \in DOMAIN copy[w] : copy[w][x].state \in S} IN
    /\ stage[w] = "write"
    /\ Refuse(w)
    /\ \A x \in seen({"none"}) : assignment[x] = NoRow
    /\ \E stale \in SUBSET seen({"allocated"}) :
          assignment' = [x \in Pairs |->
                    IF x \in seen(ReallocateStates \cup {"none"}) \cup stale
                    THEN [assignment[x] EXCEPT !.state = "allocated"]
                    ELSE assignment[x]]
    /\ EndRequest(w)
    /\ UNCHANGED handler

-----------------------------------------------------------------------------
LeaveAssigned(w) ==
    /\ stage[w] \notin {"accept", "error"}
    /\ Leave(w)
    /\ UNCHANGED <<assignment, stage, copy, handler>>

CrashAssigned(w) ==
    /\ Crash(w)
    /\ EndRequest(w)
    /\ UNCHANGED <<assignment, handler>>

ExpireAssigned ==
    /\ Expire(Policy)
    /\ UNCHANGED <<assignment, stage, copy, handler>>

-----------------------------------------------------------------------------
(* The writers that take no lock.                                          *)

(* A forced redemption allocates first, as far as it must.                 *)
Forcible(r) == r.state \in ReallocateStates \cup {"none"}

(* May op go on with row r?  The handler of reversed transactions looks the*)
(* row up by transaction_uuid; a failing task asks nothing of the state.   *)
Eligible(op, r) ==
    \/ op = "cancel" /\ r.state \in CancelableStates
    \/ op = "remind" /\ r.state \in RemindableStates
    \/ op = "expire" /\ r.state \in ExpirableStates
    \/ /\ op = "reverse"
       /\ r.state \in ReversibleStates
       /\ r.tx \in DOMAIN ledger
       /\ ledger[r.tx].state = "reversed"
    \/ op = "fail" /\ r.state # "none"
    \/ op = "force" /\ Forcible(r)

ReadRow(h, op, x) ==
    /\ handler[h] = Free
    /\ Eligible(op, assignment[x])
    /\ handler' = [handler EXCEPT ![h] = [op |-> op, pair |-> x, row |-> assignment[x]]]
    /\ UNCHANGED <<cache, pc, key, ledger, late, assignment, stage, copy>>

(* cancel and remind write the column "state" only, remind with the value  *)
(* it read; expire, reverse and fail save the whole row they read; force   *)
(* creates the row or reallocates it, see WriteRows.                       *)
Written(op, read, now) ==
    CASE op = "cancel"  -> [now EXCEPT !.state = "cancelled"]
      [] op = "remind"  -> [now EXCEPT !.state = read.state]
      [] op = "expire"  -> [read EXCEPT !.state = "expired"]
      [] op = "reverse" -> [read EXCEPT !.state = "reversed"]
      [] op = "fail"    -> [read EXCEPT !.state = "errored"]
      [] op = "force"   -> [now EXCEPT !.state = "allocated"]

WriteRow(h) ==
    LET t == handler[h] IN
    /\ t # Free
    /\ assignment' = IF t.op = "force" /\ t.row = NoRow /\ assignment[t.pair] # NoRow
                      THEN assignment
                      ELSE [assignment EXCEPT ![t.pair] = Written(t.op, t.row, @)]
    /\ handler' = [handler EXCEPT ![h] = Free]
    /\ UNCHANGED <<cache, pc, key, ledger, late, stage, copy>>

-----------------------------------------------------------------------------
SubsidyStep ==
    /\ \/ \E k \in late : ServeLate(k)
       \/ \E i \in DOMAIN ledger : Settle(i)
       \/ \E i \in DOMAIN ledger : Reverse(i)
    /\ UNCHANGED <<assignment, stage, copy, handler>>

AssignedNext ==
    \/ \E w \in Workers, x \in Pairs : StartAssigned(w, x)
    \/ \E w \in Workers : ReadTransactions(w)
    \/ \E w \in Workers : PostAssigned(w)
    \/ \E w \in Workers : RefuseAssigned(w)
    \/ \E w \in Workers : TimeOutAssigned(w)
    \/ \E w \in Workers : ServeAssigned(w)
    \/ \E w \in Workers : SaveRow(w)
    \/ \E w \in Workers, X \in SUBSET Pairs : StartAllocate(w, X)
    \/ \E w \in Workers : CheckBudget(w)
    \/ \E w \in Workers : WriteRows(w)
    \/ \E w \in Workers : LeaveAssigned(w)
    \/ \E w \in Workers : CrashAssigned(w)
    \/ ExpireAssigned
    \/ \E h \in Handlers, op \in Ops, x \in Pairs : ReadRow(h, op, x)
    \/ \E h \in Handlers : WriteRow(h)
    \/ SubsidyStep

AssignedSpec == AssignedInit /\ [][AssignedNext]_assignedVars

-----------------------------------------------------------------------------
(* What is promised of the budget: the spend of the policy and the price of*)
(* its allocated assignments that are not paid for yet stay within the     *)
(* spend limit.  can_allocate(): "ensure that the assignments to           *)
(* potentially allocate won't exceed the spend limit of this policy".      *)
NotLive(X) == {x \in X : LiveFor(Policy, x) = {}}

Unpaid == NotLive(InState("allocated"))

WithinBudget == Spent(Policy) + PriceOf(Unpaid) <= SpendLimit

(* An assignment that says it was accepted names a transaction of its own  *)
(* learner and content, whichever writers raced with its redemption; and no*)
(* row ever names the transaction of another pair.                         *)
OwnTransaction(x, r) ==
    /\ r.state = "accepted" => r.tx # NoTx
    /\ r.tx # NoTx => r.tx \in DOMAIN ledger /\ ledger[r.tx].key.pair = x

AcceptedHasTransaction == \A x \in Pairs : OwnTransaction(x, assignment[x])

(* Accepted assignments are never allocated again: an allocation decides by*)
(* a row it read before, and it is the lock that keeps that row from being *)
(* redeemed in between.                                                    *)
AcceptedNotReallocated ==
    [][\A x \in Pairs :
          assignment[x].state = "accepted" => assignment'[x].state # "allocated"]_assignedVars

(* cancel_assignments(): "This is a no-op for assignments in the following *)
(* non-cancelable states: [accepted, cancelled]."                          *)
CancelSparesAccepted ==
    [][\A x \in Pairs :
          assignment[x].state = "accepted" => assignment'[x].state # "cancelled"]_assignedVars

(* Why they hold: where a request is in its stages, and that every row read*)
(* and not written yet is as good as those in the table.                   *)
StagesFollowRequest ==
    \A w \in Workers :
        /\ pc[w] \in {"idle", "read", "posted"} => stage[w] = "redeem"
        /\ pc[w] = "posted" => DOMAIN copy[w] = {key[w].pair}
        /\ stage[w] \in {"allocate", "write"} => pc[w] # "leaving"
        /\ stage[w] = "accept" => pc[w] = "leaving" /\ Used(key[w])
        /\ stage[w] = "error" => pc[w] = "leaving" /\ DOMAIN copy[w] = {key[w].pair}

ReadsAreGood ==
    /\ \A w \in Workers : \A x \in DOMAIN copy[w] : OwnTransaction(x, copy[w][x])
    /\ \A h \in Handlers : handler[h] # Free =>
          /\ OwnTransaction(handler[h].pair, handler[h].row)
          /\ handler[h].op = "remind" => handler[h].row.state = "allocated"

AssignedInv == StagesFollowRequest /\ ReadsAreGood /\ AcceptedHasTransaction

(* What an allocation has read as not accepted is not accepted yet.        *)
CopiesAreCurrent ==
    \A w \in Workers : stage[w] = "write" =>
        \A x \in DOMAIN copy[w] :
            assignment[x].state = "accepted" => copy[w][x].state = "accepted"

(* The budget also covers what is under way: the pair whose call is posted,*)
(* even if its row is cancelled meanwhile, and the pairs that an allocation*)
(* has checked and not written yet.                                        *)
UnderWay(w, x) ==
    \/ pc[w] = "posted" /\ key[w].pair = x
    \/ stage[w] = "write" /\ x \in DOMAIN copy[w]

Held == {x \in Pairs : assignment[x].state = "allocated" \/ \E w \in Workers : UnderWay(w, x)}

HeldWithinBudget == Spent(Policy) + PriceOf(NotLive(Held)) <= SpendLimit

(* With assignments or without, the policy redeems as Redemption says, so  *)
(* what holds of every behaviour of Redemption holds here.                 *)
ImplementsRedemption == Spec
=============================================================================
