------------------------ MODULE LearnerCreditRequest ------------------------
(***************************************************************************)
(* Browse & Request with learner credit: the LearnerCreditRequest rows of  *)
(* subsidy_request, the views of browse_and_request.py that write them, and*)
(* the assignments a PerLearnerSpendCreditAccessPolicy allocates for them. *)
(*                                                                         *)
(* A learner and a course are a pair.  A pair has at most one assignment   *)
(* (unique in the configuration of the policy) and any number of requests, *)
(* each of which may be linked to that assignment.  A view, a command or a *)
(* signal handler is a job that reads a row in one step and saves it in a  *)
(* later one:                                                              *)
(*   - create, cancel, decline, redeem and expire save the whole request   *)
(*     as it was read, approve and reverse only the columns they set;      *)
(*   - approve and redeem hold the lock of the policy (PolicyLock) while   *)
(*     they allocate or pay, approve saves its requests after leaving it;  *)
(*   - the database refuses a second active request of a pair, and a second*)
(*     request linked to one assignment.                                   *)
(* Every course costs one unit.  Stages of the remote call that pays are   *)
(* those of AssignedLearnerCredit and are one step here.                   *)
(***************************************************************************)
EXTENDS Naturals, FiniteSets

CONSTANTS
    Workers,        \* processes that run jobs
    Ids,            \* primary keys of the requests: numbers, in random order
    Pairs,          \* a learner and a course
    Limit,          \* the spend limit of the policy
    Ops,            \* the kinds of jobs that run
    Overlap,        \* those that may share a pair with one another
    Crashes,        \* those whose process may die between two steps
    NoPair          \* the request does not exist

Kinds == {"create", "approve", "cancel", "decline", "remind", "redeem", "expire",
          "reverse"}

ASSUME RequestAssumption ==
    /\ Ids \subseteq Nat /\ IsFiniteSet(Ids)
    /\ IsFiniteSet(Pairs)
    /\ Limit \in Nat
    /\ Ops \subseteq Kinds
    /\ Overlap \subseteq Ops
    /\ Crashes \subseteq Ops
    /\ NoPair \notin Pairs

VARIABLES
    req,            \* req[r]: the request with primary key r
    asg,            \* asg[x]: the assignment of pair x
    tx,             \* pairs the subsidy holds a live transaction for
    trail,          \* trail[r]: the latest LearnerCreditRequestActions of r
    job,            \* job[w]: what process w has read and has still to do
    lock            \* who holds the lock of the policy (a set)

vars == <<req, asg, tx, trail, job, lock>>

Active == {"requested", "approved", "accepted"}     \* no writer stores "error"
Reusable == {"cancelled", "expired", "reversed"}
ReqStates == Active \cup Reusable \cup {"none", "declined"}
AsgStates == {"none", "allocated", "accepted", "cancelled", "expired", "errored",
              "reversed"}
Reallocate == {"cancelled", "errored", "expired", "reversed"}
Cancelable == {"allocated", "errored"}

Reqs == [state : ReqStates, pair : Pairs \cup {NoPair}, linked : BOOLEAN]
(* current: learner_email is still the address of the learner.             *)
Asgs == [state : AsgStates, current : BOOLEAN]
Trails == [kind : ReqStates \cup {"reminded"}, ok : BOOLEAN]

NoReq == [state |-> "none", pair |-> NoPair, linked |-> FALSE]

(* ids: the requests the job is about; valid: those it may approve; row and*)
(* found: the request and the state of the assignment as they were read.   *)
Idle == [op |-> "idle", at |-> "start", pairs |-> {}, ids |-> {}, valid |-> {},
         row |-> NoReq, found |-> "none"]
Jobs == [op : Kinds \cup {"idle"}, at : {"start", "last"},
         pairs : SUBSET Pairs, ids : SUBSET Ids, valid : SUBSET Ids,
         row : Reqs, found : AsgStates]

Init ==
    /\ req = [r \in Ids |-> NoReq]
    /\ asg = [x \in Pairs |-> [state |-> "none", current |-> TRUE]]
    /\ tx = {}
    /\ trail = [r \in Ids |-> [kind |-> "none", ok |-> TRUE]]
    /\ job = [w \in Workers |-> Idle]
    /\ lock = {}

-----------------------------------------------------------------------------
OfPair(x) == {r \in Ids : req[r].pair = x}
LinkedTo(x) == {r \in OfPair(x) : req[r].linked}
ActiveOf(x) == {r \in OfPair(x) : req[r].state \in Active}
Allocated == {x \in Pairs : asg[x].state = "allocated"}

(* No other job is about one of these pairs, or both kinds may overlap.    *)
Begin(w, op, X, R, row, found) ==
    /\ op \in Ops
    /\ job[w] = Idle
    /\ \A v \in Workers : \/ job[v].pairs \cap X = {}
                          \/ op \in Overlap /\ job[v].op \in Overlap
    /\ job' = [job EXCEPT ![w] = [op |-> op, at |-> "start", pairs |-> X,
            ids |-> R, valid |-> {}, row |-> row, found |-> found]]

At(w, op, step) == job[w].op = op /\ job[w].at = step
Goto(w, step) == job' = [job EXCEPT ![w].at = step]
End(w) == job' = [job EXCEPT ![w] = Idle]

(* LearnerCreditRequestActions.create_action() for the requests R.         *)
Record(R, kind, ok) ==
    trail' = [r \in Ids |-> IF r \in R THEN [kind |-> kind, ok |-> ok] ELSE trail[r]]

(* An action that was created before the attempt is marked as failed.      *)
Fail(R, kind) ==
    trail' = [r \in Ids |-> IF r \in R /\ trail[r].kind = kind
                            THEN [kind |-> kind, ok |-> FALSE] ELSE trail[r]]

SetAsg(X, s) == asg' = [x \in Pairs |-> IF x \in X THEN [asg[x] EXCEPT !.state = s]
                                        ELSE asg[x]]

(* The unique constraints of LearnerCreditRequest and of its OneToOneField.*)
Storable(new) ==
    \A r, s \in Ids :
        /\ r # s
        /\ new[r].pair = new[s].pair
        /\ new[r].pair # NoPair
        => /\ ~(new[r].linked /\ new[s].linked)
           /\ ~(new[r].state \in Active /\ new[s].state \in Active)

Whole(r, row, s) == [req EXCEPT ![r] = [row EXCEPT !.state = s]]

-----------------------------------------------------------------------------
(* The create endpoint.  It refuses a second active request, and then looks*)
(* at the first request of the learner, in the order of primary keys.      *)

ReadForCreate(w, x) ==
    /\ ActiveOf(x) = {}
    /\ LET reusable == {r \in OfPair(x) : req[r].state \in Reusable}
           first == {r \in reusable : \A s \in OfPair(x) : r <= s}
           fresh == [state |-> "requested", pair |-> x, linked |-> FALSE]
       IN Begin(w, "create", {x}, first, fresh, "none")
    /\ UNCHANGED <<req, asg, tx, trail, lock>>

(* A request to reuse is reset, else a new one is inserted.                *)
SaveCreated(w) ==
    /\ At(w, "create", "start")
    /\ \E r \in IF job[w].ids = {} THEN {i \in Ids : req[i].state = "none"}
                ELSE job[w].ids :
        LET new == Whole(r, job[w].row, "requested") IN
        IF Storable(new)
        THEN req' = new /\ Record({r}, "requested", TRUE)
        ELSE UNCHANGED <<req, trail>>
    /\ End(w)
    /\ UNCHANGED <<asg, tx, lock>>

-----------------------------------------------------------------------------
(* The approve and approve-all endpoints: approve_learner_credit_requests. *)

ReadForApprove(w, R) ==
    /\ R # {}
    /\ \A r \in R : req[r].state = "requested"
    /\ Begin(w, "approve", {req[r].pair : r \in R}, R, NoReq, "none")
    /\ UNCHANGED <<req, asg, tx, trail, lock>>

(* approve-all takes every request that waits for its review.              *)
ReadForApproveAll(w) == ReadForApprove(w, {r \in Ids : req[r].state = "requested"})

(* can_allocate_all(): requests fail one by one for their catalogue or     *)
(* price, and all together for the budget.                                 *)
WithinLimit(R) ==
    R = {} \/ Cardinality(tx) + Cardinality(Allocated) + Cardinality(R) <= Limit

(* _get_existing_assignments_for_requests() finds a row by the address or  *)
(* the id of the learner, but files it under its own address.              *)
Found(x) == asg[x].state \in Reallocate /\ asg[x].current

(* allocate_assignment_for_requests(): found rows are reallocated, others  *)
(* are inserted, all or none.                                              *)
Insertable(x) == asg[x].state = "none"

(* Mutant: the budget is not consulted.                                    *)
AllocateRequestsMutant(w) ==
    /\ At(w, "approve", "start")
    /\ lock = {}
    /\ \E V \in SUBSET job[w].ids :
        LET X == {req[r].pair : r \in V} IN
        IF \A x \in X : Found(x) \/ Insertable(x)
        THEN /\ SetAsg(X, "allocated")
             /\ job' = [job EXCEPT ![w].at = "last", ![w].valid = V]
             /\ UNCHANGED trail
        ELSE /\ Record(job[w].ids, "approved", FALSE)
             /\ End(w)
             /\ UNCHANGED asg
    /\ UNCHANGED <<req, tx, lock>>

AllocateRequests(w) ==
    /\ At(w, "approve", "start")
    /\ lock = {}
    /\ \E V \in SUBSET job[w].ids :
        LET X == {req[r].pair : r \in V} IN
        IF WithinLimit(V) /\ \A x \in X : Found(x) \/ Insertable(x)
        THEN /\ SetAsg(X, "allocated")
             /\ job' = [job EXCEPT ![w].at = "last", ![w].valid = V]
             /\ UNCHANGED trail
        ELSE /\ Record(job[w].ids, "approved", FALSE)
             /\ End(w)
             /\ UNCHANGED asg
    /\ UNCHANGED <<req, tx, lock>>

(* _update_and_refresh_requests() and the actions, outside the lock.       *)
SaveApproved(w) ==
    /\ At(w, "approve", "last")
    /\ LET V == job[w].valid
           new == [r \in Ids |-> IF r \in V
                    THEN [req[r] EXCEPT !.state = "approved", !.linked = TRUE]
                    ELSE req[r]]
       IN IF Storable(new)
          THEN /\ req' = new
               /\ trail' = [r \in Ids |-> IF r \in job[w].ids
                              THEN [kind |-> "approved", ok |-> r \in V] ELSE trail[r]]
          ELSE UNCHANGED <<req, trail>>
    /\ End(w)
    /\ UNCHANGED <<asg, tx, lock>>

-----------------------------------------------------------------------------
(* The cancel endpoint looks at the assignment only.                       *)

ReadForCancel(w, r) ==
    /\ req[r].state # "none"
    /\ Begin(w, "cancel", {req[r].pair}, {r}, req[r], "none")
    /\ Record({r}, "cancelled", TRUE)
    /\ UNCHANGED <<req, asg, tx, lock>>

(* Without an assignment the view fails; a row that cannot be cancelled is *)
(* recorded as a failed action.                                            *)
CheckCancel(w) ==
    /\ At(w, "cancel", "start")
    /\ LET found == asg[job[w].row.pair].state IN
       CASE ~job[w].row.linked -> End(w) /\ UNCHANGED trail
         [] job[w].row.linked /\ found \in Cancelable \cup {"cancelled"} ->
                /\ job' = [job EXCEPT ![w].at = "last", ![w].found = found]
                /\ UNCHANGED trail
         [] OTHER -> End(w) /\ Fail(job[w].ids, "cancelled")
    /\ UNCHANGED <<req, asg, tx, lock>>

(* cancel_assignments() and LearnerCreditRequest.cancel(), atomically.     *)
SaveCancelled(w) ==
    /\ At(w, "cancel", "last")
    /\ \E r \in job[w].ids :
        LET new == Whole(r, job[w].row, "cancelled") IN
        IF Storable(new)
        THEN /\ req' = new
             /\ SetAsg(IF job[w].found \in Cancelable THEN job[w].pairs ELSE {}, "cancelled")
             /\ UNCHANGED trail
        ELSE Fail({r}, "cancelled") /\ UNCHANGED <<req, asg>>
    /\ End(w)
    /\ UNCHANGED <<tx, lock>>

(* The decline endpoint.                                                   *)
ReadForDecline(w, r) ==
    /\ req[r].state = "requested"
    /\ Begin(w, "decline", {req[r].pair}, {r}, req[r], "none")
    /\ Record({r}, "declined", TRUE)
    /\ UNCHANGED <<req, asg, tx, lock>>

SaveDeclined(w) ==
    /\ At(w, "decline", "start")
    /\ \E r \in job[w].ids : req' = Whole(r, job[w].row, "declined")
    /\ End(w)
    /\ UNCHANGED <<asg, tx, trail, lock>>

(* The remind endpoint only records its action and sends an e-mail.        *)
Remind(w, r) ==
    /\ "remind" \in Ops
    /\ job[w] = Idle
    /\ \A v \in Workers : \/ req[r].pair \notin job[v].pairs
                          \/ "remind" \in Overlap /\ job[v].op \in Overlap
    /\ req[r].state = "approved" /\ req[r].linked
    /\ Record({r}, "reminded", TRUE)
    /\ UNCHANGED <<req, asg, tx, job, lock>>

-----------------------------------------------------------------------------
(* assignment_request_redeem(), inside the lock of the policy.             *)

(* Mutant: any assignment of the learner will do.                          *)
StartRedeemMutant(w, x) ==
    /\ lock = {}
    /\ x \notin tx
    /\ \E r \in LinkedTo(x) :
        /\ Begin(w, "redeem", {x}, {r}, req[r], "allocated")
        /\ Record({r}, "accepted", TRUE)
    /\ lock' = {w}
    /\ UNCHANGED <<req, asg, tx>>

(* A policy with requests asks a copy of itself, as an assignment-based    *)
(* policy, which wants an allocated assignment and no transaction.         *)
RequestCanRedeem(x) == asg[x].state = "allocated" /\ x \notin tx

(* The request to redeem is the one linked to the assignment.              *)
StartRedeem(w, x) ==
    /\ lock = {}
    /\ RequestCanRedeem(x)
    /\ \E r \in LinkedTo(x) :
        /\ Begin(w, "redeem", {x}, {r}, req[r], "allocated")
        /\ Record({r}, "accepted", TRUE)
    /\ lock' = {w}
    /\ UNCHANGED <<req, asg, tx>>

(* AssignedLearnerCreditAccessPolicy.redeem(): the transaction is made and *)
(* the assignment accepted, or the call fails and it is errored.           *)
Pay(w) ==
    /\ At(w, "redeem", "start")
    /\ \/ /\ tx' = tx \cup job[w].pairs
          /\ SetAsg(job[w].pairs, "accepted")
          /\ Goto(w, "last")
          /\ UNCHANGED <<trail, lock>>
       \/ /\ SetAsg(job[w].pairs, "errored")
          /\ Fail(job[w].ids, "accepted")
          /\ End(w)
          /\ lock' = {}
          /\ UNCHANGED tx
    /\ UNCHANGED req

SaveAccepted(w) ==
    /\ At(w, "redeem", "last")
    /\ \E r \in job[w].ids :
        LET new == Whole(r, job[w].row, "accepted") IN
        IF Storable(new)
        THEN req' = new /\ UNCHANGED trail
        ELSE Fail({r}, "accepted") /\ UNCHANGED req
    /\ End(w)
    /\ lock' = {}
    /\ UNCHANGED <<asg, tx>>

-----------------------------------------------------------------------------
(* expire_assignment(), run by a command for allocated assignments.        *)
ReadForExpire(w, x) ==
    /\ asg[x].state = "allocated"
    /\ \/ /\ LinkedTo(x) = {}
          /\ Begin(w, "expire", {x}, {}, NoReq, "allocated")
       \/ \E r \in LinkedTo(x) : Begin(w, "expire", {x}, {r}, req[r], "allocated")
    /\ UNCHANGED <<req, asg, tx, trail, lock>>

(* Mutant: the request of the assignment is forgotten.                     *)
ExpireRequestMutant(w) ==
    /\ At(w, "expire", "start")
    /\ Goto(w, "last")
    /\ UNCHANGED <<req, asg, tx, trail, lock>>

(* The request is saved first ...                                          *)
ExpireRequest(w) ==
    /\ At(w, "expire", "start")
    /\ \/ job[w].ids = {} /\ Goto(w, "last") /\ UNCHANGED req
       \/ \E r \in job[w].ids :
            LET new == Whole(r, job[w].row, "expired") IN
            IF Storable(new) THEN req' = new /\ Goto(w, "last")
            ELSE End(w) /\ UNCHANGED req
    /\ UNCHANGED <<asg, tx, trail, lock>>

(* ... and then the assignment.                                            *)
ExpireAssignment(w) ==
    /\ At(w, "expire", "last")
    /\ SetAsg(job[w].pairs, "expired")
    /\ End(w)
    /\ UNCHANGED <<req, tx, trail, lock>>

(* The subsidy reverses a transaction and publishes the event.             *)
SubsidyReverses(x) ==
    /\ "reverse" \in Ops
    /\ x \in tx
    /\ tx' = tx \ {x}
    /\ UNCHANGED <<req, asg, trail, job, lock>>

(* update_assignment_status_for_reversed_transaction() gets the event.     *)
ReadForReverse(w, x) ==
    /\ asg[x].state = "accepted" /\ x \notin tx
    /\ Begin(w, "reverse", {x}, LinkedTo(x), NoReq, "accepted")
    /\ Record(LinkedTo(x), "reversed", TRUE)
    /\ UNCHANGED <<req, asg, tx, lock>>

ReverseAssignment(w) ==
    /\ At(w, "reverse", "start")
    /\ SetAsg(job[w].pairs, "reversed")
    /\ Goto(w, "last")
    /\ UNCHANGED <<req, tx, trail, lock>>

(* Only the state column of the request is saved.                          *)
ReverseRequest(w) ==
    /\ At(w, "reverse", "last")
    /\ req' = [r \in Ids |-> IF r \in job[w].ids THEN [req[r] EXCEPT !.state = "reversed"]
                             ELSE req[r]]
    /\ End(w)
    /\ UNCHANGED <<asg, tx, trail, lock>>

(* The learner takes another address; assignments keep the old one.        *)
ChangeEmail(x) ==
    /\ asg[x].state # "none"
    /\ asg' = [asg EXCEPT ![x].current = FALSE]
    /\ UNCHANGED <<req, tx, trail, job, lock>>

(* A process dies between two steps; the key of its lock expires.          *)
Crash(w) ==
    /\ job[w].op \in Crashes
    /\ End(w)
    /\ lock' = lock \ {w}
    /\ UNCHANGED <<req, asg, tx, trail>>

-----------------------------------------------------------------------------
LearnerStep(w) ==
    \/ \E x \in Pairs : ReadForCreate(w, x) \/ StartRedeem(w, x)
    \/ SaveCreated(w) \/ Pay(w) \/ SaveAccepted(w)

AdminStep(w) ==
    \/ \E R \in SUBSET Ids : ReadForApprove(w, R)
    \/ ReadForApproveAll(w)
    \/ AllocateRequests(w) \/ SaveApproved(w)
    \/ \E r \in Ids : ReadForCancel(w, r) \/ ReadForDecline(w, r) \/ Remind(w, r)
    \/ CheckCancel(w) \/ SaveCancelled(w) \/ SaveDeclined(w)

SystemStep(w) ==
    \/ \E x \in Pairs : ReadForExpire(w, x) \/ ReadForReverse(w, x)
    \/ ExpireRequest(w) \/ ExpireAssignment(w)
    \/ ReverseAssignment(w) \/ ReverseRequest(w)
    \/ Crash(w)

Next ==
    \/ \E w \in Workers : LearnerStep(w) \/ AdminStep(w) \/ SystemStep(w)
    \/ \E x \in Pairs : SubsidyReverses(x) \/ ChangeEmail(x)

Spec == Init /\ [][Next]_vars

-----------------------------------------------------------------------------
(* Type correctness: rows, jobs, the audit trail and the lock.             *)
RequestTypeOK ==
    /\ req \in [Ids -> Reqs]
    /\ asg \in [Pairs -> Asgs]
    /\ tx \subseteq Pairs
    /\ trail \in [Ids -> Trails]
    /\ job \in [Workers -> Jobs]
    /\ lock \subseteq Workers

AtRest(x) == \A w \in Workers : x \notin job[w].pairs
NeverDeclined(x) == \A r \in OfPair(x) : req[r].state # "declined"
NothingDeclined == \A r \in Ids : req[r].state # "declined"

(* The two tables agree on every pair no job is about: an approved request *)
(* holds an allocated (or errored) assignment, an accepted one an accepted *)
(* assignment, and an allocated assignment, which holds back budget, serves*)
(* an approved request.  Views, commands and signals write the two tables  *)
(* in different orders and transactions.  The last part needs that nothing *)
(* was declined: beside a declined request others are inserted and not     *)
(* reused (see ReusedNotDuplicated), the database may refuse to link one of*)
(* them, and that fails the save of all requests approved together.        *)
RequestsAgree ==
    \A x \in Pairs : AtRest(x) =>
        /\ \A r \in OfPair(x) :
            /\ req[r].state = "approved" =>
                    req[r].linked /\ asg[x].state \in {"allocated", "errored"}
            /\ req[r].state = "accepted" =>
                    req[r].linked /\ asg[x].state = "accepted"
        /\ asg[x].state = "allocated" /\ NothingDeclined =>
                \E r \in LinkedTo(x) : req[r].state = "approved"

(* What approvals hold back and learners spent stays within the limit of   *)
(* the policy, whichever approvals, redemptions, cancellations and         *)
(* expirations interleave.                                                 *)
RequestsWithinBudget == Cardinality(tx) + Cardinality(Allocated) <= Limit

(* The subsidy is charged for a pair only while an approved request is     *)
(* linked to its assignment: a cancelled, expired or reset request is not  *)
(* paid for, although redeem only looks at the assignment.                 *)
ChargedWhenApproved ==
    [][\A x \in tx' \ tx : NeverDeclined(x) =>
            \E r \in LinkedTo(x) : req[r].state = "approved"]_vars

(* The comment in create(): a cancelled, expired or reversed request is    *)
(* reused "instead of creating a new one".                                 *)
ReusedNotDuplicated ==
    [][\A r \in Ids : req[r].state = "none" /\ req'[r].state # "none" =>
            \A s \in OfPair(req'[r].pair) : req[s].state \notin Reusable]_vars
=============================================================================
