--------------------------- MODULE SubsidyRequest ---------------------------
(***************************************************************************)
(* Browse & Request for licences and coupon codes: the LicenseRequest and  *)
(* CouponCodeRequest rows of one customer, the views that review them, the *)
(* Celery tasks that assign what was asked for, and the configurations that*)
(* say which kind of subsidy may be requested.                             *)
(*                                                                         *)
(* Approving a request only makes it pending.  A chain of two tasks then   *)
(* asks the remote service for the licences and, when it has answered,     *)
(* writes the outcome by primary key, whatever became of the rows.  A view *)
(* (or command) is a job that reads in one step and saves in a later one.  *)
(* Changing the type of the configuration queues a task that declines what *)
(* is open, again by primary key.                                          *)
(***************************************************************************)
EXTENDS Naturals, FiniteSets

CONSTANTS
    Learners,
    Ids,            \* primary keys of the requests
    Chains,         \* places for chains of tasks that are queued or running
    Workers,        \* processes that run views and commands
    Stock,          \* licences of the plan, and codes of the coupon
    Ops,            \* the kinds of jobs that run
    Overlap,        \* pairs of them that may run at the same time
    Faults,         \* what goes wrong, see Failures
    MaxFaults,      \* bound: how often
    NoOne           \* the learner of a row that does not exist

Types == {"license", "coupon"}
Kinds == {"create", "approve", "decline", "configure", "activate", "link", "mail"}

Failures == {"crash", "lost", "unheard"}

ASSUME SubsidyAssumption ==
    /\ Stock \in Nat
    /\ Ops \subseteq Kinds
    /\ Overlap \subseteq SUBSET Ops
    /\ Faults \subseteq Failures
    /\ MaxFaults \in Nat
    /\ NoOne \notin Learners
    /\ IsFiniteSet(Ids)

VARIABLES
    req,            \* req[i]: the request with primary key i
    config,         \* the SubsidyRequestCustomerConfiguration
    credit,         \* LearnerCreditRequestConfiguration and the policy that uses it
    held,           \* held[t]: learners who hold a licence, or a code
    used,           \* used[t]: licences or codes that are gone
    chain,          \* chain[c]: what a chain of tasks has still to do
    job,            \* job[w]: what process w has read and has still to do
    wasted,         \* wasted[t]: learners of whose licence or code no task heard
    faults          \* how much has gone wrong

fvars == <<wasted, faults>>
vars == <<req, config, credit, held, used, chain, job, fvars>>

States == {"none", "requested", "pending", "approved", "declined", "error"}
Outstanding == {"requested", "pending"}
Open == {"requested", "pending", "error"}
Approvable == {"requested", "error"}

(* nth: the row is the nth that was created.                               *)
Reqs == [state : States, type : Types, learner : Learners \cup {NoOne},
         nth : 0 .. Cardinality(Ids)]
(* reminded: the rows that existed at last_remind_date, as their number.   *)
Configs == [type : Types, enabled : BOOLEAN, reminded : 0 .. Cardinality(Ids)]
Credits == [active : BOOLEAN, linked : BOOLEAN]
ChainRecords == [at : {"free", "assign", "update", "flush"}, type : Types,
                 ids : SUBSET Ids, given : SUBSET Learners]
Jobs == [op : Kinds \cup {"idle"}, at : {"read", "saved"}, ids : SUBSET Ids,
         type : Types, learner : Learners \cup {NoOne}, row : Configs,
         flag : BOOLEAN]

NoReq == [state |-> "none", type |-> "license", learner |-> NoOne, nth |-> 0]
Free == [at |-> "free", type |-> "license", ids |-> {}, given |-> {}]
NoConfig == [type |-> "license", enabled |-> FALSE, reminded |-> 0]
Idle == [op |-> "idle", at |-> "read", ids |-> {}, type |-> "license",
         learner |-> NoOne, row |-> NoConfig, flag |-> FALSE]

Init ==
    /\ req = [i \in Ids |-> NoReq]
    /\ config = [NoConfig EXCEPT !.enabled = TRUE]
    /\ credit = [active |-> FALSE, linked |-> FALSE]
    /\ held = [t \in Types |-> {}]
    /\ used = [t \in Types |-> 0]
    /\ chain = [c \in Chains |-> Free]
    /\ job = [w \in Workers |-> Idle]
    /\ wasted = [t \in Types |-> {}]
    /\ faults = 0

-----------------------------------------------------------------------------
Existing == {i \in Ids : req[i].state # "none"}
OfType(t) == {i \in Existing : req[i].type = t}
LearnersOf(R) == {req[i].learner : i \in R}
Handled == UNION {chain[c].ids : c \in Chains}
Flushed == UNION {chain[c].ids : c \in {d \in Chains : chain[d].at = "flush"}}

(* Both kinds may run at the same time, or no job of the other kind runs.  *)
MayRun(op) ==
    \A v \in Workers : job[v] = Idle \/ {op, job[v].op} \in Overlap

Begin(w, op, fields) ==
    /\ op \in Ops
    /\ job[w] = Idle
    /\ MayRun(op)
    /\ job' = [job EXCEPT ![w] = fields]

At(w, op, step) == job[w].op = op /\ job[w].at = step
End(w) == job' = [job EXCEPT ![w] = Idle]

SetState(R, s) ==
    req' = [i \in Ids |-> IF i \in R THEN [req[i] EXCEPT !.state = s] ELSE req[i]]

-----------------------------------------------------------------------------
(* The create endpoint: requests of this type are enabled, and the learner *)
(* has none that is outstanding.                                           *)
MayCreate(l, t) ==
    /\ config.enabled /\ config.type = t
    /\ \A i \in OfType(t) : req[i].learner = l => req[i].state \notin Outstanding

ReadForCreate(w, l, t) ==
    /\ MayCreate(l, t)
    /\ Begin(w, "create", [Idle EXCEPT !.op = "create", !.type = t, !.learner = l])
    /\ UNCHANGED <<req, config, credit, held, used, chain, fvars>>

SaveCreated(w) ==
    /\ At(w, "create", "read")
    /\ \E i \in Ids \ Existing :
        req' = [req EXCEPT ![i] = [state |-> "requested", type |-> job[w].type,
                    learner |-> job[w].learner, nth |-> Cardinality(Existing) + 1]]
    /\ End(w)
    /\ UNCHANGED <<config, credit, held, used, chain, fvars>>

-----------------------------------------------------------------------------
(* What both kinds of reviews are checked for: the call names requests,    *)
(* and no request is in a state that the action excludes.                  *)
Selected(t, R) == R # {} /\ R \subseteq OfType(t)
NoneIs(states, R) == \A i \in R : req[i].state \notin states

(* The remote service has enough left for as many as are named, those that *)
(* are approved already included.                                          *)
Remaining(t, R) == used[t] + Cardinality(R) <= Stock

(* The approve endpoint: enough is left for all, none is declined, and     *)
(* those that are not approved yet become pending ...                      *)
(* Mutant: every request named in the call is made pending again.          *)
ReadForApproveMutant(w, t, R) ==
    /\ Selected(t, R)
    /\ NoneIs({"declined"}, R)
    /\ Remaining(t, R)
    /\ R \cap Flushed = {} \/ {"approve", "configure"} \in Overlap
    /\ Begin(w, "approve", [Idle EXCEPT !.op = "approve", !.type = t, !.ids = R])
    /\ UNCHANGED <<req, config, credit, held, used, chain, fvars>>

ReadForApprove(w, t, R) ==
    /\ Selected(t, R)
    /\ NoneIs({"declined"}, R)
    /\ Remaining(t, R)
    /\ R \cap Flushed = {} \/ {"approve", "configure"} \in Overlap
    /\ Begin(w, "approve", [Idle EXCEPT !.op = "approve", !.type = t,
            !.ids = {i \in R : req[i].state \in Approvable}])
    /\ UNCHANGED <<req, config, credit, held, used, chain, fvars>>

SavePending(w) ==
    /\ At(w, "approve", "read")
    /\ SetState(job[w].ids, "pending")
    /\ job' = [job EXCEPT ![w].at = "saved"]
    /\ UNCHANGED <<config, credit, held, used, chain, fvars>>

(* ... and, after the commit, the chain of tasks is queued.                *)
QueueAssignment(w) ==
    /\ At(w, "approve", "saved")
    /\ \E c \in Chains :
        /\ chain[c] = Free
        /\ chain' = [chain EXCEPT ![c] = [at |-> "assign", type |-> job[w].type,
                                          ids |-> job[w].ids, given |-> {}]]
    /\ End(w)
    /\ UNCHANGED <<req, config, credit, held, used, fvars>>

(* The decline endpoint: none is approved or pending.                      *)
ReadForDecline(w, t, R) ==
    /\ Selected(t, R)
    /\ NoneIs({"approved", "pending"}, R)
    /\ Begin(w, "decline", [Idle EXCEPT !.op = "decline", !.type = t,
            !.ids = {i \in R : req[i].state \in Approvable}])
    /\ UNCHANGED <<req, config, credit, held, used, chain, fvars>>

SaveDeclined(w) ==
    /\ At(w, "decline", "read")
    /\ SetState(job[w].ids, "declined")
    /\ End(w)
    /\ UNCHANGED <<config, credit, held, used, chain, fvars>>

-----------------------------------------------------------------------------
(* assign_licenses_task and assign_coupon_codes_task.                      *)
ToAssign(c) ==
    {i \in chain[c].ids : req[i].state \in
        IF chain[c].type = "license" THEN {"pending", "error"} ELSE {"pending"}}

(* The license manager skips learners who hold a licence, ecommerce gives  *)
(* each address another code.                                              *)
Receivers(c) ==
    LearnersOf(ToAssign(c)) \ (IF chain[c].type = "license" THEN held["license"] ELSE {})

Give(c) ==
    LET t == chain[c].type IN
    /\ used[t] + Cardinality(Receivers(c)) <= Stock
    /\ held' = [held EXCEPT ![t] = @ \cup Receivers(c)]
    /\ used' = [used EXCEPT ![t] = @ + Cardinality(Receivers(c))]

Assign(c) ==
    /\ chain[c].at = "assign"
    /\ IF ToAssign(c) = {}
       THEN /\ chain' = [chain EXCEPT ![c] = Free]
            /\ UNCHANGED <<held, used>>
       ELSE /\ Give(c)
            /\ chain' = [chain EXCEPT ![c].at = "update", ![c].given = Receivers(c)]
    /\ UNCHANGED <<req, config, credit, job, fvars>>

Goes(wrong) ==
    /\ wrong \in Faults
    /\ faults < MaxFaults
    /\ faults' = faults + 1

(* Nobody hears of what these learners were given for the chain c.         *)
Waste(c, L) == wasted' = [wasted EXCEPT ![chain[c].type] = @ \cup L]

(* The answer is lost: the task is run again.                              *)
AssignUnheard(c) ==
    /\ Goes("unheard")
    /\ chain[c].at = "assign" /\ ToAssign(c) # {}
    /\ Give(c)
    /\ Waste(c, Receivers(c))
    /\ UNCHANGED <<req, config, credit, chain, job>>

(* update_license_requests_after_assignments_task and its coupon twin,     *)
(* which fails for all when it finds no code for one.                      *)
(* Mutant: whoever is in the chain is approved.                            *)
UpdateMutant(c) ==
    /\ chain[c].at = "update"
    /\ SetState(chain[c].ids, "approved")
    /\ chain' = [chain EXCEPT ![c] = Free]
    /\ UNCHANGED <<config, credit, held, used, job, fvars>>

Update(c) ==
    /\ chain[c].at = "update"
    /\ LET given == {i \in chain[c].ids : req[i].learner \in chain[c].given} IN
       IF chain[c].type = "license"
       THEN req' = [i \in Ids |->
                IF i \notin chain[c].ids THEN req[i]
                ELSE [req[i] EXCEPT !.state = IF i \in given THEN "approved" ELSE "error"]]
       ELSE SetState(IF given = chain[c].ids THEN given ELSE {}, "approved")
    /\ chain' = [chain EXCEPT ![c] = Free]
    /\ UNCHANGED <<config, credit, held, used, job, fvars>>

(* Retries are used up, or the worker dies: the chain ends there.          *)
GiveUp(c) ==
    /\ Goes("lost")
    /\ chain[c] # Free
    /\ Waste(c, chain[c].given)
    /\ chain' = [chain EXCEPT ![c] = Free]
    /\ UNCHANGED <<req, config, credit, held, used, job>>

-----------------------------------------------------------------------------
CreditOn == credit.active /\ credit.linked

(* partial_update() of the configuration: open requests of the old type are*)
(* handed to a task, and the new row passes clean() ...                    *)
(* Mutant: clean() does not look at the policies.                          *)
ReadForConfigureMutant(w, t, enabled) ==
    /\ IF t = config.type THEN UNCHANGED chain
       ELSE \E c \in Chains :
            /\ chain[c] = Free
            /\ chain' = [chain EXCEPT ![c] = [at |-> "flush", type |-> config.type,
                ids |-> {i \in OfType(config.type) : req[i].state \in Open}, given |-> {}]]
    /\ Handled = {} \/ {"configure"} \in Overlap
    /\ Begin(w, "configure", [Idle EXCEPT !.op = "configure",
            !.row = [config EXCEPT !.type = t, !.enabled = enabled]])
    /\ UNCHANGED <<req, config, credit, held, used, fvars>>

ReadForConfigure(w, t, enabled) ==
    /\ IF t = config.type THEN UNCHANGED chain
       ELSE \E c \in Chains :
            /\ chain[c] = Free
            /\ chain' = [chain EXCEPT ![c] = [at |-> "flush", type |-> config.type,
                ids |-> {i \in OfType(config.type) : req[i].state \in Open}, given |-> {}]]
    /\ Handled = {} \/ {"configure"} \in Overlap
    /\ ~(enabled /\ CreditOn)
    /\ Begin(w, "configure", [Idle EXCEPT !.op = "configure",
            !.row = [config EXCEPT !.type = t, !.enabled = enabled]])
    /\ UNCHANGED <<req, config, credit, held, used, fvars>>

(* ... and is saved.                                                       *)
SaveConfig(w) ==
    /\ At(w, "configure", "read")
    /\ config' = job[w].row
    /\ End(w)
    /\ UNCHANGED <<req, credit, held, used, chain, fvars>>

(* decline_enterprise_subsidy_requests_task: a row that was never reviewed *)
(* does not pass clean() as declined, and ends the task there.             *)
Flush(c) ==
    /\ chain[c].at = "flush"
    /\ LET reviewed == {i \in chain[c].ids : req[i].state # "requested"} IN
       \E R \in SUBSET reviewed :
            /\ reviewed = chain[c].ids => R = reviewed
            /\ SetState(R, "declined")
    /\ chain' = [chain EXCEPT ![c] = Free]
    /\ UNCHANGED <<config, credit, held, used, job, fvars>>

(* LearnerCreditRequestConfiguration.clean() and save().                   *)
ReadForActivate(w, on) ==
    /\ ~(on /\ credit.linked /\ config.enabled)
    /\ Begin(w, "activate", [Idle EXCEPT !.op = "activate", !.flag = on])
    /\ UNCHANGED <<req, config, credit, held, used, chain, fvars>>

SaveActive(w) ==
    /\ At(w, "activate", "read")
    /\ credit' = [credit EXCEPT !.active = job[w].flag]
    /\ End(w)
    /\ UNCHANGED <<req, config, held, used, chain, fvars>>

(* PerLearnerSpendCreditAccessPolicy.clean() and save().                   *)
ReadForLink(w, on) ==
    /\ ~(on /\ credit.active /\ config.enabled)
    /\ Begin(w, "link", [Idle EXCEPT !.op = "link", !.flag = on])
    /\ UNCHANGED <<req, config, credit, held, used, chain, fvars>>

SaveLink(w) ==
    /\ At(w, "link", "read")
    /\ credit' = [credit EXCEPT !.linked = job[w].flag]
    /\ End(w)
    /\ UNCHANGED <<req, config, held, used, chain, fvars>>

-----------------------------------------------------------------------------
(* send_admins_email_with_new_requests_task: requests created since the    *)
(* last e-mail are read and sent ...                                       *)
(* Mutant: the e-mail has one request.                                     *)
ReadForMailMutant(w) ==
    /\ config.enabled
    /\ \E i \in OfType(config.type) :
        /\ req[i].state = "requested" /\ req[i].nth > config.reminded
        /\ Begin(w, "mail", [Idle EXCEPT !.op = "mail", !.ids = {i}, !.row = config])
    /\ UNCHANGED <<req, config, credit, held, used, chain, fvars>>

ReadForMail(w) ==
    /\ config.enabled
    /\ LET new == {i \in OfType(config.type) :
                    req[i].state = "requested" /\ req[i].nth > config.reminded} IN
        /\ new # {}
        /\ Begin(w, "mail", [Idle EXCEPT !.op = "mail", !.ids = new, !.row = config])
    /\ UNCHANGED <<req, config, credit, held, used, chain, fvars>>

(* ... and the row read at the start is saved with the time of the end.    *)
SaveReminded(w) ==
    /\ At(w, "mail", "read")
    /\ config' = IF job[w].row.enabled /\ CreditOn THEN config
                 ELSE [job[w].row EXCEPT !.reminded = Cardinality(Existing)]
    /\ End(w)
    /\ UNCHANGED <<req, credit, held, used, chain, fvars>>

(* A process dies between two steps; only one that has saved something     *)
(* leaves anything behind, and counts.                                     *)
Crash(w) ==
    /\ job[w] # Idle
    /\ IF job[w].at = "saved" THEN Goes("crash")
       ELSE "crash" \in Faults /\ UNCHANGED faults
    /\ End(w)
    /\ UNCHANGED <<req, config, credit, held, used, chain, wasted>>

-----------------------------------------------------------------------------
TaskStep(c) == Assign(c) \/ Update(c) \/ Flush(c)

SaveStep(w) ==
    \/ SaveCreated(w) \/ SavePending(w) \/ QueueAssignment(w) \/ SaveDeclined(w)
    \/ SaveConfig(w) \/ SaveActive(w) \/ SaveLink(w) \/ SaveReminded(w)

ReadStep(w) ==
    \/ \E l \in Learners, t \in Types : ReadForCreate(w, l, t)
    \/ \E t \in Types, R \in SUBSET Ids : ReadForApprove(w, t, R) \/ ReadForDecline(w, t, R)
    \/ \E t \in Types, b \in BOOLEAN : ReadForConfigure(w, t, b)
    \/ \E b \in BOOLEAN : ReadForActivate(w, b) \/ ReadForLink(w, b)
    \/ ReadForMail(w)

Next ==
    \/ \E w \in Workers : ReadStep(w) \/ SaveStep(w) \/ Crash(w)
    \/ \E c \in Chains : TaskStep(c) \/ AssignUnheard(c) \/ GiveUp(c)

(* Requests are answered, and workers run what is queued.                  *)
Fairness ==
    /\ \A w \in Workers : WF_vars(SaveStep(w))
    /\ \A c \in Chains : WF_vars(TaskStep(c))

Spec == Init /\ [][Next]_vars
FairSpec == Spec /\ Fairness

-----------------------------------------------------------------------------
(* Type correctness: rows, configurations, chains and jobs.                *)
SubsidyTypeOK ==
    /\ req \in [Ids -> Reqs]
    /\ config \in Configs
    /\ credit \in Credits
    /\ held \in [Types -> SUBSET Learners]
    /\ used \in [Types -> Nat]
    /\ chain \in [Chains -> ChainRecords]
    /\ job \in [Workers -> Jobs]
    /\ wasted \in [Types -> SUBSET Learners]
    /\ faults \in 0 .. MaxFaults

Assigning(c) == chain[c].at \in {"assign", "update"}
Queueing(w) == At(w, "approve", "saved")

(* A pending request is the business of one approval: one chain of tasks,  *)
(* or the view that is about to queue it.  Were there two, the second would*)
(* find no licence to assign and turn the approved request into an error.  *)
(* There is one unless something went wrong; nothing else can finish the   *)
(* request, since the views skip or refuse what is pending.                *)
PendingHasOneOwner ==
    \A i \in Ids :
        LET owners == {c \in Chains : Assigning(c) /\ i \in chain[c].ids}
                        \cup {w \in Workers : Queueing(w) /\ i \in job[w].ids} IN
        IF req[i].state = "pending"
        THEN IF owners = {} THEN faults > 0 ELSE \E o \in owners : owners = {o}
        ELSE owners = {}

(* An approved request has been given what it asked for, a licence serves  *)
(* one request, and every licence or code that was given is accounted for  *)
(* by an approved request, by a chain that is about to approve one, or by  *)
(* an answer that was lost.                                                *)
GivenIsRecorded ==
    \A t \in Types :
        /\ \A i \in OfType(t) : req[i].state = "approved" =>
            /\ req[i].learner \in held[t]
            /\ \A j \in OfType(t) \ {i} : t = "license" /\ req[j].state = "approved"
                    => req[j].learner # req[i].learner
        /\ \A l \in held[t] \ wasted[t] :
            \/ \E i \in OfType(t) : req[i].learner = l /\ req[i].state = "approved"
            \/ \E c \in Chains : chain[c].at = "update" /\ chain[c].type = t
                                 /\ l \in chain[c].given

(* A learner waits for the review of at most one request of a type.        *)
OneRequested ==
    \A i, j \in Existing :
        /\ req[i].learner = req[j].learner /\ req[i].type = req[j].type
        /\ req[i].state = "requested" /\ req[j].state = "requested"
        => i = j

(* Browse & Request is enabled for one kind of subsidy at a time, although *)
(* three models check it, each in the tables of the others.                *)
OneKindOfSubsidy == ~(config.enabled /\ CreditOn)

(* A reminder that moves the date of the last one leaves out no request   *)
(* that still waits, of its type and newer than the date it has read, other*)
(* than those created after it had read what it is about: whatever other   *)
(* reminders, reviews and configurations are saved meanwhile.              *)
ReminderSkipsNone ==
    [][\A w \in Workers : \A i \in OfType(job[w].row.type) :
        /\ At(w, "mail", "read") /\ job'[w] = Idle /\ config' # config
        /\ req[i].state = "requested" /\ req[i].nth > job[w].row.reminded
        => i \in job[w].ids \/ \A k \in job[w].ids : req[k].nth < req[i].nth]_vars

(* With enough licences and codes, and workers that run what is queued,    *)
(* every pending request is decided.                                       *)
PendingIsDecided ==
    \A i \in Ids : req[i].state = "pending" ~> req[i].state # "pending"

(* The task that follows a change of type declines "all subsidy requests   *)
(* of the given type".                                                     *)
FlushDeclinesAll ==
    [][\A c \in Chains : chain[c].at = "flush" /\ chain'[c].at # "flush"
            => \A i \in chain[c].ids : req'[i].state = "declined"]_vars
=============================================================================
