----------------------------- MODULE Provisioning -----------------------------
(***************************************************************************)
(* Provisioning of one enterprise customer: ProvisionNewCustomerWorkflow   *)
(* runs its steps in order; each gets or creates a record of another       *)
(* service, and the last one fulfils the checkout intent.                  *)
(*                                                                         *)
(* A workflow that fails is never continued: the next request makes a new  *)
(* one, which starts from the first step and finds what its predecessors   *)
(* have made.  Looking a record up and making it are two remote calls, and *)
(* the plans are looked up in a list that an earlier step brought along.   *)
(***************************************************************************)
EXTENDS Naturals, FiniteSets

CONSTANTS
    Flows,          \* workflows, one for each request
    Plans,          \* subscription plans that the license manager can make
    Emails,         \* administrators of the customer
    Parallel,       \* how many workflows run at the same time
    Faults,         \* what goes wrong, see Failures
    NoPlan, NoFlow

Failures == {"failed", "unheard", "raised", "summary", "unprocessed"}

ASSUME ProvisioningAssumption ==
    /\ IsFiniteSet(Flows) /\ IsFiniteSet(Plans)
    /\ Parallel \in Nat \ {0}
    /\ Faults \subseteq Failures
    /\ NoPlan \notin Plans
    /\ NoFlow \notin Flows

VARIABLES
    intent,         \* the CheckoutIntent of the customer's slug
    made,           \* made[k]: how many records of kind k other services have
    admins,         \* administrators the LMS knows, pending ones included
    plan,           \* plan[p]: a plan of the license manager
    renewals,       \* renewals of the license manager: <<trial plan, paid plan>>
    flow            \* flow[f]: how far workflow f has come, and its output

pvars == <<intent, made, admins, plan, renewals, flow>>

Kinds == {"customer", "catalog", "agreement"}
IntentStates == {"created", "paid", "errored", "fulfilled"}
Fulfillable == {"paid", "errored"}
Items == {"trial", "none", "paid"}
Steps == {"customer", "link", "admins", "catalog", "agreement", "trial", "paid",
          "renewal", "track", "notify", "end"}

Intents == [state : IntentStates, known : BOOLEAN, flow : Flows \cup {NoFlow}]
PlanRecords == [made : BOOLEAN, item : Items, active : BOOLEAN]
FlowRecords == [state : {"unused", "running", "failed", "done"}, step : Steps,
                missing : BOOLEAN, list : SUBSET (Plans \X Items),
                trial : Plans \cup {NoPlan}, paid : Plans \cup {NoPlan}]

After == [customer |-> "link", link |-> "admins", admins |-> "catalog",
          catalog |-> "agreement", agreement |-> "trial", trial |-> "paid",
          paid |-> "renewal", renewal |-> "track", track |-> "notify",
          notify |-> "end", end |-> "end"]

NewFlow == [state |-> "unused", step |-> "customer", missing |-> FALSE, list |-> {},
            trial |-> NoPlan, paid |-> NoPlan]
NoPlanYet == [made |-> FALSE, item |-> "none", active |-> FALSE]

ProvInit ==
    /\ intent \in [state : {"created"}, known : BOOLEAN, flow : {NoFlow}]
    /\ made = [k \in Kinds |-> 0]
    /\ admins = {}
    /\ plan = [p \in Plans |-> NoPlanYet]
    /\ renewals = {}
    /\ flow = [f \in Flows |-> NewFlow]

-----------------------------------------------------------------------------
Running == {f \in Flows : flow[f].state = "running"}
MadePlans == {p \in Plans : plan[p].made}
Pair(f) == <<flow[f].trial, flow[f].paid>>

Doing(f, step) == flow[f].state = "running" /\ flow[f].step = step
Advance(f) == flow' = [flow EXCEPT ![f].step = After[@], ![f].missing = FALSE]
(* Of a workflow that ended, only the output is looked at again.           *)
Stop(f) ==
    flow' = [flow EXCEPT ![f] = [NewFlow EXCEPT !.state = "failed",
                !.trial = flow[f].trial, !.paid = flow[f].paid]]

(* The provisioning endpoint makes a workflow and executes it.             *)
Submit(f) ==
    /\ flow[f] = NewFlow
    /\ Cardinality(Running) < Parallel
    /\ flow' = [flow EXCEPT ![f].state = "running"]
    /\ UNCHANGED <<intent, made, admins, plan, renewals>>

-----------------------------------------------------------------------------
(* The calls to the LMS and to the license manager.  The plans that are    *)
(* active come with their agreement, and a renewal that exists is returned,*)
(* not made.                                                               *)
HasRecord(k) == made[k] > 0
NewRecord(k) == made' = [made EXCEPT ![k] = @ + 1]
Missing == Emails \ admins
Appoint(A) == admins' = admins \cup A
ActivePlans == {p \in MadePlans : plan[p].active}
ListedPlans == {<<p, plan[p].item>> : p \in ActivePlans}
NewPlan(p, item) == plan' = [plan EXCEPT ![p] = [made |-> TRUE, item |-> item, active |-> TRUE]]
NewRenewal(r) == renewals' = renewals \cup {r}

-----------------------------------------------------------------------------
(* Customer, catalog and agreement: look for the record ...                *)
(* Mutant: the plans of an agreement that exists are not in the output.    *)
LookUpMutant(f, k) ==
    /\ Doing(f, k) /\ ~flow[f].missing
    /\ IF HasRecord(k) THEN Advance(f)
       ELSE flow' = [flow EXCEPT ![f].missing = TRUE]
    /\ UNCHANGED <<intent, made, admins, plan, renewals>>

LookUp(f, k) ==
    /\ Doing(f, k) /\ ~flow[f].missing
    /\ IF HasRecord(k)
       THEN flow' = [flow EXCEPT ![f].step = After[@],
                ![f].list = IF k # "agreement" THEN @ ELSE ListedPlans]
       ELSE flow' = [flow EXCEPT ![f].missing = TRUE]
    /\ UNCHANGED <<intent, made, admins, plan, renewals>>

(* ... and make it when there is none.                                     *)
Create(f, k) ==
    /\ Doing(f, k) /\ flow[f].missing
    /\ NewRecord(k)
    /\ Advance(f) \/ ("unheard" \in Faults /\ Stop(f))
    /\ UNCHANGED <<intent, admins, plan, renewals>>

(* link_checkout_intent(): a fulfillable intent of the slug is needed.     *)
Link(f) ==
    /\ Doing(f, "link")
    /\ IF intent.state \in Fulfillable
       THEN intent' = [intent EXCEPT !.flow = f] /\ Advance(f)
       ELSE Stop(f) /\ UNCHANGED intent
    /\ UNCHANGED <<made, admins, plan, renewals>>

(* Administrators are made one by one; those that fail are passed over.    *)
NewAdmins ==
    \E A \in SUBSET Missing :
        /\ "failed" \in Faults \/ A = Missing
        /\ Appoint(A)

MakeAdmins(f) ==
    /\ Doing(f, "admins")
    /\ NewAdmins
    /\ Advance(f)
    /\ UNCHANGED <<intent, made, plan, renewals>>

-----------------------------------------------------------------------------
(* error_checkout_intent(): the intent this workflow is linked to.         *)
Errored(f) ==
    intent' = IF intent.flow = f THEN [intent EXCEPT !.state = "errored"] ELSE intent

Wanted == [trial |-> "trial", paid |-> "none"]
Matching(f, k) == {p \in Plans : <<p, Wanted[k]>> \in flow[f].list}

(* A plan of the list with the wanted line item is taken ...               *)
FindPlan(f, k) ==
    /\ Doing(f, k)
    /\ \E p \in Matching(f, k) :
        flow' = [flow EXCEPT ![f].step = After[k], ![f][k] = p]
    /\ UNCHANGED <<intent, made, admins, plan, renewals>>

(* ... and only when there is none, a plan is made.                        *)
MakePlan(f, k) ==
    /\ Doing(f, k) /\ Matching(f, k) = {}
    /\ \E p \in Plans \ MadePlans :
        /\ NewPlan(p, Wanted[k])
        /\ \/ /\ flow' = [flow EXCEPT ![f].step = After[k], ![f][k] = p]
              /\ UNCHANGED intent
           \/ "unheard" \in Faults /\ Stop(f) /\ Errored(f)
    /\ UNCHANGED <<made, admins, renewals>>

(* The license manager gets or makes the renewal of the two plans.         *)
MakeRenewal(f) ==
    /\ Doing(f, "renewal")
    /\ NewRenewal(Pair(f))
    /\ \/ Advance(f) /\ UNCHANGED intent
       \/ "unheard" \in Faults /\ Stop(f) /\ Errored(f)
    /\ UNCHANGED <<made, admins, plan>>

(* Tracking the renewal succeeds, or ends the workflow without an error    *)
(* on the intent; Renewal says which.                                      *)
Track(f, saved) ==
    /\ Doing(f, "track")
    /\ IF saved THEN Advance(f) ELSE Stop(f)
    /\ UNCHANGED <<intent, made, admins, plan, renewals>>

(* fulfill_checkout_intent(): again the intent the workflow is linked to.  *)
Notify(f) ==
    /\ Doing(f, "notify")
    /\ IF intent.flow = f
       THEN /\ intent' = [intent EXCEPT !.state = "fulfilled"]
            /\ \/ flow' = [flow EXCEPT ![f].state = "done", ![f].step = "end", ![f].list = {}]
               \/ "unheard" \in Faults /\ Stop(f)
       ELSE Stop(f) /\ UNCHANGED intent
    /\ UNCHANGED <<made, admins, plan, renewals>>

(* A call fails, and the steps that make plans error the intent; or the    *)
(* process dies, and nothing does.                                         *)
Fail(f) ==
    /\ "failed" \in Faults
    /\ flow[f].state = "running"
    /\ Stop(f)
    /\ UNCHANGED intent \/ (flow[f].step \in {"trial", "paid", "renewal"} /\ Errored(f))
    /\ UNCHANGED <<made, admins, plan, renewals>>

(* SubscriptionPlanOLIUpdateView: the paid plan of the workflow that the   *)
(* intent is linked to gets its own line item.                             *)
UpdateLineItem ==
    /\ intent.flow # NoFlow
    /\ LET p == flow[intent.flow].paid IN
        /\ p # NoPlan
        /\ plan' = [plan EXCEPT ![p].item = "paid"]
    /\ UNCHANGED <<intent, made, admins, renewals, flow>>

-----------------------------------------------------------------------------
(* The steps that are made of several calls.                               *)
CustomerStep(f) == LookUp(f, "customer") \/ Create(f, "customer") \/ Link(f)
CatalogStep(f) == LookUp(f, "catalog") \/ Create(f, "catalog")
AgreementStep(f) == LookUp(f, "agreement") \/ Create(f, "agreement")

FlowStep(f) ==
    \/ CustomerStep(f) \/ MakeAdmins(f) \/ CatalogStep(f) \/ AgreementStep(f)
    \/ \E k \in {"trial", "paid"} : FindPlan(f, k) \/ MakePlan(f, k)
    \/ MakeRenewal(f) \/ Notify(f)

(* The payment, recorded by the handler of invoice.paid.                   *)
MarkAsPaid ==
    /\ intent.state \in {"created", "paid"}
    /\ intent' = [intent EXCEPT !.state = "paid", !.known = TRUE]
    /\ UNCHANGED <<made, admins, plan, renewals, flow>>

(* A plan is deactivated when a payment is past due.                       *)
Deactivate(P) ==
    /\ plan' = [p \in Plans |-> IF p \in P THEN [plan[p] EXCEPT !.active = FALSE] ELSE plan[p]]
    /\ UNCHANGED <<intent, made, admins, renewals, flow>>

ProvNext ==
    \/ \E f \in Flows :
        Submit(f) \/ FlowStep(f) \/ Fail(f) \/ \E b \in BOOLEAN : Track(f, b)
    \/ UpdateLineItem
    \/ MarkAsPaid
    \/ \E P \in SUBSET MadePlans : Deactivate(P)

ProvSpec == ProvInit /\ [][ProvNext]_pvars

-----------------------------------------------------------------------------
(* Type correctness of the intent, the remote records and the workflows.   *)
ProvTypeOK ==
    /\ intent \in Intents
    /\ made \in [Kinds -> Nat]
    /\ admins \subseteq Emails
    /\ plan \in [Plans -> PlanRecords]
    /\ renewals \subseteq Plans \X Plans
    /\ flow \in [Flows -> FlowRecords]

(* However often provisioning fails and is requested again, no service is  *)
(* made to create a record twice: one customer, catalog and agreement, one *)
(* active plan with the line item of the trial, and one that has none yet. *)
(* A plan that was deactivated, after a payment that is past due, is not   *)
(* listed and is made anew by the next workflow.                           *)
MadeOnce ==
    /\ \A k \in Kinds : made[k] <= 1
    /\ \A p, q \in ActivePlans : plan[p].item = plan[q].item /\ plan[p].item # "paid" => p = q

(* A renewal leads from a trial plan to another plan.                      *)
RenewalLeadsOn ==
    \A r \in renewals :
        /\ r[1] # r[2] /\ plan[r[1]].made /\ plan[r[2]].made
        /\ plan[r[1]].item = "trial" /\ plan[r[2]].item # "trial"

(* A fulfilled intent is linked to the workflow that fulfilled it, and all *)
(* that it stands for exists.                                              *)
FulfilledIsProvisioned ==
    intent.state = "fulfilled" =>
        /\ intent.flow \in Flows
        /\ flow[intent.flow].state \in {"done", "failed"}
        /\ \A k \in Kinds : made[k] > 0
        /\ Pair(intent.flow) \in renewals
=============================================================================
