-------------------------------- MODULE Renewal --------------------------------
(***************************************************************************)
(* Stripe events and the renewal from the trial to the paid plan, composed *)
(* with Provisioning: a workflow makes the renewal and tracks it in a row, *)
(* and the handler of customer.subscription.updated processes it when the  *)
(* subscription leaves its trial.                                          *)
(*                                                                         *)
(* Stripe sends an event until its delivery succeeds, and sometimes again; *)
(* the order of delivery is not that of creation.  The handlers tell a     *)
(* transition by the latest summary they have of an earlier event.         *)
(***************************************************************************)
EXTENDS Provisioning, Sequences, FiniteSetsExt

CONSTANTS
    Workers,        \* web processes that handle deliveries
    MaxEvents,      \* bound: events of the subscription
    MaxRuns,        \* bound: calls that process one renewal
    InOrder,        \* are events delivered in the order of their creation?
    Again,          \* does the command fetch events that were handled?
    Graceful        \* STRIPE_GRACEFUL_EXCEPTION_MODE

ASSUME RenewalAssumption ==
    /\ MaxEvents \in Nat /\ MaxRuns \in Nat
    /\ {InOrder, Again, Graceful} \subseteq BOOLEAN

VARIABLES
    sent,           \* events of the subscription, as Stripe created them
    data,           \* data[e]: StripeEventData
    summary,        \* summary[e]: StripeEventSummary, by its link to the intent
    row,            \* row[r]: SelfServiceSubscriptionRenewal of renewal r
    ran,            \* ran[r]: how often the license manager processed r
    job             \* job[w]: what process w handles

rvars == <<sent, data, summary, row, ran, job>>
vars == <<pvars, rvars>>

Statuses == {"none", "trialing", "active", "past_due"}
EventKinds == {"created", "invoice", "will_end", "updated"}
Events == 1 .. MaxEvents
Pairs == Plans \X Plans

DataRecords == [stored : BOOLEAN, linked : BOOLEAN, handled : BOOLEAN]
(* nth: the row is the nth that was created, 0 when it does not exist.     *)
RowRecords == [nth : Nat, event : 0 .. MaxEvents, done : BOOLEAN]
NoPair == <<NoPlan, NoPlan>>
Jobs == [at : {"idle", "handle", "process", "mark", "finish"},
         event : 0 .. MaxEvents, pair : Pairs \cup {NoPair}]

NoData == [stored |-> FALSE, linked |-> FALSE, handled |-> FALSE]
NoRow == [nth |-> 0, event |-> 0, done |-> FALSE]
Idle == [at |-> "idle", event |-> 0, pair |-> NoPair]

Init ==
    /\ ProvInit
    /\ sent = <<>>
    /\ data = [e \in Events |-> NoData]
    /\ summary = [e \in Events |-> "none"]
    /\ row = [r \in Pairs |-> NoRow]
    /\ ran = [r \in Pairs |-> 0]
    /\ job = [w \in Workers |-> Idle]

-----------------------------------------------------------------------------
(* The subscription, and what Stripe tells of it.  That it was canceled    *)
(* only leads to an e-mail, and is left out.                               *)
MayBecome == [none |-> {}, trialing |-> {"active", "past_due"},
              active |-> {"past_due"}, past_due |-> {"active"}]

Told == {e \in 1 .. Len(sent) : sent[e].status # "none"}
Status == IF Told = {} THEN "none" ELSE sent[Max(Told)].status

Send ==
    /\ Len(sent) < MaxEvents
    /\ \E k \in EventKinds, s \in Statuses :
        /\ CASE k = "created" -> Told = {} /\ s = "trialing"
             [] k = "invoice" -> s = "none"
             [] k = "will_end" -> Status = "trialing" /\ s = "trialing"
             [] k = "updated" -> s \in MayBecome[Status]
        /\ sent' = Append(sent, [kind |-> k, status |-> s])
    /\ UNCHANGED <<pvars, data, summary, row, ran, job>>

-----------------------------------------------------------------------------
(* populate_with_summary_data() takes the link to the intent from the data *)
(* and the rest, the status of the subscription above all, from the event. *)
SummaryOf(linked) == IF linked THEN "linked" ELSE "unlinked"

(* post_save of StripeEventData writes the summary, or logs that it failed.*)
Summarise(e, linked) ==
    \/ summary' = [summary EXCEPT ![e] = SummaryOf(linked)]
    \/ "summary" \in Faults /\ UNCHANGED summary

(* The wrapper of every handler stores the event when it is new ...        *)
Accept(w, e) ==
    /\ job[w] = Idle
    /\ e <= Len(sent)
    /\ job' = [job EXCEPT ![w] = [at |-> "handle", event |-> e, pair |-> NoPair]]
    /\ IF data[e].stored THEN UNCHANGED <<data, summary>>
       ELSE /\ data' = [data EXCEPT ![e] = [NoData EXCEPT !.stored = TRUE, !.linked = intent.known]]
            /\ Summarise(e, intent.known)
    /\ UNCHANGED <<pvars, sent, row, ran>>

Ordered(e) == \A d \in Events : (d < e => data[d].handled) /\ (d > e => ~data[d].stored)

(* The webhook, and the command that fetches events from Stripe: to handle *)
(* "missed events or reprocess existing ones", in any order.               *)
Receive(w, e) == (InOrder => Ordered(e)) /\ Accept(w, e)
Fetch(w, e) == (Again \/ Ordered(e)) /\ Accept(w, e)

(* ... and marks it as handled when the handler did not raise.             *)
Finish(w) ==
    /\ job[w].at = "finish"
    /\ data' = [data EXCEPT ![job[w].event].handled = TRUE]
    /\ Summarise(job[w].event, data[job[w].event].linked)
    /\ job' = [job EXCEPT ![w] = Idle]
    /\ UNCHANGED <<pvars, sent, row, ran>>

Raise(w) == job' = [job EXCEPT ![w] = Idle]
Return(w) == job' = [job EXCEPT ![w].at = "finish"]
Handling(w, k) == job[w].at = "handle" /\ sent[job[w].event].kind = k

(* link_event_data_to_checkout_intent()                                    *)
LinkEvent(e) ==
    IF data[e].linked THEN UNCHANGED <<data, summary>>
    ELSE data' = [data EXCEPT ![e].linked = TRUE] /\ Summarise(e, TRUE)

(* invoice.paid: the intent is marked as paid, then the event is linked.   *)
(* Mutant: whatever its state.                                             *)
HandleInvoiceMutant(w) ==
    /\ Handling(w, "invoice")
    /\ intent' = [intent EXCEPT !.state = "paid", !.known = TRUE]
    /\ LinkEvent(job[w].event) /\ Return(w)
    /\ UNCHANGED <<made, admins, plan, renewals, flow, sent, row, ran>>

HandleInvoice(w) ==
    /\ Handling(w, "invoice")
    /\ IF intent.state \in {"created", "paid"}
       THEN /\ MarkAsPaid
            /\ \/ LinkEvent(job[w].event) /\ Return(w)
               \/ "failed" \in Faults /\ Raise(w) /\ UNCHANGED <<data, summary>>
       ELSE /\ IF Graceful THEN Return(w) ELSE Raise(w)
            /\ UNCHANGED <<pvars, data, summary>>
    /\ UNCHANGED <<sent, row, ran>>

(* customer.subscription.created and .trial_will_end: the former reads the *)
(* summary afterwards, which must exist.                                   *)
HandleNotice(w) ==
    /\ Handling(w, "created") \/ Handling(w, "will_end")
    /\ LinkEvent(job[w].event)
    /\ IF Handling(w, "created") /\ summary'[job[w].event] = "none" THEN Raise(w) ELSE Return(w)
    /\ UNCHANGED <<pvars, sent, row, ran>>

-----------------------------------------------------------------------------
(* previous_summary(): the latest of this intent that is earlier.          *)
(* Mutant: the latest, whenever its event was created.                     *)
PriorStatusMutant(e) ==
    LET known == {d \in Events \ {e} : summary[d] = "linked"} IN
    IF known = {} THEN "none" ELSE sent[Max(known)].status

PriorStatus(e) ==
    LET known == {d \in 1 .. e - 1 : summary[d] = "linked"} IN
    IF known = {} THEN "none" ELSE sent[Max(known)].status

(* Mutant: the rows that are processed count as well.                      *)
UnprocessedMutant == {r \in Pairs : row[r].nth > 0}

Unprocessed == {r \in Pairs : row[r].nth > 0 /\ ~row[r].done}
Latest(R) == CHOOSE r \in R : \A q \in R : row[q].nth <= row[r].nth

BecameActive(e) == sent[e].status = "active" /\ PriorStatus(e) = "trialing"
BecamePastDue(e) == sent[e].status = "past_due" /\ PriorStatus(e) # "past_due"

(* _process_trial_to_paid_renewal(): the latest unprocessed row gets the   *)
(* event, which no other row may have ...                                  *)
StartRenewal(w) ==
    LET e == job[w].event r == Latest(Unprocessed) IN
    IF Unprocessed = {} THEN Return(w) /\ UNCHANGED row
    ELSE IF \E q \in Pairs \ {r} : row[q].event = e THEN Raise(w) /\ UNCHANGED row
    ELSE /\ row' = [row EXCEPT ![r].event = e]
         /\ job' = [job EXCEPT ![w].at = "process", ![w].pair = r]

(* cancel_all_future_plans(): the plans of unprocessed rows, one by one.   *)
CancelPlans(w) ==
    IF intent.flow = NoFlow THEN Return(w) /\ UNCHANGED pvars
    ELSE LET P == {r[2] : r \in Unprocessed} IN
         \/ Deactivate(P) /\ Return(w)
         \/ "failed" \in Faults /\ Raise(w) /\ \E Q \in SUBSET P : Q # P /\ Deactivate(Q)

(* customer.subscription.updated                                           *)
HandleUpdated(w) ==
    /\ Handling(w, "updated")
    /\ LinkEvent(job[w].event)
    /\ CASE BecameActive(job[w].event) -> StartRenewal(w) /\ UNCHANGED pvars
         [] BecamePastDue(job[w].event) -> CancelPlans(w) /\ UNCHANGED row
         [] OTHER -> Return(w) /\ UNCHANGED <<pvars, row>>
    /\ UNCHANGED <<sent, ran>>

(* ... the license manager processes it, or does so unheard ...            *)
ProcessRenewal(w) ==
    /\ job[w].at = "process"
    /\ ran[job[w].pair] < MaxRuns
    /\ ran' = [ran EXCEPT ![job[w].pair] = @ + 1]
    /\ \/ job' = [job EXCEPT ![w].at = "mark"]
       \/ "unprocessed" \in Faults /\ Raise(w)
    /\ UNCHANGED <<pvars, sent, data, summary, row>>

(* ... and the row is marked.                                              *)
(* Mutant: it is not.                                                      *)
MarkProcessedMutant(w) ==
    /\ job[w].at = "mark"
    /\ Return(w)
    /\ UNCHANGED <<pvars, sent, data, summary, row, ran>>

MarkProcessed(w) ==
    /\ job[w].at = "mark"
    /\ row' = [row EXCEPT ![job[w].pair].done = TRUE]
    /\ Return(w)
    /\ UNCHANGED <<pvars, sent, data, summary, ran>>

(* A call of the handler fails, or its process dies.  Only the fault       *)
(* "unprocessed" separates the renewal from the row that says so.          *)
Failed(w) ==
    /\ "raised" \in Faults
    /\ job[w] # Idle
    /\ job[w].at = "mark" => "unprocessed" \in Faults
    /\ Raise(w)
    /\ UNCHANGED <<pvars, sent, data, summary, row, ran>>

(* populate_stripe_event_summaries: the summaries that are missing.        *)
Populate ==
    /\ "summary" \in Faults
    /\ \E e \in Events : data[e].stored /\ summary[e] = "none"
    /\ summary' = [e \in Events |->
            IF ~data[e].stored \/ summary[e] # "none" THEN summary[e]
            ELSE SummaryOf(data[e].linked)]
    /\ UNCHANGED <<pvars, sent, data, row, ran, job>>

-----------------------------------------------------------------------------
(* The renewal step of a workflow tracks the renewal with the event of the *)
(* latest summary, unless there is none or another row has that event.     *)
LatestEvent == Max({e \in Events : summary[e] = "linked"})
Trackable(f) ==
    /\ \E e \in Events : summary[e] = "linked"
    /\ \A q \in Pairs \ {Pair(f)} : row[q].event # LatestEvent

TrackRenewal(f) ==
    /\ Track(f, Trackable(f))
    /\ row' = IF ~Trackable(f) THEN row
              ELSE [row EXCEPT ![Pair(f)] =
                [nth |-> IF @.nth > 0 THEN @.nth
                         ELSE Cardinality({r \in Pairs : row[r].nth > 0}) + 1,
                 event |-> LatestEvent, done |-> @.done]]
    /\ UNCHANGED <<sent, data, summary, ran, job>>

Provision(f) ==
    \/ TrackRenewal(f)
    \/ (Submit(f) \/ FlowStep(f) \/ Fail(f)) /\ UNCHANGED rvars

Handle(w) ==
    \/ HandleInvoice(w) \/ HandleNotice(w) \/ HandleUpdated(w)
    \/ ProcessRenewal(w) \/ MarkProcessed(w) \/ Finish(w)

Next ==
    \/ Send
    \/ Populate
    \/ \E w \in Workers :
        Handle(w) \/ Failed(w) \/ \E e \in Events : Receive(w, e) \/ Fetch(w, e)
    \/ \E f \in Flows : Provision(f)
    \/ UpdateLineItem /\ UNCHANGED rvars

(* Stripe delivers until an event is handled, and a request that began ends*)
Fairness ==
    /\ \A w \in Workers : WF_vars(Handle(w))
    /\ \A e \in Events : SF_vars(~data[e].handled /\ \E w \in Workers : Receive(w, e))
    /\ \A f \in Flows : WF_vars(FlowStep(f) /\ UNCHANGED rvars) /\ WF_vars(TrackRenewal(f))

Spec == Init /\ [][Next]_vars
FairSpec == Spec /\ Fairness

-----------------------------------------------------------------------------
(* Type correctness, with that of Provisioning.                            *)
RenewalTypeOK ==
    /\ ProvTypeOK
    /\ sent \in Seq([kind : EventKinds, status : Statuses]) /\ Len(sent) <= MaxEvents
    /\ data \in [Events -> DataRecords]
    /\ summary \in [Events -> {"none", "unlinked", "linked"}]
    /\ row \in [Pairs -> RowRecords]
    /\ ran \in [Pairs -> Nat]
    /\ job \in [Workers -> Jobs]

(* The license manager processes a renewal at most once, although Stripe   *)
(* may deliver the event again and nothing compares it with events that    *)
(* were handled.                                                           *)
ProcessedOnce == \A r \in Pairs : ran[r] <= 1

(* A renewal that was processed leads to a plan that is active: the        *)
(* handlers of "active" and of "past due" do not both take effect.         *)
ProcessedIsActive == \A r \in Pairs : ran[r] > 0 => plan[r[2]].active

(* A fulfilled intent has a row for the renewal of the workflow that       *)
(* fulfilled it, so the end of the trial will find it.                     *)
FulfilledIsTracked ==
    intent.state = "fulfilled" =>
        /\ FulfilledIsProvisioned
        /\ row[Pair(intent.flow)].nth > 0

(* A row that is processed stays so: provisioning again does not make the  *)
(* renewal of a customer who has paid due once more.                       *)
ProcessedIsFinal == [][\A r \in Pairs : row[r].done => row'[r].done]_vars

(* With the Stripe events, the provisioning is still that of Provisioning. *)
ImplementsProvisioning == ProvSpec

(* When the trial of a fulfilled intent ends with a payment, and the event *)
(* before is known by then, the renewal is processed in the end.           *)
TrialEnds(e) ==
    /\ e \in 2 .. Len(sent)
    /\ sent[e - 1].status = "trialing" /\ sent[e].status = "active"

RenewalIsProcessed ==
    \A e \in Events :
        /\ intent.state = "fulfilled" /\ TrialEnds(e)
        /\ summary[e - 1] = "linked" /\ ~data[e].stored
        ~> \E r \in Pairs, f \in Flows : intent.flow = f /\ Pair(f) = r /\ row[r].done
===============================================================================
