----------------------------- MODULE Renewal_proofs -----------------------------
(***************************************************************************)
(* Proofs about Provisioning and Renewal: first what holds of provisioning *)
(* alone, for any order of its steps; then that the steps of Renewal are   *)
(* steps of Provisioning or leave it alone, so that all of it carries over.*)
(***************************************************************************)
EXTENDS Renewal, TLAPS, FiniteSetTheorems, WellFoundedInduction

USE DEF Doing, Pair

-----------------------------------------------------------------------------
(* Types of provisioning.                                                  *)

LEMMA ProvInitType == ASSUME ProvInit PROVE ProvTypeOK
<1>1. NewFlow \in FlowRecords
  BY ProvisioningAssumption DEF NewFlow, FlowRecords, Steps
<1>2. NoPlanYet \in PlanRecords
  BY DEF NoPlanYet, PlanRecords, Items
<1>3. intent \in Intents
  BY DEF ProvInit, Intents, IntentStates
<1>4. QED
  BY <1>1, <1>2, <1>3 DEF ProvInit, ProvTypeOK

(* One workflow changes.                                                   *)
LEMMA FlowUpdate ==
    ASSUME flow \in [Flows -> FlowRecords], NEW f \in Flows, NEW r \in FlowRecords,
           flow' = [flow EXCEPT ![f] = r]
    PROVE  /\ flow' \in [Flows -> FlowRecords] /\ flow'[f] = r
           /\ \A g \in Flows \ {f} : flow'[g] = flow[g]
  OBVIOUS

(* A workflow that advances, or stops.                                     *)
LEMMA AdvanceIs ==
    ASSUME ProvTypeOK, NEW f \in Flows, Advance(f)
    PROVE  /\ flow' \in [Flows -> FlowRecords]
           /\ \A g \in Flows \ {f} : flow'[g] = flow[g]
           /\ flow'[f].state = flow[f].state /\ flow'[f].step = After[flow[f].step]
           /\ ~flow'[f].missing /\ flow'[f].list = flow[f].list
           /\ flow'[f].trial = flow[f].trial /\ flow'[f].paid = flow[f].paid
<1>1. \A s \in Steps : After[s] \in Steps
  BY DEF After, Steps
<1>2. flow \in [Flows -> FlowRecords] /\ flow[f] \in FlowRecords
  BY DEF ProvTypeOK
<1> DEFINE r == [flow[f] EXCEPT !.step = After[flow[f].step], !.missing = FALSE]
<1>3. flow' = [flow EXCEPT ![f] = r]
  BY <1>2 DEF Advance
<1>4. r \in FlowRecords
  BY <1>1, <1>2 DEF FlowRecords
<1>5. /\ r.state = flow[f].state /\ r.step = After[flow[f].step]
      /\ ~r.missing /\ r.list = flow[f].list
      /\ r.trial = flow[f].trial /\ r.paid = flow[f].paid
  BY <1>2 DEF FlowRecords
<1> HIDE DEF r
<1>6. QED
  BY <1>2, <1>3, <1>4, <1>5, FlowUpdate

LEMMA StopIs ==
    ASSUME ProvTypeOK, NEW f \in Flows, Stop(f)
    PROVE  /\ flow' \in [Flows -> FlowRecords]
           /\ \A g \in Flows \ {f} : flow'[g] = flow[g]
           /\ flow'[f].state = "failed" /\ flow'[f].list = {} /\ ~flow'[f].missing
           /\ flow'[f].trial = flow[f].trial /\ flow'[f].paid = flow[f].paid
<1>1. "customer" \in Steps
  BY DEF Steps
<1>2. QED
  BY <1>1 DEF Stop, NewFlow, ProvTypeOK, FlowRecords

LEMMA ErroredIs ==
    ASSUME ProvTypeOK, NEW f \in Flows, Errored(f)
    PROVE  /\ intent' \in Intents
           /\ intent' = intent \/ (intent.flow = f /\ intent'.state = "errored" /\ intent'.flow = f)
  BY DEF Errored, ProvTypeOK, Intents, IntentStates

(* A workflow that succeeds.                                               *)
LEMMA DoneRecord ==
    ASSUME NEW r \in FlowRecords
    PROVE  /\ [r EXCEPT !.state = "done", !.step = "end", !.list = {}] \in FlowRecords
           /\ [r EXCEPT !.state = "done", !.step = "end", !.list = {}].state = "done"
           /\ [r EXCEPT !.state = "done", !.step = "end", !.list = {}].trial = r.trial
           /\ [r EXCEPT !.state = "done", !.step = "end", !.list = {}].paid = r.paid
  BY DEF FlowRecords, Steps

LEMMA DoneIs ==
    ASSUME ProvTypeOK, NEW f \in Flows,
           flow' = [flow EXCEPT ![f].state = "done", ![f].step = "end", ![f].list = {}]
    PROVE  /\ flow' \in [Flows -> FlowRecords]
           /\ \A g \in Flows \ {f} : flow'[g] = flow[g]
           /\ flow'[f].state = "done"
           /\ flow'[f].trial = flow[f].trial /\ flow'[f].paid = flow[f].paid
<1>1. flow'[f] = [flow[f] EXCEPT !.state = "done", !.step = "end", !.list = {}]
  BY DEF ProvTypeOK
<1>2. /\ flow'[f] \in FlowRecords /\ flow'[f].state = "done"
      /\ flow'[f].trial = flow[f].trial /\ flow'[f].paid = flow[f].paid
  <2>1. flow[f] \in FlowRecords
    BY DEF ProvTypeOK
  <2>2. QED
    BY <1>1, <2>1, DoneRecord
<1>3. \A g \in Flows \ {f} : flow'[g] = flow[g]
  BY DEF ProvTypeOK
<1>4. flow' = [g \in Flows |-> flow'[g]]
  BY DEF ProvTypeOK
<1>5. QED
  BY <1>2, <1>3, <1>4 DEF ProvTypeOK

(* The look-up of a record, and of the plans of an agreement.              *)
LEMMA LookUpIs ==
    ASSUME ProvTypeOK, NEW f \in Flows, NEW k \in Kinds, LookUp(f, k)
    PROVE  /\ flow' \in [Flows -> FlowRecords]
           /\ \A g \in Flows \ {f} : flow'[g] = flow[g]
           /\ flow'[f].state = flow[f].state
           /\ flow'[f].trial = flow[f].trial /\ flow'[f].paid = flow[f].paid
           /\ IF made[k] > 0
              THEN /\ flow'[f].step = After[k] /\ ~flow'[f].missing
                   /\ flow'[f].list = IF k # "agreement" THEN flow[f].list
                                      ELSE {<<p, plan[p].item>> : p \in ActivePlans}
              ELSE /\ flow'[f].step = k /\ flow'[f].missing
                   /\ flow'[f].list = flow[f].list
<1>1. \A s \in Steps : After[s] \in Steps
  BY DEF After, Steps
<1> DEFINE L == {<<p, plan[p].item>> : p \in ActivePlans}
<1>2. L \in SUBSET (Plans \X Items)
  BY DEF ActivePlans, MadePlans, ProvTypeOK, PlanRecords
<1> HIDE DEF L
<1>3. flow[f] \in FlowRecords /\ k \in Steps /\ flow[f].step = k /\ ~flow[f].missing
  BY DEF ProvTypeOK, Kinds, Steps, LookUp, HasRecord, ListedPlans, ActivePlans
<1>4. CASE made[k] > 0 /\ k = "agreement"
  <2>1. flow' = [flow EXCEPT ![f].step = After[@], ![f].list = L]
    BY <1>4 DEF LookUp, HasRecord, ListedPlans, ActivePlans, L
  <2>2. QED
    BY <1>1, <1>2, <1>3, <1>4, <2>1 DEF ProvTypeOK, FlowRecords, L
<1>5. CASE made[k] > 0 /\ k # "agreement"
  <2>1. flow' = [flow EXCEPT ![f].step = After[@], ![f].list = @]
    BY <1>5 DEF LookUp, HasRecord, ListedPlans, ActivePlans
  <2>2. QED
    BY <1>1, <1>3, <1>5, <2>1 DEF ProvTypeOK, FlowRecords
<1>6. CASE ~(made[k] > 0)
  <2>1. flow' = [flow EXCEPT ![f].missing = TRUE]
    BY <1>6 DEF LookUp, HasRecord, ListedPlans
  <2>2. QED
    BY <1>3, <1>6, <2>1 DEF ProvTypeOK, FlowRecords
<1>7. QED
  BY <1>4, <1>5, <1>6

(* A plan that is found or made.                                           *)
Chosen(f, k, p) ==
    /\ \A g \in Flows \ {f} : flow'[g] = flow[g]
    /\ flow'[f].state = flow[f].state
    /\ flow'[f].missing = flow[f].missing /\ flow'[f].list = flow[f].list
    /\ IF k = "trial"
       THEN flow'[f].step = "paid" /\ flow'[f].trial = p /\ flow'[f].paid = flow[f].paid
       ELSE flow'[f].step = "renewal" /\ flow'[f].trial = flow[f].trial /\ flow'[f].paid = p

LEMMA ChosenIs ==
    ASSUME ProvTypeOK, NEW f \in Flows, NEW k \in {"trial", "paid"}, NEW p \in Plans,
           flow' = [flow EXCEPT ![f].step = After[k], ![f][k] = p]
    PROVE  flow' \in [Flows -> FlowRecords] /\ Chosen(f, k, p)
<1>1. After["trial"] = "paid" /\ After["paid"] = "renewal" /\ {"paid", "renewal"} \subseteq Steps
  BY DEF After, Steps
<1>2. After[k] \in Steps /\ flow[f] \in FlowRecords
  BY <1>1 DEF ProvTypeOK
<1> DEFINE r == [flow[f] EXCEPT !.step = After[k], ![k] = p]
<1>3. flow' = [flow EXCEPT ![f] = r]
  BY DEF ProvTypeOK
<1>4. /\ r \in FlowRecords /\ r.state = flow[f].state
      /\ r.missing = flow[f].missing /\ r.list = flow[f].list /\ r.step = After[k]
      /\ r.trial = IF k = "trial" THEN p ELSE flow[f].trial
      /\ r.paid = IF k = "trial" THEN flow[f].paid ELSE p
  <2> DEFINE old == flow[f]
             next == After[k]
  <2>1. old \in FlowRecords /\ next \in Steps
    BY <1>2
  <2> HIDE DEF old, next
  <2>2. /\ [old EXCEPT !.step = next, ![k] = p] \in FlowRecords
        /\ [old EXCEPT !.step = next, ![k] = p].state = old.state
        /\ [old EXCEPT !.step = next, ![k] = p].missing = old.missing
        /\ [old EXCEPT !.step = next, ![k] = p].list = old.list
        /\ [old EXCEPT !.step = next, ![k] = p].step = next
        /\ [old EXCEPT !.step = next, ![k] = p].trial = IF k = "trial" THEN p ELSE old.trial
        /\ [old EXCEPT !.step = next, ![k] = p].paid = IF k = "trial" THEN old.paid ELSE p
    BY <2>1 DEF FlowRecords
  <2>3. QED
    BY <2>2 DEF old, next
<1> HIDE DEF r
<1>5. flow' \in [Flows -> FlowRecords] /\ flow'[f] = r /\ \A g \in Flows \ {f} : flow'[g] = flow[g]
  <2>1. flow \in [Flows -> FlowRecords]
    BY DEF ProvTypeOK
  <2>2. QED
    BY <1>3, <1>4, <2>1, FlowUpdate
<1>6. QED
  <2>1. CASE k = "trial"
    BY <1>1, <1>4, <1>5, <2>1 DEF Chosen
  <2>2. CASE k = "paid"
    BY <1>1, <1>4, <1>5, <2>2 DEF Chosen
  <2>3. QED
    BY <2>1, <2>2

LEMMA FoundIs ==
    ASSUME ProvTypeOK, NEW f \in Flows, NEW k \in {"trial", "paid"}, FindPlan(f, k)
    PROVE  /\ flow' \in [Flows -> FlowRecords]
           /\ \E p \in Matching(f, k) : Chosen(f, k, p)
<1>1. PICK p \in Matching(f, k) : flow' = [flow EXCEPT ![f].step = After[k], ![f][k] = p]
  BY DEF FindPlan
<1>2. p \in Plans
  BY DEF Matching
<1>3. QED
  BY <1>1, <1>2, ChosenIs

(* The plan that is made, and whether the workflow hears of it.            *)
Made(p, item) ==
    /\ p \in Plans \ MadePlans
    /\ plan' \in [Plans -> PlanRecords]
    /\ \A q \in Plans \ {p} : plan'[q] = plan[q]
    /\ plan'[p].made /\ plan'[p].item = item

LEMMA MadeIs ==
    ASSUME ProvTypeOK, NEW f \in Flows, NEW k \in {"trial", "paid"}, MakePlan(f, k)
    PROVE  /\ flow' \in [Flows -> FlowRecords] /\ intent' \in Intents
           /\ \E p \in Plans \ MadePlans :
                /\ Made(p, Wanted[k])
                /\ (Chosen(f, k, p) /\ UNCHANGED intent) \/ (Stop(f) /\ Errored(f))
<1>1. PICK p \in Plans \ MadePlans :
        /\ plan' = [plan EXCEPT ![p] = [made |-> TRUE, item |-> Wanted[k], active |-> TRUE]]
        /\ \/ /\ flow' = [flow EXCEPT ![f].step = After[k], ![f][k] = p]
              /\ UNCHANGED intent
           \/ Stop(f) /\ Errored(f)
  BY DEF MakePlan, NewPlan
<1>2. Wanted[k] \in Items
  BY DEF Wanted, Items
<1>3. Made(p, Wanted[k])
  BY <1>1, <1>2 DEF Made, ProvTypeOK, PlanRecords
<1>4. CASE flow' = [flow EXCEPT ![f].step = After[k], ![f][k] = p] /\ UNCHANGED intent
  <2>1. Chosen(f, k, p) /\ flow' \in [Flows -> FlowRecords]
    BY <1>4, ChosenIs
  <2>2. QED
    BY <1>3, <1>4, <2>1 DEF ProvTypeOK
<1>5. CASE Stop(f) /\ Errored(f)
  BY <1>3, <1>5, StopIs, ErroredIs
<1>6. QED
  BY <1>1, <1>4, <1>5

(* What a workflow knows from the steps it has taken.                      *)
Knows(f) ==
    flow[f].state = "running" =>
        /\ flow[f].step # "end"
        /\ flow[f].step # "customer" => made["customer"] > 0
        /\ flow[f].step \notin {"customer", "link", "admins", "catalog"} =>
                made["catalog"] > 0
        /\ flow[f].step \notin {"customer", "link", "admins", "catalog", "agreement"} =>
                made["agreement"] > 0
        /\ flow[f].step \in {"paid", "renewal", "track", "notify"} =>
                flow[f].trial \in MadePlans
        /\ flow[f].step \in {"renewal", "track", "notify"} => flow[f].paid \in MadePlans
        /\ flow[f].step \in {"track", "notify"} => Pair(f) \in renewals

(* Every step of provisioning keeps the types.                             *)
LEMMA FlowStepType ==
    ASSUME ProvTypeOK, NEW f \in Flows, Knows(f), FlowStep(f)
    PROVE  ProvTypeOK'
<1>1. ASSUME NEW k \in Kinds, LookUp(f, k) PROVE ProvTypeOK'
  <2>1. flow' \in [Flows -> FlowRecords] /\ UNCHANGED <<intent, made, admins, plan, renewals>>
    BY <1>1, LookUpIs DEF LookUp, HasRecord, ListedPlans
  <2>2. QED
    BY <2>1 DEF ProvTypeOK
<1>2. ASSUME NEW k \in Kinds, Create(f, k) PROVE ProvTypeOK'
  <2>1. flow' \in [Flows -> FlowRecords]
    <3>1. Advance(f) \/ Stop(f)
      BY <1>2 DEF Create
    <3>2. QED
      BY <3>1, AdvanceIs, StopIs
  <2>2. made' \in [Kinds -> Nat]
    BY <1>2 DEF Create, NewRecord, ProvTypeOK
  <2>3. QED
    BY <1>2, <2>1, <2>2 DEF Create, NewRecord, ProvTypeOK
<1>3. ASSUME NEW k \in {"trial", "paid"}, FindPlan(f, k) PROVE ProvTypeOK'
  <2>1. flow' \in [Flows -> FlowRecords]
    BY <1>3, FoundIs
  <2>2. UNCHANGED <<intent, made, admins, plan, renewals>>
    BY <1>3 DEF FindPlan
  <2>3. QED
    BY <2>1, <2>2 DEF ProvTypeOK
<1>4. ASSUME NEW k \in {"trial", "paid"}, MakePlan(f, k) PROVE ProvTypeOK'
  <2>1. /\ flow' \in [Flows -> FlowRecords] /\ intent' \in Intents
        /\ plan' \in [Plans -> PlanRecords]
    BY <1>4, MadeIs DEF Made
  <2>2. UNCHANGED <<made, admins, renewals>>
    BY <1>4 DEF MakePlan, NewPlan
  <2>3. QED
    BY <2>1, <2>2 DEF ProvTypeOK
<1>5. CASE Link(f)
  <2>1. flow' \in [Flows -> FlowRecords]
    BY <1>5, AdvanceIs, StopIs DEF Link
  <2>2. intent' \in Intents
    BY <1>5 DEF Link, ProvTypeOK, Intents
  <2>3. QED
    BY <1>5, <2>1, <2>2 DEF Link, ProvTypeOK
<1>6. CASE MakeAdmins(f)
  <2>1. flow' \in [Flows -> FlowRecords]
    BY <1>6, AdvanceIs DEF MakeAdmins, NewAdmins, Missing, Appoint
  <2>2. QED
    BY <1>6, <2>1 DEF MakeAdmins, NewAdmins, Missing, Appoint, ProvTypeOK
<1>7. CASE MakeRenewal(f)
  <2>1. flow[f].trial \in Plans /\ flow[f].paid \in Plans
    BY <1>7 DEF MakeRenewal, NewRenewal, Knows, MadePlans
  <2>2. flow' \in [Flows -> FlowRecords] /\ intent' \in Intents
    BY <1>7, AdvanceIs, StopIs, ErroredIs DEF MakeRenewal, NewRenewal,
       ProvTypeOK
  <2>3. renewals' = renewals \cup {<<flow[f].trial, flow[f].paid>>}
        /\ UNCHANGED <<made, admins, plan>>
    BY <1>7 DEF MakeRenewal, NewRenewal
  <2>4. renewals' \in SUBSET (Plans \X Plans)
    BY <2>1, <2>3 DEF ProvTypeOK
  <2>5. QED
    BY <2>2, <2>3, <2>4 DEF ProvTypeOK
<1>8. CASE Notify(f)
  <2>1. flow' \in [Flows -> FlowRecords]
    <3>1. CASE flow' = [flow EXCEPT ![f].state = "done", ![f].step = "end", ![f].list = {}]
      BY <3>1, DoneIs
    <3>2. QED
      BY <1>8, <3>1, StopIs DEF Notify
  <2>2. intent' \in Intents
    BY <1>8 DEF Notify, ProvTypeOK, Intents, IntentStates
  <2>3. QED
    BY <1>8, <2>1, <2>2 DEF Notify, ProvTypeOK
<1>9. QED
  BY <1>1, <1>2, <1>3, <1>4, <1>5, <1>6, <1>7, <1>8 DEF FlowStep, CustomerStep,
     CatalogStep, AgreementStep, Kinds

LEMMA ProvNextType ==
    ASSUME ProvTypeOK, \A f \in Flows : Knows(f), ProvNext
    PROVE  ProvTypeOK'
<1>1. ASSUME NEW f \in Flows, Submit(f) PROVE ProvTypeOK'
  BY <1>1 DEF Submit, ProvTypeOK, FlowRecords
<1>2. ASSUME NEW f \in Flows, Fail(f) PROVE ProvTypeOK'
  <2>1. flow' \in [Flows -> FlowRecords] /\ intent' \in Intents
    BY <1>2, StopIs, ErroredIs DEF Fail, ProvTypeOK
  <2>2. QED
    BY <1>2, <2>1 DEF Fail, ProvTypeOK
<1>3. ASSUME NEW f \in Flows, NEW b \in BOOLEAN, Track(f, b) PROVE ProvTypeOK'
  <2>1. flow' \in [Flows -> FlowRecords]
    BY <1>3, AdvanceIs, StopIs DEF Track
  <2>2. QED
    BY <1>3, <2>1 DEF Track, ProvTypeOK
<1>4. CASE UpdateLineItem
  BY <1>4 DEF UpdateLineItem, ProvTypeOK, PlanRecords, Items
<1>5. CASE MarkAsPaid
  BY <1>5 DEF MarkAsPaid, ProvTypeOK, Intents, IntentStates
<1>6. ASSUME NEW P \in SUBSET MadePlans, Deactivate(P) PROVE ProvTypeOK'
  BY <1>6 DEF Deactivate, ProvTypeOK, PlanRecords
<1>7. QED
  BY <1>1, <1>2, <1>3, <1>4, <1>5, <1>6, FlowStepType DEF ProvNext

(* What is made stays: records, renewals and plans.                        *)
Grows ==
    /\ \A k \in Kinds : made[k] > 0 => made'[k] > 0
    /\ MadePlans \subseteq MadePlans'
    /\ renewals \subseteq renewals'

LEMMA ProvGrows ==
    ASSUME ProvTypeOK, ProvNext
    PROVE  Grows
<1>1. ASSUME NEW f \in Flows, NEW k \in Kinds, Create(f, k) PROVE Grows
  BY <1>1 DEF Create, NewRecord, Grows, ProvTypeOK, MadePlans
<1>2. ASSUME NEW f \in Flows, NEW k \in {"trial", "paid"}, MakePlan(f, k) PROVE Grows
  <2>1. PICK p \in Plans \ MadePlans : Made(p, Wanted[k])
    BY <1>2, MadeIs
  <2>2. QED
    BY <1>2, <2>1 DEF MakePlan, NewPlan, Made, Grows, MadePlans
<1>3. ASSUME NEW f \in Flows, MakeRenewal(f) PROVE Grows
  BY <1>3 DEF MakeRenewal, NewRenewal, Grows, MadePlans
<1>4. CASE UpdateLineItem
  BY <1>4 DEF UpdateLineItem, ProvTypeOK, PlanRecords, Grows, MadePlans
<1>5. ASSUME NEW P \in SUBSET MadePlans, Deactivate(P) PROVE Grows
  BY <1>5 DEF Deactivate, ProvTypeOK, PlanRecords, Grows, MadePlans
<1>6. CASE UNCHANGED <<made, plan, renewals>>
  BY <1>6 DEF Grows, MadePlans
<1>7. QED
  BY <1>1, <1>2, <1>3, <1>4, <1>5, <1>6
     DEF ProvNext, FlowStep, CustomerStep, CatalogStep, AgreementStep, Kinds,
         Submit, LookUp, HasRecord, ListedPlans, FindPlan, Link, MakeAdmins,
         NewAdmins, Missing, Appoint, Notify, Fail, Track, MarkAsPaid

-----------------------------------------------------------------------------
(* Who moves in a step: nobody, a workflow that begins, or one that runs.  *)
Mover(f) ==
    /\ flow[f].state \in {"unused", "running"}
    /\ \A g \in Flows \ {f} : flow'[g] = flow[g]

LEMMA OthersStay ==
    ASSUME ProvTypeOK, NEW f \in Flows,
           Submit(f) \/ FlowStep(f) \/ Fail(f) \/ \E b \in BOOLEAN : Track(f, b)
    PROVE  Mover(f)
<1>1. CASE Submit(f)
  BY <1>1 DEF Submit, NewFlow, Mover, ProvTypeOK
<1>2. CASE Fail(f) \/ \E b \in BOOLEAN : Track(f, b)
  BY <1>2, AdvanceIs, StopIs DEF Fail, Track, Mover
<1>3. ASSUME NEW k \in Kinds, LookUp(f, k) \/ Create(f, k) PROVE Mover(f)
  BY <1>3, LookUpIs, AdvanceIs, StopIs DEF LookUp, HasRecord, ListedPlans,
     Create, NewRecord, Mover
<1>4. ASSUME NEW k \in {"trial", "paid"}, FindPlan(f, k) \/ MakePlan(f, k) PROVE Mover(f)
  <2>1. flow[f].state = "running"
    BY <1>4 DEF FindPlan, MakePlan, NewPlan
  <2>2. (\E p : Chosen(f, k, p)) \/ Stop(f)
    BY <1>4, FoundIs, MadeIs
  <2>3. QED
    BY <2>1, <2>2, StopIs DEF Chosen, Mover
<1>5. CASE Link(f) \/ MakeAdmins(f) \/ MakeRenewal(f)
  BY <1>5, AdvanceIs, StopIs DEF Link, MakeAdmins, NewAdmins, Missing, Appoint,
     MakeRenewal, NewRenewal, Mover
<1>6. CASE Notify(f)
  BY <1>6, DoneIs, StopIs DEF Notify, Mover
<1>7. QED
  BY <1>1, <1>2, <1>3, <1>4, <1>5, <1>6 DEF FlowStep, CustomerStep,
     CatalogStep, AgreementStep, Kinds

LEMMA OneMoves ==
    ASSUME ProvTypeOK, ProvNext
    PROVE  UNCHANGED flow \/ \E f \in Flows : Mover(f)
<1>1. CASE UpdateLineItem \/ MarkAsPaid \/ \E P \in SUBSET MadePlans : Deactivate(P)
  BY <1>1 DEF UpdateLineItem, MarkAsPaid, Deactivate
<1>2. QED
  BY <1>1, OthersStay DEF ProvNext

(* The plans of a list exist.                                              *)
Listed(f) == \A p \in Plans, i \in Items : <<p, i>> \in flow[f].list => p \in MadePlans

LEMMA ListedStays ==
    ASSUME ProvTypeOK, NEW f \in Flows, Listed(f), MadePlans \subseteq MadePlans',
           flow'[f].list \subseteq flow[f].list
    PROVE  Listed(f)'
  BY DEF Listed

LEMMA KnowsStays ==
    ASSUME ProvTypeOK, NEW f \in Flows, Knows(f), Grows, flow'[f] = flow[f]
    PROVE  Knows(f)'
  BY DEF Knows, Grows, Kinds

(* Each step of a workflow adds what the following ones rely on.           *)
LEMMA KnowsMore ==
    ASSUME ProvTypeOK, NEW f \in Flows, Knows(f), Listed(f), Grows,
           Submit(f) \/ FlowStep(f) \/ Fail(f) \/ \E b \in BOOLEAN : Track(f, b)
    PROVE  Knows(f)' /\ Listed(f)'
<1>0. CASE Stop(f)
  <2>1. flow'[f].state = "failed" /\ flow'[f].list = {}
    BY <1>0, StopIs
  <2>2. QED
    BY <2>1 DEF Knows, Listed
<1>1. CASE Submit(f)
  <2>1. flow'[f] = [NewFlow EXCEPT !.state = "running"]
    BY <1>1 DEF Submit, ProvTypeOK
  <2>2. flow'[f].step = "customer" /\ flow'[f].list = {}
    BY <2>1 DEF NewFlow
  <2>3. QED
    BY <2>2 DEF Knows, Listed
<1>2. ASSUME NEW k \in Kinds, LookUp(f, k) PROVE Knows(f)' /\ Listed(f)'
  <2>1. flow[f].state = "running" /\ flow[f].step = k /\ UNCHANGED <<made, plan, renewals>>
    BY <1>2 DEF LookUp, HasRecord, ListedPlans
  <2>2. Listed(f)'
    <3>1. CASE flow'[f].list = flow[f].list
      BY <3>1, <2>1, ListedStays DEF MadePlans
    <3>2. CASE flow'[f].list = {<<p, plan[p].item>> : p \in ActivePlans}
      BY <3>2, <2>1 DEF Listed, MadePlans, ActivePlans
    <3>3. QED
      BY <1>2, <3>1, <3>2, LookUpIs
  <2>3. Knows(f)'
    BY <1>2, <2>1, LookUpIs DEF Knows, Grows, Kinds, After
  <2>4. QED
    BY <2>2, <2>3
<1>3. ASSUME NEW k \in Kinds, Create(f, k), Advance(f) PROVE Knows(f)' /\ Listed(f)'
  <2>1. /\ flow[f].state = "running" /\ flow[f].step = k /\ UNCHANGED <<plan, renewals>>
        /\ made'[k] > 0
    BY <1>3 DEF Create, NewRecord, ProvTypeOK
  <2>2. Knows(f)'
    BY <1>3, <2>1, AdvanceIs DEF Knows, Grows, Kinds, After
  <2>3. QED
    BY <1>3, <2>1, <2>2, AdvanceIs, ListedStays DEF MadePlans
<1>4. CASE Advance(f) /\ (Link(f) \/ MakeAdmins(f) \/ MakeRenewal(f) \/ Track(f, TRUE))
  <2>1. /\ flow[f].state = "running" /\ flow[f].step \in {"link", "admins", "renewal", "track"}
        /\ flow[f].step \in {"renewal", "track"} => Pair(f) \in renewals'
        /\ UNCHANGED <<plan, made>>
    BY <1>4 DEF Link, MakeAdmins, NewAdmins, Missing, Appoint, MakeRenewal,
       NewRenewal, Track, Knows
  <2>2. Knows(f)'
    BY <1>4, <2>1, AdvanceIs DEF Knows, MadePlans, After
  <2>3. QED
    BY <1>4, <2>1, <2>2, AdvanceIs, ListedStays DEF MadePlans
<1>5. ASSUME NEW k \in {"trial", "paid"}, NEW p \in MadePlans', Chosen(f, k, p), Doing(f, k),
             UNCHANGED <<made, renewals>>
      PROVE  Knows(f)' /\ Listed(f)'
  <2>1. Knows(f)'
    BY <1>5 DEF Chosen, Knows, Grows
  <2>2. QED
    BY <1>5, <2>1, ListedStays DEF Chosen, Grows
<1>6. ASSUME NEW k \in {"trial", "paid"}, FindPlan(f, k) PROVE Knows(f)' /\ Listed(f)'
  <2>1. PICK p \in Matching(f, k) : Chosen(f, k, p)
    BY <1>6, FoundIs
  <2>2. Wanted[k] \in Items
    BY DEF Wanted, Items
  <2>3. p \in MadePlans
    BY <2>2 DEF Matching, Listed
  <2>4. QED
    BY <1>5, <1>6, <2>1, <2>3 DEF FindPlan, Grows
<1>7. ASSUME NEW k \in {"trial", "paid"}, MakePlan(f, k) PROVE Knows(f)' /\ Listed(f)'
  <2>1. PICK p \in Plans \ MadePlans : Made(p, Wanted[k]) /\ (Chosen(f, k, p) \/ Stop(f))
    BY <1>7, MadeIs
  <2>2. p \in MadePlans'
    BY <2>1 DEF Made, MadePlans
  <2>3. QED
    BY <1>0, <1>5, <1>7, <2>1, <2>2 DEF MakePlan, NewPlan
<1>8. CASE Notify(f)
  <2>1. CASE flow' = [flow EXCEPT ![f].state = "done", ![f].step = "end", ![f].list = {}]
    <3>1. flow'[f].state = "done" /\ flow'[f].list = {}
      BY <2>1 DEF ProvTypeOK, FlowRecords
    <3>2. QED
      BY <3>1 DEF Knows, Listed
  <2>2. QED
    BY <1>0, <1>8, <2>1 DEF Notify
<1>9. QED
  BY <1>0, <1>1, <1>2, <1>3, <1>4, <1>6, <1>7, <1>8
     DEF FlowStep, CustomerStep, CatalogStep, AgreementStep, Kinds, Fail,
         Track, Create, NewRecord, Link, MakeAdmins, NewAdmins, Missing,
         Appoint, MakeRenewal, NewRenewal

-----------------------------------------------------------------------------
(* What provisioning relies on, for any number of workflows at a time.     *)
ProvInv ==
    /\ ProvTypeOK
    /\ \A f \in Flows : Knows(f) /\ Listed(f)
    /\ FulfilledIsProvisioned

LEMMA ProvInvInit == ASSUME ProvInit PROVE ProvInv
<1>1. \A f \in Flows : flow[f] = NewFlow
  BY DEF ProvInit
<1>2. \A f \in Flows : Knows(f) /\ Listed(f)
  BY <1>1 DEF Knows, Listed, NewFlow
<1>3. FulfilledIsProvisioned
  BY DEF ProvInit, FulfilledIsProvisioned
<1>4. QED
  BY <1>2, <1>3, ProvInitType DEF ProvInv

(* What may change the intent.                                             *)
LEMMA IntentMoves ==
    ASSUME ProvNext
    PROVE  \/ \E f \in Flows : Link(f) \/ Errored(f) \/ Notify(f)
           \/ MarkAsPaid
           \/ UNCHANGED intent
<1>1. ASSUME NEW f \in Flows, FlowStep(f)
      PROVE  Link(f) \/ Errored(f) \/ Notify(f) \/ UNCHANGED intent
  BY <1>1 DEF FlowStep, CustomerStep, CatalogStep, AgreementStep, Kinds, LookUp,
     HasRecord, ListedPlans, Create, NewRecord, FindPlan, MakePlan, NewPlan, MakeAdmins,
     NewAdmins, Missing, Appoint, MakeRenewal, NewRenewal
<1>2. ASSUME NEW f \in Flows, Submit(f) \/ Fail(f) \/ \E b \in BOOLEAN : Track(f, b)
      PROVE  Errored(f) \/ UNCHANGED intent
  BY <1>2 DEF Submit, Fail, Track
<1>3. UpdateLineItem \/ (\E P \in SUBSET MadePlans : Deactivate(P)) => UNCHANGED intent
  BY DEF UpdateLineItem, Deactivate
<1>4. QED
  BY <1>1, <1>2, <1>3 DEF ProvNext

(* A fulfilled intent is left alone, and its workflow has ended.           *)
LEMMA FulfilledStays ==
    ASSUME ProvInv, ProvNext, intent.state = "fulfilled", intent'.state = "fulfilled"
    PROVE  intent'.flow = intent.flow /\ flow'[intent.flow] = flow[intent.flow]
<1>1. intent.flow \in Flows /\ flow[intent.flow].state \in {"done", "failed"}
  BY DEF ProvInv, FulfilledIsProvisioned
<1>2. flow'[intent.flow] = flow[intent.flow]
  BY <1>1, OneMoves DEF ProvInv, Mover
<1>3. ASSUME NEW f \in Flows, Link(f) PROVE UNCHANGED intent
  BY <1>3 DEF Link, Fulfillable
<1>4. ASSUME NEW f \in Flows, Errored(f) PROVE intent'.flow = intent.flow
  BY <1>4, ErroredIs DEF ProvInv
<1>5. ASSUME NEW f \in Flows, Notify(f) PROVE intent'.flow = intent.flow
  BY <1>5 DEF Notify, ProvInv, ProvTypeOK, Intents
<1>6. CASE MarkAsPaid
  BY <1>6 DEF MarkAsPaid
<1>7. CASE UNCHANGED intent
  BY <1>2, <1>7
<1>8. QED
  BY <1>2, <1>3, <1>4, <1>5, <1>6, <1>7, IntentMoves

(* Only the last step of a workflow fulfils the intent.                    *)
LEMMA FulfilledBy ==
    ASSUME ProvInv, ProvNext, intent.state # "fulfilled", intent'.state = "fulfilled"
    PROVE  \E f \in Flows : Notify(f) /\ intent'.flow = f
<1>1. ASSUME NEW f \in Flows, Notify(f) PROVE intent'.flow = f
  BY <1>1 DEF Notify, ProvInv, ProvTypeOK, Intents
<1>2. ASSUME NEW f \in Flows, Errored(f) PROVE FALSE
  BY <1>2, ErroredIs DEF ProvInv
<1>3. ASSUME NEW f \in Flows, Link(f) PROVE FALSE
  BY <1>3 DEF Link, ProvInv, ProvTypeOK, Intents
<1>4. ~MarkAsPaid
  BY DEF MarkAsPaid, ProvInv, ProvTypeOK, Intents
<1>5. QED
  BY <1>1, <1>2, <1>3, <1>4, IntentMoves

LEMMA ProvInvNext ==
    ASSUME ProvInv, ProvNext
    PROVE  ProvInv'
<1>1. ProvTypeOK' /\ Grows
  BY ProvNextType, ProvGrows DEF ProvInv
<1>2. ASSUME NEW f \in Flows PROVE Knows(f)' /\ Listed(f)'
  <2>1. CASE flow'[f] = flow[f]
    BY <1>1, <2>1, KnowsStays, ListedStays DEF ProvInv, Grows
  <2>2. CASE flow'[f] # flow[f]
    <3>1. Submit(f) \/ FlowStep(f) \/ Fail(f) \/ \E b \in BOOLEAN : Track(f, b)
      <4>1. ASSUME NEW g \in Flows \ {f},
                   Submit(g) \/ FlowStep(g) \/ Fail(g) \/ \E b \in BOOLEAN : Track(g, b)
            PROVE  flow'[f] = flow[f]
        BY <4>1, OthersStay DEF ProvInv, Mover
      <4>2. QED
        BY <2>2, <4>1 DEF ProvNext, UpdateLineItem, MarkAsPaid, Deactivate
    <3>2. QED
      BY <1>1, <3>1, KnowsMore DEF ProvInv
  <2>3. QED
    BY <2>1, <2>2
<1>3. FulfilledIsProvisioned'
  <2>1. SUFFICES ASSUME intent'.state = "fulfilled" PROVE FulfilledIsProvisioned'
    BY DEF FulfilledIsProvisioned
  <2>2. CASE intent.state = "fulfilled"
    BY <1>1, <2>1, <2>2, FulfilledStays DEF ProvInv, FulfilledIsProvisioned, Grows
  <2>3. CASE intent.state # "fulfilled"
    <3>1. PICK f \in Flows : Notify(f) /\ intent'.flow = f
      BY <2>1, <2>3, FulfilledBy
    <3>2. flow[f].state = "running" /\ flow[f].step = "notify"
      BY <3>1 DEF Notify
    <3>3. (\A k \in Kinds : made[k] > 0) /\ Pair(f) \in renewals
      BY <3>2 DEF ProvInv, Knows, Kinds
    <3>4. /\ flow'[f].state \in {"done", "failed"}
          /\ flow'[f].trial = flow[f].trial /\ flow'[f].paid = flow[f].paid
      BY <3>1, DoneIs, StopIs DEF Notify, ProvInv
    <3>5. QED
      BY <1>1, <3>1, <3>3, <3>4 DEF FulfilledIsProvisioned, Grows
  <2>4. QED
    BY <2>2, <2>3
<1>4. QED
  BY <1>1, <1>2, <1>3 DEF ProvInv

-----------------------------------------------------------------------------
(* Nothing is made twice when one workflow runs at a time: what a workflow *)
(* has found missing is still missing when it makes it, and its list names *)
(* every plan it could take.                                               *)
AloneRuns == \A f, g \in Running : f = g
RecordsOnce == \A k \in Kinds : made[k] <= 1
PlansAfter == made["agreement"] = 0 => MadePlans = {}
PlansOnce ==
    \A p, q \in ActivePlans : plan[p].item = plan[q].item /\ plan[p].item # "paid" => p = q

Current(f) ==
    flow[f].state = "running" =>
        /\ flow[f].missing /\ flow[f].step \in Kinds => made[flow[f].step] = 0
        /\ flow[f].step = "trial" =>
                \A p \in ActivePlans : plan[p].item = "trial" => <<p, "trial">> \in flow[f].list
        /\ flow[f].step \in {"trial", "paid"} =>
                \A p \in ActivePlans : plan[p].item = "none" => <<p, "none">> \in flow[f].list

OnceInv ==
    /\ AloneRuns /\ RecordsOnce /\ PlansAfter /\ PlansOnce
    /\ \A f \in Flows : Current(f)

LEMMA OnceInit == ASSUME ProvInit PROVE OnceInv
<1>1. MadePlans = {} /\ \A f \in Flows : flow[f].state = "unused"
  BY DEF ProvInit, MadePlans, NoPlanYet, NewFlow
<1>2. QED
  BY <1>1 DEF ProvInit, OnceInv, AloneRuns, Running, RecordsOnce, PlansAfter, PlansOnce,
              Current, ActivePlans

(* A workflow that moves leaves the others idle.                           *)
LEMMA MovesAlone ==
    ASSUME ProvTypeOK, OnceInv, NEW f \in Flows, Mover(f), flow[f].state = "running"
    PROVE  AloneRuns' /\ \A g \in Flows \ {f} : Current(g)'
<1>1. \A g \in Flows \ {f} : flow'[g].state # "running"
  BY DEF OnceInv, AloneRuns, Running, Mover
<1>2. QED
  BY <1>1 DEF AloneRuns, Running, Current

LEMMA OnceKept ==
    ASSUME ProvTypeOK, OnceInv, NEW f \in Flows, Mover(f), flow[f].state = "running",
           Current(f)', UNCHANGED <<made, plan>>
    PROVE  OnceInv'
  BY MovesAlone DEF OnceInv, RecordsOnce, PlansAfter, PlansOnce, MadePlans, ActivePlans

LEMMA OnceSubmit ==
    ASSUME Parallel = 1, ProvTypeOK, OnceInv, NEW f \in Flows, Submit(f)
    PROVE  OnceInv'
<1>1. Running = {}
  <2>1. IsFiniteSet(Running)
    BY FS_Subset, ProvisioningAssumption DEF Running
  <2>2. Cardinality(Running) = 0
    BY <2>1, FS_CardinalityType DEF Submit
  <2>3. QED
    BY <2>1, <2>2, FS_EmptySet
<1>2. /\ flow'[f] = [NewFlow EXCEPT !.state = "running"]
      /\ \A g \in Flows \ {f} : flow'[g] = flow[g]
  BY DEF Submit, ProvTypeOK
<1>3. flow'[f].step = "customer" /\ ~flow'[f].missing
  BY <1>2 DEF NewFlow
<1>4. AloneRuns' /\ \A g \in Flows : Current(g)'
  BY <1>1, <1>2, <1>3 DEF AloneRuns, Running, Current
<1>5. UNCHANGED <<made, plan>>
  BY DEF Submit
<1>6. QED
  BY <1>4, <1>5 DEF OnceInv, RecordsOnce, PlansAfter, PlansOnce, MadePlans, ActivePlans

LEMMA OnceLookUp ==
    ASSUME ProvTypeOK, OnceInv, NEW f \in Flows, NEW k \in Kinds, LookUp(f, k)
    PROVE  OnceInv'
<1>1. Mover(f) /\ flow[f].state = "running" /\ UNCHANGED <<made, plan>>
  BY LookUpIs DEF LookUp, HasRecord, ListedPlans, Mover
<1>2. Current(f)'
  <2>1. CASE made[k] > 0
    <3>1. flow'[f].step = After[k] /\ ~flow'[f].missing
      BY <2>1, LookUpIs
    <3>2. CASE k = "agreement"
      <4>1. flow'[f].list = {<<p, plan[p].item>> : p \in ActivePlans}
        BY <2>1, <3>2, LookUpIs
      <4>2. QED
        BY <1>1, <3>1, <4>1 DEF Current, MadePlans, ActivePlans
    <3>3. CASE k # "agreement"
      BY <3>1, <3>3 DEF Current, After, Kinds
    <3>4. QED
      BY <3>2, <3>3
  <2>2. CASE ~(made[k] > 0)
    <3>1. flow'[f].step = k /\ flow'[f].missing /\ made'[k] = 0
      <4>1. flow'[f].step = k /\ flow'[f].missing
        BY <2>2, LookUpIs
      <4>2. made[k] \in Nat
        BY DEF ProvTypeOK
      <4>3. QED
        BY <1>1, <2>2, <4>1, <4>2
    <3>2. QED
      BY <3>1 DEF Current, Kinds
  <2>3. QED
    BY <2>1, <2>2
<1>3. QED
  BY <1>1, <1>2, OnceKept

LEMMA OnceCreate ==
    ASSUME ProvTypeOK, OnceInv, NEW f \in Flows, NEW k \in Kinds, Create(f, k)
    PROVE  OnceInv'
<1>1. /\ Mover(f) /\ flow[f].state = "running" /\ flow[f].step = k /\ UNCHANGED plan
      /\ made[k] = 0 /\ made' = [made EXCEPT ![k] = 1]
  <2>1. Mover(f)
    BY AdvanceIs, StopIs DEF Create, NewRecord, Mover
  <2>2. flow[f].state = "running" /\ flow[f].step = k /\ flow[f].missing /\ UNCHANGED plan
    BY DEF Create, NewRecord
  <2>3. made[k] = 0
    BY <2>2 DEF OnceInv, Current
  <2>4. made' = [made EXCEPT ![k] = 1]
    BY <2>3 DEF Create, NewRecord
  <2>5. QED
    BY <2>1, <2>2, <2>3, <2>4
<1>2. RecordsOnce'
  BY <1>1 DEF OnceInv, RecordsOnce, ProvTypeOK
<1>3. PlansAfter' /\ PlansOnce'
  BY <1>1 DEF OnceInv, PlansAfter, PlansOnce, MadePlans, ActivePlans, ProvTypeOK
<1>4. Current(f)'
  <2>1. CASE Advance(f)
    <3>1. flow'[f].step = After[k] /\ ~flow'[f].missing
      BY <1>1, <2>1, AdvanceIs
    <3>2. k = "agreement" => ActivePlans' = {}
      BY <1>1 DEF OnceInv, PlansAfter, MadePlans, ActivePlans
    <3>3. QED
      BY <3>1, <3>2 DEF Current, After, Kinds
  <2>2. CASE Stop(f)
    BY <2>2, StopIs DEF Current
  <2>3. QED
    BY <2>1, <2>2 DEF Create, NewRecord
<1>5. QED
  BY <1>1, <1>2, <1>3, <1>4, MovesAlone DEF OnceInv

LEMMA OnceMakePlan ==
    ASSUME ProvInv, OnceInv, NEW f \in Flows, NEW k \in {"trial", "paid"}, MakePlan(f, k)
    PROVE  OnceInv'
<1>1. PICK p \in Plans \ MadePlans :
        /\ Made(p, Wanted[k])
        /\ Chosen(f, k, p) \/ Stop(f)
  BY MadeIs DEF ProvInv
<1>2. /\ Mover(f) /\ flow[f].state = "running" /\ flow[f].step = k /\ UNCHANGED made
  BY <1>1, StopIs DEF MakePlan, NewPlan, Mover, Chosen, ProvInv
<1>3. made["agreement"] > 0
  BY <1>2 DEF ProvInv, Knows
<1>4. \A q \in ActivePlans : plan[q].item # Wanted[k]
  <2>1. SUFFICES ASSUME NEW q \in ActivePlans, plan[q].item = Wanted[k] PROVE FALSE
    OBVIOUS
  <2>2. <<q, Wanted[k]>> \in flow[f].list
    BY <1>2, <2>1 DEF OnceInv, Current, Wanted
  <2>3. q \in Matching(f, k)
    BY <2>2 DEF Matching, MadePlans, ActivePlans
  <2>4. QED
    BY <2>3 DEF MakePlan, NewPlan
<1>5. /\ MadePlans' = MadePlans \cup {p} /\ plan'[p].item = Wanted[k]
      /\ ActivePlans' \subseteq ActivePlans \cup {p}
      /\ \A q \in MadePlans : plan'[q] = plan[q]
  BY <1>1 DEF Made, MadePlans, ActivePlans
<1>6. PlansOnce' /\ RecordsOnce' /\ PlansAfter'
  BY <1>2, <1>3, <1>4, <1>5 DEF OnceInv, PlansOnce, RecordsOnce, PlansAfter, ActivePlans
<1>7. Current(f)'
  <2>1. CASE Chosen(f, k, p)
    BY <1>2, <1>5, <2>1 DEF Chosen, OnceInv, Current, Wanted, Kinds, ActivePlans
  <2>2. CASE Stop(f)
    BY <2>2, StopIs DEF Current, ProvInv
  <2>3. QED
    BY <1>1, <2>1, <2>2
<1>8. QED
  BY <1>2, <1>6, <1>7, MovesAlone DEF OnceInv, ProvInv

LEMMA OnceOther ==
    ASSUME ProvInv, OnceInv, NEW f \in Flows,
           \/ \E k \in {"trial", "paid"} : FindPlan(f, k)
           \/ Link(f) \/ MakeAdmins(f) \/ MakeRenewal(f) \/ Notify(f) \/ Fail(f)
           \/ \E b \in BOOLEAN : Track(f, b)
    PROVE  OnceInv'
<1>1. Mover(f)
  BY OthersStay DEF FlowStep, CustomerStep, CatalogStep, AgreementStep, Kinds,
     ProvInv
<1>2. flow[f].state = "running" /\ UNCHANGED made
  BY DEF FindPlan, Link, MakeAdmins, NewAdmins, Missing, Appoint, MakeRenewal,
     NewRenewal, Notify, Fail, Track
<1>3. UNCHANGED plan
  BY DEF FindPlan, Link, MakeAdmins, NewAdmins, Missing, Appoint, MakeRenewal,
     NewRenewal, Notify, Fail, Track
<1>4. CASE Stop(f)
  BY <1>1, <1>2, <1>3, <1>4, StopIs, OnceKept DEF Current, ProvInv
<1>5. CASE Advance(f) /\ flow[f].step \in {"link", "admins", "renewal", "track"}
  <2>1. ~flow'[f].missing /\ flow'[f].step \notin {"trial", "paid"}
    BY <1>5, AdvanceIs DEF After, ProvInv
  <2>2. Current(f)'
    BY <2>1 DEF Current
  <2>3. QED
    BY <1>1, <1>2, <1>3, <2>2, OnceKept DEF ProvInv
<1>6. ASSUME NEW k \in {"trial", "paid"}, FindPlan(f, k) PROVE OnceInv'
  <2>1. PICK p \in Plans : Chosen(f, k, p)
    BY <1>6, FoundIs DEF ProvInv, Matching
  <2>2. flow[f].step = k
    BY <1>6 DEF FindPlan
  <2>3. Current(f)'
    BY <1>2, <1>3, <2>1, <2>2 DEF Chosen, OnceInv, Current, MadePlans, ActivePlans, Kinds
  <2>4. QED
    BY <1>1, <1>2, <1>3, <2>3, OnceKept DEF ProvInv
<1>7. CASE flow' = [flow EXCEPT ![f].state = "done", ![f].step = "end", ![f].list = {}]
  <2>1. flow'[f].state = "done"
    BY <1>7, DoneIs DEF ProvInv
  <2>2. Current(f)'
    BY <2>1 DEF Current
  <2>3. QED
    BY <1>1, <1>2, <1>3, <2>2, OnceKept DEF ProvInv
<1>8. QED
  BY <1>4, <1>5, <1>6, <1>7 DEF Link, MakeAdmins, NewAdmins, Missing, Appoint,
     MakeRenewal, NewRenewal, Notify, Fail, Track

(* Line items that an administrator writes only make plans less alike.     *)
LEMMA OnceOutside ==
    ASSUME ProvTypeOK, OnceInv,
           UpdateLineItem \/ MarkAsPaid \/ \E P \in SUBSET MadePlans : Deactivate(P)
    PROVE  OnceInv'
<1>1. UNCHANGED <<made, flow>>
  BY DEF UpdateLineItem, MarkAsPaid, Deactivate
<1>2. /\ MadePlans' = MadePlans /\ ActivePlans' \subseteq ActivePlans
      /\ \A p \in Plans : plan'[p].item = plan[p].item \/ plan'[p].item = "paid"
  <2>1. CASE UpdateLineItem
    BY <2>1 DEF UpdateLineItem, ProvTypeOK, PlanRecords, MadePlans, ActivePlans
  <2>2. CASE MarkAsPaid
    BY <2>2 DEF MarkAsPaid, MadePlans, ActivePlans
  <2>3. ASSUME NEW P \in SUBSET MadePlans, Deactivate(P)
        PROVE  /\ MadePlans' = MadePlans /\ ActivePlans' \subseteq ActivePlans
               /\ \A p \in Plans : plan'[p].item = plan[p].item
    BY <2>3 DEF Deactivate, ProvTypeOK, PlanRecords, MadePlans, ActivePlans
  <2>4. QED
    BY <2>1, <2>2, <2>3
<1>3. PlansOnce'
  BY <1>2 DEF OnceInv, PlansOnce, MadePlans, ActivePlans
<1>4. \A f \in Flows : Current(f)'
  BY <1>1, <1>2 DEF OnceInv, Current, MadePlans, ActivePlans
<1>5. QED
  BY <1>1, <1>2, <1>3, <1>4 DEF OnceInv, AloneRuns, Running, RecordsOnce, PlansAfter

LEMMA OnceNext ==
    ASSUME Parallel = 1, ProvInv, OnceInv, ProvNext
    PROVE  OnceInv'
  BY OnceSubmit, OnceLookUp, OnceCreate, OnceMakePlan, OnceOther, OnceOutside
     DEF ProvNext, FlowStep, CustomerStep, CatalogStep, AgreementStep, Kinds,
         ProvInv

LEMMA ProvAlways == ProvSpec => []ProvInv
<1>1. ProvInv /\ UNCHANGED pvars => ProvInv'
  BY DEF pvars, ProvInv, ProvTypeOK, Knows, Listed, FulfilledIsProvisioned, MadePlans
<1>2. QED
  BY <1>1, ProvInvInit, ProvInvNext, PTL DEF ProvSpec

LEMMA OnceAlways == ASSUME Parallel = 1 PROVE ProvSpec => []MadeOnce
<1>1. OnceInv /\ UNCHANGED pvars => OnceInv'
  BY DEF pvars, OnceInv, AloneRuns, Running, RecordsOnce, PlansAfter, PlansOnce, Current,
         MadePlans, ActivePlans
<1>2. OnceInv => MadeOnce
  BY DEF OnceInv, RecordsOnce, PlansOnce, MadeOnce
<1>3. ProvInv /\ OnceInv /\ ProvNext => OnceInv'
  BY OnceNext
<1>4. QED
  BY <1>1, <1>2, <1>3, OnceInit, ProvAlways, PTL DEF ProvSpec

-----------------------------------------------------------------------------
(* A finite set has an element of the greatest value: else take a smallest *)
(* subset that has none, and an element out of it.                         *)
LEMMA GreatestExists ==
    ASSUME NEW S, IsFiniteSet(S), S # {}, NEW v \in [S -> Nat]
    PROVE  \E x \in S : \A y \in S : v[y] <= v[x]
<1> DEFINE Greatest(U, x) == x \in U /\ \A y \in U : v[y] <= v[x]
           T == {U \in SUBSET S : U # {} /\ ~ \E x \in U : Greatest(U, x)}
           R == StrictSubsetOrdering(S)
<1>1. SUFFICES ASSUME T # {} PROVE FALSE
  OBVIOUS
<1>2. IsWellFoundedOn(R, SUBSET S)
  BY FS_StrictSubsetOrderingWellFounded, FS_FiniteSubsetsOfFinite
<1>3. T \subseteq SUBSET S
  OBVIOUS
<1>4. PICK U \in T : \A V \in T : ~(<<V, U>> \in R)
  <2> HIDE DEF R, T
  <2>1. QED
    BY <1>1, <1>2, <1>3, WFMin
<1>5. PICK x : x \in U
  BY <1>4
<1>6. U \ {x} \notin T
  <2>1. <<U \ {x}, U>> \in R
    BY <1>4, <1>5 DEF StrictSubsetOrdering
  <2>2. QED
    BY <1>4, <2>1
<1>7. CASE U \ {x} = {}
  <2>1. U = {x} /\ v[x] \in Nat
    BY <1>4, <1>5, <1>7
  <2>2. v[x] <= v[x]
    BY <2>1
  <2>3. \E z \in U : Greatest(U, z)
    BY <2>1, <2>2
  <2>4. QED
    BY <1>4, <2>3
<1>8. CASE U \ {x} # {}
  <2>1. PICK m \in U \ {x} : \A y \in U \ {x} : v[y] <= v[m]
    BY <1>4, <1>6, <1>8
  <2>2. v[m] \in Nat /\ v[x] \in Nat /\ \A y \in U : v[y] \in Nat
    BY <1>4, <1>5, <2>1
  <2>3. CASE v[x] <= v[m]
    <3>1. \A y \in U : v[y] <= v[m]
      BY <2>1, <2>3
    <3>2. QED
      BY <1>4, <2>1, <3>1
  <2>4. CASE v[m] <= v[x]
    <3>1. \A y \in U : v[y] <= v[x]
      BY <2>1, <2>2, <2>4
    <3>2. QED
      BY <1>4, <1>5, <3>1
  <2>5. QED
    BY <2>2, <2>3, <2>4
<1>9. QED
  BY <1>7, <1>8

LEMMA MaxIn ==
    ASSUME NEW n \in Nat, NEW S \in SUBSET (1 .. n), S # {}
    PROVE  Max(S) \in S /\ \A y \in S : y <= Max(S)
<1>1. IsFiniteSet(1 .. n)
  BY FS_Interval
<1>1a. IsFiniteSet(S)
  BY <1>1, FS_Subset
<1> DEFINE v == [x \in S |-> x]
<1>2. v \in [S -> Nat]
  OBVIOUS
<1>3. PICK x \in S : \A y \in S : v[y] <= v[x]
  <2> HIDE DEF v
  <2>1. QED
    BY <1>1a, <1>2, GreatestExists
<1>4. \A y \in S : x >= y
  BY <1>3
<1>5. QED
  BY <1>4 DEF Max

-----------------------------------------------------------------------------
(* Types of the events, their summaries and the rows.                      *)
EventTypes ==
    /\ sent \in Seq([kind : EventKinds, status : Statuses]) /\ Len(sent) <= MaxEvents
    /\ data \in [Events -> DataRecords]
    /\ summary \in [Events -> {"none", "unlinked", "linked"}]
RowTypes ==
    /\ row \in [Pairs -> RowRecords]
    /\ ran \in [Pairs -> Nat]
    /\ job \in [Workers -> Jobs]

LEMMA PairsFinite == IsFiniteSet(Pairs)
  BY FS_Product, ProvisioningAssumption DEF Pairs

LEMMA LatestIn ==
    ASSUME RowTypes, NEW R \in SUBSET Pairs, R # {}
    PROVE  Latest(R) \in R
<1>1. IsFiniteSet(R)
  BY PairsFinite, FS_Subset
<1> DEFINE v == [r \in R |-> row[r].nth]
<1>2. v \in [R -> Nat]
  BY DEF RowTypes, RowRecords
<1>3. PICK r \in R : \A q \in R : v[q] <= v[r]
  <2> HIDE DEF v
  <2>1. QED
    BY <1>1, <1>2, GreatestExists
<1>4. \A q \in R : row[q].nth <= row[r].nth
  BY <1>3
<1>5. QED
  BY <1>4 DEF Latest

LEMMA SummariseType ==
    ASSUME EventTypes, NEW e, NEW linked \in BOOLEAN, Summarise(e, linked)
    PROVE  summary' \in [Events -> {"none", "unlinked", "linked"}]
  BY DEF Summarise, SummaryOf, EventTypes

LEMMA LinkType ==
    ASSUME EventTypes, NEW e, LinkEvent(e)
    PROVE  /\ data' \in [Events -> DataRecords]
           /\ summary' \in [Events -> {"none", "unlinked", "linked"}]
<1>1. CASE UNCHANGED <<data, summary>>
  BY <1>1 DEF EventTypes
<1>2. CASE data' = [data EXCEPT ![e].linked = TRUE] /\ Summarise(e, TRUE)
  BY <1>2, SummariseType DEF EventTypes, DataRecords
<1>3. QED
  BY <1>1, <1>2 DEF LinkEvent

LEMMA JobGoes ==
    ASSUME RowTypes, NEW w \in Workers, Raise(w) \/ Return(w)
    PROVE  job' \in [Workers -> Jobs]
<1>1. Idle \in Jobs
  BY RenewalAssumption DEF Idle, Jobs
<1>2. QED
  BY <1>1 DEF Raise, Return, RowTypes, Jobs

LEMMA StartType ==
    ASSUME RowTypes, NEW w \in Workers, StartRenewal(w)
    PROVE  /\ row' \in [Pairs -> RowRecords] /\ job' \in [Workers -> Jobs]
           /\ \A r \in Pairs : row'[r].nth = row[r].nth /\ row'[r].done = row[r].done
<1>1. CASE UNCHANGED row /\ (Raise(w) \/ Return(w))
  BY <1>1, JobGoes DEF RowTypes
<1>2. CASE ~(UNCHANGED row /\ (Raise(w) \/ Return(w)))
  <2> DEFINE r == Latest(Unprocessed)
             e == job[w].event
  <2>1. r \in Pairs
    <3>1. Unprocessed \subseteq Pairs /\ Unprocessed # {}
      BY <1>2 DEF StartRenewal, Unprocessed
    <3>2. QED
      BY <3>1, LatestIn
  <2>2. /\ row' = [row EXCEPT ![r].event = e]
        /\ job' = [job EXCEPT ![w].at = "process", ![w].pair = r]
    BY <1>2 DEF StartRenewal
  <2>3. e \in 0 .. MaxEvents
    BY DEF RowTypes, Jobs
  <2> HIDE DEF r, e
  <2>4. row' \in [Pairs -> RowRecords]
    BY <2>1, <2>2, <2>3 DEF RowTypes, RowRecords
  <2>5. job' \in [Workers -> Jobs]
    BY <2>1, <2>2 DEF RowTypes, Jobs
  <2>6. QED
    BY <2>1, <2>2, <2>4, <2>5 DEF RowTypes, RowRecords
<1>3. QED
  BY <1>1, <1>2

LEMMA SentGrows ==
    ASSUME EventTypes, Send
    PROVE  sent' \in Seq([kind : EventKinds, status : Statuses]) /\ Len(sent') <= MaxEvents
<1>1. PICK k \in EventKinds, s \in Statuses : sent' = Append(sent, [kind |-> k, status |-> s])
  BY DEF Send
<1> DEFINE M == [kind : EventKinds, status : Statuses]
           m == [kind |-> k, status |-> s]
<1>2. m \in M
  OBVIOUS
<1>3. sent \in Seq(M) /\ sent' = Append(sent, m) /\ Len(sent) < MaxEvents
  BY <1>1 DEF EventTypes, Send
<1> HIDE DEF M, m
<1>4. sent' \in Seq(M) /\ Len(sent') = Len(sent) + 1 /\ Len(sent) \in Nat
  BY <1>2, <1>3
<1>5. QED
  BY <1>3, <1>4, RenewalAssumption DEF M

LEMMA EventsNext ==
    ASSUME EventTypes, RowTypes, intent \in Intents, [Next]_vars
    PROVE  EventTypes'
<1>1. CASE Send
  BY <1>1, SentGrows DEF EventTypes, Send
<1>2. CASE Populate
  BY <1>2 DEF Populate, SummaryOf, EventTypes, DataRecords
<1>3. ASSUME NEW w \in Workers, NEW e \in Events, Receive(w, e) \/ Fetch(w, e) PROVE EventTypes'
  <2>1. intent.known \in BOOLEAN
    BY DEF Intents
  <2>2. CASE data[e].stored
    BY <1>3, <2>2 DEF Receive, Fetch, Accept, EventTypes
  <2>3. CASE ~data[e].stored
    <3> DEFINE d == [NoData EXCEPT !.stored = TRUE, !.linked = intent.known]
    <3>1. d \in DataRecords
      BY <2>1 DEF NoData, DataRecords
    <3>2. data' = [data EXCEPT ![e] = d] /\ Summarise(e, intent.known) /\ UNCHANGED sent
      BY <1>3, <2>3 DEF Receive, Fetch, Accept
    <3> HIDE DEF d
    <3>3. QED
      BY <2>1, <3>1, <3>2, SummariseType DEF EventTypes
  <2>4. QED
    BY <2>2, <2>3
<1>4. ASSUME NEW w \in Workers, Finish(w) PROVE EventTypes'
  <2>1. data' = [data EXCEPT ![job[w].event].handled = TRUE] /\ UNCHANGED sent
    BY <1>4 DEF Finish
  <2>2. data' \in [Events -> DataRecords]
    BY <2>1 DEF EventTypes, DataRecords
  <2>3. job[w].event \in Events => data[job[w].event].linked \in BOOLEAN
    BY DEF EventTypes, DataRecords
  <2>4. summary' \in [Events -> {"none", "unlinked", "linked"}]
    BY <1>4 DEF Finish, Summarise, SummaryOf, EventTypes
  <2>5. QED
    BY <2>1, <2>2, <2>4 DEF EventTypes
<1>5. ASSUME NEW w \in Workers, HandleInvoice(w) PROVE EventTypes'
  <2>1. LinkEvent(job[w].event) \/ UNCHANGED <<data, summary>>
    BY <1>5 DEF HandleInvoice
  <2>2. UNCHANGED sent
    BY <1>5 DEF HandleInvoice
  <2>3. QED
    BY <2>1, <2>2, LinkType DEF EventTypes
<1>6. ASSUME NEW w \in Workers, HandleNotice(w) \/ HandleUpdated(w) PROVE EventTypes'
  <2>1. LinkEvent(job[w].event) /\ UNCHANGED sent
    BY <1>6 DEF HandleNotice, HandleUpdated
  <2>2. QED
    BY <2>1, LinkType DEF EventTypes
<1>7. CASE UNCHANGED <<sent, data, summary>>
  BY <1>7 DEF EventTypes
<1>8. ASSUME NEW w \in Workers, ProcessRenewal(w) \/ MarkProcessed(w) \/ Failed(w)
      PROVE  UNCHANGED <<sent, data, summary>>
  BY <1>8 DEF ProcessRenewal, MarkProcessed, Failed
<1>9. ASSUME NEW f \in Flows, Provision(f) PROVE UNCHANGED <<sent, data, summary>>
  BY <1>9 DEF Provision, TrackRenewal, rvars
<1>10. QED
  BY <1>1, <1>2, <1>3, <1>4, <1>5, <1>6, <1>7, <1>8, <1>9
     DEF Next, Handle, vars, rvars

(* Rows are written when a renewal starts, is processed or is tracked.     *)
LEMMA TrackType ==
    ASSUME ProvInv, EventTypes, RowTypes, NEW f \in Flows, TrackRenewal(f)
    PROVE  /\ Pair(f) \in Pairs /\ flow[f].paid \in MadePlans
           /\ row' \in [Pairs -> RowRecords]
           /\ \A r \in Pairs \ {Pair(f)} : row'[r] = row[r]
           /\ row[Pair(f)].nth > 0 => row'[Pair(f)].nth > 0
           /\ row'[Pair(f)].done = row[Pair(f)].done
           /\ Trackable(f) => row'[Pair(f)].nth > 0
<1> DEFINE r == Pair(f)
<1>1. r \in Pairs /\ flow[f].paid \in MadePlans
  <2>1. flow[f].state = "running" /\ flow[f].step = "track"
    BY DEF TrackRenewal, Track
  <2>2. flow[f].trial \in MadePlans /\ flow[f].paid \in MadePlans
    BY <2>1 DEF ProvInv, Knows
  <2>3. QED
    BY <2>2 DEF Pairs, MadePlans
<1>2. CASE ~Trackable(f)
  BY <1>1, <1>2 DEF TrackRenewal, RowTypes
<1>3. CASE Trackable(f)
  <2> DEFINE n == IF row[r].nth > 0 THEN row[r].nth
                  ELSE Cardinality({q \in Pairs : row[q].nth > 0}) + 1
             e == LatestEvent
  <2>1. n \in Nat /\ n > 0
    <3>1. Cardinality({q \in Pairs : row[q].nth > 0}) \in Nat
      BY PairsFinite, FS_Subset, FS_CardinalityType
    <3>2. QED
      BY <1>1, <3>1 DEF RowTypes, RowRecords
  <2>2. e \in 0 .. MaxEvents
    <3>1. {d \in Events : summary[d] = "linked"} # {}
      BY <1>3 DEF Trackable
    <3>2. LatestEvent \in Events
      BY <3>1, MaxIn, RenewalAssumption DEF LatestEvent, Events
    <3>3. QED
      BY <3>2, RenewalAssumption DEF Events
  <2>3. row' = [row EXCEPT ![r] = [nth |-> n, event |-> e, done |-> row[r].done]]
    BY <1>1, <1>3 DEF TrackRenewal, RowTypes
  <2> HIDE DEF n, e, r
  <2>4. [nth |-> n, event |-> e, done |-> row[r].done] \in RowRecords
    BY <1>1, <2>1, <2>2 DEF RowTypes, RowRecords
  <2>5. /\ row' \in [Pairs -> RowRecords] /\ \A q \in Pairs \ {r} : row'[q] = row[q]
        /\ row'[r].nth > 0 /\ row'[r].done = row[r].done
    BY <1>1, <2>1, <2>3, <2>4 DEF RowTypes
  <2>6. QED
    BY <1>1, <2>5 DEF r
<1>4. QED
  BY <1>2, <1>3

(* Every other step keeps what is tracked, and what is processed.          *)
LEMMA RowsStay ==
    ASSUME RowTypes, [Next]_vars, \A f \in Flows : ~TrackRenewal(f)
    PROVE  /\ row' \in [Pairs -> RowRecords]
           /\ \A r \in Pairs : row'[r].nth = row[r].nth /\ (row[r].done => row'[r].done)
<1>1. ASSUME NEW w \in Workers, HandleUpdated(w)
      PROVE  StartRenewal(w) \/ UNCHANGED row
  BY <1>1 DEF HandleUpdated
<1>2. ASSUME NEW w \in Workers, MarkProcessed(w)
      PROVE  /\ row' \in [Pairs -> RowRecords]
             /\ \A r \in Pairs : row'[r].nth = row[r].nth /\ (row[r].done => row'[r].done)
  BY <1>2 DEF MarkProcessed, RowTypes, RowRecords
<1>3. CASE UNCHANGED row
  BY <1>3 DEF RowTypes
<1>4. QED
  BY <1>1, <1>2, <1>3, StartType
     DEF Next, Handle, Provision, Send, Populate, Receive, Fetch, Accept,
         HandleInvoice, HandleNotice, ProcessRenewal, Finish, Failed, vars,
         rvars

LEMMA JobsNext ==
    ASSUME RowTypes, [Next]_vars
    PROVE  job' \in [Workers -> Jobs] /\ ran' \in [Pairs -> Nat]
<1>0. Idle \in Jobs
  BY RenewalAssumption DEF Idle, Jobs
<1>1. ASSUME NEW w \in Workers, NEW e \in Events, Receive(w, e) \/ Fetch(w, e) PROVE job' \in [Workers -> Jobs]
  <2>1. [at |-> "handle", event |-> e, pair |-> NoPair] \in Jobs
    BY RenewalAssumption DEF Jobs, Events
  <2>2. QED
    BY <1>1, <2>1 DEF Receive, Fetch, Accept, RowTypes
<1>2. ASSUME NEW w \in Workers, HandleUpdated(w) PROVE job' \in [Workers -> Jobs]
  <2>1. StartRenewal(w) \/ Raise(w) \/ Return(w)
    BY <1>2 DEF HandleUpdated, CancelPlans
  <2>2. QED
    BY <2>1, StartType, JobGoes
<1>3. ASSUME NEW w \in Workers,
             \/ HandleInvoice(w) \/ HandleNotice(w) \/ MarkProcessed(w) \/ Failed(w)
      PROVE  job' \in [Workers -> Jobs]
  <2>1. Raise(w) \/ Return(w)
    BY <1>3 DEF HandleInvoice, HandleNotice, MarkProcessed, Failed
  <2>2. QED
    BY <2>1, JobGoes
<1>4. ASSUME NEW w \in Workers, ProcessRenewal(w)
      PROVE  job' \in [Workers -> Jobs] /\ ran' \in [Pairs -> Nat]
  <2>1. job' \in [Workers -> Jobs]
    <3>1. CASE job' = [job EXCEPT ![w].at = "mark"]
      BY <3>1 DEF RowTypes, Jobs
    <3>2. QED
      BY <1>4, <3>1, JobGoes DEF ProcessRenewal
  <2>2. ran' = [ran EXCEPT ![job[w].pair] = ran[job[w].pair] + 1]
    BY <1>4 DEF ProcessRenewal
  <2> DEFINE r == job[w].pair
  <2>3. ran' = [q \in Pairs |-> IF q = r THEN ran[q] + 1 ELSE ran[q]]
    BY <2>2 DEF RowTypes
  <2> HIDE DEF r
  <2>4. ran' \in [Pairs -> Nat]
    BY <2>3 DEF RowTypes
  <2>5. QED
    BY <2>1, <2>4
<1>5. ASSUME NEW w \in Workers, Finish(w) PROVE job' \in [Workers -> Jobs]
  BY <1>0, <1>5 DEF Finish, RowTypes
<1>6. CASE UNCHANGED <<job, ran>>
  BY <1>6 DEF RowTypes
<1>7. ASSUME NEW w \in Workers, ~ProcessRenewal(w), Handle(w) PROVE UNCHANGED ran
  BY <1>7 DEF Handle, HandleInvoice, HandleNotice, HandleUpdated, MarkProcessed, Finish
<1>8. ASSUME NEW w \in Workers, Failed(w) \/ \E e \in Events : Receive(w, e) \/ Fetch(w, e) PROVE UNCHANGED ran
  BY <1>8 DEF Failed, Receive, Fetch, Accept
<1>9. ASSUME NEW f \in Flows, Provision(f) PROVE UNCHANGED <<job, ran>>
  BY <1>9 DEF Provision, TrackRenewal, rvars
<1>10. ran \in [Pairs -> Nat]
  BY DEF RowTypes
<1>11. CASE \E w \in Workers : Handle(w)
  BY <1>2, <1>3, <1>4, <1>5, <1>7, <1>10, <1>11 DEF Handle
<1>12. CASE \E w \in Workers : Failed(w) \/ \E e \in Events : Receive(w, e) \/ Fetch(w, e)
  BY <1>1, <1>3, <1>8, <1>10, <1>12
<1>13. QED
  BY <1>6, <1>9, <1>11, <1>12 DEF Next, Send, Populate, vars, rvars

-----------------------------------------------------------------------------
(* The steps of Renewal are steps of Provisioning: the plans that a handler*)
(* deactivates exist, because only workflows that made them track them.    *)
RowsMade == \A p, q \in Plans : row[<<p, q>>].nth > 0 => q \in MadePlans

LEMMA ProvisioningStep ==
    ASSUME ProvInv, RowTypes, RowsMade, Next
    PROVE  ProvNext \/ UNCHANGED pvars
<1>1. ASSUME NEW w \in Workers, HandleUpdated(w) PROVE ProvNext \/ UNCHANGED pvars
  <2>1. CASE UNCHANGED pvars
    BY <2>1
  <2>2. CASE CancelPlans(w)
    <3> DEFINE P == {r[2] : r \in Unprocessed}
    <3>1. P \subseteq MadePlans
      <4>1. SUFFICES ASSUME NEW r \in Unprocessed PROVE r[2] \in MadePlans
        OBVIOUS
      <4>2. PICK p, q \in Plans : r = <<p, q>> /\ row[<<p, q>>].nth > 0
        BY DEF Unprocessed, Pairs
      <4>3. QED
        BY <4>2 DEF RowsMade
    <3>2. UNCHANGED pvars \/ \E Q \in SUBSET P : Deactivate(Q)
      BY <2>2 DEF CancelPlans
    <3> HIDE DEF P
    <3>3. QED
      BY <3>1, <3>2 DEF ProvNext
  <2>3. QED
    BY <1>1, <2>1, <2>2 DEF HandleUpdated, pvars
<1>2. ASSUME NEW w \in Workers, HandleInvoice(w) PROVE ProvNext \/ UNCHANGED pvars
  BY <1>2 DEF HandleInvoice, ProvNext
<1>3. ASSUME NEW w \in Workers,
             \/ HandleNotice(w) \/ ProcessRenewal(w) \/ MarkProcessed(w) \/ Finish(w)
             \/ Failed(w) \/ \E e \in Events : Receive(w, e) \/ Fetch(w, e)
      PROVE  UNCHANGED pvars
  BY <1>3 DEF HandleNotice, ProcessRenewal, MarkProcessed, Finish, Failed,
     Receive, Fetch, Accept
<1>4. ASSUME NEW f \in Flows, Provision(f) PROVE ProvNext
  <2>1. TrackRenewal(f) => \E b \in BOOLEAN : Track(f, b)
    <3>1. Trackable(f) \in BOOLEAN
      BY DEF Trackable
    <3>2. QED
      BY <3>1 DEF TrackRenewal
  <2>2. QED
    BY <1>4, <2>1 DEF Provision, ProvNext
<1>5. CASE Send \/ Populate
  BY <1>5 DEF Send, Populate
<1>6. CASE UpdateLineItem
  BY <1>6 DEF ProvNext
<1>7. QED
  BY <1>1, <1>2, <1>3, <1>4, <1>5, <1>6 DEF Next, Handle

RenewalInv == ProvInv /\ EventTypes /\ RowTypes /\ RowsMade

LEMMA RenewalInit == ASSUME Init PROVE RenewalInv
<1>1. ProvInv
  BY ProvInvInit DEF Init
<1>2. EventTypes
  <2>1. NoData \in DataRecords
    BY DEF NoData, DataRecords
  <2>2. sent \in Seq([kind : EventKinds, status : Statuses]) /\ Len(sent) = 0
    BY DEF Init
  <2>3. QED
    BY <2>1, <2>2, RenewalAssumption DEF Init, EventTypes
<1>3. RowTypes
  <2>1. NoRow \in RowRecords /\ Idle \in Jobs
    BY RenewalAssumption DEF NoRow, RowRecords, Idle, Jobs
  <2>2. QED
    BY <2>1 DEF Init, RowTypes
<1>4. RowsMade
  BY DEF Init, RowsMade, NoRow, Pairs
<1>5. QED
  BY <1>1, <1>2, <1>3, <1>4 DEF RenewalInv

LEMMA RenewalNext ==
    ASSUME RenewalInv, [Next]_vars
    PROVE  RenewalInv'
<1>1. ProvNext \/ UNCHANGED pvars
  BY ProvisioningStep DEF RenewalInv, vars
<1>2. ProvInv' /\ MadePlans \subseteq MadePlans'
  <2>1. CASE ProvNext
    BY <2>1, ProvInvNext, ProvGrows DEF RenewalInv, ProvInv, Grows
  <2>2. CASE UNCHANGED pvars
    BY <2>2 DEF RenewalInv, pvars, ProvInv, ProvTypeOK, Knows, Listed,
                FulfilledIsProvisioned, MadePlans
  <2>3. QED
    BY <1>1, <2>1, <2>2
<1>3. EventTypes'
  BY EventsNext DEF RenewalInv, ProvInv, ProvTypeOK
<1>4. CASE \E f \in Flows : TrackRenewal(f)
  <2>1. PICK f \in Flows : TrackRenewal(f)
    BY <1>4
  <2>2. RowTypes'
    BY <2>1, TrackType, JobsNext DEF RenewalInv, RowTypes
  <2>3. RowsMade'
    <3>1. SUFFICES ASSUME NEW p \in Plans, NEW q \in Plans, row'[<<p, q>>].nth > 0
                   PROVE  q \in MadePlans'
      BY DEF RowsMade
    <3>2. <<p, q>> \in Pairs
      BY DEF Pairs
    <3>3. CASE <<p, q>> = Pair(f)
      BY <1>2, <2>1, <3>3, TrackType DEF RenewalInv
    <3>4. CASE <<p, q>> # Pair(f)
      <4>1. row'[<<p, q>>] = row[<<p, q>>]
        BY <2>1, <3>2, <3>4, TrackType DEF RenewalInv
      <4>2. QED
        BY <1>2, <3>1, <4>1 DEF RenewalInv, RowsMade
    <3>5. QED
      BY <3>3, <3>4
  <2>4. QED
    BY <1>2, <1>3, <2>2, <2>3 DEF RenewalInv
<1>5. CASE \A f \in Flows : ~TrackRenewal(f)
  <2>1. RowTypes' /\ \A r \in Pairs : row'[r].nth = row[r].nth
    BY <1>5, RowsStay, JobsNext DEF RenewalInv, RowTypes
  <2>2. RowsMade'
    BY <1>2, <2>1 DEF RenewalInv, RowsMade, Pairs
  <2>3. QED
    BY <1>2, <1>3, <2>1, <2>2 DEF RenewalInv
<1>6. QED
  BY <1>4, <1>5

LEMMA RenewalAlways == Spec => []RenewalInv
  BY RenewalInit, RenewalNext, PTL DEF Spec

(* The intent, remote records, workflows, events, rows and jobs keep their *)
(* types, also when calls fail or are not heard and events come again.     *)
THEOREM RenewalType == Spec => []RenewalTypeOK
<1>1. RenewalInv => RenewalTypeOK
  BY DEF RenewalInv, ProvInv, EventTypes, RowTypes, RenewalTypeOK
<1>2. QED
  BY <1>1, RenewalAlways, PTL

(* With Stripe events and tracked renewals, provisioning is still that of  *)
(* Provisioning: no handler does to the intent, the plans or a workflow    *)
(* what its specification does not allow.                                  *)
THEOREM RenewalImplementsProvisioning == Spec => ImplementsProvisioning
<1>1. Init => ProvInit
  BY DEF Init
<1>2. RenewalInv /\ [Next]_vars => [ProvNext]_pvars
  BY ProvisioningStep DEF RenewalInv, vars
<1>3. QED
  BY <1>1, <1>2, RenewalAlways, PTL DEF Spec, ProvSpec, ImplementsProvisioning

(* However often provisioning fails half-way and is requested again, and   *)
(* whatever Stripe sends meanwhile, no record is made twice as long as no  *)
(* two workflows of a customer run at the same time.                       *)
THEOREM MadeOnceTheorem ==
    ASSUME Parallel = 1
    PROVE  Spec => []MadeOnce
<1>1. ProvSpec => []MadeOnce
  BY OnceAlways
<1>2. QED
  BY <1>1, RenewalImplementsProvisioning, PTL DEF ImplementsProvisioning

-----------------------------------------------------------------------------
(* A workflow notifies of a success only after it has tracked the renewal. *)
Tracked(f) ==
    flow[f].state = "running" /\ flow[f].step = "notify" => row[Pair(f)].nth > 0
TrackedInv == (\A f \in Flows : Tracked(f)) /\ FulfilledIsTracked

LEMMA RowsGrow ==
    ASSUME RenewalInv, [Next]_vars, NEW r \in Pairs, row[r].nth > 0
    PROVE  row'[r].nth > 0
<1>1. ASSUME NEW f \in Flows, TrackRenewal(f) PROVE row'[r].nth > 0
  BY <1>1, TrackType DEF RenewalInv
<1>2. QED
  BY <1>1, RowsStay DEF RenewalInv

LEMMA NotifiesTracked ==
    ASSUME RenewalInv, Next, NEW f \in Flows,
           flow'[f].state = "running", flow'[f].step = "notify"
    PROVE  flow'[f] = flow[f] \/ (TrackRenewal(f) /\ Trackable(f) /\ Advance(f))
<1>1. CASE Submit(f)
  <2>1. flow'[f] = [NewFlow EXCEPT !.state = "running"]
    BY <1>1 DEF Submit, RenewalInv, ProvInv, ProvTypeOK
  <2>2. QED
    BY <2>1 DEF NewFlow
<1>2. CASE Stop(f)
  BY <1>2, StopIs DEF RenewalInv, ProvInv
<1>3. ASSUME Advance(f), flow[f].step # "track" PROVE FALSE
  <2>1. flow'[f].step = After[flow[f].step] /\ flow[f].step \in Steps
    BY <1>3, AdvanceIs DEF RenewalInv, ProvInv, ProvTypeOK, FlowRecords
  <2>2. QED
    BY <1>3, <2>1 DEF After, Steps
<1>4. ASSUME NEW k \in Kinds, LookUp(f, k) PROVE FALSE
  BY <1>4, LookUpIs DEF After, Kinds, RenewalInv, ProvInv
<1>5. ASSUME NEW k \in {"trial", "paid"}, NEW p, Chosen(f, k, p) PROVE FALSE
  BY <1>5 DEF Chosen
<1>6. CASE flow' = [flow EXCEPT ![f].state = "done", ![f].step = "end", ![f].list = {}]
  BY <1>6, DoneIs DEF RenewalInv, ProvInv
<1>7. ASSUME NEW k \in Kinds, Create(f, k) PROVE FALSE
  <2>1. flow[f].step # "track"
    BY <1>7 DEF Create, NewRecord, Kinds
  <2>2. QED
    BY <1>2, <1>3, <1>7, <2>1, StopIs DEF Create, NewRecord, RenewalInv,
       ProvInv
<1>8. ASSUME NEW k \in {"trial", "paid"}, FindPlan(f, k) \/ MakePlan(f, k) PROVE FALSE
  BY <1>5, <1>8, FoundIs, MadeIs, StopIs DEF RenewalInv, ProvInv
<1>9. CASE Link(f) \/ MakeAdmins(f) \/ MakeRenewal(f)
  BY <1>2, <1>3, <1>9 DEF Link, MakeAdmins, NewAdmins, Missing, Appoint,
     MakeRenewal, NewRenewal
<1>10. CASE Notify(f) \/ Fail(f)
  BY <1>2, <1>6, <1>10 DEF Notify, Fail
<1>11. CASE TrackRenewal(f)
  BY <1>2, <1>11 DEF TrackRenewal, Track
<1>12. CASE Provision(f)
  BY <1>1, <1>4, <1>7, <1>8, <1>9, <1>10, <1>11, <1>12 DEF Provision, FlowStep,
     CustomerStep, CatalogStep, AgreementStep, Kinds
<1>13. ASSUME NEW g \in Flows \ {f}, Provision(g) PROVE flow'[f] = flow[f]
  <2>1. Submit(g) \/ FlowStep(g) \/ Fail(g) \/ \E b \in BOOLEAN : Track(g, b)
    <3>1. Trackable(g) \in BOOLEAN
      BY DEF Trackable
    <3>2. QED
      BY <1>13, <3>1 DEF Provision, TrackRenewal
  <2>2. QED
    BY <2>1, OthersStay DEF Mover, RenewalInv, ProvInv
<1>14. ASSUME NEW w \in Workers,
              Handle(w) \/ Failed(w) \/ \E e \in Events : Receive(w, e) \/ Fetch(w, e)
       PROVE  UNCHANGED flow
  BY <1>14 DEF Handle, HandleInvoice, MarkAsPaid, HandleNotice, HandleUpdated,
     CancelPlans, Deactivate, ProcessRenewal, MarkProcessed, Finish, Failed,
     Receive, Fetch, Accept, pvars
<1>15. QED
  BY <1>12, <1>13, <1>14 DEF Next, Send, Populate, UpdateLineItem, pvars

LEMMA TrackedNext ==
    ASSUME RenewalInv, RenewalInv', TrackedInv, [Next]_vars
    PROVE  TrackedInv'
<1>1. CASE UNCHANGED vars
  BY <1>1 DEF vars, pvars, rvars, TrackedInv, Tracked, FulfilledIsTracked, FulfilledIsProvisioned
<1>2. ASSUME Next, NEW f \in Flows PROVE Tracked(f)'
  <2>1. SUFFICES ASSUME flow'[f].state = "running", flow'[f].step = "notify"
                 PROVE  row'[Pair(f)'].nth > 0
    BY DEF Tracked
  <2>2. CASE flow'[f] = flow[f]
    <3>1. Pair(f)' = Pair(f) /\ row[Pair(f)].nth > 0
      BY <2>1, <2>2 DEF TrackedInv, Tracked
    <3>2. Pair(f) \in Pairs
      BY <2>1, <2>2 DEF RenewalInv, ProvInv, Knows, MadePlans, Pairs
    <3>3. QED
      BY <1>2, <3>1, <3>2, RowsGrow
  <2>3. CASE TrackRenewal(f) /\ Trackable(f) /\ Advance(f)
    <3>1. row'[Pair(f)].nth > 0
      BY <2>3, TrackType DEF RenewalInv
    <3>2. flow'[f].trial = flow[f].trial /\ flow'[f].paid = flow[f].paid
      BY <2>3, AdvanceIs DEF RenewalInv, ProvInv
    <3>3. QED
      BY <3>1, <3>2
  <2>4. QED
    BY <1>2, <2>1, <2>2, <2>3, NotifiesTracked
<1>3. ASSUME Next, intent'.state = "fulfilled" PROVE row'[Pair(intent.flow)'].nth > 0
  <2>1. ProvNext \/ UNCHANGED pvars
    BY <1>3, ProvisioningStep DEF RenewalInv
  <2>2. CASE intent.state = "fulfilled"
    <3>1. row[Pair(intent.flow)].nth > 0 /\ Pair(intent.flow) \in renewals
      BY <2>2 DEF TrackedInv, FulfilledIsTracked, FulfilledIsProvisioned
    <3>2. Pair(intent.flow) \in Pairs
      BY <3>1 DEF RenewalInv, ProvInv, ProvTypeOK, Pairs
    <3>3. intent'.flow = intent.flow /\ flow'[intent.flow] = flow[intent.flow]
      BY <1>3, <2>1, <2>2, FulfilledStays DEF RenewalInv, pvars
    <3>4. QED
      BY <1>3, <3>1, <3>2, <3>3, RowsGrow
  <2>3. CASE intent.state # "fulfilled"
    <3>1. PICK f \in Flows : Notify(f) /\ intent'.flow = f
      BY <1>3, <2>1, <2>3, FulfilledBy DEF RenewalInv, pvars
    <3>2. flow[f].state = "running" /\ flow[f].step = "notify"
      BY <3>1 DEF Notify
    <3>3. row[Pair(f)].nth > 0 /\ Pair(f) \in Pairs
      BY <3>2 DEF TrackedInv, Tracked, RenewalInv, ProvInv, Knows, MadePlans, Pairs
    <3>4. flow'[f].trial = flow[f].trial /\ flow'[f].paid = flow[f].paid
      BY <3>1, DoneIs, StopIs DEF Notify, RenewalInv, ProvInv
    <3>5. QED
      BY <1>3, <3>1, <3>3, <3>4, RowsGrow
  <2>4. QED
    BY <2>2, <2>3
<1>4. CASE Next
  BY <1>2, <1>3, <1>4 DEF TrackedInv, FulfilledIsTracked, RenewalInv, ProvInv
<1>5. QED
  BY <1>1, <1>4

(* A fulfilled intent has a row for the renewal of the workflow that       *)
(* fulfilled it, whatever failed before and however many workflows there   *)
(* were: the end of the trial will find it.                                *)
THEOREM FulfilledIsTrackedTheorem == Spec => []FulfilledIsTracked
<1>1. Init => TrackedInv
  BY DEF Init, ProvInit, TrackedInv, Tracked, FulfilledIsTracked, NewFlow
<1>2. RenewalInv /\ RenewalInv' /\ TrackedInv /\ [Next]_vars => TrackedInv'
  BY TrackedNext
<1>3. TrackedInv => FulfilledIsTracked
  BY DEF TrackedInv
<1>4. QED
  BY <1>1, <1>2, <1>3, RenewalAlways, PTL DEF Spec

(* A row that is processed stays so: tracking the renewal again, which a   *)
(* later workflow does, keeps what was processed.                          *)
THEOREM ProcessedIsFinalTheorem == Spec => ProcessedIsFinal
<1>1. ASSUME RenewalInv, [Next]_vars, NEW r \in Pairs, row[r].done PROVE row'[r].done
  <2>1. ASSUME NEW f \in Flows, TrackRenewal(f) PROVE row'[r].done
    BY <1>1, <2>1, TrackType DEF RenewalInv
  <2>2. QED
    BY <1>1, <2>1, RowsStay DEF RenewalInv
<1>2. RenewalInv /\ [Next]_vars => [\A r \in Pairs : row[r].done => row'[r].done]_vars
  BY <1>1
<1>3. QED
  BY <1>2, RenewalAlways, PTL DEF Spec, ProcessedIsFinal

-----------------------------------------------------------------------------
(* A renewal that ran is recorded, or about to be.                         *)
Recorded(w, r) == row[r].done \/ (job[w].at = "mark" /\ job[w].pair = r)
RanInv(w) ==
    /\ job[w].at \in {"process", "mark"} => job[w].pair \in Pairs
    /\ job[w].at = "process" => ran[job[w].pair] = 0
    /\ \A r \in Pairs : ran[r] = 0 \/ (ran[r] = 1 /\ Recorded(w, r))

LEMMA RanNext ==
    ASSUME RenewalInv, NEW w \in Workers, \A v \in Workers : v = w,
           "unprocessed" \notin Faults, RanInv(w), [Next]_vars
    PROVE  RanInv(w)'
<1>1. \A r \in Pairs : row[r].done => row'[r].done
  <2>1. ASSUME NEW f \in Flows, TrackRenewal(f), NEW r \in Pairs, row[r].done PROVE row'[r].done
    BY <2>1, TrackType DEF RenewalInv
  <2>2. QED
    BY <2>1, RowsStay DEF RenewalInv
<1>2. CASE UNCHANGED <<job, ran>>
  BY <1>1, <1>2 DEF RanInv, Recorded
<1>3. CASE job[w].at # "mark" /\ job'[w].at \notin {"process", "mark"} /\ UNCHANGED ran
  BY <1>1, <1>3 DEF RanInv, Recorded
<1>4. CASE ProcessRenewal(w)
  <2> DEFINE r == job[w].pair
  <2>1. r \in Pairs /\ ran[r] = 0
    BY <1>4 DEF ProcessRenewal, RanInv
  <2>2. /\ ran' = [ran EXCEPT ![r] = 1] /\ job' = [job EXCEPT ![w].at = "mark"]
        /\ job[w].at = "process" /\ UNCHANGED row
    BY <1>4, <2>1 DEF ProcessRenewal
  <2>3. job'[w].at = "mark" /\ job'[w].pair = r
    BY <2>2 DEF RenewalInv, RowTypes, Jobs
  <2> HIDE DEF r
  <2>4. \A q \in Pairs : ran'[q] = IF q = r THEN 1 ELSE ran[q]
    BY <2>1, <2>2 DEF RenewalInv, RowTypes
  <2>5. QED
    BY <2>1, <2>2, <2>3, <2>4 DEF RanInv, Recorded
<1>5. CASE MarkProcessed(w)
  <2>1. /\ job'[w].at = "finish" /\ UNCHANGED ran /\ job[w].at = "mark"
        /\ row' = [row EXCEPT ![job[w].pair].done = TRUE]
    BY <1>5 DEF MarkProcessed, Return, RenewalInv, RowTypes, Jobs
  <2>2. row'[job[w].pair].done
    BY <2>1 DEF RanInv, RenewalInv, RowTypes, RowRecords
  <2>3. QED
    BY <1>1, <2>1, <2>2 DEF RanInv, Recorded
<1>6. CASE HandleUpdated(w)
  <2>1. job[w].at = "handle" /\ UNCHANGED ran
    BY <1>6 DEF HandleUpdated, Handling
  <2>2. CASE Raise(w) \/ Return(w)
    BY <1>3, <2>1, <2>2 DEF Raise, Return, Idle, RenewalInv, RowTypes, Jobs
  <2>3. CASE StartRenewal(w) /\ ~(Raise(w) \/ Return(w))
    <3> DEFINE r == Latest(Unprocessed)
    <3>1. r \in Unprocessed
      BY <2>3, LatestIn DEF StartRenewal, Unprocessed, RenewalInv
    <3>2. r \in Pairs /\ ~row[r].done
      BY <3>1 DEF Unprocessed
    <3>3. job' = [job EXCEPT ![w].at = "process", ![w].pair = r]
      BY <2>3 DEF StartRenewal
    <3> HIDE DEF r
    <3>4. job'[w].at = "process" /\ job'[w].pair = r
      BY <3>3 DEF RenewalInv, RowTypes, Jobs
    <3>5. ran[r] = 0
      BY <2>1, <3>2 DEF RanInv, Recorded
    <3>6. QED
      BY <1>1, <2>1, <3>2, <3>4, <3>5 DEF RanInv, Recorded
  <2>4. QED
    BY <1>6, <2>2, <2>3 DEF HandleUpdated, CancelPlans
<1>7. CASE \/ HandleInvoice(w) \/ HandleNotice(w) \/ Failed(w) \/ Finish(w)
           \/ \E e \in Events : Receive(w, e) \/ Fetch(w, e)
  <2>1. UNCHANGED ran /\ job[w].at # "mark"
    BY <1>7 DEF HandleInvoice, HandleNotice, Failed, Finish, Receive, Fetch,
       Accept, Handling, Idle
  <2>2. job'[w].at \notin {"process", "mark"}
    <3>1. CASE Raise(w) \/ Return(w) \/ job' = [job EXCEPT ![w] = Idle]
      BY <3>1 DEF Raise, Return, Idle, RenewalInv, RowTypes, Jobs
    <3>2. CASE \E e \in Events : Receive(w, e) \/ Fetch(w, e)
      BY <3>2 DEF Receive, Fetch, Accept, RenewalInv, RowTypes
    <3>3. QED
      BY <1>7, <3>1, <3>2 DEF HandleInvoice, HandleNotice, Failed, Finish
  <2>3. QED
    BY <1>3, <2>1, <2>2
<1>8. ASSUME NEW f \in Flows, Provision(f) PROVE UNCHANGED <<job, ran>>
  BY <1>8 DEF Provision, TrackRenewal, rvars
<1>9. QED
  BY <1>2, <1>4, <1>5, <1>6, <1>7, <1>8 DEF Next, Handle, Send, Populate, vars, rvars

(* When deliveries are handled one at a time and no answer of the license  *)
(* manager to a renewal is lost, a renewal is processed at most once,      *)
(* however often and in whatever order Stripe delivers its events.         *)
THEOREM ProcessedOnceTheorem ==
    ASSUME NEW w \in Workers, \A v \in Workers : v = w, "unprocessed" \notin Faults
    PROVE  Spec => []ProcessedOnce
<1>1. Init => RanInv(w)
  BY DEF Init, RanInv, Idle
<1>2. RenewalInv /\ RanInv(w) /\ [Next]_vars => RanInv(w)'
  BY RanNext
<1>3. RanInv(w) => ProcessedOnce
  BY DEF RanInv, ProcessedOnce
<1>4. QED
  BY <1>1, <1>2, <1>3, RenewalAlways, PTL DEF Spec
-----------------------------------------------------------------------------
(* A renewal leads from a plan with the line item of the trial to one that *)
(* never has it, whatever overlaps: plans come from lists that name them,  *)
(* an administrator only changes the line item of paid plans.              *)
OnTrial(p) == p \in MadePlans /\ plan[p].item = "trial"
OffTrial(p) == p \in MadePlans /\ plan[p].item # "trial"

ListLeads(f) ==
    \A p \in Plans :
        /\ <<p, "trial">> \in flow[f].list => OnTrial(p)
        /\ <<p, "none">> \in flow[f].list => OffTrial(p)
OutputLeads(f) ==
    /\ flow[f].trial # NoPlan => OnTrial(flow[f].trial)
    /\ flow[f].paid # NoPlan => OffTrial(flow[f].paid)
LeadsInv == RenewalLeadsOn /\ \A f \in Flows : ListLeads(f) /\ OutputLeads(f)

(* A plan keeps being a trial or not.                                      *)
TrialsStay == \A p \in Plans : (OnTrial(p) => OnTrial(p)') /\ (OffTrial(p) => OffTrial(p)')

LEMMA TrialsStayNext ==
    ASSUME ProvInv, LeadsInv, ProvNext
    PROVE  TrialsStay
<1>1. ASSUME NEW f \in Flows, NEW k \in {"trial", "paid"}, MakePlan(f, k) PROVE TrialsStay
  <2>1. PICK p \in Plans \ MadePlans : Made(p, Wanted[k])
    BY <1>1, MadeIs DEF ProvInv
  <2>2. QED
    BY <2>1 DEF Made, TrialsStay, OnTrial, OffTrial, MadePlans
<1>2. CASE UpdateLineItem
  <2>1. PICK p \in Plans : OffTrial(p) /\ plan' = [plan EXCEPT ![p].item = "paid"]
    <3>1. intent.flow \in Flows
      BY <1>2 DEF UpdateLineItem, ProvInv, ProvTypeOK, Intents
    <3>2. OffTrial(flow[intent.flow].paid)
      BY <1>2, <3>1 DEF UpdateLineItem, LeadsInv, OutputLeads
    <3>3. QED
      BY <1>2, <3>2 DEF UpdateLineItem, OffTrial, MadePlans
  <2>2. QED
    BY <2>1 DEF TrialsStay, OnTrial, OffTrial, MadePlans, ProvInv, ProvTypeOK, PlanRecords
<1>3. ASSUME NEW P \in SUBSET MadePlans, Deactivate(P) PROVE TrialsStay
  BY <1>3 DEF Deactivate, TrialsStay, OnTrial, OffTrial, MadePlans, ProvInv, ProvTypeOK, PlanRecords
<1>4. CASE UNCHANGED plan
  BY <1>4 DEF TrialsStay, OnTrial, OffTrial, MadePlans
<1>5. QED
  BY <1>1, <1>2, <1>3, <1>4
     DEF ProvNext, FlowStep, CustomerStep, CatalogStep, AgreementStep, Kinds,
         Submit, LookUp, Create, FindPlan, Link, MakeAdmins, MakeRenewal, Notify,
         Fail, Track, MarkAsPaid

LEMMA LeadsKept ==
    ASSUME ProvInv, LeadsInv, TrialsStay, NEW f \in Flows,
           flow'[f].list \subseteq flow[f].list,
           flow'[f].trial = flow[f].trial, flow'[f].paid = flow[f].paid
    PROVE  ListLeads(f)' /\ OutputLeads(f)'
<1>1. \A p \in Plans : (OnTrial(p) => OnTrial(p)') /\ (OffTrial(p) => OffTrial(p)')
  BY DEF TrialsStay
<1>2. ListLeads(f)'
  BY <1>1 DEF LeadsInv, ListLeads
<1>3. flow[f].trial \in Plans \cup {NoPlan} /\ flow[f].paid \in Plans \cup {NoPlan}
  BY DEF ProvInv, ProvTypeOK, FlowRecords
<1>4. flow[f].trial # NoPlan => OnTrial(flow[f].trial)'
  <2>1. SUFFICES ASSUME NEW p \in Plans, p = flow[f].trial, OnTrial(p) PROVE OnTrial(p)'
    BY <1>3 DEF LeadsInv, OutputLeads, OnTrial, MadePlans
  <2>2. QED
    BY <1>1, <2>1
<1>5. flow[f].paid # NoPlan => OffTrial(flow[f].paid)'
  <2>1. SUFFICES ASSUME NEW p \in Plans, p = flow[f].paid, OffTrial(p) PROVE OffTrial(p)'
    BY <1>3 DEF LeadsInv, OutputLeads, OffTrial, MadePlans
  <2>2. QED
    BY <1>1, <2>1
<1>6. QED
  BY <1>2, <1>4, <1>5 DEF OutputLeads

(* The plan that a workflow takes or makes has the line item it wants.     *)
LEMMA LeadsChosen ==
    ASSUME ProvInv, LeadsInv, TrialsStay, NEW f \in Flows, NEW k \in {"trial", "paid"},
           NEW p \in Plans, Chosen(f, k, p),
           IF k = "trial" THEN OnTrial(p)' ELSE OffTrial(p)'
    PROVE  ListLeads(f)' /\ OutputLeads(f)'
<1>1. \A q \in Plans : (OnTrial(q) => OnTrial(q)') /\ (OffTrial(q) => OffTrial(q)')
  BY DEF TrialsStay
<1>2. ListLeads(f)'
  BY <1>1 DEF LeadsInv, ListLeads, Chosen
<1>3. flow[f].trial \in Plans \cup {NoPlan} /\ flow[f].paid \in Plans \cup {NoPlan}
  BY DEF ProvInv, ProvTypeOK, FlowRecords
<1>4. CASE k = "trial"
  <2>1. PICK q \in Plans \cup {NoPlan} : q = flow[f].paid
    BY <1>3
  <2>2. flow'[f].trial = p /\ flow'[f].paid = q /\ OnTrial(p)'
    BY <1>4, <2>1 DEF Chosen
  <2>3. q # NoPlan => OffTrial(q)'
    BY <1>1, <2>1 DEF LeadsInv, OutputLeads
  <2>4. QED
    BY <1>2, <2>2, <2>3 DEF OutputLeads, OnTrial, OffTrial
<1>5. CASE k = "paid"
  <2>1. PICK q \in Plans \cup {NoPlan} : q = flow[f].trial
    BY <1>3
  <2>2. flow'[f].trial = q /\ flow'[f].paid = p /\ OffTrial(p)'
    BY <1>5, <2>1 DEF Chosen
  <2>3. q # NoPlan => OnTrial(q)'
    BY <1>1, <2>1 DEF LeadsInv, OutputLeads
  <2>4. QED
    BY <1>2, <2>2, <2>3 DEF OutputLeads, OnTrial, OffTrial
<1>6. QED
  BY <1>4, <1>5

LEMMA LeadsFlow ==
    ASSUME ProvInv, LeadsInv, TrialsStay, NEW f \in Flows,
           Submit(f) \/ FlowStep(f) \/ Fail(f) \/ \E b \in BOOLEAN : Track(f, b)
    PROVE  ListLeads(f)' /\ OutputLeads(f)'
<1>0. ProvTypeOK
  BY DEF ProvInv
<1>1. CASE Stop(f) \/ Advance(f)
  <2>1. /\ flow'[f].list \subseteq flow[f].list
        /\ flow'[f].trial = flow[f].trial /\ flow'[f].paid = flow[f].paid
    BY <1>0, <1>1, StopIs, AdvanceIs
  <2>2. QED
    BY <2>1, LeadsKept
<1>2. CASE Submit(f)
  <2>1. flow'[f] = [NewFlow EXCEPT !.state = "running"]
    BY <1>0, <1>2 DEF Submit, ProvTypeOK
  <2>2. flow'[f].trial = NoPlan /\ flow'[f].paid = NoPlan /\ flow'[f].list = {}
    BY <2>1 DEF NewFlow
  <2>3. QED
    BY <2>2 DEF ListLeads, OutputLeads
<1>3. ASSUME NEW k \in Kinds, LookUp(f, k) PROVE ListLeads(f)' /\ OutputLeads(f)'
  <2>1. CASE flow'[f].list = flow[f].list
    BY <1>0, <1>3, <2>1, LookUpIs, LeadsKept
  <2>2. CASE flow'[f].list = {<<p, plan[p].item>> : p \in ActivePlans}
    <3>1. UNCHANGED plan
      BY <1>3 DEF LookUp
    <3>2. ListLeads(f)'
      BY <2>2, <3>1 DEF ListLeads, OnTrial, OffTrial, MadePlans, ActivePlans
    <3>3. flow'[f].trial = flow[f].trial /\ flow'[f].paid = flow[f].paid
      BY <1>0, <1>3, LookUpIs
    <3>4. OutputLeads(f)'
      BY <3>1, <3>3 DEF LeadsInv, OutputLeads, OnTrial, OffTrial, MadePlans
    <3>5. QED
      BY <3>2, <3>4
  <2>3. QED
    BY <1>0, <1>3, <2>1, <2>2, LookUpIs
<1>4. ASSUME NEW k \in {"trial", "paid"}, FindPlan(f, k) PROVE ListLeads(f)' /\ OutputLeads(f)'
  <2>1. PICK p \in Matching(f, k) : Chosen(f, k, p)
    BY <1>0, <1>4, FoundIs
  <2>2. CASE k = "trial"
    <3>1. p \in Plans /\ OnTrial(p)
      BY <2>1, <2>2 DEF Matching, Wanted, LeadsInv, ListLeads
    <3>2. QED
      BY <2>1, <2>2, <3>1, LeadsChosen DEF TrialsStay
  <2>3. CASE k = "paid"
    <3>1. p \in Plans /\ OffTrial(p)
      BY <2>1, <2>3 DEF Matching, Wanted, LeadsInv, ListLeads
    <3>2. QED
      BY <2>1, <2>3, <3>1, LeadsChosen DEF TrialsStay
  <2>4. QED
    BY <2>2, <2>3
<1>5. ASSUME NEW k \in {"trial", "paid"}, MakePlan(f, k) PROVE ListLeads(f)' /\ OutputLeads(f)'
  <2>1. PICK p \in Plans \ MadePlans : Made(p, Wanted[k]) /\ (Chosen(f, k, p) \/ Stop(f))
    BY <1>0, <1>5, MadeIs
  <2>2. IF k = "trial" THEN OnTrial(p)' ELSE OffTrial(p)'
    BY <2>1 DEF Made, Wanted, OnTrial, OffTrial, MadePlans
  <2>3. QED
    BY <1>1, <2>1, <2>2, LeadsChosen
<1>6. CASE flow' = [flow EXCEPT ![f].state = "done", ![f].step = "end", ![f].list = {}]
  <2>1. flow'[f].list = {}
    BY <1>0, <1>6 DEF ProvTypeOK, FlowRecords
  <2>2. QED
    BY <1>0, <1>6, <2>1, DoneIs, LeadsKept
<1>7. QED
  BY <1>1, <1>2, <1>3, <1>4, <1>5, <1>6
     DEF FlowStep, CustomerStep, CatalogStep, AgreementStep, Kinds, Create, Link,
         MakeAdmins, MakeRenewal, Notify, Fail, Track

LEMMA LeadsNext ==
    ASSUME ProvInv, LeadsInv, ProvNext
    PROVE  LeadsInv'
<1>1. TrialsStay
  BY TrialsStayNext
<1>2. ASSUME NEW f \in Flows PROVE ListLeads(f)' /\ OutputLeads(f)'
  <2>1. CASE flow'[f] = flow[f]
    BY <1>1, <2>1, LeadsKept
  <2>2. CASE flow'[f] # flow[f]
    <3>1. ASSUME NEW g \in Flows \ {f},
                 Submit(g) \/ FlowStep(g) \/ Fail(g) \/ \E b \in BOOLEAN : Track(g, b)
          PROVE  flow'[f] = flow[f]
      BY <3>1, OthersStay DEF ProvInv, Mover
    <3>2. Submit(f) \/ FlowStep(f) \/ Fail(f) \/ \E b \in BOOLEAN : Track(f, b)
      BY <2>2, <3>1 DEF ProvNext, UpdateLineItem, MarkAsPaid, Deactivate
    <3>3. QED
      BY <1>1, <3>2, LeadsFlow
  <2>3. QED
    BY <2>1, <2>2
<1>3. RenewalLeadsOn'
  <2>1. \A r \in renewals : r \in Plans \X Plans /\ OnTrial(r[1]) /\ OffTrial(r[2])
    BY DEF LeadsInv, RenewalLeadsOn, OnTrial, OffTrial, MadePlans, ProvInv, ProvTypeOK
  <2>2. ASSUME NEW f \in Flows, MakeRenewal(f)
        PROVE  Pair(f) \in Plans \X Plans /\ OnTrial(Pair(f)[1]) /\ OffTrial(Pair(f)[2])
    <3>1. flow[f].trial \in MadePlans /\ flow[f].paid \in MadePlans
      BY <2>2 DEF MakeRenewal, ProvInv, Knows
    <3>2. OnTrial(flow[f].trial) /\ OffTrial(flow[f].paid)
      BY <3>1, ProvisioningAssumption DEF LeadsInv, OutputLeads, MadePlans
    <3>3. QED
      BY <3>1, <3>2 DEF MadePlans
  <2>3. renewals' = renewals \/ \E f \in Flows : MakeRenewal(f) /\ renewals' = renewals \cup {Pair(f)}
    <3>1. ASSUME NEW f \in Flows, FlowStep(f)
          PROVE  renewals' = renewals \/ (MakeRenewal(f) /\ renewals' = renewals \cup {Pair(f)})
      <4>1. ASSUME CustomerStep(f) \/ CatalogStep(f) \/ AgreementStep(f) \/ MakeAdmins(f) \/ Notify(f)
            PROVE  renewals' = renewals
        BY <4>1 DEF CustomerStep, CatalogStep, AgreementStep, LookUp, Create, Link, MakeAdmins, Notify
      <4>2. ASSUME NEW k \in {"trial", "paid"}, FindPlan(f, k) \/ MakePlan(f, k)
            PROVE  renewals' = renewals
        BY <4>2 DEF FindPlan, MakePlan
      <4>3. MakeRenewal(f) => renewals' = renewals \/ renewals' = renewals \cup {Pair(f)}
        BY DEF MakeRenewal, NewRenewal
      <4>4. QED
        BY <3>1, <4>1, <4>2, <4>3 DEF FlowStep
    <3>2. ASSUME NEW f \in Flows, Submit(f) \/ Fail(f) \/ \E b \in BOOLEAN : Track(f, b)
          PROVE  renewals' = renewals
      BY <3>2 DEF Submit, Fail, Track
    <3>3. UpdateLineItem \/ MarkAsPaid \/ (\E P \in SUBSET MadePlans : Deactivate(P)) => renewals' = renewals
      BY DEF UpdateLineItem, MarkAsPaid, Deactivate
    <3>4. QED
      BY <3>1, <3>2, <3>3 DEF ProvNext
  <2>4. \A r \in renewals' : r \in Plans \X Plans /\ OnTrial(r[1]) /\ OffTrial(r[2])
    <3>1. CASE renewals' = renewals
      BY <2>1, <3>1
    <3>2. ASSUME NEW f \in Flows, MakeRenewal(f), renewals' = renewals \cup {Pair(f)}
          PROVE  \A r \in renewals' : r \in Plans \X Plans /\ OnTrial(r[1]) /\ OffTrial(r[2])
      BY <2>1, <2>2, <3>2
    <3>3. QED
      BY <2>3, <3>1, <3>2
  <2>5. \A r \in renewals' : OnTrial(r[1])' /\ OffTrial(r[2])'
    <3>1. SUFFICES ASSUME NEW p \in Plans, NEW q \in Plans, OnTrial(p), OffTrial(q)
                   PROVE  OnTrial(p)' /\ OffTrial(q)'
      BY <2>4
    <3>2. QED
      BY <1>1, <3>1 DEF TrialsStay
  <2>6. QED
    BY <2>5 DEF RenewalLeadsOn, OnTrial, OffTrial, MadePlans
<1>4. QED
  BY <1>2, <1>3 DEF LeadsInv

LEMMA LeadsAlways == ProvSpec => []LeadsInv
<1>1. ProvInit => LeadsInv
  BY DEF ProvInit, LeadsInv, RenewalLeadsOn, ListLeads, OutputLeads, NewFlow
<1>2. LeadsInv /\ UNCHANGED pvars => LeadsInv'
  BY DEF pvars, LeadsInv, RenewalLeadsOn, ListLeads, OutputLeads, OnTrial, OffTrial, MadePlans
<1>3. QED
  BY <1>1, <1>2, LeadsNext, ProvAlways, PTL DEF ProvSpec

(* A renewal leads from the trial plan to another one, for any number of   *)
(* workflows at a time, faults, and line items that administrators write.  *)
THEOREM RenewalLeadsOnTheorem == Spec => []RenewalLeadsOn
<1>1. LeadsInv => RenewalLeadsOn
  BY DEF LeadsInv
<1>2. QED
  BY <1>1, LeadsAlways, RenewalImplementsProvisioning, PTL DEF ImplementsProvisioning
-----------------------------------------------------------------------------
(* The plan of a renewal that was processed.  Stripe tells of a trial only *)
(* before anything else; when events are handled one at a time and in their*)
(* order, plans are inactive only after an event that told of a missed     *)
(* payment, and no later event looks like the end of a trial.              *)
TrialFirst ==
    \A e \in 1 .. Len(sent) : sent[e].status = "trialing" =>
        \A d \in 1 .. e - 1 : sent[d].status \in {"none", "trialing"}
Seen(e) ==
    /\ data[e].stored => e <= Len(sent) /\ summary[e] = SummaryOf(data[e].linked)
    /\ ~data[e].stored => summary[e] = "none"
Due(e) == summary[e] = "linked" /\ sent[e].status = "past_due"
NoneDue == \A e \in Events : ~Due(e)

Delivering(w) ==
    job[w].at # "idle" =>
        /\ job[w].event \in Events /\ data[job[w].event].stored
        /\ \A d \in Events : d > job[w].event => ~data[d].stored
        /\ job[w].at = "process" => NoneDue /\ row[job[w].pair].nth > 0

EventsInv(w) == TrialFirst /\ (\A e \in Events : Seen(e)) /\ Delivering(w)
PlansInv ==
    /\ NoneDue => \A p \in MadePlans : plan[p].active
    /\ \A p \in MadePlans : plan[p].item = "trial" => plan[p].active
    /\ \A r \in Pairs : row[r].nth > 0 => r \in renewals
    /\ \A r \in Pairs : ran[r] > 0 => row[r].nth > 0 /\ plan[r[2]].active

OneInOrder(w) ==
    /\ w \in Workers /\ \A v \in Workers : v = w
    /\ InOrder /\ ~Again /\ {"summary", "unprocessed"} \cap Faults = {}

LEMMA SentTypes ==
    ASSUME EventTypes
    PROVE  /\ Len(sent) \in Nat
           /\ \A e \in 1 .. Len(sent) : sent[e].status \in Statuses
<1> DEFINE M == [kind : EventKinds, status : Statuses]
<1>1. sent \in Seq(M)
  BY DEF EventTypes
<1>2. \A m \in M : m.status \in Statuses
  OBVIOUS
<1> HIDE DEF M
<1>3. Len(sent) \in Nat /\ \A e \in 1 .. Len(sent) : sent[e] \in M
  BY <1>1
<1>4. QED
  BY <1>2, <1>3

(* Stripe tells of a trial when nothing or a trial was told before.        *)
LEMMA SendTrialFirst ==
    ASSUME EventTypes, TrialFirst, Send
    PROVE  /\ TrialFirst'
           /\ Len(sent') = Len(sent) + 1
           /\ \A e \in 1 .. Len(sent) : sent'[e] = sent[e]
<1>1. PICK k \in EventKinds, s \in Statuses :
        /\ CASE k = "created" -> Told = {} /\ s = "trialing"
             [] k = "invoice" -> s = "none"
             [] k = "will_end" -> Status = "trialing" /\ s = "trialing"
             [] k = "updated" -> s \in MayBecome[Status]
        /\ sent' = Append(sent, [kind |-> k, status |-> s])
  BY DEF Send
<1> DEFINE n == Len(sent)
           m == [kind |-> k, status |-> s]
           M == [kind : EventKinds, status : Statuses]
<1>2. sent \in Seq(M) /\ m \in M /\ sent' = Append(sent, m) /\ m.status = s
  BY <1>1 DEF EventTypes
<1> HIDE DEF M, m
<1>3. /\ n \in Nat /\ Len(sent') = n + 1 /\ sent'[n + 1] = m
      /\ \A e \in 1 .. n : sent'[e] = sent[e]
  BY <1>2
<1>4. \A e \in 1 .. n : sent[e].status \in Statuses
  BY SentTypes
<1>5. s = "trialing" => \A d \in 1 .. n : sent[d].status \in {"none", "trialing"}
  <2>1. CASE Told = {}
    BY <2>1 DEF Told
  <2>2. CASE Told # {}
    <3>1. Told \in SUBSET (1 .. n)
      BY DEF Told
    <3>2. PICK t \in 1 .. n : t = Max(Told) /\ t \in Told /\ \A d \in Told : d <= t
      BY <1>3, <2>2, <3>1, MaxIn
    <3>3. Status = sent[t].status /\ Status \in Statuses
      BY <1>4, <2>2, <3>2 DEF Status
    <3>4. "trialing" \notin MayBecome[Status]
      BY <3>3 DEF MayBecome, Statuses
    <3>5. SUFFICES ASSUME s = "trialing", NEW d \in 1 .. n
                   PROVE  sent[d].status \in {"none", "trialing"}
      OBVIOUS
    <3>6. Status = "trialing"
      BY <1>1, <2>2, <3>4, <3>5 DEF EventKinds
    <3>7. CASE d \notin Told
      BY <3>7 DEF Told
    <3>8. CASE d \in Told
      <4>1. d = t \/ d \in 1 .. t - 1
        BY <3>2, <3>8
      <4>2. QED
        BY <3>2, <3>3, <3>6, <4>1 DEF TrialFirst
    <3>9. QED
      BY <3>7, <3>8
  <2>3. QED
    BY <2>1, <2>2
<1>6. TrialFirst'
  <2>1. SUFFICES ASSUME NEW e \in 1 .. n + 1, sent'[e].status = "trialing", NEW d \in 1 .. e - 1
                 PROVE  sent'[d].status \in {"none", "trialing"}
    BY <1>3 DEF TrialFirst
  <2>2. d \in 1 .. n /\ sent'[d] = sent[d]
    BY <1>3, <2>1
  <2>3. CASE e = n + 1
    BY <1>2, <1>3, <1>5, <2>1, <2>2, <2>3
  <2>4. CASE e \in 1 .. n
    BY <1>3, <2>1, <2>2, <2>4 DEF TrialFirst
  <2>5. QED
    BY <1>3, <2>3, <2>4
<1>7. QED
  BY <1>3, <1>6

(* An event that is linked has a summary that says so.                     *)
LEMMA LinkSeen ==
    ASSUME EventTypes, "summary" \notin Faults, NEW e \in Events, data[e].stored,
           \A d \in Events : Seen(d), LinkEvent(e)
    PROVE  /\ data'[e].stored /\ data'[e].linked /\ summary'[e] = "linked"
           /\ \A d \in Events \ {e} : data'[d] = data[d] /\ summary'[d] = summary[d]
<1>1. CASE data[e].linked
  BY <1>1 DEF LinkEvent, Seen, SummaryOf
<1>2. CASE ~data[e].linked
  <2>1. data' = [data EXCEPT ![e].linked = TRUE] /\ summary' = [summary EXCEPT ![e] = "linked"]
    BY <1>2 DEF LinkEvent, Summarise, SummaryOf
  <2>2. QED
    BY <2>1 DEF EventTypes, DataRecords
<1>3. QED
  BY <1>1, <1>2

(* What a step does to the events: only Stripe adds some, and only a new   *)
(* delivery stores one.                                                    *)
LEMMA SeenNext ==
    ASSUME RenewalInv, NEW w, OneInOrder(w), EventsInv(w), [Next]_vars
    PROVE  /\ TrialFirst' /\ \A e \in Events : Seen(e)'
           /\ \A e \in Events : Due(e) => Due(e)'
           /\ \A e \in Events : data[e].stored => data'[e].stored
           /\ \/ \E e \in Events : Receive(w, e) \/ Fetch(w, e)
              \/ \A e \in Events : data'[e].stored => data[e].stored
<1> DEFINE Goal == /\ TrialFirst' /\ \A e \in Events : Seen(e)'
                   /\ \A e \in Events : Due(e) => Due(e)'
                   /\ \A e \in Events : data[e].stored => data'[e].stored
           Kept == \A e \in Events : data'[e].stored => data[e].stored
<1>0. /\ EventTypes /\ TrialFirst /\ (\A e \in Events : Seen(e)) /\ Delivering(w)
      /\ "summary" \notin Faults
  BY DEF RenewalInv, EventsInv, OneInOrder
<1>1. CASE Send
  <2>1. /\ TrialFirst' /\ Len(sent') = Len(sent) + 1 /\ Len(sent) \in Nat
        /\ \A e \in 1 .. Len(sent) : sent'[e] = sent[e]
    BY <1>0, <1>1, SendTrialFirst, SentTypes
  <2>2. UNCHANGED <<data, summary>>
    BY <1>1 DEF Send
  <2>3. \A e \in Events : Seen(e)'
    BY <1>0, <2>1, <2>2 DEF Seen, Events
  <2>4. \A e \in Events : Due(e) => Due(e)'
    <3>1. SUFFICES ASSUME NEW e \in Events, Due(e) PROVE Due(e)'
      OBVIOUS
    <3>2. e \in 1 .. Len(sent)
      BY <1>0, <2>1, <3>1 DEF Due, Seen, Events
    <3>3. QED
      BY <2>1, <2>2, <3>1, <3>2 DEF Due
  <2>5. QED
    BY <2>1, <2>2, <2>3, <2>4
<1>2. ASSUME NEW e \in Events, Receive(w, e) \/ Fetch(w, e) PROVE Goal
  <2>1. UNCHANGED sent /\ e <= Len(sent)
    BY <1>2 DEF Receive, Fetch, Accept
  <2>2. CASE data[e].stored
    <3>1. UNCHANGED <<data, summary>>
      BY <1>2, <2>2 DEF Receive, Fetch, Accept
    <3>2. QED
      BY <1>0, <2>1, <3>1 DEF TrialFirst, Seen, Due
  <2>3. CASE ~data[e].stored
    <3> DEFINE known == intent.known
    <3>1. /\ data' = [data EXCEPT ![e] = [NoData EXCEPT !.stored = TRUE, !.linked = known]]
          /\ summary' = [summary EXCEPT ![e] = SummaryOf(known)]
      BY <1>0, <1>2, <2>3 DEF Receive, Fetch, Accept, Summarise
    <3> HIDE DEF known
    <3>2. /\ data'[e].stored /\ data'[e].linked = known /\ summary'[e] = SummaryOf(known)
          /\ \A d \in Events \ {e} : data'[d] = data[d] /\ summary'[d] = summary[d]
      BY <1>0, <3>1 DEF EventTypes, NoData
    <3>3. ~Due(e)
      BY <1>0, <2>3 DEF Seen, Due
    <3>4. TrialFirst'
      BY <1>0, <2>1 DEF TrialFirst
    <3>5. \A d \in Events : Seen(d)'
      BY <1>0, <2>1, <3>2 DEF Seen
    <3>6. QED
      BY <2>1, <3>2, <3>3, <3>4, <3>5 DEF Due
  <2>4. QED
    BY <2>2, <2>3
<1>3. CASE LinkEvent(job[w].event) /\ job[w].at # "idle" /\ UNCHANGED sent
  <2>1. PICK e \in Events : e = job[w].event /\ data[e].stored
    BY <1>0, <1>3 DEF Delivering
  <2>2. /\ data'[e].stored /\ data'[e].linked /\ summary'[e] = "linked"
        /\ \A d \in Events \ {e} : data'[d] = data[d] /\ summary'[d] = summary[d]
    BY <1>0, <1>3, <2>1, LinkSeen
  <2>3. \A d \in Events : Seen(d)'
    BY <1>0, <1>3, <2>1, <2>2 DEF Seen, SummaryOf
  <2>4. TrialFirst'
    BY <1>0, <1>3 DEF TrialFirst
  <2>5. QED
    BY <1>3, <2>1, <2>2, <2>3, <2>4 DEF Due
<1>4. CASE Finish(w)
  <2>1. PICK e \in Events : e = job[w].event /\ data[e].stored
    BY <1>0, <1>4 DEF Delivering, Finish
  <2>2. /\ data' = [data EXCEPT ![e].handled = TRUE] /\ UNCHANGED sent
        /\ summary' = [summary EXCEPT ![e] = SummaryOf(data[e].linked)]
    BY <1>0, <1>4, <2>1 DEF Finish, Summarise
  <2>3. /\ data'[e].stored /\ data'[e].linked = data[e].linked
        /\ summary'[e] = summary[e]
        /\ \A d \in Events \ {e} : data'[d] = data[d] /\ summary'[d] = summary[d]
    BY <1>0, <2>1, <2>2 DEF EventTypes, DataRecords, Seen
  <2>4. \A d \in Events : Seen(d)'
    BY <1>0, <2>1, <2>2, <2>3 DEF Seen
  <2>5. TrialFirst'
    BY <1>0, <2>2 DEF TrialFirst
  <2>6. QED
    BY <2>1, <2>2, <2>3, <2>4, <2>5 DEF Due
<1>5. CASE UNCHANGED <<sent, data, summary>>
  BY <1>0, <1>5 DEF TrialFirst, Seen, Due
<1>6. CASE HandleInvoice(w) \/ HandleNotice(w) \/ HandleUpdated(w)
  <2>1. job[w].at # "idle" /\ UNCHANGED sent
    BY <1>6 DEF HandleInvoice, HandleNotice, HandleUpdated, Handling
  <2>2. LinkEvent(job[w].event) \/ UNCHANGED <<data, summary>>
    BY <1>6 DEF HandleInvoice, HandleNotice, HandleUpdated
  <2>3. QED
    BY <1>3, <1>5, <2>1, <2>2
<1>7. CASE ProcessRenewal(w) \/ MarkProcessed(w) \/ Failed(w)
  BY <1>5, <1>7 DEF ProcessRenewal, MarkProcessed, Failed
<1>8. CASE Handle(w)
  BY <1>4, <1>6, <1>7, <1>8 DEF Handle
<1>9. ASSUME NEW f \in Flows, Provision(f) PROVE UNCHANGED <<sent, data, summary>>
  BY <1>9 DEF Provision, TrackRenewal, rvars
<1>10. ~Populate
  BY <1>0 DEF Populate
<1>11. CASE UpdateLineItem /\ UNCHANGED rvars
  BY <1>5, <1>11 DEF rvars
<1>12. CASE UNCHANGED vars
  BY <1>5, <1>12 DEF vars, rvars
<1>13. (\E v \in Workers : Handle(v) \/ Failed(v) \/ \E e \in Events : Receive(v, e) \/ Fetch(v, e))
       => Handle(w) \/ Failed(w) \/ \E e \in Events : Receive(w, e) \/ Fetch(w, e)
  BY DEF OneInOrder
<1>14. QED
  BY <1>1, <1>2, <1>5, <1>7, <1>8, <1>9, <1>10, <1>11, <1>12, <1>13 DEF Next
(* What looks like the end of a trial is not preceded by a missed payment  *)
(* that is known, and what follows it is not known yet.                    *)
LEMMA TrialEndIsClean ==
    ASSUME RenewalInv, NEW w, OneInOrder(w), EventsInv(w), job[w].at # "idle",
           BecameActive(job[w].event)
    PROVE  NoneDue
<1>1. PICK e \in Events : /\ e = job[w].event /\ data[e].stored
                          /\ \A d \in Events : d > e => ~data[d].stored
  BY DEF EventsInv, Delivering
<1> DEFINE known == {d \in 1 .. e - 1 : summary[d] = "linked"}
<1>2. e \in Nat /\ Len(sent) \in Nat /\ e <= Len(sent)
  BY <1>1, SentTypes DEF RenewalInv, EventsInv, Seen, Events
<1>3. sent[e].status = "active" /\ PriorStatus(e) = "trialing"
  BY <1>1 DEF BecameActive
<1>4. known # {} /\ sent[Max(known)].status = "trialing"
  BY <1>3 DEF PriorStatus
<1>5. PICK m \in known : m = Max(known) /\ \A d \in known : d <= m
  <2>1. known \in SUBSET (1 .. e - 1) /\ e - 1 \in Nat
    BY <1>1, <1>2 DEF Events
  <2> HIDE DEF known
  <2>2. QED
    BY <1>4, <2>1, MaxIn
<1>6. SUFFICES ASSUME NEW d \in Events, Due(d) PROVE FALSE
  BY DEF NoneDue
<1>7. data[d].stored /\ d \in Nat /\ d >= 1
  BY <1>6 DEF EventsInv, Seen, Due, Events
<1>8. d <= e /\ d # e
  BY <1>1, <1>2, <1>3, <1>6, <1>7 DEF Due
<1>9. d \in known
  BY <1>2, <1>6, <1>7, <1>8 DEF Due
<1>10. m \in 1 .. Len(sent) /\ (d = m \/ d \in 1 .. m - 1)
  BY <1>2, <1>5, <1>7, <1>9
<1>11. QED
  BY <1>4, <1>5, <1>6, <1>10 DEF Due, EventsInv, TrialFirst

LEMMA DeliveringNext ==
    ASSUME RenewalInv, NEW w, OneInOrder(w), EventsInv(w), RanInv(w), [Next]_vars
    PROVE  Delivering(w)'
<1>0. /\ w \in Workers /\ EventTypes /\ RowTypes /\ Delivering(w) /\ (\A e \in Events : Seen(e))
      /\ "summary" \notin Faults
  BY DEF OneInOrder, RenewalInv, EventsInv
<1>1. ASSUME NEW e \in Events, Receive(w, e) \/ Fetch(w, e) PROVE Delivering(w)'
  <2>1. Ordered(e) /\ Accept(w, e)
    BY <1>1 DEF Receive, Fetch, OneInOrder
  <2>2. job'[w].at = "handle" /\ job'[w].event = e
    BY <1>0, <2>1 DEF Accept, RowTypes
  <2>3. data'[e].stored /\ \A d \in Events \ {e} : data'[d] = data[d]
    BY <1>0, <2>1 DEF Accept, EventTypes, NoData
  <2>4. \A d \in Events : d > e => ~data[d].stored /\ d # e
    BY <2>1 DEF Ordered, Events
  <2>5. QED
    BY <2>2, <2>3, <2>4 DEF Delivering
<1>2. /\ \A e \in Events : data[e].stored => data'[e].stored
      /\ \/ \E e \in Events : Receive(w, e) \/ Fetch(w, e)
         \/ \A e \in Events : data'[e].stored => data[e].stored
  BY SeenNext
<1>3. SUFFICES ASSUME \A e \in Events : data'[e].stored <=> data[e].stored
               PROVE  Delivering(w)'
  BY <1>1, <1>2
<1>4. CASE job'[w].at = "idle"
  BY <1>4 DEF Delivering
<1>5. CASE job[w].at # "idle" /\ job'[w].event = job[w].event /\ job'[w].at # "process"
  BY <1>0, <1>3, <1>5 DEF Delivering
<1>6. CASE UNCHANGED <<job, summary>> /\ \A e \in Events : e <= Len(sent) => sent'[e] = sent[e]
  <2>1. SUFFICES ASSUME job[w].at # "idle" PROVE Delivering(w)'
    BY <1>4, <1>6
  <2>2. CASE job[w].at # "process"
    BY <1>5, <1>6, <2>1, <2>2
  <2>3. CASE job[w].at = "process"
    <3>1. NoneDue /\ row[job[w].pair].nth > 0 /\ job[w].pair \in Pairs
      BY <1>0, <2>3 DEF Delivering, RanInv
    <3>2. NoneDue'
      <4>1. SUFFICES ASSUME NEW e \in Events, Due(e)' PROVE FALSE
        BY DEF NoneDue
      <4>2. summary[e] = "linked" /\ e <= Len(sent)
        BY <1>0, <1>6, <4>1 DEF Due, Seen
      <4>3. Due(e)
        BY <1>6, <4>1, <4>2 DEF Due
      <4>4. QED
        BY <3>1, <4>3 DEF NoneDue
    <3>3. PICK r \in Pairs : r = job[w].pair /\ row[r].nth > 0
      BY <3>1
    <3>4. row'[r].nth > 0
      BY <3>3, RowsGrow
    <3>5. QED
      BY <1>0, <1>3, <1>6, <3>2, <3>3, <3>4 DEF Delivering
  <2>4. QED
    BY <2>2, <2>3
<1>7. CASE Raise(w) \/ Finish(w)
  <2>1. job'[w] = Idle
    BY <1>0, <1>7 DEF Raise, Finish, RowTypes
  <2>2. QED
    BY <1>4, <2>1 DEF Idle
<1>8. CASE (Return(w) \/ job' = [job EXCEPT ![w].at = "mark"]) /\ job[w].at # "idle"
  <2>1. job'[w].event = job[w].event /\ job'[w].at # "process"
    BY <1>0, <1>8 DEF Return, RowTypes, Jobs
  <2>2. QED
    BY <1>5, <1>8, <2>1
<1>9. CASE HandleUpdated(w)
  <2>1. job[w].at = "handle" /\ LinkEvent(job[w].event) /\ UNCHANGED sent
    BY <1>9 DEF HandleUpdated, Handling
  <2>2. CASE Raise(w) \/ Return(w)
    BY <1>7, <1>8, <2>1, <2>2
  <2>3. CASE StartRenewal(w) /\ BecameActive(job[w].event) /\ ~(Raise(w) \/ Return(w))
    <3>1. PICK e \in Events : e = job[w].event /\ data[e].stored
      BY <1>0, <2>1 DEF Delivering
    <3>2. NoneDue
      BY <2>1, <2>3, TrialEndIsClean
    <3>3. \A d \in Events \ {e} : summary'[d] = summary[d]
      BY <1>0, <2>1, <3>1, LinkSeen
    <3>4. NoneDue'
      BY <2>1, <2>3, <3>1, <3>2, <3>3 DEF NoneDue, Due, BecameActive
    <3>5. PICK r \in Pairs : r = Latest(Unprocessed) /\ row[r].nth > 0
      <4>1. Unprocessed # {} /\ Unprocessed \in SUBSET Pairs
        BY <2>3 DEF StartRenewal, Unprocessed
      <4>2. Latest(Unprocessed) \in Unprocessed
        BY <1>0, <4>1, LatestIn
      <4>3. QED
        BY <4>2 DEF Unprocessed
    <3>6. job' = [job EXCEPT ![w].at = "process", ![w].pair = r]
      BY <2>3, <3>5 DEF StartRenewal
    <3>7. job'[w].event = e /\ job'[w].pair = r
      BY <1>0, <3>1, <3>6 DEF RowTypes, Jobs
    <3>8. row'[r].nth > 0
      BY <3>5, RowsGrow
    <3>9. QED
      BY <1>0, <1>3, <2>1, <3>1, <3>4, <3>7, <3>8 DEF Delivering
  <2>4. QED
    BY <1>9, <2>2, <2>3 DEF HandleUpdated, CancelPlans
<1>10. CASE HandleInvoice(w) \/ HandleNotice(w) \/ ProcessRenewal(w) \/ MarkProcessed(w) \/ Failed(w)
  <2>1. \/ Raise(w)
        \/ (Return(w) \/ job' = [job EXCEPT ![w].at = "mark"]) /\ job[w].at # "idle"
    BY <1>10 DEF HandleInvoice, HandleNotice, ProcessRenewal, MarkProcessed, Failed, Handling
  <2>2. QED
    BY <1>7, <1>8, <2>1
<1>11. CASE Handle(w)
  BY <1>7, <1>9, <1>10, <1>11 DEF Handle
<1>12. CASE Send
  <2>1. UNCHANGED <<job, summary>> /\ \A e \in 1 .. Len(sent) : sent'[e] = sent[e]
    BY <1>0, <1>12, SendTrialFirst DEF Send, EventsInv
  <2>2. QED
    BY <1>0, <1>6, <2>1, SentTypes DEF Events
<1>13. ASSUME NEW f \in Flows, Provision(f) PROVE UNCHANGED <<job, sent, summary>>
  BY <1>13 DEF Provision, TrackRenewal, rvars
<1>14. UpdateLineItem /\ UNCHANGED rvars => UNCHANGED <<job, sent, summary>>
  BY DEF rvars
<1>15. UNCHANGED vars => UNCHANGED <<job, sent, summary>>
  BY DEF vars, rvars
<1>16. (\E v \in Workers : Handle(v) \/ Failed(v) \/ \E e \in Events : Receive(v, e) \/ Fetch(v, e))
       => Handle(w) \/ Failed(w) \/ \E e \in Events : Receive(w, e) \/ Fetch(w, e)
  BY DEF OneInOrder
<1>17. QED
  BY <1>0, <1>1, <1>6, <1>10, <1>11, <1>12, <1>13, <1>14, <1>15, <1>16 DEF Next, Populate

(* Only a missed payment deactivates plans, and new ones are active.       *)
LEMMA PlansStay ==
    ASSUME RenewalInv, NEW w, OneInOrder(w), [Next]_vars
    PROVE  \/ HandleUpdated(w) /\ CancelPlans(w) /\ BecamePastDue(job[w].event)
           \/ \A p \in MadePlans' : (p \in MadePlans => plan[p].active) => plan'[p].active
<1> DEFINE Stay == \A p \in MadePlans' : (p \in MadePlans => plan[p].active) => plan'[p].active
<1>1. UNCHANGED plan => Stay
  BY DEF MadePlans
<1>2. ASSUME NEW f \in Flows, NEW k \in {"trial", "paid"}, MakePlan(f, k) PROVE Stay
  <2>1. PICK q \in Plans \ MadePlans :
          plan' = [plan EXCEPT ![q] = [made |-> TRUE, item |-> Wanted[k], active |-> TRUE]]
    BY <1>2 DEF MakePlan, NewPlan
  <2>2. plan'[q].active /\ \A p \in Plans \ {q} : plan'[p] = plan[p]
    BY <2>1 DEF RenewalInv, ProvInv, ProvTypeOK
  <2>3. QED
    BY <2>1, <2>2 DEF MadePlans
<1>3. UpdateLineItem => Stay
  BY DEF UpdateLineItem, MadePlans, RenewalInv, ProvInv, ProvTypeOK, PlanRecords
<1>4. ASSUME NEW f \in Flows, Provision(f), \A k \in {"trial", "paid"} : ~MakePlan(f, k)
      PROVE  UNCHANGED plan
  BY <1>4 DEF Provision, FlowStep, CustomerStep, CatalogStep, AgreementStep, Submit, LookUp,
     Create, FindPlan, Link, MakeAdmins, MakeRenewal, Notify, Fail, TrackRenewal, Track
<1>5. Send \/ Populate => UNCHANGED plan
  BY DEF Send, Populate, pvars
<1>6. ASSUME ~CancelPlans(w) \/ ~BecamePastDue(job[w].event), HandleUpdated(w)
      PROVE  UNCHANGED plan
  BY <1>6 DEF HandleUpdated, pvars
<1>7. HandleInvoice(w) => UNCHANGED plan
  BY DEF HandleInvoice, MarkAsPaid, pvars
<1>8. ASSUME \/ HandleNotice(w) \/ ProcessRenewal(w) \/ MarkProcessed(w) \/ Finish(w)
             \/ Failed(w) \/ \E e \in Events : Receive(w, e) \/ Fetch(w, e)
      PROVE  UNCHANGED plan
  BY <1>8 DEF HandleNotice, ProcessRenewal, MarkProcessed, Finish, Failed, Receive, Fetch,
     Accept, pvars
<1>9. UNCHANGED vars => UNCHANGED plan
  BY DEF vars, pvars
<1>10. (\E v \in Workers : Handle(v) \/ Failed(v) \/ \E e \in Events : Receive(v, e) \/ Fetch(v, e))
       => Handle(w) \/ Failed(w) \/ \E e \in Events : Receive(w, e) \/ Fetch(w, e)
  BY DEF OneInOrder
<1> HIDE DEF Stay
<1>11. CASE Handle(w)
  BY <1>1, <1>6, <1>7, <1>8, <1>11 DEF Handle, Stay
<1>12. QED
  BY <1>1, <1>2, <1>3, <1>4, <1>5, <1>8, <1>9, <1>10, <1>11 DEF Next, Stay
LEMMA PlansNext ==
    ASSUME RenewalInv, NEW w, OneInOrder(w), EventsInv(w), RanInv(w), PlansInv,
           LeadsInv, MadeOnce, [Next]_vars
    PROVE  PlansInv'
<1>0. /\ w \in Workers /\ EventTypes /\ RowTypes /\ ProvInv /\ Delivering(w)
      /\ (\A e \in Events : Seen(e))
      /\ {"summary", "unprocessed"} \cap Faults = {} /\ RenewalLeadsOn
  BY DEF OneInOrder, RenewalInv, EventsInv, LeadsInv
<1>1. ProvNext \/ UNCHANGED pvars
  BY ProvisioningStep DEF RenewalInv, vars
<1>2. renewals \subseteq renewals'
  BY <1>0, <1>1, ProvGrows DEF ProvInv, Grows, pvars
<1> DEFINE Cancels == HandleUpdated(w) /\ CancelPlans(w) /\ BecamePastDue(job[w].event)
<1>3. Cancels \/ \A p \in MadePlans' : (p \in MadePlans => plan[p].active) => plan'[p].active
  BY PlansStay
<1>4. Cancels => ~NoneDue'
  <2>1. SUFFICES ASSUME Cancels PROVE ~NoneDue'
    OBVIOUS
  <2>2. PICK e \in Events : e = job[w].event /\ data[e].stored
    BY <1>0, <2>1 DEF HandleUpdated, Handling, Delivering
  <2>3. summary'[e] = "linked" /\ UNCHANGED sent
    BY <1>0, <2>1, <2>2, LinkSeen DEF HandleUpdated
  <2>4. sent[e].status = "past_due"
    BY <2>1, <2>2 DEF BecamePastDue
  <2>5. QED
    BY <2>3, <2>4 DEF NoneDue, Due
<1> HIDE DEF Cancels
<1>5. NoneDue' => \A p \in MadePlans' : plan'[p].active
  <2>1. SUFFICES ASSUME NoneDue' PROVE \A p \in MadePlans' : plan'[p].active
    OBVIOUS
  <2>2. \A e \in Events : Due(e) => Due(e)'
    BY SeenNext
  <2>3. NoneDue
    BY <2>1, <2>2 DEF NoneDue
  <2>4. QED
    BY <1>3, <1>4, <2>1, <2>3 DEF PlansInv
<1>6. ASSUME NEW r \in Pairs, row'[r].nth > 0 PROVE r \in renewals'
  <2>1. ASSUME NEW f \in Flows, TrackRenewal(f) PROVE r \in renewals'
    <3>1. CASE r = Pair(f)
      BY <1>0, <1>2, <2>1, <3>1 DEF TrackRenewal, Track, ProvInv, Knows
    <3>2. CASE r # Pair(f)
      BY <1>0, <1>2, <1>6, <2>1, <3>2, TrackType DEF PlansInv
    <3>3. QED
      BY <3>1, <3>2
  <2>2. QED
    BY <1>0, <1>2, <1>6, <2>1, RowsStay DEF PlansInv
<1>7. \A r \in Pairs : row[r].nth > 0 => r[2] \in MadePlans
  BY <1>0 DEF PlansInv, RenewalLeadsOn, MadePlans, Pairs
<1>8. ASSUME NEW p \in MadePlans', plan'[p].item = "trial" PROVE plan'[p].active
  <2>1. p \in MadePlans => plan[p].item = "trial" /\ plan[p].active
    <3>1. SUFFICES ASSUME p \in MadePlans PROVE plan[p].item = "trial"
      BY DEF PlansInv
    <3>2. TrialsStay
      <4>1. CASE ProvNext
        BY <1>0, <4>1, TrialsStayNext
      <4>2. CASE UNCHANGED pvars
        BY <4>2 DEF TrialsStay, OnTrial, OffTrial, MadePlans, pvars
      <4>3. QED
        BY <1>1, <4>1, <4>2
    <3>3. QED
      BY <1>8, <3>1, <3>2 DEF TrialsStay, OffTrial, MadePlans
  <2>2. CASE ~Cancels
    BY <1>3, <2>1, <2>2
  <2>3. CASE Cancels
    <3> DEFINE P == {q[2] : q \in Unprocessed}
    <3>1. UNCHANGED plan \/ \E Q \in SUBSET P : Deactivate(Q)
      BY <2>3 DEF Cancels, CancelPlans, pvars
    <3>2. p \notin P
      <4>1. SUFFICES ASSUME NEW q \in Unprocessed, p = q[2] PROVE FALSE
        OBVIOUS
      <4>2. q \in renewals /\ p \in MadePlans
        BY <1>7, <4>1 DEF PlansInv, Unprocessed
      <4>3. QED
        BY <1>0, <2>1, <4>1, <4>2 DEF RenewalLeadsOn
    <3> HIDE DEF P
    <3>3. plan'[p] = plan[p] /\ p \in MadePlans
      BY <3>1, <3>2 DEF Deactivate, MadePlans
    <3>4. QED
      BY <2>1, <3>3
  <2>4. QED
    BY <2>2, <2>3
<1>9. ASSUME NEW r \in Pairs, ran[r] > 0 PROVE row'[r].nth > 0 /\ plan'[r[2]].active
  <2>1. row[r].nth > 0 /\ plan[r[2]].active
    BY <1>9 DEF PlansInv
  <2>2. row'[r].nth > 0
    BY <2>1, RowsGrow
  <2>3. r[2] \in MadePlans /\ r[2] \in MadePlans'
    <3>1. r[2] \in MadePlans
      BY <1>7, <2>1
    <3>2. QED
      BY <1>0, <1>1, <3>1, ProvGrows DEF ProvInv, Grows, pvars, MadePlans
  <2>4. CASE ~Cancels
    BY <1>3, <2>1, <2>2, <2>3, <2>4
  <2>5. CASE Cancels
    <3> DEFINE P == {q[2] : q \in Unprocessed}
    <3>1. row[r].done
      <4>1. job[w].at = "handle"
        BY <2>5 DEF Cancels, HandleUpdated, Handling
      <4>2. QED
        BY <1>0, <1>9, <4>1 DEF RanInv, Recorded, RowTypes
    <3>2. r[2] \notin P
      <4>1. SUFFICES ASSUME NEW q \in Unprocessed, q[2] = r[2] PROVE FALSE
        OBVIOUS
      <4>2. q \in Pairs /\ row[q].nth > 0 /\ ~row[q].done
        BY <4>1 DEF Unprocessed
      <4>3. q \in renewals /\ r \in renewals
        BY <2>1, <4>2 DEF PlansInv
      <4>4. /\ q[1] \in MadePlans /\ plan[q[1]].item = "trial"
            /\ r[1] \in MadePlans /\ plan[r[1]].item = "trial"
        BY <1>0, <4>2, <4>3 DEF RenewalLeadsOn, MadePlans, Pairs
      <4>5. q[1] = r[1]
        BY <4>4 DEF MadeOnce, ActivePlans, PlansInv
      <4>6. q = r
        BY <4>1, <4>2, <4>5 DEF Pairs
      <4>7. QED
        BY <3>1, <4>2, <4>6
    <3>3. UNCHANGED plan \/ \E Q \in SUBSET P : Deactivate(Q)
      BY <2>5 DEF Cancels, CancelPlans, pvars
    <3> HIDE DEF P
    <3>4. plan'[r[2]] = plan[r[2]]
      BY <2>3, <3>2, <3>3 DEF Deactivate, MadePlans
    <3>5. QED
      BY <2>1, <2>2, <3>4
  <2>6. QED
    BY <2>4, <2>5
<1>10. CASE UNCHANGED ran
  BY <1>5, <1>6, <1>8, <1>9, <1>10 DEF PlansInv
<1>11. CASE ProcessRenewal(w)
  <2>1. PICK r \in Pairs : r = job[w].pair /\ row[r].nth > 0 /\ NoneDue
    BY <1>0, <1>11 DEF ProcessRenewal, RanInv, Delivering
  <2>2. plan[r[2]].active
    BY <1>7, <2>1 DEF PlansInv
  <2>3. \A q \in Pairs : q # r => ran'[q] = ran[q]
    BY <1>0, <1>11, <2>1 DEF ProcessRenewal, RowTypes
  <2>4. UNCHANGED <<row, plan>>
    BY <1>11 DEF ProcessRenewal, pvars
  <2>5. QED
    BY <1>5, <1>6, <1>8, <1>9, <2>1, <2>2, <2>3, <2>4 DEF PlansInv
<1>12. ASSUME NEW v \in Workers, ~ProcessRenewal(v), Handle(v) PROVE UNCHANGED ran
  BY <1>12 DEF Handle, HandleInvoice, HandleNotice, HandleUpdated, MarkProcessed, Finish
<1>13. ASSUME NEW v \in Workers, Failed(v) \/ \E e \in Events : Receive(v, e) \/ Fetch(v, e)
       PROVE  UNCHANGED ran
  BY <1>13 DEF Failed, Receive, Fetch, Accept
<1>14. ASSUME NEW f \in Flows, Provision(f) PROVE UNCHANGED ran
  BY <1>14 DEF Provision, TrackRenewal, rvars
<1>15. \A v \in Workers : v = w
  BY DEF OneInOrder
<1>16. QED
  BY <1>10, <1>11, <1>12, <1>13, <1>14, <1>15 DEF Next, Send, Populate, vars, rvars

(* A renewal that was processed leads to an active plan: with one workflow *)
(* of the customer at a time and events handled singly and in their order, *)
(* whose summaries and processing calls are not lost, no missed payment    *)
(* takes the plan of a renewal that was, or will be, processed.            *)
THEOREM ProcessedIsActiveTheorem ==
    ASSUME NEW w, OneInOrder(w), Parallel = 1
    PROVE  Spec => []ProcessedIsActive
<1>1. Init => EventsInv(w) /\ RanInv(w) /\ PlansInv
  <2>1. SUFFICES ASSUME Init PROVE EventsInv(w) /\ RanInv(w) /\ PlansInv
    OBVIOUS
  <2>2. job[w] = Idle /\ Len(sent) = 0
    BY <2>1 DEF Init, OneInOrder
  <2>3. EventsInv(w) /\ RanInv(w)
    BY <2>1, <2>2 DEF Init, EventsInv, TrialFirst, Seen, Delivering, RanInv, NoData, Idle
  <2>4. MadePlans = {}
    BY <2>1 DEF Init, ProvInit, MadePlans, NoPlanYet
  <2>5. PlansInv
    BY <2>1, <2>4 DEF Init, PlansInv, NoRow
  <2>6. QED
    BY <2>3, <2>5
<1>2. /\ RenewalInv /\ EventsInv(w) /\ RanInv(w) /\ PlansInv /\ LeadsInv /\ MadeOnce
      /\ [Next]_vars
      => EventsInv(w)' /\ RanInv(w)' /\ PlansInv'
  <2>1. SUFFICES ASSUME RenewalInv, EventsInv(w), RanInv(w), PlansInv, LeadsInv, MadeOnce,
                        [Next]_vars
                 PROVE  EventsInv(w)' /\ RanInv(w)' /\ PlansInv'
    OBVIOUS
  <2>2. EventsInv(w)'
    <3>1. TrialFirst' /\ \A e \in Events : Seen(e)'
      BY <2>1, SeenNext
    <3>2. Delivering(w)'
      BY <2>1, DeliveringNext
    <3>3. QED
      BY <3>1, <3>2 DEF EventsInv
  <2>3. RanInv(w)'
    BY <2>1, RanNext DEF OneInOrder
  <2>4. PlansInv'
    BY <2>1, PlansNext
  <2>5. QED
    BY <2>2, <2>3, <2>4
<1>3. PlansInv => ProcessedIsActive
  BY DEF PlansInv, ProcessedIsActive
<1>4. Spec => [](LeadsInv /\ MadeOnce)
  <2>1. Spec => []MadeOnce
    BY MadeOnceTheorem
  <2>2. QED
    BY <2>1, LeadsAlways, RenewalImplementsProvisioning, PTL DEF ImplementsProvisioning
<1>5. QED
  BY <1>1, <1>2, <1>3, <1>4, RenewalAlways, PTL DEF Spec

=============================================================================
