--------------------------- MODULE CheckoutIntent ---------------------------
(***************************************************************************)
(* The checkout intents of customer_billing: one row per user that reserves*)
(* an enterprise slug, is paid for, and is fulfilled by a provisioning     *)
(* workflow.  The row is written by the create endpoint, the PATCH         *)
(* endpoint, the invoice.paid handler, two cron commands, an admin action  *)
(* and the steps of ProvisionNewCustomerWorkflow.                          *)
(*                                                                         *)
(* What the code decides and the model keeps:                              *)
(*   - nobody locks a row: every writer reads it, decides, and saves later,*)
(*     so a job is a read step followed by a save step (Overlap lets other *)
(*     jobs run in between);                                               *)
(*   - what a save stores: the whole row as it was read (create, PATCH,    *)
(*     the workflow steps) or only its state (payment, the two commands);  *)
(*   - the transition table is consulted by PATCH and by mark_as_paid()    *)
(*     only; the commands filter by state, the workflow steps do not look. *)
(*                                                                         *)
(* The enterprise name always changes together with the slug and is left   *)
(* out; Stripe identifiers, country, terms and quantity decide no          *)
(* transition between different states and are left out too.               *)
(***************************************************************************)
CONSTANTS
    Users,          \* each has at most one intent (a OneToOneField)
    Slugs,          \* the enterprise slugs requested
    Flows,          \* the provisioning workflows, each executed by one request
    Workers,        \* the processes that run the other jobs
    SlugOf,         \* SlugOf[f]: the slug workflow f is asked to provision
    NoSlug,         \* the row reserves no slug
    NoFlow,         \* the row is linked to no workflow
    Overlap,        \* may a job run between another one's read and save?
    Kinds           \* which of the optional writers run: "patch", "admin"

ASSUME CheckoutAssumption ==
    /\ SlugOf \in [Flows -> Slugs]
    /\ NoSlug \notin Slugs
    /\ NoFlow \notin Flows
    /\ Workers \cap Flows = {}
    /\ Overlap \in BOOLEAN
    /\ Kinds \subseteq {"patch", "admin"}

VARIABLES
    intent,         \* intent[u]: the row of user u; its state is "none" before
    lapsed,         \* users whose row has an expires_at that is past
    stale,          \* users whose paid row was not saved for too long
    job,            \* job[j]: what process j has read and is about to save
    phase           \* phase[f]: how far workflow f has come

vars == <<intent, lapsed, stale, job, phase>>

Procs == Workers \cup Flows

Errored == {"errored_backoffice", "errored_stalled", "errored_provisioning"}
Success == {"paid", "fulfilled"}
Settled == Success \cup Errored             \* somebody has paid for these
NonExpired == Settled \cup {"created"}
Stored == NonExpired \cup {"expired"}
Rows == [state : Stored \cup {"none"},
         slug : Slugs \cup {NoSlug},
         workflow : Flows \cup {NoFlow}]

(* ALLOWED_CHECKOUT_INTENT_STATE_TRANSITIONS; keeping a state is valid.    *)
Allowed(s) ==
    {s} \cup CASE s = "created" -> {"paid", "expired"}
               [] s = "paid"    -> Errored \cup {"fulfilled"}
               [] s \in Errored -> {"fulfilled"}
               [] s = "expired" -> {"created"}
               [] OTHER         -> {}
Fulfillable == {s \in Stored \ {"fulfilled"} : "fulfilled" \in Allowed(s)}

Nothing == [state |-> "none", slug |-> NoSlug, workflow |-> NoFlow]
Idle == [op |-> "idle", users |-> {}, row |-> Nothing, expiring |-> {}, late |-> {}]
Renewals == {"insert", "update"}            \* jobs that set expires_at
Jobs == [op : {"idle", "insert", "update", "cleanup", "stall", "pay", "patch",
               "link", "error", "fulfill"},
         users : SUBSET Users, row : Rows, expiring : SUBSET Users, late : SUBSET Users]

Init ==
    /\ intent = [u \in Users |-> Nothing]
    /\ lapsed = {}
    /\ stale = {}
    /\ job = [j \in Procs |-> Idle]
    /\ phase = [f \in Flows |-> "started"]

-----------------------------------------------------------------------------
(* A PATCH that writes a reservation does not move its expires_at, even if *)
(* that is past already.                                                   *)
Late(op, users, row) ==
    IF op = "patch" /\ row.state = "created" THEN users \cap lapsed ELSE {}

(* Process j starts a job.                                                 *)
Begin(j, op, users, row, expiring) ==
    /\ job[j] = Idle
    /\ Overlap \/ \A k \in Procs : job[k] = Idle
    /\ job' = [job EXCEPT ![j] = [op |-> op, users |-> users, row |-> row,
                                  expiring |-> expiring,
                                  late |-> Late(op, users, row)]]
    /\ UNCHANGED <<intent, lapsed, stale, phase>>

(* The save of a job: its users get the whole row, or only its state.  Only*)
(* create_intent() sets a new expires_at; a whole row brings back the one  *)
(* that it was read with.  Every save() restarts the clock of a paid row,  *)
(* and a row that is not paid has none.                                    *)
Save(j, whole) ==
    LET todo == job[j] IN
    /\ intent' = [u \in Users |->
            IF u \in todo.users
            THEN IF whole THEN todo.row ELSE [intent[u] EXCEPT !.state = todo.row.state]
            ELSE IF u \in todo.expiring THEN [intent[u] EXCEPT !.state = "expired"]
            ELSE intent[u]]
    /\ lapsed' = (lapsed \ IF todo.op \in Renewals THEN todo.users ELSE {}) \cup todo.late
    /\ stale' = stale \ (todo.users \cup todo.expiring)
    /\ job' = [job EXCEPT ![j] = Idle]

(* The unique columns: one row per user, one row per workflow.             *)
Storable(j) ==
    /\ job[j].op = "insert" => \A u \in job[j].users : intent[u].state = "none"
    /\ \A u \in job[j].users, v \in Users \ job[j].users :
            job[j].row.workflow # NoFlow => intent[v].workflow # job[j].row.workflow

Lapsed == {u \in lapsed : intent[u].state = "created"}
Stalled == {u \in stale : intent[u].state = "paid"}

-----------------------------------------------------------------------------
(* create_intent(), one transaction: it expires the lapsed rows, refuses a *)
(* user whose intent failed and a slug that is taken (both roll back), and *)
(* reserves.  For an intent that is paid or fulfilled only the clean-up is *)
(* committed.  A slug that does not change is not checked again.           *)
Cleaned(u) ==
    IF u \in Lapsed THEN [intent[u] EXCEPT !.state = "expired"] ELSE intent[u]

CanReserve(s, u) ==
    \A v \in Users \ {u} :
        Cleaned(v).slug = s => Cleaned(v).state \notin NonExpired

ReadIntent(w, u, s) ==
    LET row == Cleaned(u)
        kept == s \in {NoSlug, row.slug}
    IN  \/ /\ row.state \in {"none", "created", "expired"}
           /\ kept \/ CanReserve(s, u)
           /\ Begin(w, IF row.state = "none" THEN "insert" ELSE "update", {u},
                    [row EXCEPT !.state = "created",
                                !.slug = IF kept THEN row.slug ELSE s],
                    Lapsed)
        \/ /\ row.state \in Success
           /\ Begin(w, "cleanup", {}, Nothing, Lapsed)

SaveIntent(w) ==
    /\ job[w].op \in {"insert", "update"}
    /\ Storable(w)
    /\ Save(w, TRUE)
    /\ UNCHANGED phase

(* Mutant: only reservations of a slug are cleaned up.                     *)
FindExpiredMutant(w) ==
    /\ \E u \in Lapsed : intent[u].slug # NoSlug
    /\ Begin(w, "cleanup", {}, Nothing, Lapsed)

(* cleanup_expired(), run by a command and by create_intent().             *)
FindExpired(w) ==
    /\ Lapsed # {}
    /\ Begin(w, "cleanup", {}, Nothing, Lapsed)

SaveExpired(w) ==
    /\ job[w].op = "cleanup"
    /\ Save(w, FALSE)
    /\ UNCHANGED phase

(* Mutant: only an intent that a workflow has taken up counts as stalled.  *)
FindStalledMutant(w) ==
    /\ \E u \in Stalled : intent[u].workflow # NoFlow
    /\ Begin(w, "stall", Stalled, [Nothing EXCEPT !.state = "errored_stalled"], {})

(* mark_stalled_fulfillment_intents(): all rows are read, then each of them*)
(* is saved by itself.                                                     *)
FindStalled(w) ==
    /\ Stalled # {}
    /\ Begin(w, "stall", Stalled, [Nothing EXCEPT !.state = "errored_stalled"], {})

Remaining(todo, u) ==
    IF todo.users = {u} THEN Idle ELSE [todo EXCEPT !.users = todo.users \ {u}]

SaveStalled(w, u) ==
    /\ job[w].op = "stall"
    /\ u \in job[w].users
    /\ intent' = [intent EXCEPT ![u].state = "errored_stalled"]
    /\ stale' = stale \ {u}
    /\ job' = [job EXCEPT ![w] = Remaining(job[w], u)]
    /\ UNCHANGED <<lapsed, phase>>

(* The invoice.paid handler and mark_as_paid(): when the table forbids the *)
(* transition the event is dropped or fails, and nothing is saved.         *)
ReadForPayment(w, u) ==
    /\ intent[u].state # "none"
    /\ "paid" \in Allowed(intent[u].state)
    /\ Begin(w, "pay", {u}, [Nothing EXCEPT !.state = "paid"], {})

SavePaid(w) ==
    /\ job[w].op = "pay"
    /\ Save(w, FALSE)
    /\ UNCHANGED phase

(* The PATCH endpoint: validate_state(), then the serializer's save().     *)
ReadForPatch(w, u, s) ==
    /\ "patch" \in Kinds
    /\ intent[u].state # "none"
    /\ s \in Allowed(intent[u].state)
    /\ Begin(w, "patch", {u}, [intent[u] EXCEPT !.state = s], {})

SavePatch(w) ==
    /\ job[w].op = "patch"
    /\ Storable(w)
    /\ Save(w, TRUE)
    /\ UNCHANGED phase

(* The admin action mark_as_expired: one UPDATE, whatever the states are.  *)
MarkAsExpired(u) ==
    /\ "admin" \in Kinds
    /\ intent[u].state # "none"
    /\ Overlap \/ \A k \in Procs : job[k] = Idle
    /\ intent' = [intent EXCEPT ![u].state = "expired"]
    /\ stale' = stale \ {u}
    /\ UNCHANGED <<lapsed, job, phase>>

-----------------------------------------------------------------------------
(* Mutant: an intent that is fulfilled already is linked.                  *)
ReadForLinkTwiceMutant(f, u) ==
    /\ phase[f] = "started"
    /\ intent[u].slug = SlugOf[f]
    /\ intent[u].state \in Fulfillable \cup {"fulfilled"}
    /\ Begin(f, "link", {u}, [intent[u] EXCEPT !.workflow = f], {})

(* ProvisionNewCustomerWorkflow.  Its first step links an intent that has  *)
(* the slug and can be fulfilled (.first(): any of them); without one the  *)
(* workflow ends.                                                          *)
ReadForLink(f, u) ==
    /\ phase[f] = "started"
    /\ intent[u].slug = SlugOf[f]
    /\ intent[u].state \in Fulfillable
    /\ Begin(f, "link", {u}, [intent[u] EXCEPT !.workflow = f], {})

SaveLink(f) ==
    /\ job[f].op = "link"
    /\ Storable(f)
    /\ Save(f, TRUE)
    /\ phase' = [phase EXCEPT ![f] = "linked"]

(* The steps between the first and the last one create the customer's      *)
(* records elsewhere; when a subscription step fails, error_checkout_intent*)
(* marks the linked row, whatever its state is, and the workflow ends.     *)
MakePlans(f) ==
    /\ phase[f] = "linked"
    /\ job[f] = Idle
    /\ phase' = [phase EXCEPT ![f] = "planned"]
    /\ UNCHANGED <<intent, lapsed, stale, job>>

ReadForError(f, u) ==
    /\ phase[f] = "linked"
    /\ intent[u].workflow = f
    /\ Begin(f, "error", {u}, [intent[u] EXCEPT !.state = "errored_provisioning"], {})

(* The last step: fulfill_checkout_intent() on the linked row.             *)
ReadForFulfill(f, u) ==
    /\ phase[f] = "planned"
    /\ intent[u].workflow = f
    /\ Begin(f, "fulfill", {u}, [intent[u] EXCEPT !.state = "fulfilled"], {})

SaveLinked(f) ==
    /\ job[f].op \in {"error", "fulfill"}
    /\ Storable(f)
    /\ Save(f, TRUE)
    /\ phase' = [phase EXCEPT ![f] = IF job[f].op = "fulfill" THEN "done" ELSE "ended"]

(* A step fails without touching the intent, or the request is killed.     *)
EndFlow(f) ==
    /\ phase[f] \notin {"ended", "done"}
    /\ phase' = [phase EXCEPT ![f] = "ended"]
    /\ job' = [job EXCEPT ![f] = Idle]
    /\ UNCHANGED <<intent, lapsed, stale>>

(* A job dies, or its transaction is rolled back, before it saves.         *)
Fail(w) ==
    /\ job[w] # Idle
    /\ job' = [job EXCEPT ![w] = Idle]
    /\ UNCHANGED <<intent, lapsed, stale, phase>>

(* The row reaches its expires_at; only the clean-up looks at that, and    *)
(* only at reservations, so that an earlier end counts from there on.      *)
ReservationEnds(u) ==
    /\ u \notin lapsed
    /\ intent[u].state = "created"
    /\ lapsed' = lapsed \cup {u}
    /\ UNCHANGED <<intent, stale, job, phase>>

(* Nobody has saved the paid row for the stall threshold.                  *)
PaymentGrowsOld(u) ==
    /\ u \notin stale
    /\ intent[u].state = "paid"
    /\ stale' = stale \cup {u}
    /\ UNCHANGED <<intent, lapsed, job, phase>>

-----------------------------------------------------------------------------
WorkerStep(w) ==
    \/ \E u \in Users, s \in Slugs \cup {NoSlug} : ReadIntent(w, u, s)
    \/ SaveIntent(w)
    \/ FindExpired(w)
    \/ SaveExpired(w)
    \/ FindStalled(w)
    \/ \E u \in Users : SaveStalled(w, u)
    \/ \E u \in Users : ReadForPayment(w, u)
    \/ SavePaid(w)
    \/ \E u \in Users, s \in Stored : ReadForPatch(w, u, s)
    \/ SavePatch(w)
    \/ Fail(w)

FlowStep(f) ==
    \/ \E u \in Users : ReadForLink(f, u)
    \/ SaveLink(f)
    \/ MakePlans(f)
    \/ \E u \in Users : ReadForError(f, u)
    \/ \E u \in Users : ReadForFulfill(f, u)
    \/ SaveLinked(f)
    \/ EndFlow(f)

Next ==
    \/ \E w \in Workers : WorkerStep(w)
    \/ \E f \in Flows : FlowStep(f)
    \/ \E u \in Users : MarkAsExpired(u) \/ ReservationEnds(u) \/ PaymentGrowsOld(u)

Spec == Init /\ [][Next]_vars

(* A job saves or dies, and so ends.                                       *)
EndJob(w) ==
    \/ SaveIntent(w) \/ SaveExpired(w) \/ SavePaid(w) \/ SavePatch(w) \/ Fail(w)
    \/ \E u \in Users : SaveStalled(w, u)

(* Jobs end; the two commands are cron jobs: each is started again and     *)
(* again, and not every one of its runs is killed before it saves.         *)
Fairness ==
    /\ \A w \in Workers : WF_vars(EndJob(w))
    /\ SF_vars(\E w \in Workers : FindExpired(w))
    /\ SF_vars(\E w \in Workers : FindStalled(w))
    /\ \A w \in Workers : SF_vars(SaveExpired(w))
    /\ \A w \in Workers, u \in Users : SF_vars(SaveStalled(w, u))

FairSpec == Spec /\ Fairness

-----------------------------------------------------------------------------
CheckoutTypeOK ==
    /\ intent \in [Users -> Rows]
    /\ lapsed \subseteq Users
    /\ stale \subseteq Users
    /\ job \in [Procs -> Jobs]
    /\ phase \in [Flows -> {"started", "linked", "planned", "ended", "done"}]

(* A workflow is linked to an intent that reserves the very slug it        *)
(* provisions and that somebody has paid for: although the link survives   *)
(* re-reservations, stalls, failures and later workflows.                  *)
LinkedBySlug ==
    \A u \in Users : intent[u].workflow # NoFlow =>
        /\ intent[u].slug = SlugOf[intent[u].workflow]
        /\ intent[u].state \in Settled

(* The table gives FULFILLED no successor: once the customer exists, no    *)
(* late payment, command or failing workflow takes the intent back.        *)
FulfilledIsFinal ==
    [][\A u \in Users : intent[u].state = "fulfilled" => intent'[u].state = "fulfilled"]_vars

(* Intents and workflows agree on the outcome: an intent is fulfilled by   *)
(* the workflow it is linked to and by no other, and a workflow that has   *)
(* done its last step has an intent to show for it, whatever payments,     *)
(* commands, failures and workflows for the same slug come later.          *)
FulfilledByWorkflow ==
    /\ \A u \in Users : intent[u].state = "fulfilled" =>
          intent[u].workflow # NoFlow /\ phase[intent[u].workflow] = "done"
    /\ \A f \in Flows : phase[f] = "done" =>
          \E u \in Users : intent[u].state = "fulfilled" /\ intent[u].workflow = f

(* clean(): "Enterprise slug must be unique across all non-expired         *)
(* intents".                                                               *)
SlugUnique ==
    \A u, v \in Users :
        /\ u # v
        /\ {intent[u].state, intent[v].state} \subseteq NonExpired
        => intent[u].slug = NoSlug \/ intent[u].slug # intent[v].slug

(* A reservation that lapsed does not hold its slug for ever, although a   *)
(* PATCH can bring an expired one back, with the expires_at that it had.   *)
LapsedIsReleased ==
    \A u \in Users :
        u \in lapsed /\ intent[u].state = "created"
        ~> u \notin lapsed \/ intent[u].state # "created"

(* A paid intent that nobody fulfills does not stay "paid" unnoticed: the  *)
(* command marks it, or somebody else saves it, which restarts its clock.  *)
StalledIsReported ==
    \A u \in Users :
        u \in stale /\ intent[u].state = "paid"
        ~> u \notin stale \/ intent[u].state # "paid"

-----------------------------------------------------------------------------
(* Why the jobs are right when they do not overlap: what a process has read*)
(* is still what the row says when it saves.                               *)
OneJob ==
    \A j, k \in Procs : job[j] # Idle /\ job[k] # Idle => j = k

ReadIsCurrent(j) ==
    LET todo == job[j] IN
    /\ \A u \in todo.expiring : intent[u].state = "created"
    /\ todo.op \in {"idle", "cleanup"} => todo.users = {}
    /\ todo.op = "link" => phase[j] = "started"
    /\ todo.op \in {"error", "fulfill"} => todo.users # {}
    /\ \A u \in todo.users :
        /\ todo.op \in {"insert", "update"} =>
                /\ intent[u].state \notin Settled
                /\ todo.row.state = "created"
                /\ todo.row.workflow = NoFlow
        /\ todo.op = "stall" => intent[u].state = "paid"
        /\ todo.op = "pay" =>
                /\ intent[u].state \in {"created", "paid"}
                /\ todo.row.state = "paid"
        /\ todo.op = "patch" =>
                /\ todo.row = [intent[u] EXCEPT !.state = todo.row.state]
                /\ todo.row.state \in Allowed(intent[u].state)
        /\ todo.op = "link" =>
                /\ todo.row = [intent[u] EXCEPT !.workflow = j]
                /\ intent[u].state \in Fulfillable
                /\ intent[u].slug = SlugOf[j]
        /\ todo.op = "error" =>
                /\ todo.row = [intent[u] EXCEPT !.state = "errored_provisioning"]
                /\ intent[u].workflow = j
                /\ phase[j] = "linked"
        /\ todo.op = "fulfill" =>
                /\ todo.row = [intent[u] EXCEPT !.state = "fulfilled"]
                /\ intent[u].workflow = j
                /\ phase[j] = "planned"

CheckoutInv ==
    /\ OneJob
    /\ \A j \in Procs : ReadIsCurrent(j)
    /\ LinkedBySlug
=============================================================================
