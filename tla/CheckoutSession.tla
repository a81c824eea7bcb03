--------------------------- MODULE CheckoutSession ---------------------------
(***************************************************************************)
(* The Stripe checkout sessions by which the intents of CheckoutIntent are *)
(* paid for: the form and its validation, the request that reserves a slug *)
(* and opens a session (customer_billing/api.py, stripe_api.py), the pages *)
(* before and after the payment (bffs/checkout), and the payment itself,   *)
(* which Stripe takes and reports in an event.                             *)
(*                                                                         *)
(* The request validates the form, reserves in a transaction of its own,   *)
(* calls Stripe, and records the session in the row: four steps, between   *)
(* which its worker may die and the intents may change.  Nothing ties the  *)
(* end of a session to that of its reservation: each comes when it comes.  *)
(* A session is named by the user and the slug it was opened for; slug and *)
(* company name are one.  Jobs of CheckoutIntent do not overlap here.      *)
(***************************************************************************)
EXTENDS CheckoutIntent

CONSTANTS
    Customers,      \* the slugs of the customers that the LMS already has
    NoSession,      \* the row records no session
    Apart,          \* does nobody reserve between a validation and its save?
    Tabs,           \* may a user ask again after paying, or pay an old session?
    BareSlugs       \* may POST checkout-intents find or reserve a slug?

ASSUME SessionAssumption ==
    /\ ~Overlap
    /\ Customers \subseteq Slugs
    /\ NoSession \notin Slugs
    /\ {Apart, Tabs, BareSlugs} \subseteq BOOLEAN

VARIABLES
    asking,         \* asking[w]: the request for a session that w handles
    session,        \* session[u]: the slug of the session the row records
    open,           \* open[u]: the slugs of the sessions u can still pay
    charged,        \* charged[u]: the slugs of the sessions u has paid
    page            \* page[u]: the session as the success page has cached it

mine == <<asking, session, open, charged, page>>
svars == <<vars, mine>>

NotAsking == [at |-> "idle", user |-> {}, slug |-> NoSlug]

SessionTypeOK ==
    /\ CheckoutTypeOK
    /\ asking \in [Workers ->
           [at : {"idle", "valid", "saving", "reserved", "opened", "recorded"},
            user : SUBSET Users, slug : Slugs \cup {NoSlug}]]
    /\ session \in [Users -> Slugs \cup {NoSession}]
    /\ open \in [Users -> SUBSET Slugs]
    /\ charged \in [Users -> SUBSET Slugs]
    /\ page \in [Users -> {"none", "open", "paid"}]

SessionInit ==
    /\ Init
    /\ asking = [w \in Workers |-> NotAsking]
    /\ session = [u \in Users |-> NoSession]
    /\ open = [u \in Users |-> {}]
    /\ charged = [u \in Users |-> {}]
    /\ page = [u \in Users |-> "none"]

-----------------------------------------------------------------------------
(* The form.                                                               *)

(* can_reserve() outside of create_intent(), which expires nothing first.  *)
Reserved(s, u) == \E v \in Users \ {u} : intent[v].slug = s /\ intent[v].state \in NonExpired

(* A workflow that is done has made a customer; whether one that still runs*)
(* or has failed got that far is open, and so may the form be valid.       *)
HasCustomer(s) ==
    s \in Customers \/ \E f \in Flows : SlugOf[f] = s /\ phase[f] = "done"

(* Mutants: the slug is looked up in one of the two places only.           *)
ValidSlugReservedMutant(s, u) == ~Reserved(s, u)

ValidSlugCustomerMutant(s, u) == ~HasCustomer(s)

(* handle_enterprise_slug(), and handle_company_name() for the name.       *)
ValidSlug(s, u) == ~Reserved(s, u) /\ ~HasCustomer(s)

InProgress(u) == \E w \in Workers : asking[w].user = {u}

(* Other requests do not come between a validation and its reservation.    *)
Alone(w) == Apart => \A v \in Workers \ {w} : asking[v].at \notin {"valid", "saving"}

(* POST create-checkout-session: the form is valid.                        *)
Ask(w, u, s) ==
    /\ asking[w] = NotAsking
    /\ job[w] = Idle
    /\ Alone(w)
    /\ Tabs \/ (charged[u] = {} /\ ~InProgress(u))
    /\ ValidSlug(s, u)
    /\ asking' = [asking EXCEPT ![w] = [at |-> "valid", user |-> {u}, slug |-> s]]
    /\ open' = [open EXCEPT ![u] = IF Tabs THEN @ ELSE {}]
    /\ UNCHANGED <<vars, session, charged, page>>

-----------------------------------------------------------------------------
(* The rest of the request.                                                *)

Reach(w, step) == asking' = [asking EXCEPT ![w].at = step]

(* create_intent() accepts, and reads what it is going to save.            *)
Reserve(w) ==
    /\ asking[w].at = "valid"
    /\ \E u \in asking[w].user : ReadIntent(w, u, asking[w].slug)
    /\ Reach(w, "saving")
    /\ UNCHANGED <<session, open, charged, page>>

(* The transaction is committed: the intent is reserved, or it was paid.   *)
Reservation(w) ==
    /\ asking[w].at = "saving"
    /\ SaveIntent(w) \/ SaveExpired(w)
    /\ Reach(w, "reserved")
    /\ UNCHANGED <<session, open, charged, page>>

(* Stripe opens a session, for the slug of the form.                       *)
OpenSession(w) ==
    /\ asking[w].at = "reserved"
    /\ Reach(w, "opened")
    /\ UNCHANGED <<vars, session, open, charged, page>>

(* Mutant: a session that is recorded already is kept.                     *)
RecordSessionMutant(w) ==
    /\ asking[w].at = "opened"
    /\ session' = [u \in Users |->
           IF u \in asking[w].user /\ session[u] = NoSession THEN asking[w].slug ELSE session[u]]
    /\ page' = [u \in Users |-> IF u \in asking[w].user THEN "none" ELSE page[u]]
    /\ Reach(w, "recorded")
    /\ UNCHANGED <<vars, open, charged>>

(* update_stripe_identifiers(): pages of the old session are not looked at. *)
RecordSession(w) ==
    /\ asking[w].at = "opened"
    /\ session' = [u \in Users |->
           IF u \in asking[w].user THEN asking[w].slug ELSE session[u]]
    /\ page' = [u \in Users |-> IF u \in asking[w].user THEN "none" ELSE page[u]]
    /\ Reach(w, "recorded")
    /\ UNCHANGED <<vars, open, charged>>

(* The answer names the session to the user, whose old ones remain open.   *)
Answer(w) ==
    /\ asking[w].at = "recorded"
    /\ open' = [u \in Users |->
           IF u \in asking[w].user THEN open[u] \cup {asking[w].slug} ELSE open[u]]
    /\ asking' = [asking EXCEPT ![w] = NotAsking]
    /\ UNCHANGED <<vars, session, charged, page>>

(* create_intent() refuses, Stripe fails, or the worker dies.              *)
GiveUp(w) ==
    /\ asking[w] # NotAsking
    /\ IF job[w] = Idle THEN UNCHANGED vars ELSE Fail(w)
    /\ asking' = [asking EXCEPT ![w] = NotAsking]
    /\ UNCHANGED <<session, open, charged, page>>

-----------------------------------------------------------------------------
(* The user, Stripe and the success page.                                  *)

Pay(u, s) ==
    /\ s \in open[u]
    /\ Tabs \/ (charged[u] = {} /\ ~InProgress(u))
    /\ charged' = [charged EXCEPT ![u] = @ \cup {s}]
    /\ open' = [open EXCEPT ![u] = @ \ {s}]
    /\ UNCHANGED <<vars, asking, session, page>>

(* get_stripe_checkout_session() caches what Stripe answers.               *)
ShowSuccess(u) ==
    /\ session[u] # NoSession
    /\ page[u] = "none"
    /\ page' = [page EXCEPT ![u] = IF session[u] \in charged[u] THEN "paid" ELSE "open"]
    /\ UNCHANGED <<vars, asking, session, open, charged>>

(* The cached session times out; a paid one would only be read again.      *)
Forget(u) ==
    /\ page[u] = "open"
    /\ page' = [page EXCEPT ![u] = "none"]
    /\ UNCHANGED <<vars, asking, session, open, charged>>

(* Stripe closes a session that was not paid, a day after it was opened.   *)
SessionExpires(u, s) ==
    /\ s \in open[u]
    /\ open' = [open EXCEPT ![u] = @ \ {s}]
    /\ UNCHANGED <<vars, asking, session, charged, page>>

(* A reservation may end before a session that was opened for it.          *)
TimePasses(u) ==
    /\ ReservationEnds(u) \/ PaymentGrowsOld(u)
    /\ UNCHANGED mine

-----------------------------------------------------------------------------
(* The other jobs of CheckoutIntent.                                       *)

(* POST checkout-intents: before the form, without a slug.                 *)
ReadBareIntent(w, u, s) ==
    /\ BareSlugs \/ {s, intent[u].slug} = {NoSlug}
    /\ Alone(w)
    /\ ReadIntent(w, u, s)

OtherJob(w) ==
    /\ asking[w] = NotAsking
    /\ \/ \E u \in Users, s \in Slugs \cup {NoSlug} : ReadBareIntent(w, u, s)
       \/ SaveIntent(w) \/ FindExpired(w) \/ SaveExpired(w)
       \/ FindStalled(w) \/ \E u \in Users : SaveStalled(w, u)
       \/ \E u \in Users : charged[u] # {} /\ ReadForPayment(w, u)
       \/ SavePaid(w)
       \/ Fail(w)
    /\ UNCHANGED mine

Provision(f) == FlowStep(f) /\ UNCHANGED mine

SessionNext ==
    \/ \E w \in Workers, u \in Users, s \in Slugs : Ask(w, u, s)
    \/ \E w \in Workers :
           \/ Reserve(w) \/ Reservation(w) \/ OpenSession(w)
           \/ RecordSession(w) \/ Answer(w) \/ GiveUp(w)
           \/ OtherJob(w)
    \/ \E u \in Users, s \in Slugs : Pay(u, s) \/ SessionExpires(u, s)
    \/ \E u \in Users : ShowSuccess(u) \/ Forget(u) \/ TimePasses(u)
    \/ \E f \in Flows : Provision(f)

SessionSpec == SessionInit /\ [][SessionNext]_svars

-----------------------------------------------------------------------------
(* No two users have a paid intent for one slug, although it is checked in *)
(* one step and reserved in another, and reservations lapse, also of users *)
(* whose sessions are open: a charge for an intent that is no reservation  *)
(* any more does not make it paid.                                         *)
SlugPaidOnce ==
    \A u, v \in Users :
        u # v /\ {intent[u].state, intent[v].state} \subseteq Settled
        => intent[u].slug # intent[v].slug

(* Nobody pays for the slug of a customer that exists, whose records the   *)
(* get-or-create steps of provisioning would take for the new customer's.  *)
NobodyTakesOver == \A u \in Users : intent[u].state \in Settled => intent[u].slug \notin Customers

(* The session that a paid intent records is the one that was paid, and it *)
(* was for the slug reserved; a page that shows a payment shows that one.  *)
PaidSessionIsRecorded ==
    /\ \A u \in Users : intent[u].state \in Settled =>
            session[u] \in charged[u] /\ session[u] = intent[u].slug
    /\ \A u \in Users : page[u] = "paid" => session[u] \in charged[u]

-----------------------------------------------------------------------------
(* Why they hold when a user asks again only before paying (~Tabs), bare   *)
(* intents name no slug and validations are apart: a slug that is valid    *)
(* stays free until it is saved, and from then on, lapsed or not, the row, *)
(* the session that it records and those that can be paid name that slug.  *)
OneValidation ==
    \A v, w \in Workers :
        {asking[v].at, asking[w].at} \subseteq {"valid", "saving"} => v = w

OneRequest == \A v, w \in Workers : asking[v].user \cap asking[w].user # {} => v = w

RequestIsCurrent(w) ==
    LET todo == asking[w] IN
    /\ todo.at = "idle" => todo = NotAsking
    /\ todo.at # "idle" => todo.slug \in Slugs /\ \E u \in Users : todo.user = {u}
    /\ todo.at \in {"valid", "saving"} => todo.slug \notin Customers
    /\ todo.at \notin {"idle", "saving"} => job[w] = Idle
    /\ todo.at = "saving" =>
            /\ job[w].op \in {"insert", "update"}
            /\ job[w].users = todo.user
            /\ job[w].row.slug = todo.slug
    /\ \A u \in todo.user :
        /\ charged[u] = {} /\ open[u] = {}
        /\ todo.at \in {"valid", "saving"} => ~Reserved(todo.slug, u)
        /\ todo.at \in {"reserved", "opened", "recorded"} => intent[u].slug = todo.slug
        /\ todo.at = "recorded" => session[u] = todo.slug

JobsAreCurrent ==
    /\ \A j \in Procs : job[j].op = "pay" => \A u \in job[j].users : charged[u] # {}
    /\ \A w \in Workers :
          job[w].op \in {"insert", "update"} /\ asking[w].at # "saving" =>
              /\ job[w].row.slug = NoSlug
              /\ \A u \in job[w].users : intent[u].slug = NoSlug

SessionsAgree(u) ==
    /\ intent[u].slug \notin Customers
    /\ intent[u].state \in Settled => charged[u] # {}
    /\ charged[u] # {} =>
          /\ charged[u] = {session[u]}
          /\ session[u] = intent[u].slug
    /\ \A s \in open[u] : charged[u] = {} /\ intent[u].slug = s /\ session[u] = s
    /\ page[u] = "paid" => session[u] \in charged[u]

SessionInv ==
    /\ OneValidation
    /\ OneRequest
    /\ \A w \in Workers : RequestIsCurrent(w)
    /\ JobsAreCurrent
    /\ \A u \in Users : SessionsAgree(u)
    /\ SlugUnique
=============================================================================
