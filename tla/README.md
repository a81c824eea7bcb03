# Models of enterprise-access

TLA+ modules, TLC configurations and TLAPS proofs for `enterprise_access`, the
Django service that decides who may spend an enterprise's learning budget, on
what, and that sells subscriptions to new customers. All paths below are under
`src/enterprise_access/apps/` unless they start with `src/`.

To check: `tlc -config <run>.cfg <MC module>.tla`, and `tlapm <module>_proofs.tla`.
`PROJECT.json` lists the runs, maps every definition to the lines it models, and
names for every property a *mutant*: an operator `..Mutant` in the module, the
definition below it with a plausible mistake, under which TLC finds the
property violated.

## 1. The system

| Component | State | Operations | Correct when |
|---|---|---|---|
| Policy lock (`subsidy_access_policy/models.py`) | one key per policy in the Django cache | `lock()`: add the key, run the body, delete the key | two requests are never in the body for one policy; a dead worker does not lock a policy for ever |
| Redemption (`subsidy_access_policy`, redeem view) | none of its own; the ledger of the external subsidy service | `can_redeem()`, `redeem()`, idempotency keys | a learner is charged at most once for a content; a failed or reversed redemption can be retried; the spend limit holds |
| Assigned learner credit (`AssignedLearnerCreditAccessPolicy`) | assignment rows | redeem, `can_allocate()`, `allocate()` | spend and allocations stay within the budget; accepted rows stand for transactions |
| Per-learner policies | – | `can_redeem()`, the choice of a policy in the can-redeem view; redemption of requests | limits per learner hold; a learner pays for a content through one policy |
| Forced redemption | `ForcedPolicyRedemption` | create assignment, redeem without the learner | not redeemed twice |
| Spend limits, deposits | `active`, `retired` and `spend_limit` of each policy, deposits of the subsidy | create, edit, deactivate a policy, set late redemption, create a deposit | the sum of the limits, and what is spent, stay within the deposits; nothing is spent through an inactive policy |
| `content_assignments` | `LearnerContentAssignment`, actions | allocate, cancel, remind, nudge, expire, acknowledge, clear PII; Celery tasks; the handler of reversed transactions | every writer respects the states it is defined for; the learner is told before data is cleared |
| `subsidy_request`, `api/v1/views/browse_and_request.py` | `LearnerCreditRequest`, `LicenseRequest`, `CouponCodeRequest`, their actions and configurations | create, approve, decline, cancel, remind; chains of Celery tasks that assign what was approved; reminders to admins | a request and its assignment agree; what was given is recorded; the reminder tells of every request that waited when it looked |
| Checkout intents (`customer_billing`) | `CheckoutIntent` rows | reserve, PATCH, mark paid, expire, mark stalled | a slug belongs to one live intent; a lapsed reservation is released; a stuck intent is noticed |
| Checkout sessions (`customer_billing`, `bffs/checkout`) | the session a `CheckoutIntent` records; open sessions at Stripe; the cached session of the success page | validate the form, reserve, open a session, record it, show the success page | a slug is paid for once, and never that of an existing customer; the session that was paid is the one recorded |
| Stripe events, renewals (`customer_billing`) | `StripeEventData`, `StripeEventSummary`, `SelfServiceSubscriptionRenewal` | webhook handlers | the trial-to-paid renewal is processed, once, and a past-due plan is not |
| `provisioning`, `workflow` | workflow and step records | execute the steps in order, link / error / fulfil the intent | no remote record and no active plan is made twice, and the intent says what was done |
| Learner portal (`bffs`) | two caches per learner and customer; licences at the license manager, courses at the LMS | choose the customer, load licences, activate them or apply one, enrol in default courses | a learner is enrolled once; what is assigned is activated in the end, default courses are realised |
| `content_metadata`, `enterprise_groups`, `events`, `core`, `track`, serializers and filters, `admin_portal_learner_profile` | none that another step relies on | aggregation, caching of catalogue data, e-mail, analytics | – |

How they interact: the redeem, allocate and approve endpoints and forced
redemption enter the policy lock; inside it they call the subsidy service
and, for assignment policies, read and write assignment rows. Admin endpoints,
cron commands, Celery tasks and an event handler write the same rows with no
lock. Requests for learner credit are linked to assignments and written before or
after them. Requests for licences and codes are answered by tasks that run long after the
view. Redemptions in several policies of a subsidy draw on the same deposits, each under
the lock of its own policy; administrators edit those policies meanwhile. A page of the
learner portal calls the license manager and the LMS one after the other. Checkout intents are written by two endpoints, the Stripe webhook, two
cron commands, the Django admin and the steps of the provisioning workflow,
again with no lock; the workflow makes the renewal that the webhook processes later.

Hard behaviours: requests run in many processes (`ATOMIC_REQUESTS` is off, no row
is ever locked with `select_for_update`, no row has a version); the lock is an
expiring cache key; the remote services are called one at a time, and a call may time out
after it took effect; rows are saved whole long after they were read; Celery
runs tasks late, in any order, and again; Stripe delivers events late, in any order, and
again; workers die. `PROJECT.json` lists each hazard at its line with the properties that
cover it.

## 2. The modules

    PolicyLock  <--implements--  Redemption  <--implements--  AssignedLearnerCredit
                                 Redemption  <---extends----  PolicyBudget
    LearnerCreditRequest        SubsidyRequest        AssignmentNotice
    CheckoutIntent  <--extends--  CheckoutSession
    Provisioning  <--implements--  Renewal            LearnerPortal

Each run has an `MC...` module with its constants. Theorems are in the `..._proofs` modules:
`SubsidyAccessPolicy_proofs` has those of Redemption, PolicyBudget and AssignedLearnerCredit,
`CheckoutSession_proofs` those of CheckoutIntent, `Renewal_proofs` those of Provisioning.

**PolicyLock** models `lock()`, `acquire_lock()`, `release_lock()`. `cache[p]` is
the key (whose id it holds), `at[w]` where worker `w` is. `Acquire` is the
atomic `cache.add()`; a refused request (HTTP 429) never waits and changes
nothing, so it is a stutter. `Release` is the `finally` clause, which deletes the key
without comparing the id. `Crash` leaves the key behind; `Expire` drops it.
`SlowRequests` says whether a request may outlive the timeout: the code passes none,
so the default of Django's cache applies (300 s).

**Redemption** composes the lock with the redeem request. `pc[w]` is `locked`
(inside `lock()`), `read` (`can_redeem()` has the transactions), `posted`
(`redeem()` has called the subsidy), `leaving`. `key[w]` is what
`create_idempotency_key_for_transaction()` hashes: policy, learner and content
(a *pair*), and the uuids of failed and reversed transactions. The subsidy
service is external and modelled from how the code uses it: a used key
returns its transaction, a new one creates a transaction that is pending,
committed or failed; transactions settle and are reversed at any time.
`LateCalls` lets a call be served after its caller timed out or died. The reads of
the spend aggregate and the post are one step (`Post`): any late call that is
served between them may as well be served right after the post, before the answer.

**PolicyBudget** EXTENDS Redemption with the policies themselves: `row[p]` is the policy in
the database, `deposits` the sum of the deposits, `seen[w]` the policy as a redeem request loaded
it (`StartRedeem`, before the lock), `offer[x]` the policy that the page of the learner offers.
`View` is the can-redeem view: successful redemptions, the candidates that `Redeemable`
(`can_redeem()`) accepts, and the first of them by `Rank`. It skips the check of the learner
(`skip_customer_user_check`) unless an operator asks on her behalf, so the page may offer a policy
to a learner outside its group; `Redeem` checks her, and lets Redemption post only what
`Redeemable` accepts. A request of an administrator reads and validates a row
(`OpenEdit`, `OpenCreate`, `OpenDelete`, `OpenLateRedemption`) into `edit[a]` and stores it whole in
a later step (`Store`), with no lock; `Deposit` makes the deposit first and `TopUp` raises the
limit of the row that was loaded before. `Clean` is `clean()`: the sum of the limits, and the
deactivation of a budget with spend.

**AssignedLearnerCredit** EXTENDS Redemption with the assignment table: `assignment[x]`
is the row of pair `x` (unique in the database) with its state and
`transaction_uuid`; `stage[w]` and `copy[w]` are what the request still has to do
and the rows it has read; `handler[h]` is a row that a writer *outside* the lock
has read. `Ops` chooses among those writers: `cancel`, `remind`, `expire`,
`reverse` (the handler of reversed transactions), `fail` (a Celery task giving
up) and `force` (`ForcedPolicyRedemption.create_assignment()`). Which columns
each of them saves is in `Written`: `cancel` and `remind` only the state, and
`remind` the state it read; the others the whole row.

**LearnerCreditRequest** models Browse & Request with learner credit. `req[r]` is a
request by primary key (state, its pair of learner and course, whether it is linked
to the assignment of the pair), `asg[x]` the assignment, `tx` the pairs the subsidy
was charged for, `trail[r]` the latest `LearnerCreditRequestActions` record. Every view, command
and signal handler is a *job* that reads a row in one step (`ReadFor...`) and writes it in a
later one; the docstring of each action says whether it saves the whole row or some
columns. `approve_learner_credit_requests()` allocates inside the lock
(`AllocateRequests`) and saves its requests after leaving it (`SaveApproved`); cancelling
is one database transaction; expiring saves the request and then the assignment,
reversing the assignment and then the request. The unique constraints are `Storable`.
Keys are numbers in no particular order of creation, because `create()` looks at the
`.first()` row. `Overlap` names the kinds of jobs that may be about the same pair at the same
time, `Crashes` those that may die between their steps.

**SubsidyRequest** models the requests for licences and coupon codes. Approving makes
rows pending and queues a chain of two tasks (`chain[c]`): `Assign` calls the license
manager or ecommerce, `Update` writes the outcome by primary key, whatever became of the
rows; `GiveUp` is a failed chain, whose error handler makes them `error`. `configure`
changes the type of the `SubsidyRequestCustomerConfiguration` and queues `Flush`, which
declines what is open. `activate` and `link` are the two sides of the exclusion between
requests and assignment configurations (`clean()` of the policy, `save()` of the
configuration). `mail` is the daily e-mail to admins: it reads the requests since
`last_remind_date` and later dates itself, saving the whole configuration. `wasted` is a history
variable: licences and codes given by a call whose answer was lost.

**AssignmentNotice** is about one assignment, for no task knows two: the tasks that every change
of its state queues (`queue[k]`), the actions they leave (`done`, `failed`), the
acknowledgements (`acked`, and `recent`: those newer than the latest action), and the
commands that expire, nudge and clear, which save whole rows they read before remote calls
(`job`). The row's `due` says whether an expiration date has passed, the one of its
age, which retires the address, or another one. `mailed`,
`ends`, `told` and `heard` are history variables for the properties: has an e-mail about an
expiration been delivered at a real address, how often did the assignment end, and at which
end the latest action and acknowledgement were. Views are single steps here; what happens
inside them is in AssignedLearnerCredit.

**CheckoutIntent** has one row per user (a `OneToOneField`): state, slug and
workflow. Every writer is a *job*: it reads, decides, and saves later.
`job[j].row` is what it will save, `job[j].users` for whom; `Save` stores the whole
row or only the state, as the code does. Time is two sets: `lapsed` are the users whose row is
past its `expires_at`, which only `create_intent()` moves (`Renewals`) and which is read-only in a
PATCH (`Late`: a PATCH brings back the date that it read); `stale` are those whose paid row was
not saved for the stall threshold, a clock that any save restarts, as `modified` does. `phase[f]` is how far a provisioning workflow came: `linked` by its first
step, `planned` once the subscription plans exist, `done` when its last step has
fulfilled the intent, `ended` by its first failure. Abstracted: the enterprise name (it changes with the slug),
Stripe ids, quantity, terms and country, and the database transaction of
`create_intent()`, whose clean-up and save become one step because both commit together.
`Kinds` are the optional writers: PATCH and the actions of the Django admin.
`Overlap = FALSE` is the sequential reading of the code, one job at a time; `Overlap =
TRUE` lets jobs run between the read and the save of another one, which nothing in
the code prevents.

**CheckoutSession** EXTENDS CheckoutIntent with the requests that reserve a slug in order to
pay: `asking[w]` is how far such a request came (`Ask` validates the form, `Reserve` and
`Reservation` are `create_intent()` and its commit, `OpenSession` calls Stripe,
`RecordSession` stores the session in the row, `Answer` tells the user), and `GiveUp` is any
failure on the way. `session[u]` is what the row records, `open[u]` and `charged[u]` the
sessions at Stripe (external), `page[u]` what the success page has cached (`ShowSuccess`,
`Forget`). Nothing ties the end of a reservation (`ReservationEnds`) to that of a session at Stripe
(`SessionExpires`): either may come first, and a session may be paid after its reservation was
cleaned up. The constants `Apart`, `Tabs` and `BareSlugs` restrict who does what in between;
section 3 says what happens without them. `HasCustomer` leaves open whether a workflow that failed
got as far as making the customer, so the form accepts more than in the code. Company name and slug are one, and jobs of CheckoutIntent do not overlap.

**Provisioning** models the steps of `ProvisionNewCustomerWorkflow` for one
customer: `flow[f].step` is the step that comes next, and each step (`CustomerStep`, `MakeAdmins`, `CatalogStep`, ...) gets or
creates a remote record. `LookUp` and `Create` are two calls; the plans are looked up in a list that the
agreement step brought along (`flow[f].list`), so a plan made since is not seen, nor one that has
been deactivated: the agreement carries "all active subscription plans". A step that
fails ends the workflow (`Stop`), possibly after its effect (`unheard`), and the view starts
another one from the first step. The steps for admins and for tracking may fail like the others. The steps for plans also set the linked intent to errored.
`UpdateLineItem` is the later PATCH of the plan's opportunity line item.

**Renewal** EXTENDS Provisioning with the Stripe side: `sent` are the events in the order
Stripe created them, `data[e]` and `summary[e]` the two tables of the webhook, `row[r]` the
`SelfServiceSubscriptionRenewal` of a renewal, `ran[r]` how often the license manager processed
it. `Receive`, the handler and `Finish` are the wrapper `on_stripe_event()`; an event is
delivered until it is handled and may be delivered again, and `Fetch` is the command that
asks Stripe for events that were missed. `PriorStatus` is
`previous_summary()`: a transition is recognised by the latest earlier event *that has been
summarised*. Events are numbered in the order of creation: two
events of the same second, of which the code would see neither before the other, do not occur here. `TrackRenewal` is the tracking part of the renewal step. `InOrder` restricts
deliveries to the order of creation; `Graceful` is `STRIPE_GRACEFUL_EXCEPTION_MODE`.

**LearnerPortal** is about one learner. `Open` is the request for a page: the view answers it only
to a user who has a role for the customer that the page is about (`HasRole`, `BFF_READ_PERMISSION`).
Asked for by id that is the customer named, by slug the one that is displayed (`About`). A learner's
roles come with the token and may be out of date: `Renew` is the next token, which names the
customers that the learner is linked to then. `Staff` users are operators of every customer. The
page chooses what it shows (`ForDisplay`, `Shown`); `page[w].at` is the call that comes next:
`LoadLicenses`, `Activate` for each assigned licence, `AutoApply` if the learner has none,
`LoadIntentions`, `Enroll`. `lists[c]` and `intents[c]` are the caches of the two answers.
Any call may fail (`Fail...`, `Skip...`), with `Unheard` after it took effect, and the page goes
on. The licences, the links to customers and the enrolments are remote (external); they
change at any time (`Lapse`, `Administer`, `Belong`, `Renew`, `Want`).

## 3. What the runs show

| Run (cfg) | Instance | Shows |
|---|---|---|
| `lock` (`MCPolicyLock`) | 3 policies, 3 workers, no slow requests, fair | `MutualExclusion`: deleting the key blindly is harmless while requests are faster than the timeout; `LockEventuallyFree` in spite of crashes |
| `budget` (`MCPolicyBudget`) | 2 policies (a limit on enrolments and one on spend), 2 workers, a learner with 2 contents that both policies offer and another learner outside the group of the only policy with hers, 2 transactions, 1 administrator, every limit 1, at most 2 deposits | `LearnerWithinLimit`, `LimitsWithinDeposits`, `SpendWithinDeposits`, `InactiveIsUnspent`: the checks of `can_redeem()` and `clean()` suffice although each policy has its own lock; `ChargedOnce`, also when the page offers what the redeem request refuses; `ImplementsPolicyLock` |
| `assigned` (`MCAssigned`) | 2 workers, 1 unlocked writer (cancel, expire, reverse, fail), 2 pairs, 3 transactions, limit 1 | `WithinBudget`, `AcceptedHasTransaction`, `AcceptedNotReallocated` |
| `assigned_faults` (`MCAssignedFaults`) | 1 worker, 1 pair, 3 transactions, every unlocked writer, slow requests, late calls | `AtMostOneLive`: the idempotency keys prevent double redemption even when the lock fails; `ImplementsRedemption` |
| `requests` (`MCRequests`) | 2 workers, 3 request rows, 2 pairs, limit 1, every operation; create, cancel and reverse may share a pair; create, cancel and decline may die | `RequestsAgree`, `RequestsWithinBudget`, `ChargedWhenApproved` |
| `subsidy_requests` (`MCSubsidyRequests`) | 2 learners, 2 rows, 1 chain, 2 workers, 2 licences and 2 codes; seven pairs of kinds may run at the same time, among them the reminder with creates, reviews and saves of the configuration; one fault (crash, lost chain, unheard answer) | `PendingHasOneOwner`, `GivenIsRecorded`, `OneKindOfSubsidy`; `ReminderSkipsNone`: what the reminder leaves out was created after it looked |
| `notifications` (`MCNotifications`) | one assignment that ends at most twice, one task of a kind at a time, fair | `ToldBeforeCleared`, `AcknowledgedAfresh`, `NoticesSettle` |
| `checkout` (`MCCheckout`) | 2 users, 3 slugs (one is a customer's already), 2 workflows of one slug, 2 workers, no PATCH or admin, no overlap of jobs | `SlugPaidOnce`, `NobodyTakesOver`, `PaidSessionIsRecorded`: the four steps of a session agree with the reservation and the payment, although either may outlive the other; `FulfilledByWorkflow`, also when two workflows are for one slug |
| `checkout_live` (`MCCheckoutLive`) | 1 user, 2 workers, 1 workflow, all writers, overlap, fair | `LapsedIsReleased`, `StalledIsReported` |
| `portal` (`MCLearnerPortal`) | 1 customer, 1 course, 2 licences (one applied automatically), 1 tab, roles that come with the next token, lost answers, fair | `EnrollOnce`, `AssignedIsActivated`, `DefaultIsRealised` |
| `renewals` (`MCRenewals`) | 2 workflows one after the other, 3 plans, 1 web process, 4 events in order, faults in every call but the one that processes | `MadeOnce`: no record, and no active plan for one line item, is made twice; `ProcessedIsActive`, `ImplementsProvisioning` |
| `renewals_live` (`MCRenewalsLive`) | 1 workflow, 2 plans, 1 administrator, 3 events in any order and again, lost summaries, fair | `ProcessedOnce`, `RenewalIsProcessed` |

*Bounds.* Two policies, pairs, learners or users are a conflicting pair, and no
definition relates three of them (the third pair of `budget` is that of the learner outside the group); the three slugs of `checkout` are the one of the
workflows, another free one, and that of an existing customer. Two workers (three for the lock)
overlap in every way that the lock is about; a dead worker and its late calls act as further
ones. Two transactions let a redemption fail or be reversed and be retried; three
(in `assigned`) let that happen twice, or a retry meet a second pair. A limit of one
makes the two pairs compete for the budget, and two deposits let two policies be
funded, or one be topped up. Three request rows are two pairs and a second
request of one of them. Two workflows are a failure and its retry, and three plans let the
retry make one too many. Four events are a trial, its end, a missed payment and an
invoice; two processing calls are one more than allowed. One task of a kind is enough to be
late, and two ends of an assignment are one that is stale and one that is not. Two licences
are one that does not cover the course and one that does, so that which one pays matters.
`TxIds`, `MaxDeposits`, `MaxEvents`, `MaxRuns`, `MaxEnds`, `MaxQueued` and `MaxFaults` are the
bounds of what could grow. Unit prices lose only ties between prices, which the comparison
with the limit treats as sums in any case. Symmetry is declared for sets whose members the
specification treats alike, and not in the runs that check liveness.

*Deadlock* is checked in `lock`, `budget`, `assigned`, `assigned_faults`, `checkout_live` and
`portal`. In the other runs the system really may stop: every intent has failed or is fulfilled and
every workflow has ended; every request is final and there is no row left for another; Stripe has
no more events and the workflows are done; an assignment is accepted, told and cleared.

*Fairness.* Lock: a request ends (`WF` of `Release`; gunicorn kills one that does
not, and `Crash` is a way to end) and the cache drops expired keys (`WF` of
`Expire`). No fairness says that requests arrive or that the lock is free when they
do. Checkout: every job ends, by saving or by dying (`WF` of `EndJob`).
`cleanup_checkout_intents` and `mark_stalled_checkout_intents` are cron commands, so
they start again and again while there is work to find (`SF` of `FindExpired`,
`FindStalled`), and not every one of their runs is killed before it
saves (`SF` of the saves). Nothing is assumed about users, Stripe or
workflows. Renewals: a request that began goes on (`WF` of `Handle` and of the steps of a
workflow), and Stripe delivers an event again and again until it is handled (`SF` of
`Receive` while it is not). Notifications: workers run what is queued, and the retries of an
e-mail end (`WF` and `SF` of `Send` or `GiveUp`). Learner portal: a page ends and cached
answers expire, and the next token comes (`WF`); the rest is a hypothesis about the learner and the services, not a
promise of the code: the learner keeps opening the pages of the customer (`SF` of `Open`), and
calls that are made again and again are answered at some time (`SF` of `LoadLicenses`, `Activate`,
`LoadIntentions`, `Enroll`). The code never retries by itself, so without it nothing would follow.

### What the passing runs leave out, and what happens then

The restrictions of the runs are not of convenience: without each of them TLC finds a
behaviour of the code that breaks the property. Each can be reproduced by changing the constants
of the run, or by adding the named property, which the modules define without a run.

- *Lock.* `SlowRequests = TRUE` breaks `MutualExclusion`: the key expires under a slow
  request, whose release then frees the lock of another one.
- *Budgets.* `LateCalls`, or requests slower than the lock, let a call that was checked before be
  served after the next check, which breaks every limit (`BudgetAssumption` excludes the first). `Overlap`
  breaks `InactiveIsUnspent`: a policy is deactivated while a redemption that loaded it runs.
  `CreatedActive` breaks `LimitsWithinDeposits`: `clean_spend_limit()` is skipped for a policy that is
  being added. `Lowers`, with a third policy, breaks `SpendWithinDeposits`: a limit below what is
  spent makes room for others. `Retires` breaks `ChargedOnce`: a retired policy is no longer looked
  at by the view; that a policy with spend is retired is not validated, although the docstring
  of `validate_budget_deactivation_with_spend()` mentions it. The page and `credits_available` need
not agree: the page skips the check of the learner, so that it may offer what the list leaves out and
what the redeem request then refuses. Without `Portal` a
  learner may be charged for one content through two policies, whose keys differ. Two
  administrators at the same time each compare the sum without the other's limit. A worker that
  dies between the deposit and the save leaves a deposit without a limit, and "set late
  redemption" may write back the limit from before a deposit. Failed and reversed transactions count against
  the limits per learner (`RetryIsAllowed` fails).
- *Assignments.* A cancellation decided on an old read cancels an accepted row
  (`CancelSparesAccepted`). A reminder writes back the state it read and resurrects a
  cancelled row after its budget was given away (`WithinBudget` with `remind`); forced
  redemption bypasses the budget.
- *Requests for learner credit.* Other overlaps than create, cancel and reverse break
  `RequestsAgree`: saves of whole rows read before. A crash of approve, redeem, expire or reverse
  between the two tables leaves them disagreeing. `ReusedNotDuplicated` fails: the first row by
  key may be a declined one, and then a new row is made beside a reusable one; when both were
  linked in turn, approving fails in the database after the allocation was committed, which may be
  that of another request of the same call: hence `RequestsAgree` promises a request for every
  allocated assignment only while nothing was declined (`NothingDeclined`). Cancelling a request
  without an assignment raises `AttributeError`.
- *Requests for licences and codes.* Two chains for one request make an approved one `error`;
  a late chain or flush overwrites a review, also one that declined: no property says that declined
  is final; two creations of one learner in parallel break
  `OneRequested`; a time-out after the licence was assigned records `error` (`wasted`); a lost
  chain leaves requests pending for ever (`PendingIsDecided`); activating one side of the
  exclusion while the other side is checked breaks `OneKindOfSubsidy` (write skew), which the run
  excludes and nothing in the code does; a flush
  stops at a request that was never reviewed, although its docstring says "Decline all subsidy
  requests of the given type" (`FlushDeclinesAll`). The docstring of
  `send_admins_email_with_new_requests` claims "100% coverage of requests to email about". It is
  not so: the reminder reads its requests, sends the e-mail, and then sets `last_remind_date` to the
  time of the save, so a request created in between is in no e-mail; nor are waiting requests of
  the other type when the type changes. `ReminderSkipsNone` bounds what is left out, for every
  overlap. The reminder also saves the configuration as it was read at its start and undoes what was
  configured meanwhile; no property states otherwise.
- *Notifications.* The reason of an expiration is computed again when data is cleared, and may
  differ from the one that was announced. `automatically_expire_assignments` pages over a queryset that
  shrinks as it goes, so that some rows wait for the next day. `EveryExpirationTold` fails for an assignment that expires again: its
  address is retired because of the first expiration before the second e-mail is sent, although
  `clear_pii_for_expired_assignments` says "Expiration emails are sent to actual learner
  email addresses (not retired addresses)". A nudge that fails for good makes a paid assignment
  errored. The failure handler for an expired request looks for an assignment with the id of
  the request and raises. A row that is errored and retired keeps its retired address when it
  is allocated again. A task that is lost (not modelled) leaves "notifying" for ever.
- *Checkout.* A payment can be lost, and no property states otherwise: with overlap, a save of a
  row read before the payment overwrites it, and the clean-up expires a row that was paid after it
  had been read. With PATCH a user may set a state to fulfilled while a workflow
  still runs, and its failure takes that back (`FulfilledIsFinal`). `SlugUnique` fails even
  without overlap, although the docstring of `clean()` (`customer_billing/models.py:461`) says
  "Enterprise slug must be unique across all non-expired intents": reserve, expire, reserved by another
  user, re-activate with the old slug, which is not checked again.
- *Checkout sessions.* `Apart = FALSE` (another request between the validation and the
  reservation) breaks `SlugPaidOnce`. `BareSlugs` (a slug posted to checkout-intents,
  unvalidated) breaks `SlugPaidOnce`, `NobodyTakesOver` and `PaidSessionIsRecorded`. `Tabs`
  (a second session is opened, the first one paid) breaks `PaidSessionIsRecorded`. Even without these, a
  reservation may lapse and be cleaned up while its session can still be paid: the code passes Stripe
  no `expires_at`. The user is then charged and the row is expired, and another user may reserve
  the slug and pay: the run contains this, no property denies it, and `SlugPaidOnce` is about
  intents that are paid, not about charges. A refused reservation is
  answered with an unexpected keyword argument, which is an error of the server; the success page
  caches a session that is not paid yet and shows it until the entry expires.
- *Learner portal.* Answers are remembered under the user's id in this service and forgotten under the
  id in the LMS: where they differ, the next page may apply a licence to a learner who has just been
  given one (`AppliedToUnlicensed`). `Overlap` breaks `EnrollOnce`. A page for a customer that
  the learner is not linked to, which takes a token from before she left it or a user of the staff,
  shows the active one and loads and applies the licences of the one asked for (`AppliedToLinked`).
  A learner who has no role is answered 403 for as long as her token lasts. When one activation succeeds and the next fails, the page shows the
  licences as they were loaded. Only the first activated licence pays, whatever it covers.
  Licences are activated for a customer whose portal is disabled.
- *Renewals.* The agreement lists active plans only, so when a missed payment has deactivated the
  paid plan, a workflow that is requested again makes a second one: the run contains it, and
  `MadeOnce` is about active plans.
  With `Again`, an old event that the command fetches a second time breaks `ProcessedIsActive` even in order. `InOrder = FALSE` with four events breaks `ProcessedIsActive`: a late "past due" cancels
  the plan of a renewal processed since. The path trialing, past_due, active never renews. An
  `invoice.paid` between them hides the trial, for its summary has no status; likewise no row yet when "active"
  arrives: never processed. `Parallel = 2` makes records twice; an
  opportunity id set between a failed workflow and its retry makes a second paid plan. The
  fault `unprocessed` (the answer of the processing call is lost) processes a renewal twice.
  Without `Graceful`, a later `invoice.paid` of a fulfilled intent raises, and Stripe
  redelivers it for ever. `populate_stripe_event_summaries` pages over a queryset that shrinks as it
  goes (here it does all at once).

## 4. What is proved

Proofs hold for every value of the constants; the assumptions used are those of the modules, which
TLC evaluates in every run, and the hypotheses named below.

- *Lock*: `LockTypeOK` always; `HolderKeepsKeyTheorem` and from it `MutualExclusionTheorem` when
  `~SlowRequests`. `MutualExclusion` alone is not inductive: a blind release needs to know whose
  key it deletes, which is `HolderKeepsKey`.
- *Redemption*: `RedemptionInvTheorem`, with slow requests and late calls allowed, hence
  `AtMostOneLiveTheorem` and `RetryIsFreshTheorem`. The invariant says that a key names only
  transactions older than itself (`PastIsKnown`), keys are unique in the ledger (`OneTxPerKey`),
  and any key that can still reach the subsidy is the one that would be derived now or has been
  used (`KeysAreCurrent`): when a transaction dies, the history grows by a transaction no derived
  key knows, and the key of the dead transaction is used up. That is why the keys work without the
  lock. The proviso `OwnPast` (no other policy has a dead transaction for the pair) is needed
  because the history that `can_redeem()` receives is that of the whole subsidy: a reversal
  through another policy changes the key, and this policy may redeem again.
  `RedemptionImplementsPolicyLock` is the refinement, and `HolderKeepsLockTheorem` says of the
  detailed model what `HolderKeepsKeyTheorem` says of the lock.
- *Budgets*: `BudgetImplementsRedeem` and `BudgetImplementsPolicyLock` are the refinements,
  always; `BudgetTypeTheorem` always. The limits per learner (`LearnerLimitTheorem`) and
  `InactiveIsUnspentTheorem` hold when no request is slower than the lock and edits do not overlap
  with a redemption (`Undisturbed`), from `BudgetInv`: the worker that holds the lock read
  everything its policy has in the ledger, and it alone adds to it. `LimitsTheorem` and
  `SpendWithinDepositsTheorem` are about one administrator at a time and policies that are not
  created active (`OneEditor`): the sum that was compared with the deposits is still the sum when
  the limit is saved (`LimitsInv`). The latter also needs `Undisturbed` and limits that are never
  lowered, and joins the two: each policy stays within its own limit, and the limits within the
  deposits. `ChargedOnceTheorem` (`Undisturbed`, contents are bought from the portal's list,
  nothing is retired or created active, prices are positive): what the list offers for a content
  has not been redeemed, and is taken by one request at a time (`ChargesOK`).
- *Assignments*: `AssignedImplementsRedemption` (every step is one of Redemption or a stutter,
  whatever the unlocked writers do), hence `AssignedAtMostOneLive`; `AssignedInvTheorem` and
  `AcceptedHasTransactionTheorem` (every row that has been read and not yet written back is as
  good as those in the table, so whole-row saves cannot bring back a bad one);
  `AcceptedNotReallocatedTheorem` when `~SlowRequests` and without `remind` and `force`: the lock
  keeps what an allocation read current (`CopiesAreCurrent`). `WithinBudgetTheorem`, when also no
  call is late and there are finitely many pairs: `HeldWithinBudget` counts in what a redemption
  that has been checked is about to spend, and nobody else allocates or spends before it has done
  so. Sums over sets are folds, about which the provers can do no induction; the lemmas of
  `SubsidyAccessPolicy_proofs` argue with a smallest counterexample instead, which the library
  provides as a fact about well-founded relations.
- *Requests for learner credit*: `RequestType`; `RequestsWithinBudgetTheorem`, for every overlap
  and every crash. Only an approval enlarges what is allocated, while nobody holds the lock, and
  only a redemption enlarges what is spent, while it holds the lock alone (`LockHeld`): what it
  pays for was counted when it began and nothing was allocated since (`RoomToPay`).
  `RequestsAgreeTheorem` and `ChargedWhenApprovedTheorem` under `Gentle`, which is what the run
  assumes too (only create, cancel and reverse share a pair, only create, cancel and decline die):
  `TablesInv` says for each job which rows it has read, that nobody it may overlap with has
  changed them, and which part of the two tables it still owes.
- *Requests for licences and codes*: `SubsidyType`; `OneRequestedTheorem` when creations do not
  overlap with one another; `PendingHasOneOwnerTheorem` when reviews do not overlap. Their
  invariants say what a job knows of the rows it is about to write: they are still as it read them.
  `GivenIsRecordedTheorem` when reviews do not overlap with one another nor creations with creations
  (`GivenInv`: each benefit that was given belongs to an approved request, or to the chain that is
  about to record it for the one request it is for). `ReminderSkipsNoneTheorem` has no hypothesis:
  whatever overlaps the reminder, a waiting request in its window that it does not hold is newer
  than all it holds (`MailInv`).
- *Notifications*: `NoticeType`; `ToldBeforeClearedTheorem` (each trace of a retired address or an
  announced expiration, in the row, in a row that a command holds, in a task or among the actions,
  comes after an e-mail that reached the learner: `ClearedInv`); `AcknowledgedAfreshTheorem` (an
  acknowledgement counts as recent only if it is newer than the last action, which carries the
  number of the end).
- *Checkout*: `CheckoutTypeTheorem` always; with `~Overlap` and no admin action
  `CheckoutInvTheorem`, `LinkedBySlugTheorem` (PATCH allowed);
  `FulfilledByWorkflowTheorem` and from it `FulfilledIsFinalTheorem` when also PATCH is absent: a
  workflow that can still fail is not the one that fulfilled the intent, so no later failure takes
  it back. The invariant (`OneJob`, `ReadIsCurrent`) says that what a job has read is still true
  when it saves.
- *Checkout sessions*: `SessionTypeTheorem`, and `SessionImplementsIntents` (the requests for
  sessions are among the writers of CheckoutIntent), both always. `SessionInvTheorem`, and from it
  `SlugPaidOnceTheorem`, `NobodyTakesOverTheorem`, `PaidSessionTheorem`
  and `SessionsFulfilledTheorem` under `Restricted`, which is what the run assumes: no overlap, no
  second tab, no unvalidated slug and no PATCH; reservations and sessions end in any order. The invariant relates three
  tables that no transaction spans: the slug that was validated is free until it is reserved, the
  session that Stripe knows is that of the intent, and a row that is paid names the session that was,
  although a reservation may lapse before, while and after its session is paid.
- *Learner portal*: `PortalTypeTheorem`; `EnrollOnceTheorem` when one page loads at a time
  (`EnrollInv`: an answer that is remembered is that there is nothing to enroll in, so what the
  page will ask for was read from the LMS by this very page). The cache and the forgetting under
  another id do not matter for it.
- *Provisioning and renewals*: `RenewalType`; `RenewalImplementsProvisioning`, which carries what
  is proved of `ProvSpec` over to the composition: `MadeOnceTheorem` when `Parallel = 1` (the
  workflow that runs knows every active plan that could match: its list is current but for line
  items and for plans that were deactivated)
  and that a fulfilled intent is provisioned; with the rows, `FulfilledIsTrackedTheorem`;
  `ProcessedIsFinalTheorem`; `ProcessedOnceTheorem` with one web process and without the fault
  `unprocessed` (a row is unmarked only while the process that renews it is between the call and
  the mark). `RenewalLeadsOnTheorem`, always: the lists that a workflow has read and what it found
  keep to the trial plan and to another one (`LeadsInv`), whatever line items are written since.
  `ProcessedIsActiveTheorem` with one workflow, one web process, events in order, and no lost
  summary or unheard processing (`OneInOrder`): a plan is inactive only after an event known to be
  past due, after which no event is taken for the end of a trial (`EventsInv`), for Stripe never
  tells of a trial later (`TrialFirst`); and what a missed payment deactivates is not the plan of
  another row, since renewals of one customer begin with the one trial plan (`PlansInv`).

Model-checked only: the liveness properties (`LockEventuallyFree`, `LapsedIsReleased`,
`StalledIsReported`, `AssignedIsActivated`, `DefaultIsRealised`, `RenewalIsProcessed`,
`NoticesSettle`): the provers do not reason about fairness and `ENABLED`; and `OneKindOfSubsidy`,
whose only hazard beyond the local checks, two savers that miss each other, the run excludes. Every
other safety property of every run is a theorem. Their hypotheses about overlaps and faults are those of the runs or
weaker, and their sets are of any size; what happens without these hypotheses is the list of
section 3.

`RetryIsFresh`, `LinkedBySlug`, `FulfilledIsFinal`, `OneRequested`,
`FulfilledIsTracked`, `ProcessedIsFinal`, `RenewalLeadsOn`, the types, the refinements of
PolicyBudget and CheckoutSession, and the inductive invariants are theorems that no run states:
they are what the checked properties rest on, or follow from a guard that holds for every value of
the constants.


## 5. Plan

Done: the lock, redemption, assigned learner credit and its notifications; limits per learner,
spend limits and deposits; both kinds of requests; checkout intents, their sessions and
payments, provisioning and renewals; the learner portal; the refinements between them; the proofs of
section 4.

Left, in this order: the record of a forced redemption and its retries; membership in
groups and the can-request view; theorems under weaker hypotheses, beginning with
`ProcessedIsActive` when deliveries overlap but events are in order.

## 6. Not modelled

- *The record of a forced redemption* (`ForcedPolicyRedemption`): only its assignment is; policies
  without a spend limit, whose checks are the balance of the subsidy alone; the can-request view.
- *The dashboards and the read-only parts of the pages* (`bffs`): enrolments, searches, algolia keys.
- *`content_metadata`, the Stripe and pricing clients*: read-through caches and wrappers; what a stale
  entry means for a budget is a price that changed, which the models leave out.
- *`enterprise_groups`, `events`, `track`, `core`, `admin_portal_learner_profile`, serializers and
  filters*: e-mail, publishing, analytics, users and read-only aggregation; no step of
  a model reads what they write.
- *Free-form edits in the Django admin*, which may put any row in any state; the actions
  that the admin offers are modelled.
- *Content of e-mails; reminders of assignments*, which leave no trace that is read.
- *Celery tasks lost by the broker* (only chains of `SubsidyRequest` may be lost), and the
  admin's "re-process the input for this step" of a workflow.
