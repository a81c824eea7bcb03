---------------------------- MODULE LearnerPortal ----------------------------
(***************************************************************************)
(* The pages of the learner portal (bffs/): a request for a page chooses a *)
(* customer, loads the licenses of the learner, activates those that are   *)
(* assigned or applies one automatically, and enrolls the learner in the   *)
(* default courses of the customer.                                        *)
(*                                                                         *)
(* The module is about one learner.  Licenses are numbers, in the order of *)
(* the license manager.  The handler keeps no row of its own: it reads and *)
(* writes the license manager and the LMS (external) one call at a time,   *)
(* and remembers answers in a cache, under the id of the user in this      *)
(* service; it forgets them under the id of the user in the LMS.  Any call *)
(* may fail, which adds an error to the page and lets it go on.            *)
(***************************************************************************)
EXTENDS Naturals, FiniteSets, FiniteSetsExt

CONSTANTS
    Customers,      \* the enterprises
    NoCustomer,     \* no customer is active or shown
    Courses,        \* the course runs
    Licenses,       \* the licenses that the learner may come to have
    Tabs,           \* the pages that the learner opens at the same time
    NoEntry,        \* nothing is cached
    Owner,          \* Owner[l]: the customer of the plan of l
    CatalogOf,      \* CatalogOf[l]: the courses in the catalog of its plan
    AutoApplied,    \* the licenses of plans that are applied automatically
    Keyless,        \* the licenses without an activation key
    PortalOn,       \* the customers with a learner portal
    WithProvider,   \* the customers with an identity provider
    Universal,      \* those whose universal link applies licenses
    Staff,          \* is the user staff, and operator of every customer?
    SameIds,        \* is the user's id here that of the LMS?
    Overlap,        \* may two pages load at the same time?
    Unheard         \* may a call take effect and its answer be lost?

ASSUME PortalAssumption ==
    /\ NoCustomer \notin Customers
    /\ Licenses \subseteq Nat /\ IsFiniteSet(Licenses)
    /\ Owner \in [Licenses -> Customers]
    /\ CatalogOf \in [Licenses -> SUBSET Courses]
    /\ AutoApplied \subseteq Licenses /\ Keyless \subseteq Licenses
    /\ PortalOn \cup WithProvider \cup Universal \subseteq Customers
    /\ {Staff, SameIds, Overlap, Unheard} \subseteq BOOLEAN

VARIABLES
    status,         \* status[l]: what l is to the learner
    lapsed,         \* the licenses whose plan is not current any more
    linked,         \* the customers the learner is linked to
    active,         \* the one that is active
    roles,          \* the customers that the learner's token names
    wanted,         \* wanted[c]: the default courses of customer c
    enrolled,       \* enrolled[c]: the courses the LMS has the learner in
    lists,          \* lists[c]: the cached list of licenses
    intents,        \* intents[c]: the cached default courses to enroll in
    page            \* page[w]: the page that loads in a tab

remote == <<status, lapsed, linked, active, roles, wanted, enrolled>>
vars == <<remote, lists, intents, page>>

Statuses == {"free", "assigned", "activated", "revoked"}
Lists == UNION {[S -> [status : Statuses, current : BOOLEAN]] : S \in SUBSET Licenses}
EmptyList == [l \in {} |-> [status |-> "free", current |-> FALSE]]

Idle == [at |-> "idle", of |-> NoCustomer, shown |-> NoCustomer, known |-> FALSE,
         list |-> EmptyList, todo |-> {}, done |-> {}, courses |-> {}]

TypeOK ==
    /\ status \in [Licenses -> Statuses]
    /\ lapsed \subseteq Licenses
    /\ linked \subseteq Customers
    /\ active \in linked \cup {NoCustomer}
    /\ roles \subseteq Customers
    /\ wanted \in [Customers -> SUBSET Courses]
    /\ enrolled \in [Customers -> SUBSET Courses]
    /\ lists \in [Customers -> Lists \cup {NoEntry}]
    /\ intents \in [Customers -> (SUBSET Courses) \cup {NoEntry}]
    /\ page \in [Tabs ->
           [at : {"idle", "licenses", "activate", "intentions", "enroll"},
            of : Customers \cup {NoCustomer}, shown : Customers \cup {NoCustomer},
            known : BOOLEAN, list : Lists,
            todo : SUBSET Licenses, done : SUBSET Licenses, courses : SUBSET Courses]]

Init ==
    /\ status = [l \in Licenses |-> "free"]
    /\ lapsed = {}
    /\ linked = {} /\ active = NoCustomer /\ roles = {}
    /\ wanted = [c \in Customers |-> {}]
    /\ enrolled = [c \in Customers |-> {}]
    /\ lists = [c \in Customers |-> NoEntry]
    /\ intents = [c \in Customers |-> NoEntry]
    /\ page = [w \in Tabs |-> Idle]

At(w, where) == page[w].at = where

(* The page goes on with its default courses, and shows these licenses.    *)
GoOn(w, list) ==
    page' = [page EXCEPT ![w].at = "intentions", ![w].list = list, ![w].todo = {}, ![w].done = {}]

-----------------------------------------------------------------------------
(* The customer of a page that is asked for with customer c.               *)

MatchesActive(c) == active = c

(* Staff see customers that they are not linked to.                        *)
StaffCustomer(c) == IF Staff /\ c \notin linked THEN c ELSE NoCustomer

ForDisplay(c) ==
    CASE ~MatchesActive(c) /\ c \in linked      -> c
      [] c \notin linked /\ StaffCustomer(c) # NoCustomer -> StaffCustomer(c)
      [] OTHER                                  -> active

(* The page asks its reader to switch: the other customer becomes active.  *)
ShouldSwitch(c) == c \in linked /\ ~MatchesActive(c)

(* A customer without a learner portal is removed from the page.           *)
Shown(c) == IF ForDisplay(c) \in PortalOn THEN ForDisplay(c) ELSE NoCustomer

IsLinked(c) == Shown(c) # NoCustomer /\ Shown(c) \in linked

(* The view wants a role for the customer that the page is about, and the  *)
(* roles of a learner come with the token.                                 *)
HasRole(c) == c \in roles \/ (Staff /\ c \in Customers)

(* Asked for by its id, c is what the page is about, shown or not; asked   *)
(* for by its slug, it is about the customer that is displayed.            *)
About(c) == {c, ForDisplay(c)}

Open(w, c) ==
    /\ At(w, "idle") /\ (Overlap \/ \A v \in Tabs : At(v, "idle"))
    /\ \E of \in About(c) :
        /\ HasRole(of)
        /\ page' = [page EXCEPT ![w] = [Idle EXCEPT !.at = "licenses", !.of = of,
                                             !.shown = Shown(c), !.known = IsLinked(c)]]
    /\ UNCHANGED <<remote, lists, intents>>

(* The dashboard, search, academy and skills quiz pages start alike.       *)
Visit(w) == \E c \in Customers : Open(w, c)

-----------------------------------------------------------------------------
(* The licenses.                                                           *)

Current(list, s) == {l \in DOMAIN list : list[l].status = s /\ list[l].current}

(* Mutant: an activated license of a plan that has lapsed is enough.       *)
HasActivatedMutant(list) == \E l \in DOMAIN list : list[l].status = "activated"

HasActivated(list) == Current(list, "activated") # {}

(* The answer of the license manager: of any plan, the revoked ones too.   *)
Answer(c) ==
    [l \in {m \in Licenses : Owner[m] = c /\ status[m] # "free"} |->
        [status |-> status[l], current |-> l \notin lapsed]]

CachedList(c) == IF lists[c] = NoEntry THEN Answer(c) ELSE lists[c]

LoadLicenses(w) ==
    LET list == CachedList(page[w].of) IN
    /\ At(w, "licenses")
    /\ lists' = [lists EXCEPT ![page[w].of] = list]
    /\ page' = [page EXCEPT ![w].list = list,
                            ![w].at = IF HasActivated(list) THEN "intentions" ELSE "activate",
                            ![w].todo = IF HasActivated(list) THEN {}
                                        ELSE Current(list, "assigned") \ Keyless]
    /\ UNCHANGED <<remote, intents>>

(* Without an answer there is nothing to activate, and no agreement.       *)
FailLicenses(w) ==
    /\ At(w, "licenses")
    /\ GoOn(w, EmptyList)
    /\ UNCHANGED <<remote, lists, intents>>

Invalidate(c) == lists' = IF SameIds THEN [lists EXCEPT ![c] = NoEntry] ELSE lists

(* The license manager activates a license of the learner, again or not.   *)
Activated(l) ==
    /\ status[l] \in {"assigned", "activated"}
    /\ status' = [status EXCEPT ![l] = "activated"]

(* check_and_activate_assigned_license(): one call for each license.       *)
Activate(w) ==
    /\ At(w, "activate") /\ page[w].todo # {}
    /\ LET l == Min(page[w].todo) IN
       /\ Activated(l)
       /\ page' = [page EXCEPT ![w].todo = @ \ {l}, ![w].done = @ \cup {l}]
    /\ Invalidate(page[w].of)
    /\ UNCHANGED <<lapsed, linked, active, roles, wanted, enrolled, intents>>

(* The first call that fails ends the loop: the page shows the licenses as *)
(* they were loaded, also those that have been activated.                  *)
FailActivate(w) ==
    /\ At(w, "activate") /\ page[w].todo # {}
    /\ \/ UNCHANGED status
       \/ Unheard /\ Activated(Min(page[w].todo))
    /\ GoOn(w, page[w].list)
    /\ UNCHANGED <<lapsed, linked, active, roles, wanted, enrolled, lists, intents>>

(* A license is applied to a linked learner who has none, of any status.   *)
MayApply(w) ==
    /\ DOMAIN page[w].list = {}
    /\ page[w].known
    /\ \E l \in AutoApplied : Owner[l] = page[w].of /\ l \notin lapsed
    /\ page[w].shown \in WithProvider \/ page[w].of \in Universal

(* The license manager takes a license that nobody has.                    *)
Applied(l, c) ==
    /\ l \in AutoApplied /\ Owner[l] = c /\ status[l] = "free" /\ l \notin lapsed
    /\ status' = [status EXCEPT ![l] = "activated"]

AutoApply(w) ==
    /\ At(w, "activate") /\ page[w].todo = {} /\ MayApply(w)
    /\ \E l \in Licenses :
        /\ Applied(l, page[w].of)
        /\ GoOn(w, [m \in {l} |-> [status |-> "activated", current |-> TRUE]])
    /\ Invalidate(page[w].of)
    /\ UNCHANGED <<lapsed, linked, active, roles, wanted, enrolled, intents>>

FailApply(w) ==
    /\ At(w, "activate") /\ page[w].todo = {} /\ MayApply(w)
    /\ \/ UNCHANGED status
       \/ Unheard /\ \E l \in Licenses : Applied(l, page[w].of)
    /\ GoOn(w, page[w].list)
    /\ UNCHANGED <<lapsed, linked, active, roles, wanted, enrolled, lists, intents>>

(* The licenses as the page shows them after their activation.             *)
WithActivated(list, done) ==
    [l \in DOMAIN list |-> IF l \in done THEN [list[l] EXCEPT !.status = "activated"] ELSE list[l]]

EndLicenses(w) ==
    /\ At(w, "activate") /\ page[w].todo = {} /\ ~MayApply(w)
    /\ GoOn(w, WithActivated(page[w].list, page[w].done))
    /\ UNCHANGED <<remote, lists, intents>>

-----------------------------------------------------------------------------
(* The default courses of the customer.                                    *)

(* The LMS lists the default courses that the learner is not in.           *)
Enrollable(c) == wanted[c] \ enrolled[c]

(* Mutant: courses that are enrolled in a moment later are remembered.     *)
RememberMutant(c, courses) == intents' = [intents EXCEPT ![c] = courses]

(* Courses to enroll in are not cached: the next page must not try again.  *)
Remember(c, courses) ==
    intents' = IF courses = {} THEN [intents EXCEPT ![c] = {}] ELSE intents

CachedIntents(c) == IF intents[c] = NoEntry THEN Enrollable(c) ELSE intents[c]

LoadIntentions(w) ==
    /\ At(w, "intentions") /\ page[w].known
    /\ LET courses == CachedIntents(page[w].of) IN
       /\ Remember(page[w].of, courses)
       /\ page' = [page EXCEPT ![w].at = "enroll", ![w].courses = courses]
    /\ UNCHANGED <<remote, lists>>

(* The learner is not linked to the customer, or the LMS does not answer.  *)
SkipIntentions(w) ==
    /\ At(w, "intentions")
    /\ page' = [page EXCEPT ![w] = Idle]
    /\ UNCHANGED <<remote, lists, intents>>

(* Mutant: the first license pays, whatever has become of it.              *)
LicenseOfMutant(list) ==
    IF Current(list, "activated") = {} THEN {} ELSE {Min(DOMAIN list)}

(* The first activated license of a current plan pays for every course.    *)
LicenseOf(list) ==
    LET paying == Current(list, "activated") IN IF paying = {} THEN {} ELSE {Min(paying)}

(* The courses in the catalog of that license.                             *)
Payload(w) ==
    {x \in page[w].courses : \E l \in LicenseOf(page[w].list) : x \in CatalogOf[l]}

Forget(c) == intents' = IF SameIds THEN [intents EXCEPT ![c] = NoEntry] ELSE intents

(* The LMS, which knows the learner by the id of the payload.              *)
Enrolled(c, courses) == enrolled' = [enrolled EXCEPT ![c] = @ \cup courses]

(* The LMS enrolls in some of them, and reports the others as failures; a  *)
(* call that fails altogether may have enrolled in some as well.           *)
Enroll(w, courses) ==
    /\ At(w, "enroll") /\ page[w].courses # {} /\ LicenseOf(page[w].list) # {}
    /\ courses \subseteq Payload(w)
    /\ Enrolled(page[w].of, courses)
    /\ \/ courses # {} /\ Forget(page[w].of)
       \/ (courses = {} \/ Unheard) /\ UNCHANGED intents
    /\ page' = [page EXCEPT ![w] = Idle]
    /\ UNCHANGED <<status, lapsed, linked, active, roles, wanted, lists>>

(* Nothing to enroll in, or no license to pay with.                        *)
SkipEnroll(w) ==
    /\ At(w, "enroll")
    /\ page[w].courses = {} \/ LicenseOf(page[w].list) = {}
    /\ page' = [page EXCEPT ![w] = Idle]
    /\ UNCHANGED <<remote, lists, intents>>

-----------------------------------------------------------------------------
(* Time, and what others do to the learner and the customers.              *)

ExpireList(c) ==
    /\ lists[c] # NoEntry
    /\ lists' = [lists EXCEPT ![c] = NoEntry]
    /\ UNCHANGED <<remote, intents, page>>

ExpireIntents(c) ==
    /\ intents[c] # NoEntry
    /\ intents' = [intents EXCEPT ![c] = NoEntry]
    /\ UNCHANGED <<remote, lists, page>>

Lapse(l) ==
    /\ l \notin lapsed
    /\ lapsed' = lapsed \cup {l}
    /\ UNCHANGED <<status, linked, active, roles, wanted, enrolled, lists, intents, page>>

(* An admin assigns a license, or revokes it for good.                     *)
Administer(l) ==
    /\ \/ status[l] = "free" /\ status' = [status EXCEPT ![l] = "assigned"]
       \/ status[l] \in {"assigned", "activated"} /\ status' = [status EXCEPT ![l] = "revoked"]
    /\ UNCHANGED <<lapsed, linked, active, roles, wanted, enrolled, lists, intents, page>>

(* The learner joins a customer or is linked to it by others, leaves it,   *)
(* or switches to it.                                                      *)
Belong(c) ==
    /\ \/ c \notin linked /\ linked' = linked \cup {c} /\ active' \in {active, c}
       \/ c \in linked /\ linked' = linked \ {c}
          /\ active' = IF active = c THEN NoCustomer ELSE active
       \/ ShouldSwitch(c) /\ active' = c /\ UNCHANGED linked
    /\ UNCHANGED <<status, lapsed, roles, wanted, enrolled, lists, intents, page>>

(* The next token names the customers that the learner is linked to then.  *)
Renew ==
    /\ roles # linked
    /\ roles' = linked
    /\ UNCHANGED <<status, lapsed, linked, active, wanted, enrolled, lists, intents, page>>

(* An admin makes a course a default.                                      *)
Want(c, x) ==
    /\ x \notin wanted[c]
    /\ wanted' = [wanted EXCEPT ![c] = @ \cup {x}]
    /\ UNCHANGED <<status, lapsed, linked, active, roles, enrolled, lists, intents, page>>

Load(w) ==
    \/ LoadLicenses(w) \/ FailLicenses(w)
    \/ Activate(w) \/ FailActivate(w)
    \/ AutoApply(w) \/ FailApply(w) \/ EndLicenses(w)
    \/ LoadIntentions(w) \/ SkipIntentions(w)
    \/ \E courses \in SUBSET Courses : Enroll(w, courses)
    \/ SkipEnroll(w)

Next ==
    \/ \E w \in Tabs : Visit(w)
    \/ \E w \in Tabs : Load(w)
    \/ \E c \in Customers : ExpireList(c) \/ ExpireIntents(c) \/ Belong(c)
    \/ \E l \in Licenses : Lapse(l) \/ Administer(l)
    \/ Renew
    \/ \E c \in Customers, x \in Courses : Want(c, x)

Spec == Init /\ [][Next]_vars

(* Pages end, cached answers and tokens expire.  For those who keep coming back to *)
(* the page of a customer, and are answered again and again, something is  *)
(* promised below.                                                         *)
Fairness ==
    /\ \A w \in Tabs : WF_vars(Load(w))
    /\ WF_vars(Renew)
    /\ \A c \in Customers : WF_vars(ExpireList(c)) /\ WF_vars(ExpireIntents(c))
    /\ \A w \in Tabs :
        /\ \A c \in Customers : SF_vars(Open(w, c))
        /\ SF_vars(LoadLicenses(w)) /\ SF_vars(Activate(w))
        /\ SF_vars(LoadIntentions(w) /\ HasActivated(page[w].list))
        /\ SF_vars(Enroll(w, Payload(w)))

FairSpec == Spec /\ Fairness

-----------------------------------------------------------------------------
(* A page never asks the LMS to enroll the learner in a course in which an *)
(* earlier one has, whether it heard of that or not: "we don't want to re- *)
(* attempt enrollment realization on the second of consecutive requests"   *)
(* (api.py), although what the LMS answers is cached.                      *)
EnrollOnce ==
    \A w \in Tabs : At(w, "enroll") => page[w].courses \cap enrolled[page[w].of] = {}

(* A license that is assigned to a learner who is linked to its customer   *)
(* and keeps opening its pages is activated, although lists are cached, the*)
(* role comes late and calls fail: or it is revoked, it lapses, the learner*)
(* leaves the customer, or another license is activated in its place.      *)
AssignedIsActivated ==
    \A l \in Licenses \ Keyless :
        status[l] = "assigned" /\ l \notin lapsed /\ Owner[l] \in linked ~>
            \/ status[l] # "assigned" \/ l \in lapsed \/ Owner[l] \notin linked
            \/ \E m \in Licenses \ lapsed : Owner[m] = Owner[l] /\ status[m] = "activated"

(* The licenses of customer c that cover x, when no other one might pay.   *)
Covered(c, x) ==
    LET paying == {l \in Licenses \ lapsed : Owner[l] = c /\ status[l] = "activated"} IN
    paying # {} /\ \A l \in paying : x \in CatalogOf[l]

(* A learner with a license for a default course of a customer, who keeps  *)
(* opening its pages, is enrolled in it.                                   *)
DefaultIsRealised ==
    \A c \in PortalOn, x \in Courses :
        c \in linked /\ x \in wanted[c] /\ Covered(c, x) ~>
            x \in enrolled[c] \/ c \notin linked \/ ~Covered(c, x)

(* No license is applied to a learner who has one.  The code forgets lists *)
(* under another key than it remembers them, and breaks this.              *)
AppliedToUnlicensed ==
    [][\A w \in Tabs, l \in Licenses :
        AutoApply(w) /\ status'[l] # status[l] =>
            \A m \in Licenses : Owner[m] = Owner[l] => status[m] = "free"]_vars

(* No license is applied to a learner who is not linked to its customer:   *)
(* "User is not explicitly linked to the enterprise customer" (handlers.py)*)
AppliedToLinked ==
    [][\A w \in Tabs, l \in Licenses :
        AutoApply(w) /\ status'[l] # status[l] => Owner[l] = page[w].shown]_vars
=============================================================================
