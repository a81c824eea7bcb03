-------------------------- MODULE LearnerPortal_proofs --------------------------
(* Proofs about the pages of the learner portal, for any customers,        *)
(* courses, licenses and tabs, and whichever calls fail or are not heard.  *)
EXTENDS LearnerPortal, WellFoundedInduction, TLAPS

(* The records of pages, and the parts of the type invariant.              *)
PortalPages ==
    [at : {"idle", "licenses", "activate", "intentions", "enroll"},
     of : Customers \cup {NoCustomer}, shown : Customers \cup {NoCustomer},
     known : BOOLEAN, list : Lists,
     todo : SUBSET Licenses, done : SUBSET Licenses, courses : SUBSET Courses]
RemoteOK ==
    /\ status \in [Licenses -> Statuses]
    /\ lapsed \subseteq Licenses
    /\ linked \subseteq Customers
    /\ active \in linked \cup {NoCustomer}
    /\ roles \subseteq Customers
    /\ wanted \in [Customers -> SUBSET Courses]
    /\ enrolled \in [Customers -> SUBSET Courses]
CachesOK ==
    /\ lists \in [Customers -> Lists \cup {NoEntry}]
    /\ intents \in [Customers -> (SUBSET Courses) \cup {NoEntry}]
PagesOK ==
    /\ page \in [Tabs -> PortalPages]
    /\ \A w \in Tabs : page[w].at # "idle" => page[w].of \in Customers
PortalTypes == RemoteOK /\ CachesOK /\ PagesOK

LEMMA ListIn ==
    ASSUME NEW S \in SUBSET Licenses, NEW f \in [S -> [status : Statuses, current : BOOLEAN]]
    PROVE  f \in Lists
  BY DEF Lists

LEMMA ListIs ==
    ASSUME NEW f \in Lists
    PROVE  DOMAIN f \subseteq Licenses /\ f \in [DOMAIN f -> [status : Statuses, current : BOOLEAN]]
  BY DEF Lists

LEMMA EmptyIn == EmptyList \in Lists
<1>1. EmptyList \in [{} -> [status : Statuses, current : BOOLEAN]]
  BY DEF EmptyList
<1>2. QED
  BY <1>1, ListIn

LEMMA IdleIn == Idle \in PortalPages /\ Idle.at = "idle"
  BY EmptyIn DEF Idle, PortalPages

(* The license that is activated next is one of those that wait.           *)
LEMMA MinIn ==
    ASSUME NEW S \in SUBSET Nat, S # {}
    PROVE  Min(S) \in S
<1>1. PICK m \in S : \A n \in S : <<n, m>> \notin OpToRel(<, Nat)
  BY NatLessThanWellFounded, WFMin
<1>2. \A n \in S : ~(n < m)
  BY <1>1, Zenon DEF OpToRel
<1>3. \A n \in S : m <= n
  BY <1>2
<1>4. QED
  BY <1>3 DEF Min

LEMMA PortalInitTypes == Init => PortalTypes
<1> SUFFICES ASSUME Init PROVE PortalTypes
  OBVIOUS
<1>1. page = [w \in Tabs |-> Idle]
  BY DEF Init
<1>1a. PagesOK
  BY <1>1, IdleIn DEF PagesOK
<1>2. RemoteOK
  BY DEF Init, RemoteOK, Statuses
<1>2a. CachesOK
  BY DEF Init, CachesOK
<1>3. QED
  BY <1>1a, <1>2, <1>2a DEF PortalTypes

(* What a step of the page in one tab changes of the pages.                *)
PageStep(w) ==
    /\ PagesOK'
    /\ \A v \in Tabs \ {w} : page'[v] = page[v]
    /\ page'[w].at = "enroll" => LoadIntentions(w)

LEMMA PageChange ==
    ASSUME PagesOK, NEW w \in Tabs, NEW p \in PortalPages, page' = [page EXCEPT ![w] = p],
           p.at # "idle" => p.of \in Customers
    PROVE  /\ PagesOK' /\ page'[w] = p
           /\ \A v \in Tabs \ {w} : page'[v] = page[v]
<1>1. page' \in [Tabs -> PortalPages] /\ page'[w] = p /\ \A v \in Tabs \ {w} : page'[v] = page[v]
  BY DEF PagesOK
<1>2. \A v \in Tabs : page'[v].at # "idle" => page'[v].of \in Customers
  BY <1>1 DEF PagesOK
<1>3. QED
  BY <1>1, <1>2 DEF PagesOK

LEMMA PageEnds ==
    ASSUME PagesOK, NEW w \in Tabs, page' = [page EXCEPT ![w] = Idle]
    PROVE  PageStep(w)
<1>1. PagesOK' /\ page'[w] = Idle /\ \A v \in Tabs \ {w} : page'[v] = page[v]
  BY IdleIn, PageChange
<1>2. QED
  BY <1>1, IdleIn DEF PageStep

LEMMA PageGoesOn ==
    ASSUME PagesOK, NEW w \in Tabs, NEW list \in Lists, page[w].of \in Customers,
           GoOn(w, list)
    PROVE  PageStep(w)
<1> DEFINE p == [page[w] EXCEPT !.at = "intentions", !.list = list, !.todo = {}, !.done = {}]
<1>1. page[w] \in PortalPages
  BY DEF PagesOK
<1>2. p \in PortalPages /\ p.at = "intentions" /\ p.of = page[w].of
  BY <1>1 DEF PortalPages
<1>3. page' = [page EXCEPT ![w] = p]
  BY DEF GoOn, PagesOK
<1>4. PagesOK' /\ page'[w] = p /\ \A v \in Tabs \ {w} : page'[v] = page[v]
  <2> HIDE DEF p
  <2>1. QED
    BY <1>2, <1>3, PageChange
<1>5. page'[w].at = "intentions"
  <2> HIDE DEF p
  <2>1. QED
    BY <1>2, <1>4
<1>6. QED
  BY <1>4, <1>5 DEF PageStep

LEMMA PageOpens ==
    ASSUME PortalTypes, NEW w \in Tabs, NEW c \in Customers, Open(w, c)
    PROVE  /\ PortalTypes' /\ PageStep(w)
           /\ page[w].at = "idle"
<1>1. PICK of \in About(c) :
        /\ HasRole(of)
        /\ page' = [page EXCEPT ![w] = [Idle EXCEPT !.at = "licenses", !.of = of,
                                             !.shown = Shown(c), !.known = IsLinked(c)]]
  BY DEF Open
<1> DEFINE p == [Idle EXCEPT !.at = "licenses", !.of = of,
                             !.shown = Shown(c), !.known = IsLinked(c)]
<1>2. linked \subseteq Customers /\ active \in linked \cup {NoCustomer} /\ of \in Customers
  BY <1>1 DEF PortalTypes, RemoteOK, HasRole
<1>3. ForDisplay(c) \in Customers \cup {NoCustomer}
  BY <1>2 DEF ForDisplay, MatchesActive, StaffCustomer
<1>4. Shown(c) \in Customers \cup {NoCustomer} /\ IsLinked(c) \in BOOLEAN
  BY <1>3 DEF Shown, IsLinked
<1>5. p \in PortalPages /\ p.at = "licenses" /\ p.of \in Customers
  BY <1>2, <1>4, IdleIn DEF PortalPages
<1>6. page' = [page EXCEPT ![w] = p]
  BY <1>1
<1>7. PagesOK' /\ page'[w].at = "licenses" /\ \A v \in Tabs \ {w} : page'[v] = page[v]
  <2> HIDE DEF p
  <2>1. QED
    BY <1>5, <1>6, PageChange DEF PortalTypes
<1>8. RemoteOK' /\ CachesOK' /\ page[w].at = "idle"
  BY DEF Open, At, remote, PortalTypes, RemoteOK, CachesOK
<1>9. QED
  BY <1>7, <1>8 DEF PageStep, PortalTypes

LEMMA AnswerIn ==
    ASSUME PortalTypes, NEW c \in Customers
    PROVE  CachedList(c) \in Lists
<1>1. Answer(c) \in Lists
  <2> DEFINE S == {m \in Licenses : Owner[m] = c /\ status[m] # "free"}
  <2>1. Answer(c) \in [S -> [status : Statuses, current : BOOLEAN]]
    BY DEF Answer, PortalTypes, RemoteOK
  <2>2. S \in SUBSET Licenses
    OBVIOUS
  <2>3. QED
    BY <2>1, <2>2, ListIn
<1>2. QED
  BY <1>1 DEF CachedList, PortalTypes, CachesOK

LEMMA LicensesLoaded ==
    ASSUME PortalTypes, NEW w \in Tabs, LoadLicenses(w)
    PROVE  PortalTypes' /\ PageStep(w)
<1> DEFINE list == CachedList(page[w].of)
           at == IF HasActivated(list) THEN "intentions" ELSE "activate"
           todo == IF HasActivated(list) THEN {} ELSE Current(list, "assigned") \ Keyless
           p == [page[w] EXCEPT !.list = list, !.at = at, !.todo = todo]
<1>1. page[w] \in PortalPages /\ page[w].of \in Customers
  BY DEF PortalTypes, PagesOK, LoadLicenses, At
<1>2. list \in Lists
  BY <1>1, AnswerIn
<1>3. todo \subseteq Licenses
  BY <1>2, ListIs DEF Current
<1>4. p \in PortalPages /\ p.at # "enroll" /\ p.of = page[w].of
  <2> HIDE DEF list, todo
  <2>1. QED
    BY <1>1, <1>2, <1>3 DEF PortalPages
<1>5. page' = [page EXCEPT ![w] = p]
  BY DEF LoadLicenses, PortalTypes, PagesOK
<1>6. PagesOK' /\ page'[w].at # "enroll" /\ \A v \in Tabs \ {w} : page'[v] = page[v]
  <2> HIDE DEF p
  <2>1. QED
    BY <1>1, <1>4, <1>5, PageChange DEF PortalTypes
<1>7. lists' = [lists EXCEPT ![page[w].of] = list] /\ UNCHANGED <<remote, intents>>
  BY DEF LoadLicenses
<1>8. RemoteOK' /\ CachesOK'
  <2> HIDE DEF list
  <2>1. QED
    BY <1>2, <1>7 DEF PortalTypes, RemoteOK, CachesOK, remote
<1>9. QED
  BY <1>6, <1>8 DEF PortalTypes, PageStep

LEMMA LicensesNotLoaded ==
    ASSUME PortalTypes, NEW w \in Tabs, FailLicenses(w)
    PROVE  PortalTypes' /\ PageStep(w)
<1>1. PageStep(w)
  BY EmptyIn, PageGoesOn DEF PortalTypes, PagesOK, FailLicenses, At
<1>2. RemoteOK' /\ CachesOK'
  BY DEF FailLicenses, remote, PortalTypes, RemoteOK, CachesOK
<1>3. QED
  BY <1>1, <1>2 DEF PageStep, PortalTypes

(* The license manager changes the status of a license.                    *)
LEMMA StatusType ==
    ASSUME RemoteOK, UNCHANGED <<lapsed, linked, active, roles, wanted, enrolled>>,
           UNCHANGED status \/ \E l \in Licenses, s \in Statuses :
                                   status' = [status EXCEPT ![l] = s]
    PROVE  RemoteOK'
  BY DEF RemoteOK

LEMMA ListForgotten ==
    ASSUME CachesOK, NEW c \in Customers, Invalidate(c), UNCHANGED intents
    PROVE  CachesOK'
  BY DEF CachesOK, Invalidate

LEMMA LicenseActivated ==
    ASSUME PortalTypes, NEW w \in Tabs, Activate(w)
    PROVE  PortalTypes' /\ PageStep(w)
<1>1. page[w] \in PortalPages /\ page[w].of \in Customers
  BY DEF PortalTypes, PagesOK, Activate, At
<1>2. PICK l \in Licenses : /\ Activated(l)
                            /\ page' = [page EXCEPT ![w].todo = @ \ {l}, ![w].done = @ \cup {l}]
  <2>1. page[w].todo \subseteq Nat /\ page[w].todo \subseteq Licenses /\ page[w].todo # {}
    BY <1>1, PortalAssumption DEF PortalPages, Activate
  <2>2. Min(page[w].todo) \in Licenses
    BY <2>1, MinIn
  <2>3. QED
    BY <2>2 DEF Activate
<1> DEFINE p == [page[w] EXCEPT !.todo = page[w].todo \ {l}, !.done = page[w].done \cup {l}]
<1>3. p \in PortalPages /\ p.at = "activate" /\ p.of = page[w].of
  BY <1>1 DEF PortalPages, Activate, At
<1>4. page' = [page EXCEPT ![w] = p]
  BY <1>2 DEF PortalTypes, PagesOK
<1>5. PagesOK' /\ page'[w].at # "enroll" /\ \A v \in Tabs \ {w} : page'[v] = page[v]
  <2> HIDE DEF p
  <2>1. QED
    BY <1>1, <1>3, <1>4, PageChange DEF PortalTypes
<1>6. RemoteOK'
  BY <1>2, StatusType DEF Activated, Activate, PortalTypes, Statuses
<1>7. CachesOK'
  BY <1>1, ListForgotten DEF Activate, PortalTypes
<1>8. QED
  BY <1>5, <1>6, <1>7 DEF PortalTypes, PageStep

LEMMA LicenseNotActivated ==
    ASSUME PortalTypes, NEW w \in Tabs, FailActivate(w)
    PROVE  PortalTypes' /\ PageStep(w)
<1>1. page[w] \in PortalPages /\ page[w].of \in Customers
  BY DEF PortalTypes, PagesOK, FailActivate, At
<1>2. PageStep(w)
  BY <1>1, PageGoesOn DEF PortalTypes, PortalPages, FailActivate
<1>3. page[w].todo \subseteq Nat /\ page[w].todo \subseteq Licenses /\ page[w].todo # {}
  BY <1>1, PortalAssumption DEF PortalPages, FailActivate
<1>4. Min(page[w].todo) \in Licenses
  BY <1>3, MinIn
<1>5. UNCHANGED status \/ \E l \in Licenses : status' = [status EXCEPT ![l] = "activated"]
  BY <1>4 DEF FailActivate, Activated
<1>6. RemoteOK'
  BY <1>5, StatusType DEF FailActivate, PortalTypes, Statuses
<1>7. CachesOK'
  BY DEF FailActivate, PortalTypes, CachesOK
<1>8. QED
  BY <1>2, <1>6, <1>7 DEF PortalTypes, PageStep

LEMMA LicenseApplied ==
    ASSUME PortalTypes, NEW w \in Tabs, AutoApply(w)
    PROVE  PortalTypes' /\ PageStep(w)
<1>1. page[w].of \in Customers
  BY DEF PortalTypes, PagesOK, AutoApply, At
<1>2. PICK l \in Licenses :
          /\ Applied(l, page[w].of)
          /\ GoOn(w, [m \in {l} |-> [status |-> "activated", current |-> TRUE]])
  BY DEF AutoApply
<1> DEFINE list == [m \in {l} |-> [status |-> "activated", current |-> TRUE]]
<1>3. list \in Lists
  <2>1. list \in [{l} -> [status : Statuses, current : BOOLEAN]]
    BY DEF Statuses
  <2>2. QED
    BY <2>1, ListIn
<1>4. PageStep(w)
  <2>1. GoOn(w, list)
    BY <1>2
  <2> HIDE DEF list
  <2>2. QED
    BY <1>1, <1>3, <2>1, PageGoesOn DEF PortalTypes
<1>5. RemoteOK'
  BY <1>2, StatusType DEF Applied, AutoApply, PortalTypes, Statuses
<1>6. CachesOK'
  BY <1>1, ListForgotten DEF AutoApply, PortalTypes
<1>7. QED
  BY <1>4, <1>5, <1>6 DEF PortalTypes, PageStep

LEMMA LicenseNotApplied ==
    ASSUME PortalTypes, NEW w \in Tabs, FailApply(w)
    PROVE  PortalTypes' /\ PageStep(w)
<1>1. page[w] \in PortalPages /\ page[w].of \in Customers
  BY DEF PortalTypes, PagesOK, FailApply, At
<1>2. PageStep(w)
  BY <1>1, PageGoesOn DEF PortalTypes, PortalPages, FailApply
<1>3. UNCHANGED status \/ \E l \in Licenses : status' = [status EXCEPT ![l] = "activated"]
  BY DEF FailApply, Applied
<1>4. RemoteOK'
  BY <1>3, StatusType DEF FailApply, PortalTypes, Statuses
<1>5. CachesOK'
  BY DEF FailApply, PortalTypes, CachesOK
<1>6. QED
  BY <1>2, <1>4, <1>5 DEF PortalTypes, PageStep

LEMMA LicensesEnd ==
    ASSUME PortalTypes, NEW w \in Tabs, EndLicenses(w)
    PROVE  PortalTypes' /\ PageStep(w)
<1>1. page[w].list \in Lists /\ page[w].of \in Customers
  BY DEF PortalTypes, PagesOK, PortalPages, EndLicenses, At
<1>2. PICK list \in Lists : list = page[w].list
  BY <1>1
<1>3. WithActivated(list, page[w].done) \in Lists
  <2>1. \A l \in DOMAIN list : list[l] \in [status : Statuses, current : BOOLEAN]
    BY ListIs
  <2>2. WithActivated(list, page[w].done)
            \in [DOMAIN list -> [status : Statuses, current : BOOLEAN]]
    BY <2>1 DEF WithActivated, Statuses
  <2>3. QED
    BY <2>2, ListIn, ListIs
<1>4. PageStep(w)
  BY <1>1, <1>2, <1>3, PageGoesOn DEF PortalTypes, EndLicenses
<1>5. RemoteOK' /\ CachesOK'
  BY DEF EndLicenses, remote, PortalTypes, RemoteOK, CachesOK
<1>6. QED
  BY <1>4, <1>5 DEF PortalTypes, PageStep

LEMMA CoursesIn ==
    ASSUME PortalTypes, NEW c \in Customers
    PROVE  CachedIntents(c) \subseteq Courses
  BY DEF CachedIntents, Enrollable, PortalTypes, RemoteOK, CachesOK

LEMMA IntentionsLoaded ==
    ASSUME PortalTypes, NEW w \in Tabs, LoadIntentions(w)
    PROVE  /\ PortalTypes' /\ PageStep(w)
           /\ page'[w].of = page[w].of /\ page'[w].courses = CachedIntents(page[w].of)
<1> DEFINE courses == CachedIntents(page[w].of)
           p == [page[w] EXCEPT !.at = "enroll", !.courses = courses]
<1>1. page[w] \in PortalPages /\ page[w].of \in Customers
  BY DEF PortalTypes, PagesOK, LoadIntentions, At
<1>2. courses \subseteq Courses
  BY <1>1, CoursesIn
<1>3. p \in PortalPages /\ p.of = page[w].of /\ p.courses = courses
  <2> HIDE DEF courses
  <2>1. QED
    BY <1>1, <1>2 DEF PortalPages
<1>4. page' = [page EXCEPT ![w] = p]
  BY DEF LoadIntentions, PortalTypes, PagesOK
<1>5. PagesOK' /\ page'[w] = p /\ \A v \in Tabs \ {w} : page'[v] = page[v]
  <2> HIDE DEF p
  <2>1. QED
    BY <1>1, <1>3, <1>4, PageChange DEF PortalTypes
<1>6. page'[w].of = page[w].of /\ page'[w].courses = courses
  <2> HIDE DEF p
  <2>1. QED
    BY <1>3, <1>5
<1>7. intents' = [intents EXCEPT ![page[w].of] = {}] \/ UNCHANGED intents
  BY DEF LoadIntentions, Remember
<1>8. RemoteOK' /\ CachesOK'
  BY <1>1, <1>7 DEF LoadIntentions, remote, PortalTypes, RemoteOK, CachesOK
<1>9. QED
  BY <1>5, <1>6, <1>8 DEF PortalTypes, PageStep

LEMMA CoursesEnrolled ==
    ASSUME PortalTypes, NEW w \in Tabs, NEW courses \in SUBSET Courses, Enroll(w, courses)
    PROVE  PortalTypes' /\ PageStep(w)
<1>1. PageStep(w)
  BY PageEnds DEF PortalTypes, Enroll
<1>2. page[w].of \in Customers
  BY DEF PortalTypes, PagesOK, Enroll, At
<1>3. RemoteOK'
  BY <1>2 DEF Enroll, Enrolled, PortalTypes, RemoteOK
<1>4. CachesOK'
  BY <1>2 DEF Enroll, Forget, PortalTypes, CachesOK
<1>5. QED
  BY <1>1, <1>3, <1>4 DEF PortalTypes, PageStep

LEMMA StepsSkipped ==
    ASSUME PortalTypes, NEW w \in Tabs, SkipIntentions(w) \/ SkipEnroll(w)
    PROVE  PortalTypes' /\ PageStep(w)
<1>1. PageStep(w)
  BY PageEnds DEF PortalTypes, SkipIntentions, SkipEnroll
<1>2. RemoteOK' /\ CachesOK'
  BY DEF SkipIntentions, SkipEnroll, remote, PortalTypes, RemoteOK, CachesOK
<1>3. QED
  BY <1>1, <1>2 DEF PortalTypes, PageStep

LEMMA LoadStep ==
    ASSUME PortalTypes, NEW w \in Tabs, Load(w)
    PROVE  PortalTypes' /\ PageStep(w)
<1>1. CASE LoadLicenses(w) \/ FailLicenses(w)
  BY <1>1, LicensesLoaded, LicensesNotLoaded
<1>2. CASE Activate(w) \/ FailActivate(w)
  BY <1>2, LicenseActivated, LicenseNotActivated
<1>3. CASE AutoApply(w) \/ FailApply(w) \/ EndLicenses(w)
  BY <1>3, LicenseApplied, LicenseNotApplied, LicensesEnd
<1>4. CASE LoadIntentions(w)
  BY <1>4, IntentionsLoaded
<1>5. CASE \E courses \in SUBSET Courses : Enroll(w, courses)
  BY <1>5, CoursesEnrolled
<1>6. CASE SkipIntentions(w) \/ SkipEnroll(w)
  BY <1>6, StepsSkipped
<1>7. QED
  BY <1>1, <1>2, <1>3, <1>4, <1>5, <1>6 DEF Load

(* Time and other people leave the pages and what is enrolled in alone,    *)
(* and only forget what is remembered.                                     *)
Around ==
    \/ \E c \in Customers : ExpireList(c) \/ ExpireIntents(c) \/ Belong(c)
    \/ \E l \in Licenses : Lapse(l) \/ Administer(l)
    \/ Renew
    \/ \E c \in Customers, x \in Courses : Want(c, x)

LEMMA AroundStep ==
    ASSUME PortalTypes, Around
    PROVE  /\ PortalTypes' /\ UNCHANGED <<enrolled, page>>
           /\ \A c \in Customers : intents'[c] \in {intents[c], NoEntry}
<1>1. ASSUME NEW c \in Customers, ExpireList(c) \/ ExpireIntents(c)
      PROVE  /\ PortalTypes' /\ UNCHANGED <<enrolled, page>>
             /\ \A d \in Customers : intents'[d] \in {intents[d], NoEntry}
  <2>1. RemoteOK' /\ PagesOK' /\ UNCHANGED <<enrolled, page>>
    BY <1>1 DEF ExpireList, ExpireIntents, remote, PortalTypes, RemoteOK, PagesOK
  <2>2. CachesOK' /\ \A d \in Customers : intents'[d] \in {intents[d], NoEntry}
    BY <1>1 DEF ExpireList, ExpireIntents, PortalTypes, CachesOK
  <2>3. QED
    BY <2>1, <2>2 DEF PortalTypes
<1>2. ASSUME \/ \E c \in Customers : Belong(c)
             \/ Renew \/ \E l \in Licenses : Lapse(l) \/ Administer(l)
             \/ \E c \in Customers, x \in Courses : Want(c, x)
      PROVE  /\ PortalTypes' /\ UNCHANGED <<enrolled, page>>
             /\ \A d \in Customers : intents'[d] \in {intents[d], NoEntry}
  <2>1. UNCHANGED <<enrolled, lists, intents, page>>
    BY <1>2 DEF Belong, Renew, Lapse, Administer, Want
  <2>2. ASSUME NEW c \in Customers, Belong(c) PROVE RemoteOK'
    <3>1. /\ linked' \subseteq Customers /\ active' \in linked' \cup {NoCustomer}
      BY <2>2 DEF Belong, ShouldSwitch, PortalTypes, RemoteOK
    <3>2. QED
      BY <2>2, <3>1, <2>1 DEF Belong, PortalTypes, RemoteOK
  <2>3. ASSUME NEW l \in Licenses, Lapse(l) \/ Administer(l) PROVE RemoteOK'
    BY <2>3 DEF Lapse, Administer, PortalTypes, RemoteOK, Statuses
  <2>4. ASSUME NEW c \in Customers, NEW x \in Courses, Want(c, x) PROVE RemoteOK'
    BY <2>4 DEF Want, PortalTypes, RemoteOK
  <2>5. ASSUME Renew PROVE RemoteOK'
    BY <2>5 DEF Renew, PortalTypes, RemoteOK
  <2>6. RemoteOK'
    BY <1>2, <2>2, <2>3, <2>4, <2>5
  <2>7. QED
    BY <2>1, <2>6 DEF PortalTypes, CachesOK, PagesOK
<1>3. QED
  BY <1>1, <1>2 DEF Around

LEMMA PortalNextCases ==
    ASSUME Next
    PROVE  \/ \E w \in Tabs, c \in Customers : Open(w, c)
           \/ \E w \in Tabs : Load(w)
           \/ Around
  BY DEF Next, Visit, Around

LEMMA PortalNextTypes ==
    ASSUME PortalTypes, [Next]_vars
    PROVE  PortalTypes'
<1>1. CASE UNCHANGED vars
  BY <1>1 DEF vars, remote, PortalTypes, RemoteOK, CachesOK, PagesOK
<1>2. CASE Next
  BY <1>2, PortalNextCases, PageOpens, LoadStep, AroundStep
<1>3. QED
  BY <1>1, <1>2

(* Type correctness of the services, the caches and the pages.             *)
THEOREM PortalTypeTheorem == Spec => []TypeOK
<1>1. PortalTypes => TypeOK
  BY DEF PortalTypes, RemoteOK, CachesOK, PagesOK, PortalPages, TypeOK
<1>2. PortalTypes /\ [Next]_vars => PortalTypes'
  BY PortalNextTypes
<1>3. QED
  BY <1>1, <1>2, PortalInitTypes, PTL DEF Spec

-----------------------------------------------------------------------------
(* One page at a time.  Then only one page has read what the learner is    *)
(* enrolled in, and it reads it again when it may enroll: the one answer   *)
(* that is remembered is that there is nothing to enroll in.               *)
EnrollInv ==
    /\ \A v, w \in Tabs : page[v].at # "idle" /\ page[w].at # "idle" => v = w
    /\ \A c \in Customers : intents[c] \in {NoEntry, {}}
    /\ EnrollOnce

LEMMA EnrollInit ==
    ASSUME Init
    PROVE  EnrollInv
<1>1. \A w \in Tabs : page[w].at = "idle"
  BY IdleIn DEF Init
<1>2. QED
  BY <1>1 DEF EnrollInv, Init, EnrollOnce, At

(* A step of the only page that loads.                                     *)
LEMMA EnrollPage ==
    ASSUME PortalTypes, EnrollInv, NEW w \in Tabs, PageStep(w), PortalTypes',
           \A v \in Tabs \ {w} : page[v].at = "idle",
           \A c \in Customers : intents'[c] \in {intents[c], NoEntry, {}},
           LoadIntentions(w) => page'[w].courses \cap enrolled'[page'[w].of] = {}
    PROVE  EnrollInv'
<1>1. \A v \in Tabs \ {w} : page'[v].at = "idle"
  BY DEF PageStep
<1>2. \A c \in Customers : intents'[c] \in {NoEntry, {}}
  BY DEF EnrollInv
<1>3. page'[w].at = "enroll" => page'[w].courses \cap enrolled'[page'[w].of] = {}
  BY DEF PageStep
<1>4. QED
  BY <1>1, <1>2, <1>3 DEF EnrollInv, EnrollOnce, At

LEMMA EnrollLoad ==
    ASSUME PortalTypes, EnrollInv, NEW w \in Tabs, Load(w)
    PROVE  EnrollInv'
<1>1. PortalTypes' /\ PageStep(w)
  BY LoadStep
<1>2. page[w].at # "idle"
  BY DEF Load, LoadLicenses, FailLicenses, Activate, FailActivate,
         AutoApply, FailApply, EndLicenses, LoadIntentions,
         SkipIntentions, Enroll, SkipEnroll, At
<1>3. \A v \in Tabs \ {w} : page[v].at = "idle"
  BY <1>2 DEF EnrollInv
<1>4. \A c \in Customers : intents'[c] \in {intents[c], NoEntry, {}}
  <2>1. intents \in [Customers -> (SUBSET Courses) \cup {NoEntry}]
    BY DEF PortalTypes, CachesOK
  <2>2. ASSUME LoadIntentions(w) PROVE \A c \in Customers : intents'[c] \in {intents[c], {}}
    BY <2>1, <2>2 DEF LoadIntentions, Remember
  <2>3. ASSUME NEW courses \in SUBSET Courses, Enroll(w, courses)
        PROVE  \A c \in Customers : intents'[c] \in {intents[c], NoEntry}
    BY <2>1, <2>3 DEF Enroll, Forget
  <2>4. QED
    BY <2>2, <2>3
       DEF Load, LoadLicenses, FailLicenses, Activate, FailActivate,
           AutoApply, FailApply, EndLicenses, SkipIntentions, SkipEnroll
<1>5. ASSUME LoadIntentions(w)
      PROVE  page'[w].courses \cap enrolled'[page'[w].of] = {}
  <2>1. PICK c \in Customers : c = page[w].of
    BY <1>2 DEF PortalTypes, PagesOK
  <2>2. page'[w].of = c /\ page'[w].courses = CachedIntents(c) /\ enrolled' = enrolled
    BY <1>5, <2>1, IntentionsLoaded DEF LoadIntentions, remote
  <2>3. CachedIntents(c) \cap enrolled[c] = {}
    BY DEF EnrollInv, CachedIntents, Enrollable
  <2>4. QED
    BY <2>2, <2>3
<1>6. QED
  BY <1>1, <1>3, <1>4, <1>5, EnrollPage

LEMMA EnrollOpen ==
    ASSUME ~Overlap, PortalTypes, EnrollInv, NEW w \in Tabs, NEW c \in Customers, Open(w, c)
    PROVE  EnrollInv'
<1>1. PortalTypes' /\ PageStep(w)
  BY PageOpens
<1>2. \A v \in Tabs : page[v].at = "idle"
  BY DEF Open, At
<1>3. intents' = intents /\ ~LoadIntentions(w)
  BY <1>2 DEF Open, LoadIntentions, At
<1>4. QED
  BY <1>1, <1>2, <1>3, EnrollPage

(* With one page at a time, no page asks to enroll the learner in a course *)
(* a second time, whatever calls were lost or not heard, whatever is       *)
(* cached, and for any number of customers, courses and licenses.          *)
THEOREM EnrollOnceTheorem ==
    ASSUME ~Overlap
    PROVE  Spec => []EnrollOnce
<1>1. PortalTypes /\ EnrollInv /\ [Next]_vars => EnrollInv'
  <2> SUFFICES ASSUME PortalTypes, EnrollInv, [Next]_vars PROVE EnrollInv'
    OBVIOUS
  <2>1. CASE UNCHANGED vars
    BY <2>1 DEF vars, remote, EnrollInv, EnrollOnce, At
  <2>2. CASE Around
    BY <2>2, AroundStep DEF EnrollInv, EnrollOnce, At
  <2>3. QED
    BY <2>1, <2>2, PortalNextCases, EnrollOpen, EnrollLoad
<1>2. PortalTypes /\ [Next]_vars => PortalTypes'
  BY PortalNextTypes
<1>3. EnrollInv => EnrollOnce
  BY DEF EnrollInv
<1>4. QED
  BY <1>1, <1>2, <1>3, PortalInitTypes, EnrollInit, PTL DEF Spec
=============================================================================
