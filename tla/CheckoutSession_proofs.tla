----------------------- MODULE CheckoutSession_proofs -----------------------
(* Proofs about the checkout intents and the sessions by which they are    *)
(* paid for, with any users, slugs, workflows and processes.  The type     *)
(* theorems hold whatever overlaps; the others assume that jobs do not, and*)
(* say what the code owes to that.                                         *)
EXTENDS CheckoutSession, TLAPS

-----------------------------------------------------------------------------
(* Rows and the transition table.                                          *)

LEMMA RowUpdate ==
    ASSUME NEW r \in Rows, NEW s \in Stored \cup {"none"}
    PROVE  LET q == [r EXCEPT !.state = s] IN
           /\ q \in Rows
           /\ q.state = s /\ q.slug = r.slug /\ q.workflow = r.workflow
  BY DEF Rows

LEMMA RowLink ==
    ASSUME NEW r \in Rows, NEW f \in Flows
    PROVE  LET q == [r EXCEPT !.workflow = f] IN
           /\ q \in Rows
           /\ q.state = r.state /\ q.slug = r.slug /\ q.workflow = f
  BY DEF Rows

LEMMA RowReserve ==
    ASSUME NEW r \in Rows, NEW s \in Slugs \cup {NoSlug}
    PROVE  LET q == [r EXCEPT !.state = "created", !.slug = s] IN
           /\ q \in Rows
           /\ q.state = "created" /\ q.slug = s /\ q.workflow = r.workflow
  BY DEF Rows, Stored, NonExpired

LEMMA NothingIsRow == Nothing \in Rows
  BY DEF Nothing, Rows

LEMMA IdleIsJob == Idle \in Jobs /\ Idle.op = "idle" /\ Idle.users = {}
                    /\ Idle.expiring = {} /\ Idle.late = {}
  BY NothingIsRow DEF Idle, Jobs

(* What the table says of the states that matter here.                     *)
LEMMA Table ==
    /\ \A s \in Stored : Allowed(s) \subseteq Stored
    /\ \A s \in Settled : Allowed(s) \subseteq Settled
    /\ \A s \in Stored : "paid" \in Allowed(s) => s \in {"created", "paid"}
    /\ Fulfillable \subseteq Settled \ {"fulfilled"}
<1>1. \A s \in Stored : Allowed(s) \subseteq Stored
  BY DEF Allowed, Stored, NonExpired, Settled, Success, Errored
<1>2. \A s \in Settled : Allowed(s) \subseteq Settled
  BY DEF Allowed, Settled, Success, Errored
<1>3. \A s \in Stored : "paid" \in Allowed(s) => s \in {"created", "paid"}
  BY DEF Allowed, Stored, NonExpired, Settled, Success, Errored
<1>4. Fulfillable \subseteq Settled \ {"fulfilled"}
  BY DEF Fulfillable, Allowed, Stored, NonExpired, Settled, Success, Errored
<1>5. QED
  BY <1>1, <1>2, <1>3, <1>4

LEMMA CleanedRow ==
    ASSUME CheckoutTypeOK, NEW u \in Users
    PROVE  /\ Cleaned(u) \in Rows
           /\ Cleaned(u).slug = intent[u].slug
           /\ Cleaned(u).workflow = intent[u].workflow
           /\ \/ Cleaned(u).state = intent[u].state
              \/ Cleaned(u).state = "expired" /\ intent[u].state = "created"
<1>1. intent[u] \in Rows
  BY DEF CheckoutTypeOK
<1>2. "expired" \in Stored
  BY DEF Stored
<1>3. QED
  BY <1>1, <1>2, RowUpdate DEF Cleaned, Lapsed

-----------------------------------------------------------------------------
(* Types.                                                                  *)

LEMMA BeginType ==
    ASSUME CheckoutTypeOK, NEW j \in Procs,
           NEW op \in {"idle", "insert", "update", "cleanup", "stall", "pay",
                       "patch", "link", "error", "fulfill"},
           NEW us \in SUBSET Users, NEW row \in Rows, NEW exp \in SUBSET Users,
           Begin(j, op, us, row, exp)
    PROVE  CheckoutTypeOK'
<1>1. [op |-> op, users |-> us, row |-> row, expiring |-> exp, late |-> Late(op, us, row)] \in Jobs
  BY DEF Jobs, Late
<1>2. job' \in [Procs -> Jobs]
  BY <1>1 DEF Begin, CheckoutTypeOK
<1>3. QED
  BY <1>2 DEF Begin, CheckoutTypeOK

LEMMA SaveType ==
    ASSUME CheckoutTypeOK, NEW j \in Procs, NEW whole \in BOOLEAN, Save(j, whole)
    PROVE  /\ intent' \in [Users -> Rows]
           /\ lapsed' \subseteq Users /\ stale' \subseteq Users
           /\ job' \in [Procs -> Jobs]
<1>1. job[j] \in Jobs
  BY DEF CheckoutTypeOK
<1>2. job[j].row \in Rows /\ job[j].row.state \in Stored \cup {"none"}
  BY <1>1 DEF Jobs, Rows
<1>3. "expired" \in Stored
  BY DEF Stored
<1>4. ASSUME NEW u \in Users PROVE intent'[u] \in Rows
  <2>1. intent[u] \in Rows
    BY DEF CheckoutTypeOK
  <2>2. /\ [intent[u] EXCEPT !.state = job[j].row.state] \in Rows
        /\ [intent[u] EXCEPT !.state = "expired"] \in Rows
    BY <2>1, <1>2, <1>3, RowUpdate
  <2>3. QED
    BY <1>2, <2>1, <2>2 DEF Save
<1>5. intent' \in [Users -> Rows]
  BY <1>4 DEF Save
<1>6. job' \in [Procs -> Jobs]
  BY IdleIsJob DEF Save, CheckoutTypeOK
<1>7. lapsed' \subseteq Users /\ stale' \subseteq Users
  BY <1>1 DEF Save, CheckoutTypeOK, Jobs
<1>8. QED
  BY <1>5, <1>6, <1>7

LEMMA InitType == Init => CheckoutTypeOK
  BY NothingIsRow, IdleIsJob DEF Init, CheckoutTypeOK

LEMMA ReadType ==
    ASSUME CheckoutTypeOK, NEW w \in Procs, NEW u \in Users,
           \/ \E s \in Slugs \cup {NoSlug} : ReadIntent(w, u, s)
           \/ FindExpired(w) \/ FindStalled(w) \/ ReadForPayment(w, u)
           \/ \E s \in Stored : ReadForPatch(w, u, s)
    PROVE  CheckoutTypeOK'
<1>1. Lapsed \subseteq Users /\ Stalled \subseteq Users /\ intent[u] \in Rows
  BY DEF Lapsed, Stalled, CheckoutTypeOK
<1>2. CASE \E s \in Slugs \cup {NoSlug} : ReadIntent(w, u, s)
  <2>1. PICK s \in Slugs \cup {NoSlug} : ReadIntent(w, u, s)
    BY <1>2
  <2> DEFINE row == Cleaned(u)
             kept == s \in {NoSlug, row.slug}
             slug == IF kept THEN row.slug ELSE s
             op == IF row.state = "none" THEN "insert" ELSE "update"
             new == [row EXCEPT !.state = "created", !.slug = slug]
  <2>2. row \in Rows /\ slug \in Slugs \cup {NoSlug}
    BY CleanedRow DEF Rows
  <2>3. new \in Rows
    BY <2>2, RowReserve
  <2>4. \/ Begin(w, op, {u}, new, Lapsed)
        \/ Begin(w, "cleanup", {}, Nothing, Lapsed)
    BY <2>1 DEF ReadIntent
  <2>5. QED
    BY <2>3, <2>4, <1>1, NothingIsRow, BeginType
<1>3. CASE FindExpired(w)
  BY <1>1, <1>3, NothingIsRow, BeginType DEF FindExpired
<1>4. CASE FindStalled(w)
  <2>1. [Nothing EXCEPT !.state = "errored_stalled"] \in Rows
    BY NothingIsRow, RowUpdate DEF Stored, NonExpired, Settled, Errored
  <2>2. QED
    BY <1>1, <1>4, <2>1, BeginType DEF FindStalled
<1>5. CASE ReadForPayment(w, u)
  <2>1. [Nothing EXCEPT !.state = "paid"] \in Rows
    BY NothingIsRow, RowUpdate DEF Stored, NonExpired, Settled, Success
  <2>2. QED
    BY <1>5, <2>1, BeginType DEF ReadForPayment
<1>6. CASE \E s \in Stored : ReadForPatch(w, u, s)
  <2>1. PICK s \in Stored : ReadForPatch(w, u, s)
    BY <1>6
  <2>2. [intent[u] EXCEPT !.state = s] \in Rows
    BY <1>1, RowUpdate
  <2>3. QED
    BY <2>1, <2>2, BeginType DEF ReadForPatch
<1>7. QED
  BY <1>2, <1>3, <1>4, <1>5, <1>6

LEMMA FlowReadType ==
    ASSUME CheckoutTypeOK, NEW f \in Flows, NEW u \in Users,
           ReadForLink(f, u) \/ ReadForError(f, u) \/ ReadForFulfill(f, u)
    PROVE  CheckoutTypeOK'
<1>1. f \in Procs /\ intent[u] \in Rows
  BY DEF Procs, CheckoutTypeOK
<1>2. /\ [intent[u] EXCEPT !.workflow = f] \in Rows
      /\ [intent[u] EXCEPT !.state = "errored_provisioning"] \in Rows
      /\ [intent[u] EXCEPT !.state = "fulfilled"] \in Rows
  BY <1>1, RowLink, RowUpdate DEF Stored, NonExpired, Settled, Success, Errored
<1>3. QED
  BY <1>1, <1>2, BeginType DEF ReadForLink, ReadForError, ReadForFulfill

LEMMA NextType == CheckoutTypeOK /\ [Next]_vars => CheckoutTypeOK'
<1> SUFFICES ASSUME CheckoutTypeOK, [Next]_vars PROVE CheckoutTypeOK'
  OBVIOUS
<1>1. ASSUME NEW w \in Workers, WorkerStep(w) PROVE CheckoutTypeOK'
  <2> w \in Procs
    BY DEF Procs
  <2>1. CASE \/ \E u \in Users, s \in Slugs \cup {NoSlug} : ReadIntent(w, u, s)
             \/ \E u \in Users : ReadForPayment(w, u)
             \/ \E u \in Users, s \in Stored : ReadForPatch(w, u, s)
    BY <2>1, ReadType
  <2>2. CASE FindExpired(w)
    <3>1. PICK u \in Users : TRUE
      BY <2>2 DEF FindExpired, Lapsed, CheckoutTypeOK
    <3>2. QED
      BY <2>2, <3>1, ReadType
  <2>3. CASE FindStalled(w)
    <3>1. PICK u \in Users : TRUE
      BY <2>3 DEF FindStalled, Stalled, CheckoutTypeOK
    <3>2. QED
      BY <2>3, <3>1, ReadType
  <2>4. CASE SaveIntent(w) \/ SaveExpired(w) \/ SavePaid(w) \/ SavePatch(w)
    <3>1. \E whole \in BOOLEAN : Save(w, whole)
      BY <2>4 DEF SaveIntent, SaveExpired, SavePaid, SavePatch
    <3>2. UNCHANGED phase
      BY <2>4 DEF SaveIntent, SaveExpired, SavePaid, SavePatch
    <3>3. QED
      BY <3>1, <3>2, SaveType DEF CheckoutTypeOK
  <2>5. ASSUME NEW u \in Users, SaveStalled(w, u) PROVE CheckoutTypeOK'
    <3>1. [intent[u] EXCEPT !.state = "errored_stalled"] \in Rows
      BY RowUpdate DEF CheckoutTypeOK, Stored, NonExpired, Settled, Errored
    <3>2. intent' \in [Users -> Rows]
      BY <2>5, <3>1 DEF SaveStalled, CheckoutTypeOK
    <3>3. job[w] \in Jobs
      BY DEF CheckoutTypeOK
    <3>4. Remaining(job[w], u) \in Jobs
      BY <3>3, IdleIsJob DEF Jobs, Remaining
    <3>5. job' \in [Procs -> Jobs]
      BY <2>5, <3>4 DEF SaveStalled, CheckoutTypeOK
    <3>6. QED
      BY <2>5, <3>2, <3>5 DEF SaveStalled, CheckoutTypeOK
  <2>6. CASE Fail(w)
    BY <2>6, IdleIsJob DEF Fail, CheckoutTypeOK
  <2>7. QED
    BY <1>1, <2>1, <2>2, <2>3, <2>4, <2>5, <2>6 DEF WorkerStep
<1>2. ASSUME NEW f \in Flows, FlowStep(f) PROVE CheckoutTypeOK'
  <2> f \in Procs
    BY DEF Procs
  <2>1. CASE \E u \in Users : ReadForLink(f, u) \/ ReadForError(f, u) \/ ReadForFulfill(f, u)
    BY <2>1, FlowReadType
  <2>2. CASE SaveLink(f) \/ SaveLinked(f)
    <3>1. /\ intent' \in [Users -> Rows]
          /\ lapsed' \subseteq Users /\ stale' \subseteq Users
          /\ job' \in [Procs -> Jobs]
      BY <2>2, SaveType DEF SaveLink, SaveLinked
    <3>2. QED
      BY <2>2, <3>1 DEF SaveLink, SaveLinked, CheckoutTypeOK
  <2>3. CASE MakePlans(f)
    BY <2>3 DEF MakePlans, CheckoutTypeOK
  <2>4. CASE EndFlow(f)
    BY <2>4, IdleIsJob DEF EndFlow, CheckoutTypeOK
  <2>5. QED
    BY <1>2, <2>1, <2>2, <2>3, <2>4 DEF FlowStep
<1>3. ASSUME NEW u \in Users, MarkAsExpired(u) PROVE CheckoutTypeOK'
  <2>1. [intent[u] EXCEPT !.state = "expired"] \in Rows
    BY RowUpdate DEF CheckoutTypeOK, Stored
  <2>2. QED
    BY <1>3, <2>1 DEF MarkAsExpired, CheckoutTypeOK
<1>4. ASSUME NEW u \in Users, ReservationEnds(u) \/ PaymentGrowsOld(u) PROVE CheckoutTypeOK'
  BY <1>4 DEF ReservationEnds, PaymentGrowsOld, CheckoutTypeOK
<1>5. CASE UNCHANGED vars
  BY <1>5 DEF vars, CheckoutTypeOK
<1>6. QED
  BY <1>1, <1>2, <1>3, <1>4, <1>5 DEF Next

(* The variables keep their types, whatever overlaps.                      *)
THEOREM CheckoutTypeTheorem == Spec => []CheckoutTypeOK
  BY InitType, NextType, PTL DEF Spec

-----------------------------------------------------------------------------
(* When jobs do not overlap, a process that has started one is alone until *)
(* it saves, and what it read stays current.                               *)

LEMMA BeginInv ==
    ASSUME CheckoutTypeOK, CheckoutInv, ~Overlap, NEW j \in Procs,
           NEW op, NEW us, NEW row, NEW exp, Begin(j, op, us, row, exp),
           ReadIsCurrent(j)'
    PROVE  CheckoutInv'
<1>1. \A k \in Procs : job[k] = Idle
  BY DEF Begin
<1>2. \A k \in Procs \ {j} : job'[k] = Idle
  BY <1>1 DEF Begin, CheckoutTypeOK
<1>3. OneJob'
  BY <1>2 DEF OneJob
<1>4. ASSUME NEW k \in Procs PROVE ReadIsCurrent(k)'
  BY <1>2, IdleIsJob DEF ReadIsCurrent
<1>5. LinkedBySlug'
  BY DEF Begin, CheckoutInv, LinkedBySlug
<1>6. QED
  BY <1>3, <1>4, <1>5 DEF CheckoutInv

(* The step that ends the only job.                                        *)
LEMMA EndInv ==
    ASSUME CheckoutTypeOK, CheckoutInv, NEW j \in Procs, job[j] # Idle,
           job' = [job EXCEPT ![j] = Idle], LinkedBySlug'
    PROVE  CheckoutInv'
<1>1. \A k \in Procs : job'[k] = Idle
  BY DEF CheckoutInv, OneJob, CheckoutTypeOK
<1>2. OneJob' /\ \A k \in Procs : ReadIsCurrent(k)'
  BY <1>1, IdleIsJob DEF OneJob, ReadIsCurrent
<1>3. QED
  BY <1>2 DEF CheckoutInv

LEMMA InitInv == Init => CheckoutInv
<1> SUFFICES ASSUME Init PROVE CheckoutInv
  OBVIOUS
<1>1. \A k \in Procs : job[k] = Idle
  BY DEF Init
<1>2. OneJob /\ \A k \in Procs : ReadIsCurrent(k)
  BY <1>1, IdleIsJob DEF OneJob, ReadIsCurrent
<1>3. LinkedBySlug
  BY DEF Init, Nothing, LinkedBySlug
<1>4. QED
  BY <1>2, <1>3 DEF CheckoutInv

LEMMA ReadInv ==
    ASSUME CheckoutTypeOK, CheckoutInv, ~Overlap, NEW w \in Procs, NEW u \in Users,
           \/ \E s \in Slugs \cup {NoSlug} : ReadIntent(w, u, s)
           \/ FindExpired(w) \/ FindStalled(w) \/ ReadForPayment(w, u)
           \/ \E s \in Stored : ReadForPatch(w, u, s)
    PROVE  CheckoutInv' /\ UNCHANGED <<intent, phase>>
<1>1. \A v \in Lapsed : v \in Users /\ intent[v].state = "created"
  BY DEF Lapsed, CheckoutTypeOK
<1>2. \A v \in Stalled : v \in Users /\ intent[v].state = "paid"
  BY DEF Stalled, CheckoutTypeOK
<1>3. intent[u] \in Rows /\ job \in [Procs -> Jobs]
  BY DEF CheckoutTypeOK
<1>4. CASE \E s \in Slugs \cup {NoSlug} : ReadIntent(w, u, s)
  <2>1. PICK s \in Slugs \cup {NoSlug} : ReadIntent(w, u, s)
    BY <1>4
  <2> DEFINE row == Cleaned(u)
             kept == s \in {NoSlug, row.slug}
             slug == IF kept THEN row.slug ELSE s
             op == IF row.state = "none" THEN "insert" ELSE "update"
             new == [row EXCEPT !.state = "created", !.slug = slug]
  <2>2. row \in Rows /\ slug \in Slugs \cup {NoSlug}
    BY CleanedRow DEF Rows
  <2>3. new.state = "created" /\ new.workflow = intent[u].workflow
    <3>1. row.workflow = intent[u].workflow
      BY CleanedRow
    <3> HIDE DEF row, slug
    <3>2. new.state = "created" /\ new.workflow = row.workflow
      BY <2>2, RowReserve
    <3>3. QED
      BY <3>1, <3>2
  <2>4. CASE row.state \in {"none", "created", "expired"} /\ Begin(w, op, {u}, new, Lapsed)
    <3>1. intent[u].state \notin Settled
      BY <2>4, CleanedRow DEF Settled, Success, Errored
    <3>2. new.workflow = NoFlow
      BY <2>3, <3>1 DEF CheckoutInv, LinkedBySlug
    <3> HIDE DEF new, op
    <3>3. /\ job'[w] = [op |-> op, users |-> {u}, row |-> new, expiring |-> Lapsed,
                       late |-> Late(op, {u}, new)]
          /\ intent' = intent
      BY <2>4, <1>3 DEF Begin
    <3>4. op \in {"insert", "update"}
      BY DEF op
    <3>5. ReadIsCurrent(w)'
      BY <2>3, <3>1, <3>2, <3>3, <3>4, <1>1 DEF ReadIsCurrent
    <3>6. QED
      BY <2>4, <3>5, BeginInv DEF Begin
  <2>5. CASE Begin(w, "cleanup", {}, Nothing, Lapsed)
    <3>1. ReadIsCurrent(w)'
      BY <2>5, <1>1, <1>3 DEF Begin, ReadIsCurrent
    <3>2. QED
      BY <2>5, <3>1, BeginInv DEF Begin
  <2>6. QED
    BY <2>1, <2>4, <2>5 DEF ReadIntent
<1>5. CASE FindExpired(w)
  <2>1. ReadIsCurrent(w)'
    BY <1>5, <1>1, <1>3 DEF FindExpired, Begin, ReadIsCurrent
  <2>2. QED
    BY <1>5, <2>1, BeginInv DEF FindExpired, Begin
<1>6. CASE FindStalled(w)
  <2>1. ReadIsCurrent(w)'
    BY <1>6, <1>2, <1>3 DEF FindStalled, Begin, ReadIsCurrent
  <2>2. QED
    BY <1>6, <2>1, BeginInv DEF FindStalled, Begin
<1>7. CASE ReadForPayment(w, u)
  <2>1. intent[u].state \in {"created", "paid"}
    BY <1>7, <1>3, Table DEF ReadForPayment, Rows
  <2>2. [Nothing EXCEPT !.state = "paid"].state = "paid"
    BY DEF Nothing
  <2>3. ReadIsCurrent(w)'
    BY <1>7, <1>3, <2>1, <2>2 DEF ReadForPayment, Begin, ReadIsCurrent
  <2>4. QED
    BY <1>7, <2>3, BeginInv DEF ReadForPayment, Begin
<1>8. CASE \E s \in Stored : ReadForPatch(w, u, s)
  <2>1. PICK s \in Stored : ReadForPatch(w, u, s)
    BY <1>8
  <2> DEFINE new == [intent[u] EXCEPT !.state = s]
  <2>2. new.state = s
    BY <1>3, RowUpdate
  <2>3. new = [intent[u] EXCEPT !.state = new.state]
    BY <2>2
  <2>4. s \in Allowed(intent[u].state) /\ Begin(w, "patch", {u}, new, {})
    BY <2>1 DEF ReadForPatch
  <2> HIDE DEF new
  <2>5. /\ job'[w] = [op |-> "patch", users |-> {u}, row |-> new, expiring |-> {},
                     late |-> Late("patch", {u}, new)]
        /\ intent' = intent
    BY <2>4, <1>3 DEF Begin
  <2>6. ReadIsCurrent(w)'
    BY <2>2, <2>3, <2>4, <2>5 DEF ReadIsCurrent
  <2>7. QED
    BY <2>4, <2>6, BeginInv DEF Begin
<1>9. QED
  BY <1>4, <1>5, <1>6, <1>7, <1>8

LEMMA FlowReadInv ==
    ASSUME CheckoutTypeOK, CheckoutInv, ~Overlap, NEW f \in Flows, NEW u \in Users,
           ReadForLink(f, u) \/ ReadForError(f, u) \/ ReadForFulfill(f, u)
    PROVE  CheckoutInv' /\ UNCHANGED <<intent, phase>>
<1>1. f \in Procs /\ job \in [Procs -> Jobs]
  BY DEF Procs, CheckoutTypeOK
<1>2. CASE ReadForLink(f, u)
  <2>1. ReadIsCurrent(f)'
    BY <1>1, <1>2 DEF ReadForLink, Begin, ReadIsCurrent
  <2>2. QED
    BY <1>1, <1>2, <2>1, BeginInv DEF ReadForLink, Begin
<1>3. CASE ReadForError(f, u)
  <2>1. ReadIsCurrent(f)'
    BY <1>1, <1>3 DEF ReadForError, Begin, ReadIsCurrent
  <2>2. QED
    BY <1>1, <1>3, <2>1, BeginInv DEF ReadForError, Begin
<1>4. CASE ReadForFulfill(f, u)
  <2>1. ReadIsCurrent(f)'
    BY <1>1, <1>4 DEF ReadForFulfill, Begin, ReadIsCurrent
  <2>2. QED
    BY <1>1, <1>4, <2>1, BeginInv DEF ReadForFulfill, Begin
<1>5. QED
  BY <1>2, <1>3, <1>4

(* The saves, except for the row-by-row one of the stalled intents.        *)
Single == {"insert", "update", "cleanup", "pay", "patch", "link", "error", "fulfill"}
WholeRow == {"insert", "update", "patch", "link", "error", "fulfill"}

(* No save takes a paid intent back, and links stay between an intent and  *)
(* the workflow of its slug.                                               *)
LEMMA SaveIsSafe ==
    ASSUME CheckoutTypeOK, CheckoutInv, NEW j \in Procs, job[j].op \in Single,
           job[j].op \in {"link", "error", "fulfill"} => j \in Flows,
           Save(j, job[j].op \in WholeRow), NEW u \in Users
    PROVE  /\ intent[u].state \in Settled => intent'[u].state \in Settled
           /\ intent'[u].workflow # NoFlow =>
                    /\ intent'[u].slug = SlugOf[intent'[u].workflow]
                    /\ intent'[u].state \in Settled
<1> DEFINE todo == job[j]
<1>1. intent[u] \in Rows /\ todo \in Jobs /\ todo.row \in Rows
  BY DEF CheckoutTypeOK, Jobs
<1>2. /\ intent[u].workflow # NoFlow =>
            /\ intent[u].slug = SlugOf[intent[u].workflow]
            /\ intent[u].state \in Settled
      /\ ReadIsCurrent(j)
  BY DEF CheckoutInv, LinkedBySlug
<1>3. {"paid", "fulfilled", "errored_provisioning"} \subseteq Settled /\ "created" \notin Settled
  BY DEF Settled, Success, Errored
<1>4. CASE u \notin todo.users /\ u \notin todo.expiring
  BY <1>2, <1>4 DEF Save
<1>5. CASE u \notin todo.users /\ u \in todo.expiring
  <2>1. intent[u].state = "created" /\ intent[u].workflow = NoFlow
    BY <1>2, <1>3, <1>5 DEF ReadIsCurrent
  <2>2. intent'[u] = [intent[u] EXCEPT !.state = "expired"]
    BY <1>5 DEF Save
  <2>3. intent'[u].workflow = NoFlow
    BY <1>1, <2>1, <2>2, RowUpdate DEF Stored
  <2>4. QED
    BY <1>3, <2>1, <2>3
<1>6. CASE u \in todo.users /\ todo.op \in {"insert", "update"}
  <2>1. intent'[u] = todo.row
    BY <1>6 DEF Save, WholeRow
  <2>2. QED
    BY <1>2, <1>6, <2>1 DEF ReadIsCurrent
<1>7. CASE u \in todo.users /\ todo.op = "pay"
  <2>1. intent'[u] = [intent[u] EXCEPT !.state = "paid"]
    BY <1>2, <1>7 DEF Save, ReadIsCurrent, WholeRow
  <2>2. /\ intent'[u].state = "paid"
        /\ intent'[u].slug = intent[u].slug
        /\ intent'[u].workflow = intent[u].workflow
    BY <1>1, <1>3, <2>1, RowUpdate DEF Stored, NonExpired
  <2>3. QED
    BY <1>2, <1>3, <2>2
<1>8. CASE u \in todo.users /\ todo.op = "patch"
  <2>1. intent'[u] = todo.row
    BY <1>8 DEF Save, WholeRow
  <2>2. /\ todo.row = [intent[u] EXCEPT !.state = todo.row.state]
        /\ todo.row.state \in Allowed(intent[u].state)
    BY <1>2, <1>8 DEF ReadIsCurrent
  <2>3. todo.row.slug = intent[u].slug /\ todo.row.workflow = intent[u].workflow
    BY <1>1, <2>2, RowUpdate DEF Rows
  <2>4. intent[u].state \in Settled => todo.row.state \in Settled
    BY <2>2, Table
  <2>5. QED
    BY <1>2, <2>1, <2>3, <2>4
<1>9. CASE u \in todo.users /\ todo.op = "link"
  <2>1. intent'[u] = [intent[u] EXCEPT !.workflow = j]
    BY <1>2, <1>9 DEF Save, WholeRow, ReadIsCurrent
  <2>2. intent[u].state \in Settled /\ intent[u].slug = SlugOf[j]
    BY <1>2, <1>9, Table DEF ReadIsCurrent
  <2>3. /\ intent'[u].state = intent[u].state
        /\ intent'[u].slug = intent[u].slug
        /\ intent'[u].workflow = j
    BY <1>1, <1>9, <2>1, RowLink
  <2>4. QED
    BY <2>2, <2>3
<1>10. CASE u \in todo.users /\ todo.op \in {"error", "fulfill"}
  <2>1. PICK s \in {"errored_provisioning", "fulfilled"} :
            intent'[u] = [intent[u] EXCEPT !.state = s]
    BY <1>2, <1>10 DEF Save, WholeRow, ReadIsCurrent
  <2>2. /\ intent'[u].state = s
        /\ intent'[u].slug = intent[u].slug
        /\ intent'[u].workflow = intent[u].workflow
    BY <1>1, <1>3, <2>1, RowUpdate DEF Stored, NonExpired
  <2>3. QED
    BY <1>2, <1>3, <2>2
<1>11. todo.op = "cleanup" => todo.users = {}
  BY <1>2 DEF ReadIsCurrent
<1>12. QED
  BY <1>4, <1>5, <1>6, <1>7, <1>8, <1>9, <1>10, <1>11 DEF Single

LEMMA SaveStalledIsSafe ==
    ASSUME CheckoutTypeOK, CheckoutInv, NEW w \in Procs, NEW u \in Users, SaveStalled(w, u)
    PROVE  /\ CheckoutInv'
           /\ intent[u].state = "paid"
           /\ \A v \in Users : intent[v].state \in Settled => intent'[v].state \in Settled
<1>1. job[w] \in Jobs /\ intent[u] \in Rows /\ job[w] # Idle
  BY IdleIsJob DEF SaveStalled, CheckoutTypeOK
<1>2. /\ \A v \in job[w].users : intent[v].state = "paid"
      /\ \A v \in job[w].expiring : intent[v].state = "created"
  BY DEF SaveStalled, CheckoutInv, ReadIsCurrent
<1>3. intent[u].state = "paid"
  BY <1>2 DEF SaveStalled
<1>4. /\ intent'[u].state = "errored_stalled"
      /\ intent'[u].slug = intent[u].slug
      /\ intent'[u].workflow = intent[u].workflow
      /\ \A v \in Users \ {u} : intent'[v] = intent[v]
  BY <1>1 DEF SaveStalled, CheckoutTypeOK, Rows
<1>5. \A v \in Users : intent[v].state \in Settled => intent'[v].state \in Settled
  BY <1>4 DEF Settled, Errored
<1>6. LinkedBySlug'
  BY <1>4, <1>5 DEF CheckoutInv, LinkedBySlug
<1>7. \A k \in Procs \ {w} : job'[k] = Idle
  BY <1>1 DEF SaveStalled, CheckoutInv, OneJob, CheckoutTypeOK
<1>8. OneJob'
  BY <1>7 DEF OneJob
<1>9. ReadIsCurrent(w)'
  <2>1. CASE job'[w] = Idle
    BY <2>1, IdleIsJob DEF ReadIsCurrent
  <2>2. CASE job'[w] # Idle
    <3>1. job'[w] = Remaining(job[w], u)
      BY DEF SaveStalled, CheckoutTypeOK
    <3>2. job'[w] = [job[w] EXCEPT !.users = job[w].users \ {u}]
      BY <2>2, <3>1 DEF Remaining
    <3>3. /\ job'[w].op = "stall"
          /\ job'[w].users = job[w].users \ {u}
          /\ job'[w].expiring = job[w].expiring
      BY <1>1, <3>2 DEF Jobs, SaveStalled
    <3>4. \A v \in job'[w].users \cup job'[w].expiring : v \in Users /\ v # u
      BY <1>1, <1>2, <1>3, <3>3 DEF Jobs
    <3>5. QED
      BY <1>2, <1>4, <3>3, <3>4 DEF ReadIsCurrent
  <2>3. QED
    BY <2>1, <2>2
<1>10. \A k \in Procs : ReadIsCurrent(k)'
  BY <1>7, <1>9, IdleIsJob DEF ReadIsCurrent
<1>11. QED
  BY <1>3, <1>5, <1>6, <1>8, <1>10 DEF CheckoutInv

(* One step: the invariant holds again, and no payment was lost.           *)
LEMMA StepIsSafe ==
    ASSUME CheckoutTypeOK, CheckoutInv, ~Overlap, "admin" \notin Kinds, [Next]_vars
    PROVE  /\ CheckoutInv'
           /\ \A u \in Users : intent[u].state \in Settled => intent'[u].state \in Settled
<1> DEFINE Kept == \A u \in Users : intent[u].state \in Settled => intent'[u].state \in Settled
<1>1. ASSUME NEW j \in Procs, job[j].op \in Single,
             job[j].op \in {"link", "error", "fulfill"} => j \in Flows,
             Save(j, job[j].op \in WholeRow)
      PROVE  CheckoutInv' /\ Kept
  <2>1. Kept /\ LinkedBySlug'
    BY <1>1, SaveIsSafe DEF LinkedBySlug
  <2>2. job[j] # Idle /\ job' = [job EXCEPT ![j] = Idle]
    BY <1>1, IdleIsJob DEF Save, Single
  <2>3. QED
    BY <2>1, <2>2, EndInv
<1>2. ASSUME NEW w \in Workers, WorkerStep(w) PROVE CheckoutInv' /\ Kept
  <2> w \in Procs
    BY DEF Procs
  <2>1. CASE \/ \E u \in Users, s \in Slugs \cup {NoSlug} : ReadIntent(w, u, s)
             \/ \E u \in Users : ReadForPayment(w, u)
             \/ \E u \in Users, s \in Stored : ReadForPatch(w, u, s)
    BY <2>1, ReadInv
  <2>2. CASE FindExpired(w) \/ FindStalled(w)
    <3>1. PICK u \in Users : TRUE
      BY <2>2 DEF FindExpired, FindStalled, Lapsed, Stalled, CheckoutTypeOK
    <3>2. QED
      BY <2>2, <3>1, ReadInv
  <2>3. CASE SaveIntent(w)
    <3>1. job[w].op \in Single /\ Save(w, job[w].op \in WholeRow)
      BY <2>3 DEF SaveIntent, Single, WholeRow
    <3>2. QED
      BY <2>3, <3>1, <1>1 DEF SaveIntent
  <2>4. CASE SaveExpired(w)
    <3>1. job[w].op \in Single /\ Save(w, job[w].op \in WholeRow)
      BY <2>4 DEF SaveExpired, Single, WholeRow, Save
    <3>2. QED
      BY <2>4, <3>1, <1>1 DEF SaveExpired
  <2>5. CASE SavePaid(w)
    <3>1. job[w].op \in Single /\ Save(w, job[w].op \in WholeRow)
      BY <2>5 DEF SavePaid, Single, WholeRow, Save
    <3>2. QED
      BY <2>5, <3>1, <1>1 DEF SavePaid
  <2>6. CASE SavePatch(w)
    <3>1. job[w].op \in Single /\ Save(w, job[w].op \in WholeRow)
      BY <2>6 DEF SavePatch, Single, WholeRow
    <3>2. QED
      BY <2>6, <3>1, <1>1 DEF SavePatch
  <2>7. CASE \E u \in Users : SaveStalled(w, u)
    BY <2>7, SaveStalledIsSafe
  <2>8. CASE Fail(w)
    <3>1. LinkedBySlug'
      BY <2>8 DEF Fail, CheckoutInv, LinkedBySlug
    <3>2. QED
      BY <2>8, <3>1, EndInv DEF Fail
  <2>9. QED
    BY <1>2, <2>1, <2>2, <2>3, <2>4, <2>5, <2>6, <2>7, <2>8 DEF WorkerStep
<1>3. ASSUME NEW f \in Flows, FlowStep(f) PROVE CheckoutInv' /\ Kept
  <2> f \in Procs
    BY DEF Procs
  <2>1. CASE \E u \in Users : ReadForLink(f, u) \/ ReadForError(f, u) \/ ReadForFulfill(f, u)
    BY <2>1, FlowReadInv
  <2>2. CASE SaveLink(f) \/ SaveLinked(f)
    <3>1. job[f].op \in Single /\ Save(f, job[f].op \in WholeRow)
      BY <2>2 DEF SaveLink, SaveLinked, Single, WholeRow
    <3>2. QED
      BY <3>1, <1>1
  <2>3. CASE MakePlans(f)
    <3>1. LinkedBySlug' /\ OneJob' /\ Kept
      BY <2>3 DEF MakePlans, CheckoutInv, LinkedBySlug, OneJob
    <3>2. \A k \in Procs \ {f} : phase'[k] = phase[k]
      BY <2>3 DEF MakePlans, CheckoutTypeOK
    <3>3. ASSUME NEW k \in Procs PROVE ReadIsCurrent(k)'
      <4>1. CASE k = f
        BY <2>3, <4>1, IdleIsJob DEF MakePlans, ReadIsCurrent
      <4>2. CASE k # f
        <5>1. ReadIsCurrent(k)
          BY DEF CheckoutInv
        <5>2. phase'[k] = phase[k] /\ intent' = intent /\ job' = job
          BY <2>3, <3>2, <4>2 DEF MakePlans
        <5>3. QED
          BY <5>1, <5>2 DEF ReadIsCurrent
      <4>3. QED
        BY <4>1, <4>2
    <3>4. QED
      BY <3>1, <3>3 DEF CheckoutInv
  <2>4. CASE EndFlow(f)
    <3>1. LinkedBySlug' /\ Kept
      BY <2>4 DEF EndFlow, CheckoutInv, LinkedBySlug
    <3>2. CASE job[f] # Idle
      BY <2>4, <3>1, <3>2, EndInv DEF EndFlow
    <3>3. CASE job[f] = Idle
      <4>1. job' = job /\ intent' = intent
        BY <2>4, <3>3 DEF EndFlow, CheckoutTypeOK
      <4>2. \A k \in Procs \ {f} : phase'[k] = phase[k]
        BY <2>4 DEF EndFlow, CheckoutTypeOK
      <4>3. ASSUME NEW k \in Procs PROVE ReadIsCurrent(k)'
        <5>1. CASE k = f
          BY <3>3, <4>1, <5>1, IdleIsJob DEF ReadIsCurrent
        <5>2. CASE k # f
          <6>1. ReadIsCurrent(k)
            BY DEF CheckoutInv
          <6>2. QED
            BY <4>1, <4>2, <5>2, <6>1 DEF ReadIsCurrent
        <5>3. QED
          BY <5>1, <5>2
      <4>4. OneJob'
        BY <4>1 DEF CheckoutInv, OneJob
      <4>5. QED
        BY <3>1, <4>3, <4>4 DEF CheckoutInv
    <3>4. QED
      BY <3>2, <3>3
  <2>5. QED
    BY <1>3, <2>1, <2>2, <2>3, <2>4 DEF FlowStep
<1>4. CASE UNCHANGED <<intent, job, phase>>
  <2>1. Kept /\ LinkedBySlug' /\ OneJob'
    BY <1>4 DEF CheckoutInv, LinkedBySlug, OneJob
  <2>2. ASSUME NEW k \in Procs PROVE ReadIsCurrent(k)'
    <3>1. ReadIsCurrent(k)
      BY DEF CheckoutInv
    <3>2. QED
      BY <1>4, <3>1 DEF ReadIsCurrent
  <2>3. QED
    BY <2>1, <2>2 DEF CheckoutInv
<1>5. (\E u \in Users : MarkAsExpired(u) \/ ReservationEnds(u) \/ PaymentGrowsOld(u)) \/ UNCHANGED vars
        => UNCHANGED <<intent, job, phase>>
  BY DEF MarkAsExpired, ReservationEnds, PaymentGrowsOld, vars
<1>6. QED
  BY <1>2, <1>3, <1>4, <1>5 DEF Next

(* When jobs do not overlap and no administrator expires intents by hand,  *)
(* a process saves what it read from a row that has not changed since.     *)
THEOREM CheckoutInvTheorem ==
    ASSUME ~Overlap, "admin" \notin Kinds
    PROVE  Spec => []CheckoutInv
<1>1. Init => CheckoutTypeOK /\ CheckoutInv
  BY InitType, InitInv
<1>2. CheckoutTypeOK /\ CheckoutInv /\ [Next]_vars => CheckoutTypeOK' /\ CheckoutInv'
  BY NextType, StepIsSafe
<1>3. QED
  BY <1>1, <1>2, PTL DEF Spec

(* Workflows stay linked to paid intents for the slug they provision.      *)
THEOREM LinkedBySlugTheorem ==
    ASSUME ~Overlap, "admin" \notin Kinds
    PROVE  Spec => []LinkedBySlug
<1>1. CheckoutInv => LinkedBySlug
  BY DEF CheckoutInv
<1>2. QED
  BY <1>1, CheckoutInvTheorem, PTL

-----------------------------------------------------------------------------
(* Without the PATCH endpoint, which can set a state by hand, only the     *)
(* workflow that an intent is linked to fulfills it, and it does so as its *)
(* last step.                                                              *)
NoPatch == \A j \in Procs : job[j].op # "patch"

LEMMA SaveFulfilled ==
    ASSUME CheckoutTypeOK, CheckoutInv, FulfilledByWorkflow, NoPatch, NEW j \in Procs,
           job[j].op \in Single, Save(j, job[j].op \in WholeRow), NEW u \in Users
    PROVE  /\ intent[u].state = "fulfilled" =>
                    intent'[u].state = "fulfilled" /\ intent'[u].workflow = intent[u].workflow
           /\ intent'[u].state = "fulfilled" /\ intent[u].state # "fulfilled" =>
                    job[j].op = "fulfill" /\ intent'[u].workflow = j /\ phase[j] = "planned"
<1> DEFINE todo == job[j]
<1>1. intent[u] \in Rows /\ todo \in Jobs /\ todo.row \in Rows
  BY DEF CheckoutTypeOK, Jobs
<1>2. ReadIsCurrent(j)
  BY DEF CheckoutInv
<1>3. "fulfilled" \in Settled /\ "fulfilled" \in Stored
  BY DEF Settled, Success, Stored, NonExpired
<1>4. CASE u \notin todo.users /\ u \notin todo.expiring
  BY <1>4 DEF Save
<1>5. CASE u \notin todo.users /\ u \in todo.expiring
  <2>1. intent[u].state = "created"
    BY <1>2, <1>5 DEF ReadIsCurrent
  <2>2. intent'[u] = [intent[u] EXCEPT !.state = "expired"]
    BY <1>5 DEF Save
  <2>3. intent'[u].state = "expired"
    BY <1>1, <2>2, RowUpdate DEF Stored
  <2>4. QED
    BY <2>1, <2>3
<1>6. CASE u \in todo.users /\ todo.op \in {"insert", "update"}
  <2>1. intent'[u] = todo.row
    BY <1>6 DEF Save, WholeRow
  <2>2. QED
    BY <1>2, <1>3, <1>6, <2>1 DEF ReadIsCurrent
<1>7. CASE u \in todo.users /\ todo.op = "pay"
  <2>1. /\ intent'[u] = [intent[u] EXCEPT !.state = "paid"]
        /\ intent[u].state \in {"created", "paid"}
    BY <1>2, <1>7 DEF Save, ReadIsCurrent, WholeRow
  <2>2. intent'[u].state = "paid"
    BY <1>1, <2>1, RowUpdate DEF Stored, NonExpired, Settled, Success
  <2>3. QED
    BY <2>1, <2>2
<1>8. CASE u \in todo.users /\ todo.op = "link"
  <2>1. intent'[u] = [intent[u] EXCEPT !.workflow = j] /\ intent[u].state \in Fulfillable
    BY <1>2, <1>8 DEF Save, WholeRow, ReadIsCurrent
  <2>2. intent'[u].state = intent[u].state
    BY <1>1, <2>1 DEF Rows
  <2>3. QED
    BY <2>1, <2>2, Table
<1>9. CASE u \in todo.users /\ todo.op = "error"
  <2>1. /\ intent'[u] = [intent[u] EXCEPT !.state = "errored_provisioning"]
        /\ intent[u].workflow = j
        /\ phase[j] = "linked"
    BY <1>2, <1>9 DEF Save, WholeRow, ReadIsCurrent
  <2>2. intent[u].state # "fulfilled"
    BY <2>1 DEF FulfilledByWorkflow
  <2>3. intent'[u].state = "errored_provisioning"
    BY <1>1, <2>1, RowUpdate DEF Stored, NonExpired, Settled, Errored
  <2>4. QED
    BY <2>2, <2>3
<1>10. CASE u \in todo.users /\ todo.op = "fulfill"
  <2>1. /\ intent'[u] = [intent[u] EXCEPT !.state = "fulfilled"]
        /\ intent[u].workflow = j
        /\ phase[j] = "planned"
    BY <1>2, <1>10 DEF Save, WholeRow, ReadIsCurrent
  <2>2. intent'[u].state = "fulfilled" /\ intent'[u].workflow = intent[u].workflow
    BY <1>1, <1>3, <2>1, RowUpdate
  <2>3. QED
    BY <1>10, <2>1, <2>2
<1>11. todo.op # "patch" /\ (todo.op = "cleanup" => todo.users = {})
  BY <1>2 DEF ReadIsCurrent, NoPatch
<1>12. QED
  BY <1>4, <1>5, <1>6, <1>7, <1>8, <1>9, <1>10, <1>11 DEF Single

LEMMA SaveFulfills ==
    ASSUME CheckoutTypeOK, CheckoutInv, NEW j \in Procs, job[j].op = "fulfill", Save(j, TRUE)
    PROVE  \E u \in Users : intent'[u].state = "fulfilled" /\ intent'[u].workflow = j
<1>1. job[j] \in Jobs
  BY DEF CheckoutTypeOK
<1>2. PICK u \in Users : u \in job[j].users
  BY <1>1 DEF CheckoutInv, ReadIsCurrent, Jobs
<1>3. /\ intent'[u] = [intent[u] EXCEPT !.state = "fulfilled"]
      /\ intent[u].workflow = j
  BY <1>2 DEF CheckoutInv, ReadIsCurrent, Save
<1>4. intent[u] \in Rows
  BY DEF CheckoutTypeOK
<1>5. intent'[u].state = "fulfilled" /\ intent'[u].workflow = j
  BY <1>3, <1>4 DEF Rows
<1>6. QED
  BY <1>2, <1>5

(* What keeps the agreement between intents and workflows.                 *)
LEMMA KeepsFulfilled ==
    ASSUME CheckoutTypeOK, FulfilledByWorkflow,
           \A u \in Users :
              /\ intent[u].state = "fulfilled" =>
                    intent'[u].state = "fulfilled" /\ intent'[u].workflow = intent[u].workflow
              /\ intent'[u].state = "fulfilled" => intent[u].state = "fulfilled",
           \A f \in Flows : phase[f] = "done" <=> phase'[f] = "done"
    PROVE  FulfilledByWorkflow'
<1>1. \A u \in Users : intent[u].workflow \in Flows \cup {NoFlow}
  BY DEF CheckoutTypeOK, Rows
<1>2. QED
  BY <1>1 DEF FulfilledByWorkflow

LEMMA FulfilledStep ==
    ASSUME CheckoutTypeOK, CheckoutInv, FulfilledByWorkflow, NoPatch, ~Overlap,
           Kinds = {}, [Next]_vars
    PROVE  /\ FulfilledByWorkflow'
           /\ NoPatch'
           /\ \A u \in Users : intent[u].state = "fulfilled" => intent'[u].state = "fulfilled"
<1> DEFINE Final == \A u \in Users : intent[u].state = "fulfilled" =>
                        intent'[u].state = "fulfilled"
<1>1. ASSUME NEW j \in Procs, NEW op, NEW us, NEW row, NEW exp,
             Begin(j, op, us, row, exp), op # "patch"
      PROVE  FulfilledByWorkflow' /\ NoPatch' /\ Final
  <2>1. UNCHANGED <<intent, phase>>
    BY <1>1 DEF Begin
  <2>2. NoPatch'
    BY <1>1 DEF Begin, NoPatch, CheckoutTypeOK
  <2>3. QED
    BY <2>1, <2>2 DEF FulfilledByWorkflow
<1>2. ASSUME NEW w \in Workers, WorkerStep(w) PROVE FulfilledByWorkflow' /\ NoPatch' /\ Final
  <2> w \in Procs
    BY DEF Procs
  <2>1. CASE \E u \in Users, s \in Slugs \cup {NoSlug} : ReadIntent(w, u, s)
    BY <2>1, <1>1 DEF ReadIntent
  <2>2. CASE FindExpired(w) \/ FindStalled(w) \/ \E u \in Users : ReadForPayment(w, u)
    BY <2>2, <1>1 DEF FindExpired, FindStalled, ReadForPayment
  <2>3. CASE SaveIntent(w) \/ SaveExpired(w) \/ SavePaid(w)
    <3>1. /\ job[w].op \in Single \ {"fulfill"}
          /\ Save(w, job[w].op \in WholeRow)
          /\ phase' = phase
      <4>1. CASE SaveIntent(w)
        BY <4>1 DEF SaveIntent, Single, WholeRow
      <4>2. CASE SaveExpired(w)
        BY <4>2 DEF SaveExpired, Single, WholeRow, Save
      <4>3. CASE SavePaid(w)
        BY <4>3 DEF SavePaid, Single, WholeRow, Save
      <4>4. QED
        BY <2>3, <4>1, <4>2, <4>3
    <3>2. \A u \in Users :
            /\ intent[u].state = "fulfilled" =>
                    intent'[u].state = "fulfilled" /\ intent'[u].workflow = intent[u].workflow
            /\ intent'[u].state = "fulfilled" => intent[u].state = "fulfilled"
      BY <3>1, SaveFulfilled
    <3>3. NoPatch'
      BY <3>1, IdleIsJob DEF Save, NoPatch, CheckoutTypeOK
    <3>4. QED
      BY <3>1, <3>2, <3>3, KeepsFulfilled
  <2>4. ASSUME NEW u \in Users, SaveStalled(w, u) PROVE FulfilledByWorkflow' /\ NoPatch' /\ Final
    <3>1. intent[u].state = "paid"
      BY <2>4, SaveStalledIsSafe
    <3>2. /\ intent'[u].state = "errored_stalled"
          /\ \A v \in Users \ {u} : intent'[v] = intent[v]
          /\ phase' = phase
      BY <2>4 DEF SaveStalled, CheckoutTypeOK, Rows
    <3>3. Remaining(job[w], u).op # "patch"
      BY <2>4, IdleIsJob DEF Remaining, SaveStalled, CheckoutTypeOK, Jobs
    <3>4. NoPatch'
      BY <2>4, <3>3 DEF SaveStalled, NoPatch, CheckoutTypeOK
    <3>5. QED
      BY <3>1, <3>2, <3>4, KeepsFulfilled
  <2>5. CASE Fail(w)
    BY <2>5, IdleIsJob DEF Fail, NoPatch, FulfilledByWorkflow, CheckoutTypeOK
  <2>6. ~SavePatch(w) /\ ~\E u \in Users, s \in Stored : ReadForPatch(w, u, s)
    BY DEF SavePatch, NoPatch, ReadForPatch
  <2>7. QED
    BY <1>2, <2>1, <2>2, <2>3, <2>4, <2>5, <2>6 DEF WorkerStep
<1>3. ASSUME NEW f \in Flows, FlowStep(f) PROVE FulfilledByWorkflow' /\ NoPatch' /\ Final
  <2> f \in Procs
    BY DEF Procs
  <2>1. CASE \E u \in Users : ReadForLink(f, u) \/ ReadForError(f, u) \/ ReadForFulfill(f, u)
    BY <2>1, <1>1 DEF ReadForLink, ReadForError, ReadForFulfill
  <2>2. CASE SaveLink(f)
    <3>1. /\ job[f].op = "link"
          /\ job[f].op \in Single
          /\ Save(f, job[f].op \in WholeRow)
      BY <2>2 DEF SaveLink, Single, WholeRow
    <3>2. \A u \in Users :
            /\ intent[u].state = "fulfilled" =>
                    intent'[u].state = "fulfilled" /\ intent'[u].workflow = intent[u].workflow
            /\ intent'[u].state = "fulfilled" => intent[u].state = "fulfilled"
      BY <3>1, SaveFulfilled
    <3>3. NoPatch'
      BY <3>1, IdleIsJob DEF Save, NoPatch, CheckoutTypeOK
    <3>4. phase[f] = "started"
      BY <3>1 DEF CheckoutInv, ReadIsCurrent
    <3>5. \A g \in Flows : phase[g] = "done" <=> phase'[g] = "done"
      BY <2>2, <3>4 DEF SaveLink, CheckoutTypeOK
    <3>6. QED
      BY <3>2, <3>3, <3>5, KeepsFulfilled
  <2>3. CASE SaveLinked(f)
    <3>1. /\ job[f].op \in {"error", "fulfill"}
          /\ job[f].op \in Single
          /\ Save(f, TRUE)
          /\ Save(f, job[f].op \in WholeRow)
          /\ phase' = [phase EXCEPT ![f] = IF job[f].op = "fulfill" THEN "done" ELSE "ended"]
      BY <2>3 DEF SaveLinked, Single, WholeRow
    <3>2. \A u \in Users :
            /\ intent[u].state = "fulfilled" =>
                    intent'[u].state = "fulfilled" /\ intent'[u].workflow = intent[u].workflow
            /\ intent'[u].state = "fulfilled" =>
                    \/ intent[u].state = "fulfilled"
                    \/ job[f].op = "fulfill" /\ intent'[u].workflow = f
      BY <3>1, SaveFulfilled
    <3>3. NoPatch'
      BY <3>1, IdleIsJob DEF Save, NoPatch, CheckoutTypeOK
    <3>4. \A g \in Flows \ {f} : phase'[g] = phase[g]
      BY <3>1 DEF CheckoutTypeOK
    <3>5. f # NoFlow /\ \A u \in Users : intent[u].workflow \in Flows \cup {NoFlow}
      BY CheckoutAssumption DEF CheckoutTypeOK, Rows
    <3>6. CASE job[f].op = "fulfill"
      <4>1. phase'[f] = "done"
        BY <3>1, <3>6 DEF CheckoutTypeOK
      <4>2. \E u \in Users : intent'[u].state = "fulfilled" /\ intent'[u].workflow = f
        BY <3>1, <3>6, SaveFulfills
      <4>3. QED
        BY <3>2, <3>3, <3>4, <3>5, <4>1, <4>2 DEF FulfilledByWorkflow
    <3>7. CASE job[f].op = "error"
      <4>1. phase'[f] = "ended" /\ phase[f] # "done"
        <5>1. job[f].users # {} => phase[f] = "linked"
          BY <3>1, <3>7 DEF CheckoutInv, ReadIsCurrent, CheckoutTypeOK, Jobs
        <5>2. QED
          BY <3>1, <3>7, <5>1 DEF CheckoutTypeOK, CheckoutInv, ReadIsCurrent
      <4>2. \A g \in Flows : phase[g] = "done" <=> phase'[g] = "done"
        BY <3>4, <4>1
      <4>3. QED
        BY <3>2, <3>3, <3>7, <4>2, KeepsFulfilled
    <3>8. QED
      BY <3>1, <3>6, <3>7
  <2>4. CASE MakePlans(f) \/ EndFlow(f)
    <3>1. intent' = intent /\ NoPatch'
      BY <2>4, IdleIsJob DEF MakePlans, EndFlow, NoPatch, CheckoutTypeOK
    <3>2. \A g \in Flows : phase[g] = "done" <=> phase'[g] = "done"
      BY <2>4 DEF MakePlans, EndFlow, CheckoutTypeOK
    <3>3. QED
      BY <3>1, <3>2, KeepsFulfilled
  <2>5. QED
    BY <1>3, <2>1, <2>2, <2>3, <2>4 DEF FlowStep
<1>4. CASE (\E u \in Users : MarkAsExpired(u) \/ ReservationEnds(u) \/ PaymentGrowsOld(u)) \/ UNCHANGED vars
  BY <1>4 DEF MarkAsExpired, ReservationEnds, PaymentGrowsOld, vars, FulfilledByWorkflow, NoPatch
<1>5. QED
  BY <1>2, <1>3, <1>4 DEF Next

(* Intents and workflows agree on what was fulfilled.                      *)
THEOREM FulfilledByWorkflowTheorem ==
    ASSUME ~Overlap, Kinds = {}
    PROVE  Spec => [](FulfilledByWorkflow /\ NoPatch)
<1>1. Init => FulfilledByWorkflow /\ NoPatch
  BY IdleIsJob DEF Init, Nothing, FulfilledByWorkflow, NoPatch
<1>2. CheckoutTypeOK /\ CheckoutInv /\ FulfilledByWorkflow /\ NoPatch /\ [Next]_vars
        => FulfilledByWorkflow' /\ NoPatch'
  BY FulfilledStep
<1>3. "admin" \notin Kinds
  OBVIOUS
<1>4. Spec => []CheckoutInv
  BY <1>3, CheckoutInvTheorem
<1>5. QED
  BY <1>1, <1>2, <1>4, CheckoutTypeTheorem, PTL DEF Spec

(* Once an intent is fulfilled it stays so: neither late payments nor the  *)
(* stall command nor failing or later workflows take it back.              *)
THEOREM FulfilledIsFinalTheorem ==
    ASSUME ~Overlap, Kinds = {}
    PROVE  Spec => FulfilledIsFinal
<1>1. CheckoutTypeOK /\ CheckoutInv /\ FulfilledByWorkflow /\ NoPatch /\ [Next]_vars =>
        [\A u \in Users : intent[u].state = "fulfilled" => intent'[u].state = "fulfilled"]_vars
  BY FulfilledStep
<1>2. "admin" \notin Kinds
  OBVIOUS
<1>3. Spec => []CheckoutInv
  BY <1>2, CheckoutInvTheorem
<1>4. Spec => [](FulfilledByWorkflow /\ NoPatch)
  BY FulfilledByWorkflowTheorem
<1>5. QED
  BY <1>1, <1>3, <1>4, CheckoutTypeTheorem, PTL DEF Spec, FulfilledIsFinal

-----------------------------------------------------------------------------
(* The sessions.  Every step of theirs is a step of the intents, or leaves *)
(* the intents alone.                                                      *)

LEMMA ReachIs ==
    ASSUME SessionTypeOK, NEW w \in Workers,
           NEW step \in {"valid", "saving", "reserved", "opened", "recorded"}, Reach(w, step)
    PROVE  /\ asking'[w].at = step
           /\ asking'[w].user = asking[w].user
           /\ asking'[w].slug = asking[w].slug
           /\ \A v \in Workers \ {w} : asking'[v] = asking[v]
           /\ asking' \in [Workers ->
                  [at : {"idle", "valid", "saving", "reserved", "opened", "recorded"},
                   user : SUBSET Users, slug : Slugs \cup {NoSlug}]]
  BY DEF SessionTypeOK, Reach

LEMMA SessionStep == SessionTypeOK /\ [SessionNext]_svars => [Next]_vars
<1> SUFFICES ASSUME SessionTypeOK, [SessionNext]_svars PROVE Next \/ UNCHANGED vars
  OBVIOUS
<1>1. ASSUME NEW w \in Workers, WorkerStep(w) PROVE Next
  BY <1>1 DEF Next
<1>2. ASSUME NEW w \in Workers, Reserve(w) PROVE WorkerStep(w)
  <2>1. asking[w].user \subseteq Users /\ asking[w].slug \in Slugs \cup {NoSlug}
    BY DEF SessionTypeOK
  <2>2. QED
    BY <1>2, <2>1 DEF Reserve, WorkerStep
<1>3. ASSUME NEW w \in Workers, Reservation(w) PROVE WorkerStep(w)
  BY <1>3 DEF Reservation, WorkerStep
<1>4. ASSUME NEW w \in Workers, GiveUp(w) PROVE WorkerStep(w) \/ UNCHANGED vars
  BY <1>4 DEF GiveUp, WorkerStep
<1>5. ASSUME NEW w \in Workers, OtherJob(w) PROVE WorkerStep(w)
  BY <1>5 DEF OtherJob, ReadBareIntent, WorkerStep
<1>6. ASSUME NEW f \in Flows, Provision(f) PROVE Next
  BY <1>6 DEF Provision, Next
<1>7. ASSUME NEW u \in Users, TimePasses(u) PROVE Next
  BY <1>7 DEF TimePasses, Next
<1>8. ASSUME \/ \E w \in Workers, u \in Users, s \in Slugs : Ask(w, u, s)
             \/ \E w \in Workers : OpenSession(w) \/ RecordSession(w) \/ Answer(w)
             \/ \E u \in Users, s \in Slugs : Pay(u, s) \/ SessionExpires(u, s)
             \/ \E u \in Users : ShowSuccess(u) \/ Forget(u)
      PROVE  UNCHANGED vars
  BY <1>8 DEF Ask, OpenSession, RecordSession, Answer, Pay, SessionExpires, ShowSuccess, Forget
<1>9. UNCHANGED svars => UNCHANGED vars
  BY DEF svars
<1>10. QED
  BY <1>1, <1>2, <1>3, <1>4, <1>5, <1>6, <1>7, <1>8, <1>9 DEF SessionNext

(* What a request asks for is a slug; the variables keep their types only  *)
(* together with that.                                                     *)
Named == \A w \in Workers : asking[w].at # "idle" => asking[w].slug \in Slugs

LEMMA SessionInitType == SessionInit => SessionTypeOK /\ Named
  BY InitType DEF SessionInit, SessionTypeOK, NotAsking, Named

LEMMA SessionNextType == SessionTypeOK /\ Named /\ [SessionNext]_svars => SessionTypeOK' /\ Named'
<1> SUFFICES ASSUME SessionTypeOK, Named, [SessionNext]_svars PROVE SessionTypeOK' /\ Named'
  OBVIOUS
<1>1. CheckoutTypeOK'
  BY SessionStep, NextType DEF SessionTypeOK
<1> DEFINE Asks == [at : {"idle", "valid", "saving", "reserved", "opened", "recorded"},
                    user : SUBSET Users, slug : Slugs \cup {NoSlug}]
<1>2. NotAsking \in Asks /\ NotAsking.at = "idle"
  BY DEF NotAsking
<1>3. ASSUME NEW w \in Workers, NEW u \in Users, NEW s \in Slugs, Ask(w, u, s)
      PROVE  SessionTypeOK' /\ Named'
  <2>1. [at |-> "valid", user |-> {u}, slug |-> s] \in Asks
    OBVIOUS
  <2>2. asking' \in [Workers -> Asks]
    BY <1>3, <2>1 DEF Ask, SessionTypeOK
  <2>3. open' \in [Users -> SUBSET Slugs]
    BY <1>3 DEF Ask, SessionTypeOK
  <2>4. Named'
    BY <1>3 DEF Ask, SessionTypeOK, Named
  <2>5. QED
    BY <1>1, <1>3, <2>2, <2>3, <2>4 DEF Ask, SessionTypeOK
<1>4. ASSUME NEW w \in Workers, Reserve(w) \/ Reservation(w) \/ OpenSession(w)
      PROVE  SessionTypeOK' /\ Named'
  <2>1. PICK step \in {"saving", "reserved", "opened"} : Reach(w, step)
    BY <1>4 DEF Reserve, Reservation, OpenSession
  <2>2. asking' \in [Workers -> Asks]
    BY <2>1, ReachIs
  <2>3. asking[w].at # "idle"
    BY <1>4 DEF Reserve, Reservation, OpenSession
  <2>4. Named'
    BY <2>1, <2>3, ReachIs DEF Named
  <2>5. QED
    BY <1>1, <1>4, <2>2, <2>4 DEF Reserve, Reservation, OpenSession, SessionTypeOK
<1>5. ASSUME NEW w \in Workers, RecordSession(w) PROVE SessionTypeOK' /\ Named'
  <2>1. asking' \in [Workers -> Asks] /\ asking[w].slug \in Slugs
    BY <1>5, ReachIs DEF RecordSession, Named
  <2>2. Named'
    BY <1>5, ReachIs DEF RecordSession, Named
  <2>3. session' \in [Users -> Slugs \cup {NoSession}] /\ page' \in [Users -> {"none", "open", "paid"}]
    BY <1>5, <2>1 DEF RecordSession, SessionTypeOK
  <2>4. QED
    BY <1>1, <1>5, <2>1, <2>2, <2>3 DEF RecordSession, SessionTypeOK
<1>6. ASSUME NEW w \in Workers, Answer(w) PROVE SessionTypeOK' /\ Named'
  <2>1. asking' \in [Workers -> Asks] /\ asking[w].slug \in Slugs
    BY <1>2, <1>6 DEF Answer, SessionTypeOK, Named
  <2>2. open' \in [Users -> SUBSET Slugs]
    BY <1>6, <2>1 DEF Answer, SessionTypeOK
  <2>3. Named'
    BY <1>2, <1>6 DEF Answer, SessionTypeOK, Named
  <2>4. QED
    BY <1>1, <1>6, <2>1, <2>2, <2>3 DEF Answer, SessionTypeOK
<1>7. ASSUME NEW w \in Workers, GiveUp(w) PROVE SessionTypeOK' /\ Named'
  <2>1. asking' \in [Workers -> Asks] /\ Named'
    BY <1>2, <1>7 DEF GiveUp, SessionTypeOK, Named
  <2>2. QED
    BY <1>1, <1>7, <2>1 DEF GiveUp, SessionTypeOK
<1>8. ASSUME NEW u \in Users, NEW s \in Slugs, Pay(u, s) \/ SessionExpires(u, s)
      PROVE  SessionTypeOK' /\ Named'
  BY <1>1, <1>8 DEF Pay, SessionExpires, SessionTypeOK, Named
<1>9. ASSUME NEW u \in Users, ShowSuccess(u) \/ Forget(u)
      PROVE  SessionTypeOK' /\ Named'
  BY <1>1, <1>9 DEF ShowSuccess, Forget, SessionTypeOK, Named
<1>10. CASE UNCHANGED mine
  BY <1>1, <1>10 DEF mine, SessionTypeOK, Named
<1>11. QED
  BY <1>3, <1>4, <1>5, <1>6, <1>7, <1>8, <1>9, <1>10
     DEF SessionNext, OtherJob, TimePasses, Provision, svars

(* The variables of the sessions keep their types, whatever overlaps, and  *)
(* whoever pays, lapses or asks again.                                     *)
THEOREM SessionTypeTheorem == SessionSpec => []SessionTypeOK
<1>1. SessionSpec => [](SessionTypeOK /\ Named)
  BY SessionInitType, SessionNextType, PTL DEF SessionSpec
<1>2. QED
  BY <1>1, PTL

(* The requests for a session, the payments and the pages use the intents  *)
(* as CheckoutIntent says: what holds of every behaviour of the intents    *)
(* holds of the intents that are paid for in sessions.                     *)
THEOREM SessionImplementsIntents == SessionSpec => Spec
<1>1. SessionInit => Init
  BY DEF SessionInit
<1>2. SessionTypeOK /\ [SessionNext]_svars => [Next]_vars
  BY SessionStep
<1>3. QED
  BY <1>1, <1>2, SessionTypeTheorem, PTL DEF SessionSpec, Spec

-----------------------------------------------------------------------------
(* Who pays, and for what.  Jobs do not overlap, and the optional writers  *)
(* do not run; a row then moves in one of four ways, except when the       *)
(* request for a session saves it.                                         *)
Unmoved(u) == intent'[u].slug = intent[u].slug /\ intent'[u].state = intent[u].state

Lapses(u) ==
    /\ intent[u].state = "created"
    /\ intent'[u].slug = intent[u].slug
    /\ intent'[u].state = "expired"

IsPaid(u) ==
    /\ charged[u] # {} /\ intent[u].state \in {"created", "paid"}
    /\ intent'[u].slug = intent[u].slug
    /\ intent'[u].state = "paid"

StaysSettled(u) ==
    /\ {intent[u].state, intent'[u].state} \subseteq Settled
    /\ intent'[u].slug = intent[u].slug

IsBare(u) ==
    /\ intent[u].state \notin Settled
    /\ intent[u].slug = NoSlug
    /\ intent'[u].slug = NoSlug
    /\ intent'[u].state = "created"

Moves(u) == Unmoved(u) \/ Lapses(u) \/ IsPaid(u) \/ StaysSettled(u) \/ IsBare(u)

Restricted == ~Overlap /\ Apart /\ ~Tabs /\ ~BareSlugs /\ Kinds = {}

(* From the reservation on, the row of u names the slug.                   *)
Holds(u, s) == intent[u].slug = s

PairOK == CheckoutTypeOK /\ CheckoutInv /\ NoPatch /\ SessionTypeOK /\ Named /\ SessionInv

LEMMA SaveMoves ==
    ASSUME PairOK, NEW j \in Procs, job[j].op \in Single, Save(j, job[j].op \in WholeRow),
           job[j].op \in {"insert", "update"} => j \in Workers /\ asking[j].at # "saving",
           job[j].op \in {"link", "error", "fulfill"} => j \in Flows
    PROVE  \A u \in Users : Moves(u)
<1> DEFINE todo == job[j]
<1>1. ReadIsCurrent(j) /\ todo.op # "patch" /\ JobsAreCurrent
  BY DEF PairOK, CheckoutInv, NoPatch, SessionInv
<1>2. ASSUME NEW u \in Users PROVE Moves(u)
  <2>1. intent[u] \in Rows /\ todo \in Jobs /\ todo.row \in Rows
    BY DEF PairOK, CheckoutTypeOK, Jobs
  <2>2. {"paid", "fulfilled", "errored_provisioning"} \subseteq Settled /\ Settled \subseteq Stored
    BY DEF Settled, Success, Errored, Stored, NonExpired
  <2>3. CASE u \notin todo.users /\ u \notin todo.expiring
    BY <2>3 DEF Save, Moves, Unmoved
  <2>4. CASE u \notin todo.users /\ u \in todo.expiring
    <3>1. intent[u].state = "created"
      BY <1>1, <2>4 DEF ReadIsCurrent
    <3>2. intent'[u] = [intent[u] EXCEPT !.state = "expired"]
      BY <2>4 DEF Save
    <3>3. intent'[u].state = "expired" /\ intent'[u].slug = intent[u].slug
      BY <2>1, <3>2 DEF Rows
    <3>4. QED
      BY <3>1, <3>3 DEF Moves, Lapses
  <2>5. CASE u \in todo.users /\ todo.op \in {"insert", "update"}
    <3>1. intent'[u] = todo.row
      BY <2>5 DEF Save, WholeRow
    <3>2. intent[u].state \notin Settled /\ todo.row.state = "created"
      BY <1>1, <2>5 DEF ReadIsCurrent
    <3>3. todo.row.slug = NoSlug /\ intent[u].slug = NoSlug
      BY <1>1, <2>5 DEF JobsAreCurrent
    <3>4. QED
      BY <3>1, <3>2, <3>3 DEF Moves, IsBare
  <2>6. CASE u \in todo.users /\ todo.op = "pay"
    <3>1. intent'[u] = [intent[u] EXCEPT !.state = "paid"] /\ charged[u] # {}
          /\ intent[u].state \in {"created", "paid"}
      BY <1>1, <2>6 DEF Save, ReadIsCurrent, WholeRow, JobsAreCurrent
    <3>2. intent'[u].state = "paid" /\ intent'[u].slug = intent[u].slug
      BY <2>1, <3>1 DEF Rows
    <3>3. QED
      BY <3>1, <3>2 DEF Moves, IsPaid
  <2>7. CASE u \in todo.users /\ todo.op = "link"
    <3>1. intent'[u] = [intent[u] EXCEPT !.workflow = j]
      BY <1>1, <2>7 DEF Save, WholeRow, ReadIsCurrent
    <3>2. intent'[u].state = intent[u].state /\ intent'[u].slug = intent[u].slug
      BY <2>1, <3>1 DEF Rows
    <3>3. QED
      BY <3>2 DEF Moves, Unmoved
  <2>8. CASE u \in todo.users /\ todo.op \in {"error", "fulfill"}
    <3>1. PICK s \in {"errored_provisioning", "fulfilled"} :
              intent'[u] = [intent[u] EXCEPT !.state = s]
      BY <1>1, <2>8 DEF Save, WholeRow, ReadIsCurrent
    <3>2. intent'[u].state = s /\ intent'[u].slug = intent[u].slug
      BY <2>1, <3>1 DEF Rows
    <3>3. intent[u].workflow = j /\ j # NoFlow
      BY <1>1, <2>8, CheckoutAssumption DEF ReadIsCurrent
    <3>4. intent[u].state \in Settled
      BY <3>3 DEF PairOK, CheckoutInv, LinkedBySlug
    <3>5. QED
      BY <2>2, <3>1, <3>2, <3>4 DEF Moves, StaysSettled
  <2>9. todo.op = "cleanup" => todo.users = {}
    BY <1>1 DEF ReadIsCurrent
  <2>10. QED
    BY <1>1, <2>3, <2>4, <2>5, <2>6, <2>7, <2>8, <2>9 DEF Single
<1>3. QED
  BY <1>2

(* What the four moves keep, when the sessions do not change themselves.   *)
LEMMA MovesKeepRows ==
    ASSUME PairOK, \A u \in Users : Moves(u), UNCHANGED mine
    PROVE  /\ \A u \in Users : SessionsAgree(u)'
           /\ SlugUnique'
           /\ \A u \in Users, s \in Slugs : ~Reserved(s, u) => ~Reserved(s, u)'
           /\ \A u \in Users, s \in Slugs : Holds(u, s) => Holds(u, s)'
<1>1. ASSUME NEW u \in Users
      PROVE  /\ intent[u].slug \in Slugs \cup {NoSlug}
             /\ session[u] \in Slugs \cup {NoSession}
             /\ charged[u] \subseteq Slugs /\ open[u] \subseteq Slugs
  BY DEF PairOK, SessionTypeOK, CheckoutTypeOK, Rows
<1>2. NoSlug \notin Slugs /\ NoSession \notin Slugs /\ Customers \subseteq Slugs
  BY CheckoutAssumption, SessionAssumption
<1>3. UNCHANGED <<session, open, charged, page>>
  BY DEF mine
<1>4. ASSUME NEW u \in Users
      PROVE  /\ intent'[u].slug = intent[u].slug
             /\ intent'[u].state \in NonExpired /\ intent'[u].slug # NoSlug => intent[u].state \in NonExpired
  <2>1. Moves(u) /\ SessionsAgree(u)
    BY DEF PairOK, SessionInv
  <2>2. QED
    BY <2>1 DEF Moves, Unmoved, Lapses, IsPaid, StaysSettled, IsBare, SessionsAgree,
                NonExpired, Settled, Success, Errored
<1>5. ASSUME NEW u \in Users PROVE SessionsAgree(u)'
  <2>1. Moves(u) /\ SessionsAgree(u)
    BY DEF PairOK, SessionInv
  <2>2. intent'[u].slug \notin Customers
    BY <1>4, <2>1 DEF SessionsAgree
  <2>3. "created" \notin Settled /\ "expired" \notin Settled /\ "paid" \in Settled
    BY DEF Settled, Success, Errored
  <2>4. intent'[u].state \in Settled => charged'[u] # {}
    BY <1>3, <2>1, <2>3 DEF Moves, Unmoved, Lapses, IsPaid, StaysSettled, IsBare, SessionsAgree
  <2>5. ASSUME charged[u] # {}
        PROVE  /\ charged'[u] = {session'[u]}
               /\ session'[u] = intent'[u].slug
    BY <1>3, <1>4, <2>1, <2>5 DEF SessionsAgree
  <2>6. ASSUME NEW s \in open[u]
        PROVE  charged'[u] = {} /\ intent'[u].slug = s /\ session'[u] = s
    BY <1>3, <1>4, <2>1 DEF SessionsAgree
  <2>7. page'[u] = "paid" => session'[u] \in charged'[u]
    BY <1>3, <2>1 DEF SessionsAgree
  <2>8. QED
    BY <1>3, <2>2, <2>4, <2>5, <2>6, <2>7 DEF SessionsAgree
<1>6. SlugUnique'
  BY <1>4 DEF PairOK, SessionInv, SlugUnique
<1>7. ASSUME NEW u \in Users, NEW s \in Slugs, ~Reserved(s, u) PROVE ~Reserved(s, u)'
  BY <1>2, <1>4, <1>7 DEF Reserved
<1>8. ASSUME NEW u \in Users, NEW s \in Slugs, Holds(u, s) PROVE Holds(u, s)'
  BY <1>4, <1>8 DEF Holds
<1>9. QED
  BY <1>5, <1>6, <1>7, <1>8

LEMMA MovesKeepSessions ==
    ASSUME PairOK, \A u \in Users : Moves(u), UNCHANGED mine,
           \A w \in Workers : asking[w].at # "idle" => job'[w] = job[w],
           JobsAreCurrent'
    PROVE  SessionInv'
<1>1. asking' = asking /\ session' = session /\ open' = open /\ charged' = charged
  BY DEF mine
<1>2. OneValidation' /\ OneRequest'
  BY <1>1 DEF PairOK, SessionInv, OneValidation, OneRequest
<1>3. ASSUME NEW w \in Workers PROVE RequestIsCurrent(w)'
  <2>1. RequestIsCurrent(w)
    BY DEF PairOK, SessionInv
  <2>2. CASE asking[w].at = "idle"
    BY <1>1, <2>1, <2>2 DEF RequestIsCurrent, NotAsking
  <2>3. CASE asking[w].at # "idle"
    <3>1. job'[w] = job[w] /\ asking[w].slug \in Slugs
      BY <2>1, <2>3 DEF RequestIsCurrent
    <3>2. ASSUME NEW u \in asking[w].user
          PROVE  /\ charged'[u] = {} /\ open'[u] = {}
                 /\ asking[w].at \in {"valid", "saving"} => ~Reserved(asking[w].slug, u)'
                 /\ asking[w].at \in {"reserved", "opened", "recorded"} => Holds(u, asking[w].slug)'
                 /\ asking[w].at = "recorded" => session'[u] = asking[w].slug
      <4>1. /\ u \in Users
            /\ charged[u] = {} /\ open[u] = {}
            /\ asking[w].at \in {"valid", "saving"} => ~Reserved(asking[w].slug, u)
            /\ asking[w].at \in {"reserved", "opened", "recorded"} => Holds(u, asking[w].slug)
            /\ asking[w].at = "recorded" => session[u] = asking[w].slug
        BY <2>1, <2>3 DEF RequestIsCurrent, PairOK, SessionTypeOK, Holds
      <4>2. QED
        BY <1>1, <3>1, <4>1, MovesKeepRows
    <3>3. QED
      BY <1>1, <2>1, <3>1, <3>2 DEF RequestIsCurrent, Holds
  <2>4. QED
    BY <2>2, <2>3
<1>4. QED
  BY <1>2, <1>3, MovesKeepRows DEF SessionInv

LEMMA BeginIsCurrent ==
    ASSUME PairOK, Restricted, NEW j \in Procs, NEW op, NEW us, NEW row, NEW exp,
           Begin(j, op, us, row, exp), charged' = charged,
           op = "pay" => \A u \in us : charged[u] # {},
           op \in {"insert", "update"} /\ j \in Workers /\ asking'[j].at # "saving" =>
               row.slug = NoSlug /\ \A u \in us : intent[u].slug = NoSlug
    PROVE  JobsAreCurrent'
<1>1. /\ \A k \in Procs \ {j} : job'[k] = Idle
      /\ job'[j] = [op |-> op, users |-> us, row |-> row, expiring |-> exp,
                   late |-> Late(op, us, row)]
      /\ intent' = intent
  BY DEF Begin, Restricted, PairOK, CheckoutTypeOK
<1>2. Workers \subseteq Procs
  BY DEF Procs
<1>3. QED
  BY <1>1, <1>2, IdleIsJob DEF JobsAreCurrent

LEMMA IdleIsCurrent ==
    ASSUME \A k \in Procs : job'[k] = Idle
    PROVE  JobsAreCurrent'
<1>1. Workers \subseteq Procs
  BY DEF Procs
<1>2. QED
  BY <1>1, IdleIsJob DEF JobsAreCurrent

LEMMA EndIsCurrent ==
    ASSUME PairOK, NEW j \in Procs, job[j] # Idle, job' = [job EXCEPT ![j] = Idle]
    PROVE  JobsAreCurrent'
<1>1. \A k \in Procs : job'[k] = Idle
  BY DEF PairOK, CheckoutInv, OneJob, CheckoutTypeOK
<1>2. QED
  BY <1>1, IdleIsCurrent

(* A step that touches no row, and ends or begins nobody's request.        *)
LEMMA QuietKeepsSessions ==
    ASSUME PairOK, UNCHANGED <<intent>>, UNCHANGED mine,
           \A w \in Workers : asking[w].at # "idle" => job'[w] = job[w],
           JobsAreCurrent'
    PROVE  SessionInv'
<1>1. \A u \in Users : Moves(u)
  BY DEF Moves, Unmoved
<1>2. QED
  BY <1>1, MovesKeepSessions

LEMMA OtherJobKeepsSessions ==
    ASSUME PairOK, Restricted, NEW w \in Workers, OtherJob(w)
    PROVE  SessionInv'
<1> w \in Procs
  BY DEF Procs
<1>1. asking[w].at = "idle" /\ UNCHANGED mine /\ charged' = charged /\ asking' = asking
  BY DEF OtherJob, NotAsking, mine
<1>2. ASSUME \A k \in Procs \ {w} : job'[k] = job[k]
      PROVE  \A v \in Workers : asking[v].at # "idle" => job'[v] = job[v]
  BY <1>1, <1>2 DEF Procs
<1>3. ASSUME NEW op, NEW us, NEW row, NEW exp, Begin(w, op, us, row, exp)
      PROVE  /\ UNCHANGED <<intent>>
             /\ \A k \in Procs \ {w} : job'[k] = job[k]
  BY <1>3 DEF Begin, PairOK, CheckoutTypeOK
<1>5. CASE \E u \in Users, s \in Slugs \cup {NoSlug} : ReadBareIntent(w, u, s)
  <2>1. PICK u \in Users, s \in Slugs \cup {NoSlug} : ReadBareIntent(w, u, s)
    BY <1>5
  <2>2. s = NoSlug /\ intent[u].slug = NoSlug
    BY <2>1 DEF ReadBareIntent, Restricted
  <2> DEFINE row == Cleaned(u)
             op == IF row.state = "none" THEN "insert" ELSE "update"
             slug == IF s \in {NoSlug, row.slug} THEN row.slug ELSE s
             new == [row EXCEPT !.state = "created", !.slug = slug]
  <2>3. row \in Rows /\ row.slug = NoSlug
    BY <2>2, CleanedRow DEF PairOK
  <2>4. new.slug = NoSlug
    <3>1. slug = NoSlug
      BY <2>2, <2>3
    <3> HIDE DEF row, slug
    <3>2. new.slug = slug
      BY <2>3 DEF Rows
    <3>3. QED
      BY <3>1, <3>2
  <2>5. Begin(w, op, {u}, new, Lapsed) \/ Begin(w, "cleanup", {}, Nothing, Lapsed)
    BY <2>1 DEF ReadBareIntent, ReadIntent
  <2> HIDE DEF op, new
  <2>6. CASE Begin(w, op, {u}, new, Lapsed)
    <3>1. JobsAreCurrent'
      BY <1>1, <2>2, <2>4, <2>6, BeginIsCurrent DEF op
    <3>2. QED
      BY <1>1, <1>2, <1>3, <2>6, <3>1, QuietKeepsSessions
  <2>7. CASE Begin(w, "cleanup", {}, Nothing, Lapsed)
    <3>1. JobsAreCurrent'
      BY <1>1, <2>7, BeginIsCurrent
    <3>2. QED
      BY <1>1, <1>2, <1>3, <2>7, <3>1, QuietKeepsSessions
  <2>8. QED
    BY <2>5, <2>6, <2>7
<1>6. CASE FindExpired(w)
  <2>1. Begin(w, "cleanup", {}, Nothing, Lapsed)
    BY <1>6 DEF FindExpired
  <2>2. JobsAreCurrent'
    BY <1>1, <2>1, BeginIsCurrent
  <2>3. QED
    BY <1>1, <1>2, <1>3, <2>1, <2>2, QuietKeepsSessions
<1>7. CASE FindStalled(w)
  <2>1. PICK row : Begin(w, "stall", Stalled, row, {})
    BY <1>7 DEF FindStalled
  <2>2. JobsAreCurrent'
    BY <1>1, <2>1, BeginIsCurrent
  <2>3. QED
    BY <1>1, <1>2, <1>3, <2>1, <2>2, QuietKeepsSessions
<1>8. ASSUME NEW u \in Users, charged[u] # {}, ReadForPayment(w, u) PROVE SessionInv'
  <2>1. PICK row : Begin(w, "pay", {u}, row, {})
    BY <1>8 DEF ReadForPayment
  <2>2. JobsAreCurrent'
    BY <1>1, <1>8, <2>1, BeginIsCurrent
  <2>3. QED
    BY <1>1, <1>2, <1>3, <2>1, <2>2, QuietKeepsSessions
<1>9. CASE SaveIntent(w) \/ SaveExpired(w) \/ SavePaid(w)
  <2>1. /\ job[w].op \in {"insert", "update", "cleanup", "pay"}
        /\ Save(w, job[w].op \in WholeRow)
    <3>1. CASE SaveIntent(w)
      BY <3>1 DEF SaveIntent, WholeRow
    <3>2. CASE SaveExpired(w)
      BY <3>2 DEF SaveExpired, WholeRow, Save
    <3>3. CASE SavePaid(w)
      BY <3>3 DEF SavePaid, WholeRow, Save
    <3>4. QED
      BY <1>9, <3>1, <3>2, <3>3
  <2>2. job[w] # Idle /\ job' = [job EXCEPT ![w] = Idle]
    BY <2>1, IdleIsJob DEF Save
  <2>3. JobsAreCurrent' /\ \A k \in Procs \ {w} : job'[k] = job[k]
    BY <2>2, EndIsCurrent DEF PairOK, CheckoutTypeOK
  <2>4. \A u \in Users : Moves(u)
    BY <1>1, <2>1, SaveMoves DEF Single
  <2>5. QED
    BY <1>1, <1>2, <2>3, <2>4, MovesKeepSessions
<1>10. ASSUME NEW u \in Users, SaveStalled(w, u) PROVE SessionInv'
  <2>1. job[w] \in Jobs /\ job[w] # Idle /\ intent[u] \in Rows
    BY <1>10, IdleIsJob DEF SaveStalled, PairOK, CheckoutTypeOK
  <2>2. intent[u].state = "paid"
    BY <1>10, SaveStalledIsSafe DEF PairOK
  <2>3. /\ intent'[u].state = "errored_stalled" /\ intent'[u].slug = intent[u].slug
        /\ \A v \in Users \ {u} : intent'[v] = intent[v]
    BY <1>10, <2>1 DEF SaveStalled, PairOK, CheckoutTypeOK, Rows
  <2>4. \A v \in Users : Moves(v)
    BY <2>2, <2>3 DEF Moves, Unmoved, StaysSettled, Settled, Success, Errored
  <2>5. \A k \in Procs \ {w} : job'[k] = job[k] /\ job[k] = Idle
    BY <1>10, <2>1 DEF SaveStalled, PairOK, CheckoutTypeOK, CheckoutInv, OneJob
  <2>6. job'[w].op \in {"idle", "stall"}
    <3>1. job'[w] = Remaining(job[w], u)
      BY <1>10 DEF SaveStalled, PairOK, CheckoutTypeOK
    <3>2. CASE job'[w] = Idle
      BY <3>2, IdleIsJob
    <3>3. CASE job'[w] # Idle
      <4>1. job'[w] = [job[w] EXCEPT !.users = job[w].users \ {u}]
        BY <3>1, <3>3 DEF Remaining
      <4>2. job'[w].op = "stall"
        BY <1>10, <2>1, <4>1 DEF Jobs, SaveStalled
      <4>3. QED
        BY <4>2
    <3>4. QED
      BY <3>2, <3>3
  <2>7. JobsAreCurrent'
    <3>1. Workers \subseteq Procs
      BY DEF Procs
    <3>2. QED
      BY <2>5, <2>6, <3>1, IdleIsJob DEF JobsAreCurrent
  <2>8. QED
    BY <1>1, <1>2, <2>4, <2>5, <2>7, MovesKeepSessions
<1>11. CASE Fail(w)
  <2>1. /\ JobsAreCurrent' /\ \A k \in Procs \ {w} : job'[k] = job[k]
        /\ UNCHANGED <<intent>>
    BY <1>11, EndIsCurrent DEF Fail, PairOK, CheckoutTypeOK
  <2>2. QED
    BY <1>1, <1>2, <2>1, QuietKeepsSessions
<1>12. QED
  BY <1>5, <1>6, <1>7, <1>8, <1>9, <1>10, <1>11 DEF OtherJob

LEMMA ProvisionKeepsSessions ==
    ASSUME PairOK, Restricted, NEW f \in Flows, Provision(f)
    PROVE  SessionInv'
<1>1. f \in Procs /\ f \notin Workers /\ UNCHANGED mine /\ charged' = charged
  BY CheckoutAssumption DEF Provision, Procs, mine
<1>2. ASSUME \A k \in Procs \ {f} : job'[k] = job[k]
      PROVE  \A v \in Workers : asking[v].at # "idle" => job'[v] = job[v]
  BY <1>1, <1>2 DEF Procs
<1>3. ASSUME NEW u \in Users, ReadForLink(f, u) \/ ReadForError(f, u) \/ ReadForFulfill(f, u)
      PROVE  SessionInv'
  <2>1. PICK op, row : op \in {"link", "error", "fulfill"} /\ Begin(f, op, {u}, row, {})
    BY <1>3 DEF ReadForLink, ReadForError, ReadForFulfill
  <2>2. JobsAreCurrent'
    BY <1>1, <2>1, BeginIsCurrent
  <2>3. UNCHANGED <<intent>> /\ \A k \in Procs \ {f} : job'[k] = job[k]
    BY <2>1 DEF Begin, PairOK, CheckoutTypeOK
  <2>4. QED
    BY <1>1, <1>2, <2>2, <2>3, QuietKeepsSessions
<1>4. CASE SaveLink(f) \/ SaveLinked(f)
  <2>1. job[f].op \in {"link", "error", "fulfill"} /\ Save(f, job[f].op \in WholeRow)
    BY <1>4 DEF SaveLink, SaveLinked, WholeRow
  <2>2. job[f] # Idle /\ job' = [job EXCEPT ![f] = Idle]
    BY <2>1, IdleIsJob DEF Save
  <2>3. JobsAreCurrent' /\ \A k \in Procs \ {f} : job'[k] = job[k]
    BY <1>1, <2>2, EndIsCurrent DEF PairOK, CheckoutTypeOK
  <2>4. \A u \in Users : Moves(u)
    BY <1>1, <2>1, SaveMoves DEF Single
  <2>5. QED
    BY <1>1, <1>2, <2>3, <2>4, MovesKeepSessions
<1>5. CASE MakePlans(f) \/ EndFlow(f)
  <2>1. /\ UNCHANGED <<intent>>
        /\ \A k \in Procs \ {f} : job'[k] = job[k]
        /\ job'[f] \in {job[f], Idle}
    BY <1>1, <1>5 DEF MakePlans, EndFlow, PairOK, CheckoutTypeOK
  <2>2. JobsAreCurrent'
    <3>1. JobsAreCurrent /\ asking' = asking
      BY DEF PairOK, SessionInv, Provision, mine
    <3>2. \A w \in Workers : w \in Procs \ {f}
      BY <1>1 DEF Procs
    <3>3. QED
      BY <1>1, <2>1, <3>1, <3>2, IdleIsJob DEF JobsAreCurrent
  <2>3. QED
    BY <1>1, <1>2, <2>1, <2>2, QuietKeepsSessions
<1>6. QED
  BY <1>3, <1>4, <1>5 DEF Provision, FlowStep

(* The request for a session.                                              *)
LEMMA SaveNext ==
    ASSUME PairOK, NEW w \in Workers, asking[w].at \in {"valid", "saving"}
    PROVE  \A v \in Workers \ {w} : asking[v].at \notin {"valid", "saving"}
  BY DEF PairOK, SessionInv, OneValidation

LEMMA AskKeepsSessions ==
    ASSUME PairOK, Restricted, NEW w \in Workers, NEW u \in Users, NEW s \in Slugs, Ask(w, u, s)
    PROVE  SessionInv'
<1>1. /\ asking'[w] = [at |-> "valid", user |-> {u}, slug |-> s]
      /\ \A v \in Workers \ {w} : asking'[v] = asking[v]
      /\ open'[u] = {} /\ \A v \in Users \ {u} : open'[v] = open[v]
      /\ UNCHANGED <<vars, session, charged, page>>
  BY DEF Ask, PairOK, SessionTypeOK, Restricted
<1>2. /\ asking[w] = NotAsking /\ job[w] = Idle /\ charged[u] = {}
      /\ \A v \in Workers \ {w} : asking[v].at \notin {"valid", "saving"}
      /\ \A v \in Workers : u \notin asking[v].user
      /\ ~Reserved(s, u) /\ s \notin Customers
  <2>1. ~\E v \in Workers : asking[v].user = {u}
    BY DEF Ask, Restricted, InProgress
  <2>2. ASSUME NEW v \in Workers, u \in asking[v].user PROVE FALSE
    <3>1. RequestIsCurrent(v)
      BY DEF PairOK, SessionInv
    <3>2. QED
      BY <2>1, <2>2, <3>1 DEF RequestIsCurrent, NotAsking
  <2>3. QED
    BY <2>2 DEF Ask, Restricted, Alone, ValidSlug, HasCustomer
<1>3. UNCHANGED <<intent, job, session, charged, page>>
  BY <1>1 DEF vars
<1>4. OneValidation'
  BY <1>1, <1>2 DEF OneValidation
<1>5. OneRequest'
  <2>1. asking'[w].user = {u}
    BY <1>1
  <2>2. \A v \in Workers \ {w} : u \notin asking'[v].user
    BY <1>1, <1>2
  <2>3. OneRequest
    BY DEF PairOK, SessionInv
  <2>4. QED
    BY <1>1, <2>1, <2>2, <2>3 DEF OneRequest
<1>6. ASSUME NEW v \in Workers PROVE RequestIsCurrent(v)'
  <2>1. CASE v = w
    BY <1>1, <1>2, <1>3, <2>1 DEF RequestIsCurrent, Reserved
  <2>2. CASE v # w
    <3>1. RequestIsCurrent(v) /\ asking'[v] = asking[v] /\ u \notin asking[v].user
      BY <1>1, <1>2, <2>2 DEF PairOK, SessionInv
    <3>2. asking[v].user \subseteq Users
      BY DEF PairOK, SessionTypeOK
    <3>3. \A x \in asking[v].user : open'[x] = open[x]
      BY <1>1, <3>1, <3>2
    <3>4. QED
      BY <1>3, <3>1, <3>3 DEF RequestIsCurrent, Holds, Reserved
  <2>3. QED
    BY <2>1, <2>2
<1>7. JobsAreCurrent'
  <2>1. JobsAreCurrent
    BY DEF PairOK, SessionInv
  <2>2. \A v \in Workers : asking'[v].at # "saving" => asking[v].at # "saving"
    BY <1>1, <1>2 DEF NotAsking
  <2>3. QED
    BY <1>3, <2>1, <2>2 DEF JobsAreCurrent
<1>8. ASSUME NEW v \in Users PROVE SessionsAgree(v)'
  <2>1. SessionsAgree(v) /\ open'[v] \subseteq open[v]
    BY <1>1 DEF PairOK, SessionInv
  <2>2. QED
    BY <1>3, <2>1 DEF SessionsAgree, Holds
<1>9. SlugUnique'
  BY <1>3 DEF PairOK, SessionInv, SlugUnique
<1>10. QED
  BY <1>4, <1>5, <1>6, <1>7, <1>8, <1>9 DEF SessionInv

(* The worker that takes a step of its request; the others' are as before. *)
LEMMA ReachKeeps ==
    ASSUME PairOK, NEW w \in Workers, NEW step \in {"saving", "reserved", "opened", "recorded"},
           Reach(w, step), asking[w].at # "idle",
           step = "saving" => asking[w].at = "valid"
    PROVE  OneValidation' /\ OneRequest'
<1>1. /\ asking'[w].at = step /\ asking'[w].user = asking[w].user
      /\ \A v \in Workers \ {w} : asking'[v] = asking[v]
  BY ReachIs DEF PairOK
<1>2. OneValidation /\ OneRequest
  BY DEF PairOK, SessionInv
<1>3. OneValidation'
  BY <1>1, <1>2 DEF OneValidation
<1>4. OneRequest'
  BY <1>1, <1>2 DEF OneRequest
<1>5. QED
  BY <1>3, <1>4

LEMMA ReserveKeepsSessions ==
    ASSUME PairOK, Restricted, NEW w \in Workers, Reserve(w)
    PROVE  SessionInv'
<1>1. asking[w].at = "valid" /\ Reach(w, "saving") /\ UNCHANGED <<session, open, charged, page>>
  BY DEF Reserve
<1>2. /\ asking'[w].at = "saving" /\ asking'[w].user = asking[w].user
      /\ asking'[w].slug = asking[w].slug
      /\ \A v \in Workers \ {w} : asking'[v] = asking[v]
  BY <1>1, ReachIs DEF PairOK
<1>3. PICK u \in Users : asking[w].user = {u} /\ ReadIntent(w, u, asking[w].slug)
  BY DEF Reserve, PairOK, SessionInv, RequestIsCurrent
<1> DEFINE s == asking[w].slug
<1>4. RequestIsCurrent(w) /\ w \in Procs
  BY DEF PairOK, SessionInv, Procs
<1>5. /\ s \in Slugs /\ s \notin Customers /\ charged[u] = {} /\ open[u] = {}
      /\ ~Reserved(s, u)
  BY <1>1, <1>3, <1>4 DEF RequestIsCurrent
<1>6. intent[u].state \notin Settled
  BY <1>5 DEF PairOK, SessionInv, SessionsAgree
<1> DEFINE row == Cleaned(u)
           op == IF row.state = "none" THEN "insert" ELSE "update"
           kept == s \in {NoSlug, row.slug}
           slug == IF kept THEN row.slug ELSE s
           new == [row EXCEPT !.state = "created", !.slug = slug]
<1>7. row \in Rows /\ row.state \notin Success
  BY <1>6, CleanedRow DEF PairOK, Settled, Success, Errored
<1>8. slug = s
  BY <1>5, CheckoutAssumption
<1>9. Begin(w, op, {u}, new, Lapsed)
  BY <1>3, <1>7 DEF ReadIntent
<1>10. new.slug = s
  <2> HIDE DEF row, slug
  <2>1. new.slug = slug
    BY <1>7 DEF Rows
  <2>2. QED
    BY <1>8, <2>1
<1> HIDE DEF new
<1>11. op \in {"insert", "update"}
  OBVIOUS
<1> HIDE DEF op
<1>12. /\ job'[w] = [op |-> op, users |-> {u}, row |-> new, expiring |-> Lapsed,
                     late |-> Late(op, {u}, new)]
       /\ \A k \in Procs \ {w} : job'[k] = job[k]
       /\ intent' = intent
  BY <1>4, <1>9 DEF Begin, PairOK, CheckoutTypeOK
<1>13. JobsAreCurrent'
  <2>1. op # "pay" /\ charged' = charged /\ asking'[w].at = "saving"
    BY <1>1, <1>2, <1>11
  <2>2. QED
    BY <1>4, <1>9, <2>1, BeginIsCurrent
<1>14. ASSUME NEW v \in Workers PROVE RequestIsCurrent(v)'
  <2>1. CASE v = w
    <3>1. ~Reserved(s, u)'
      BY <1>2, <1>5, <1>12 DEF Reserved
    <3>2. /\ asking'[w].user = {u} /\ asking'[w].slug \in Slugs \ Customers
          /\ charged'[u] = {} /\ open'[u] = {} /\ ~Reserved(asking[w].slug, u)'
      BY <1>1, <1>2, <1>3, <1>5, <3>1
    <3>3. /\ job'[w].op \in {"insert", "update"} /\ job'[w].users = {u}
          /\ job'[w].row.slug = asking'[w].slug
      BY <1>2, <1>10, <1>11, <1>12
    <3>4. QED
      BY <1>2, <2>1, <3>2, <3>3 DEF RequestIsCurrent
  <2>2. CASE v # w
    <3>1. RequestIsCurrent(v) /\ asking'[v] = asking[v] /\ job'[v] = job[v]
      BY <1>2, <1>12, <2>2 DEF PairOK, SessionInv, Procs
    <3>2. QED
      BY <1>1, <1>12, <3>1 DEF RequestIsCurrent, Holds, Reserved
  <2>3. QED
    BY <2>1, <2>2
<1>15. \A v \in Users : SessionsAgree(v)'
  BY <1>1, <1>12 DEF PairOK, SessionInv, SessionsAgree, Holds
<1>16. SlugUnique'
  BY <1>12 DEF PairOK, SessionInv, SlugUnique
<1>17. QED
  BY <1>1, <1>13, <1>14, <1>15, <1>16, ReachKeeps DEF SessionInv

(* The reservation is saved: it was free, and now it is held.              *)
LEMMA ReservationKeepsSessions ==
    ASSUME PairOK, Restricted, NEW w \in Workers, Reservation(w)
    PROVE  SessionInv'
<1>1. /\ asking[w].at = "saving" /\ Reach(w, "reserved")
      /\ UNCHANGED <<session, open, charged, page>>
  BY DEF Reservation
<1>2. /\ asking'[w].at = "reserved" /\ asking'[w].user = asking[w].user
      /\ asking'[w].slug = asking[w].slug
      /\ \A v \in Workers \ {w} : asking'[v] = asking[v]
  BY <1>1, ReachIs DEF PairOK
<1>3. RequestIsCurrent(w) /\ w \in Procs /\ ReadIsCurrent(w)
  BY DEF PairOK, SessionInv, CheckoutInv, Procs
<1>4. PICK u \in Users : asking[w].user = {u}
  BY <1>1, <1>3 DEF RequestIsCurrent
<1>5. PICK s \in Slugs : s = asking[w].slug /\ s = asking'[w].slug
  BY <1>1, <1>2, <1>3 DEF RequestIsCurrent
<1>6. /\ s \notin Customers /\ charged[u] = {} /\ open[u] = {} /\ ~Reserved(s, u)
      /\ job[w].op \in {"insert", "update"} /\ job[w].users = {u}
      /\ job[w].row.slug = s /\ job[w].row.state = "created"
  <2>1. s \notin Customers /\ charged[u] = {} /\ open[u] = {} /\ ~Reserved(s, u)
    BY <1>1, <1>3, <1>4, <1>5 DEF RequestIsCurrent
  <2>2. job[w].op \in {"insert", "update"} /\ job[w].users = {u} /\ job[w].row.slug = s
    BY <1>1, <1>3, <1>4, <1>5 DEF RequestIsCurrent
  <2>3. job[w].row.state = "created"
    BY <1>3, <2>2 DEF ReadIsCurrent
  <2>4. QED
    BY <2>1, <2>2, <2>3
<1>7. Save(w, TRUE)
  BY <1>6 DEF Reservation, SaveIntent, SaveExpired
<1>8. intent'[u].slug = s /\ intent'[u].state = "created"
  BY <1>6, <1>7 DEF Save
<1>9. \A v \in job[w].expiring : intent[v].state = "created"
  BY <1>3 DEF ReadIsCurrent
<1>10. ASSUME NEW v \in Users \ {u}
       PROVE  /\ intent'[v].slug = intent[v].slug
              /\ \/ intent'[v].state = intent[v].state
                 \/ intent[v].state = "created" /\ intent'[v].state = "expired"
  <2>1. intent[v] \in Rows
    BY DEF PairOK, CheckoutTypeOK
  <2>2. CASE v \in job[w].expiring
    <3>1. intent'[v] = [intent[v] EXCEPT !.state = "expired"]
      BY <1>6, <1>7, <2>2 DEF Save
    <3>2. intent'[v].slug = intent[v].slug /\ intent'[v].state = "expired"
      BY <2>1, <3>1 DEF Rows
    <3>3. QED
      BY <1>9, <2>2, <3>2
  <2>3. CASE v \notin job[w].expiring
    BY <1>6, <1>7, <2>3 DEF Save
  <2>4. QED
    BY <2>2, <2>3
<1>11. job[w] # Idle /\ job' = [job EXCEPT ![w] = Idle]
  BY <1>6, <1>7, IdleIsJob DEF Save
<1>12. JobsAreCurrent' /\ \A k \in Procs : job'[k] = Idle
  BY <1>3, <1>11, EndIsCurrent DEF PairOK, CheckoutInv, OneJob, CheckoutTypeOK
<1>13. \A v \in Workers \ {w} : asking[v].at \notin {"valid", "saving"}
  BY <1>1, SaveNext
<1>14. "expired" \notin NonExpired /\ "created" \in NonExpired /\ "created" \notin Settled
       /\ "expired" \notin Settled
  BY DEF NonExpired, Settled, Success, Errored
<1>15. ASSUME NEW v \in Workers PROVE RequestIsCurrent(v)'
  <2>1. CASE v = w
    <3>1. Holds(u, s)'
      BY <1>8 DEF Holds
    <3>2. asking'[w].user = {u} /\ charged'[u] = {} /\ open'[u] = {} /\ job'[w] = Idle
      BY <1>1, <1>2, <1>3, <1>4, <1>6, <1>12
    <3>3. QED
      BY <1>2, <1>5, <2>1, <3>1, <3>2 DEF RequestIsCurrent, Holds
  <2>2. CASE v # w
    <3>1. /\ RequestIsCurrent(v) /\ asking'[v] = asking[v] /\ job'[v] = Idle
          /\ asking[v].at \notin {"valid", "saving"}
      BY <1>2, <1>12, <1>13, <2>2 DEF PairOK, SessionInv, Procs
    <3>2. u \notin asking[v].user /\ asking[v].user \subseteq Users
      BY <1>4, <2>2 DEF PairOK, SessionInv, OneRequest, SessionTypeOK
    <3>3. ASSUME NEW x \in asking[v].user, NEW t, Holds(x, t) PROVE Holds(x, t)'
      BY <1>10, <3>2, <3>3 DEF Holds
    <3>4. asking[v].at \in {"reserved", "opened", "recorded"} =>
              \A x \in asking[v].user : Holds(x, asking[v].slug)'
      BY <3>1, <3>2, <3>3 DEF RequestIsCurrent, Holds
    <3>5. QED
      BY <1>1, <3>1, <3>4 DEF RequestIsCurrent, Holds
  <2>3. QED
    BY <2>1, <2>2
<1>16. ASSUME NEW v \in Users PROVE SessionsAgree(v)'
  <2>1. SessionsAgree(v)
    BY DEF PairOK, SessionInv
  <2>2. CASE v = u
    BY <1>1, <1>6, <1>8, <1>14, <2>1, <2>2 DEF SessionsAgree
  <2>3. CASE v # u
    <3>1. intent'[v].state \in Settled => intent[v].state \in Settled
      BY <1>10, <1>14, <2>3
    <3>2. QED
      BY <1>1, <1>10, <2>1, <2>3, <3>1 DEF SessionsAgree
  <2>4. QED
    BY <2>2, <2>3
<1>17. SlugUnique'
  <2>1. SlugUnique
    BY DEF PairOK, SessionInv
  <2>2. \A v \in Users \ {u} : intent'[v].state \in NonExpired =>
            intent[v].state \in NonExpired /\ intent'[v].slug = intent[v].slug
    BY <1>10, <1>14
  <2>3. \A v \in Users \ {u} : intent'[v].state \in NonExpired => intent'[v].slug # s
    BY <1>6, <2>2 DEF Reserved
  <2>4. QED
    BY <1>8, <2>1, <2>2, <2>3 DEF SlugUnique
<1>18. QED
  BY <1>1, <1>12, <1>15, <1>16, <1>17, ReachKeeps DEF SessionInv

(* Jobs stay current when no row, job or payment changes, and no request   *)
(* leaves the step in which it saves.                                      *)
LEMMA SameJobs ==
    ASSUME PairOK, UNCHANGED <<intent, job, charged>>,
           \A w \in Workers : asking'[w].at # "saving" => asking[w].at # "saving"
    PROVE  JobsAreCurrent'
<1>1. JobsAreCurrent
  BY DEF PairOK, SessionInv
<1>2. QED
  BY <1>1 DEF JobsAreCurrent

LEMMA OpenKeepsSessions ==
    ASSUME PairOK, Restricted, NEW w \in Workers, OpenSession(w) \/ RecordSession(w)
    PROVE  SessionInv'
<1>1. PICK step \in {"opened", "recorded"} :
         /\ Reach(w, step)
         /\ asking[w].at \in {"reserved", "opened"}
         /\ step = "recorded" => RecordSession(w)
         /\ step = "opened" => OpenSession(w)
  BY DEF OpenSession, RecordSession
<1>2. /\ asking'[w].at = step /\ asking'[w].user = asking[w].user
      /\ asking'[w].slug = asking[w].slug
      /\ \A v \in Workers \ {w} : asking'[v] = asking[v]
  BY <1>1, ReachIs DEF PairOK
<1>3. UNCHANGED <<intent, job, open, charged>>
  BY DEF OpenSession, RecordSession, vars
<1>4. RequestIsCurrent(w)
  BY DEF PairOK, SessionInv
<1>5. /\ asking[w].user \subseteq Users
      /\ job[w] = Idle
      /\ \A u \in asking[w].user :
            charged[u] = {} /\ open[u] = {} /\ Holds(u, asking[w].slug)
  BY <1>1, <1>4 DEF RequestIsCurrent, PairOK, SessionTypeOK, Holds
<1>6. \A u \in Users \ asking[w].user : session'[u] = session[u] /\ page'[u] = page[u]
  BY <1>1 DEF OpenSession, RecordSession
<1>7. \A u \in asking[w].user :
         /\ step = "recorded" => session'[u] = asking[w].slug /\ page'[u] = "none"
         /\ step = "opened" => session'[u] = session[u] /\ page'[u] = page[u]
  BY <1>1, <1>5 DEF OpenSession, RecordSession
<1>8. JobsAreCurrent'
  BY <1>1, <1>2, <1>3, SameJobs
<1>9. ASSUME NEW v \in Workers PROVE RequestIsCurrent(v)'
  <2>1. CASE v = w
    BY <1>1, <1>2, <1>3, <1>4, <1>5, <1>7, <2>1 DEF RequestIsCurrent, Holds
  <2>2. CASE v # w
    <3>1. RequestIsCurrent(v) /\ asking'[v] = asking[v]
      BY <1>2, <2>2 DEF PairOK, SessionInv
    <3>2. \A u \in asking[v].user : session'[u] = session[u]
      BY <1>6, <2>2 DEF PairOK, SessionInv, OneRequest, SessionTypeOK
    <3>3. QED
      BY <1>3, <3>1, <3>2 DEF RequestIsCurrent, Holds, Reserved
  <2>3. QED
    BY <2>1, <2>2
<1>10. ASSUME NEW u \in Users PROVE SessionsAgree(u)'
  <2>1. SessionsAgree(u)
    BY DEF PairOK, SessionInv
  <2>2. CASE u \in asking[w].user
    BY <1>1, <1>3, <1>5, <1>7, <2>1, <2>2 DEF SessionsAgree, Holds
  <2>3. CASE u \notin asking[w].user
    BY <1>3, <1>6, <2>1, <2>3 DEF SessionsAgree, Holds
  <2>4. QED
    BY <2>2, <2>3
<1>11. SlugUnique'
  BY <1>3 DEF PairOK, SessionInv, SlugUnique
<1>12. OneValidation' /\ OneRequest'
  BY <1>1, ReachKeeps
<1>13. QED
  BY <1>8, <1>9, <1>10, <1>11, <1>12 DEF SessionInv

(* A request ends: its user may ask again, and the others go on.           *)
LEMMA EndedKeeps ==
    ASSUME PairOK, NEW w \in Workers, asking' = [asking EXCEPT ![w] = NotAsking]
    PROVE  /\ asking'[w] = NotAsking
           /\ \A v \in Workers \ {w} : asking'[v] = asking[v]
           /\ OneValidation' /\ OneRequest'
<1>1. asking'[w] = NotAsking /\ \A v \in Workers \ {w} : asking'[v] = asking[v]
  BY DEF PairOK, SessionTypeOK
<1>2. OneValidation /\ OneRequest
  BY DEF PairOK, SessionInv
<1>3. OneValidation'
  BY <1>1, <1>2 DEF OneValidation, NotAsking
<1>4. OneRequest'
  BY <1>1, <1>2 DEF OneRequest, NotAsking
<1>5. QED
  BY <1>1, <1>3, <1>4

LEMMA AnswerKeepsSessions ==
    ASSUME PairOK, Restricted, NEW w \in Workers, Answer(w)
    PROVE  SessionInv'
<1>1. /\ asking'[w] = NotAsking /\ \A v \in Workers \ {w} : asking'[v] = asking[v]
      /\ OneValidation' /\ OneRequest'
  BY EndedKeeps DEF Answer
<1>2. UNCHANGED <<intent, job, session, charged, page>> /\ asking[w].at = "recorded"
  BY DEF Answer, vars
<1>3. RequestIsCurrent(w)
  BY DEF PairOK, SessionInv
<1>4. /\ asking[w].user \subseteq Users /\ job[w] = Idle
      /\ \A u \in asking[w].user :
            /\ charged[u] = {} /\ open[u] = {} /\ Holds(u, asking[w].slug)
            /\ session[u] = asking[w].slug
  BY <1>2, <1>3 DEF RequestIsCurrent, PairOK, SessionTypeOK, Holds
<1>5. /\ \A u \in asking[w].user : open'[u] = {asking[w].slug}
      /\ \A u \in Users \ asking[w].user : open'[u] = open[u]
  BY <1>4 DEF Answer
<1>6. JobsAreCurrent'
  BY <1>1, <1>2, SameJobs DEF NotAsking
<1>7. ASSUME NEW v \in Workers PROVE RequestIsCurrent(v)'
  <2>1. CASE v = w
    BY <1>1, <2>1 DEF RequestIsCurrent, NotAsking
  <2>2. CASE v # w
    <3>1. RequestIsCurrent(v) /\ asking'[v] = asking[v]
      BY <1>1, <2>2 DEF PairOK, SessionInv
    <3>2. \A u \in asking[v].user : open'[u] = open[u]
      BY <1>5, <2>2 DEF PairOK, SessionInv, OneRequest, SessionTypeOK
    <3>3. QED
      BY <1>2, <3>1, <3>2 DEF RequestIsCurrent, Holds, Reserved
  <2>3. QED
    BY <2>1, <2>2
<1>8. ASSUME NEW u \in Users PROVE SessionsAgree(u)'
  <2>1. SessionsAgree(u)
    BY DEF PairOK, SessionInv
  <2>2. CASE u \in asking[w].user
    BY <1>2, <1>4, <1>5, <2>1, <2>2 DEF SessionsAgree, Holds
  <2>3. CASE u \notin asking[w].user
    BY <1>2, <1>5, <2>1, <2>3 DEF SessionsAgree, Holds
  <2>4. QED
    BY <2>2, <2>3
<1>9. SlugUnique'
  BY <1>2 DEF PairOK, SessionInv, SlugUnique
<1>10. QED
  BY <1>1, <1>6, <1>7, <1>8, <1>9 DEF SessionInv

LEMMA GiveUpKeepsSessions ==
    ASSUME PairOK, Restricted, NEW w \in Workers, GiveUp(w)
    PROVE  SessionInv'
<1>1. /\ asking'[w] = NotAsking /\ \A v \in Workers \ {w} : asking'[v] = asking[v]
      /\ OneValidation' /\ OneRequest'
  BY EndedKeeps DEF GiveUp
<1>2. /\ UNCHANGED <<intent, session, open, charged, page>>
      /\ w \in Procs /\ job' = [job EXCEPT ![w] = Idle]
  BY DEF GiveUp, Fail, vars, PairOK, CheckoutTypeOK, Procs
<1>3. job'[w] = Idle /\ \A k \in Procs \ {w} : job'[k] = job[k]
  BY <1>2 DEF PairOK, CheckoutTypeOK
<1>4. JobsAreCurrent'
  <2>1. JobsAreCurrent
    BY DEF PairOK, SessionInv
  <2>2. Workers \subseteq Procs
    BY DEF Procs
  <2>3. QED
    BY <1>1, <1>2, <1>3, <2>1, <2>2, IdleIsJob DEF JobsAreCurrent
<1>5. ASSUME NEW v \in Workers PROVE RequestIsCurrent(v)'
  <2>1. CASE v = w
    BY <1>1, <2>1 DEF RequestIsCurrent, NotAsking
  <2>2. CASE v # w
    <3>1. RequestIsCurrent(v) /\ asking'[v] = asking[v] /\ job'[v] = job[v]
      BY <1>1, <1>3, <2>2 DEF PairOK, SessionInv, Procs
    <3>2. QED
      BY <1>2, <3>1 DEF RequestIsCurrent, Holds, Reserved
  <2>3. QED
    BY <2>1, <2>2
<1>6. \A u \in Users : SessionsAgree(u)'
  BY <1>2 DEF PairOK, SessionInv, SessionsAgree, Holds
<1>7. SlugUnique'
  BY <1>2 DEF PairOK, SessionInv, SlugUnique
<1>8. QED
  BY <1>1, <1>4, <1>5, <1>6, <1>7 DEF SessionInv

(* A user who is not being served pays, or looks at the page.              *)
LEMMA NotServed ==
    ASSUME PairOK, NEW u \in Users, ~InProgress(u), NEW w \in Workers
    PROVE  u \notin asking[w].user
<1>1. RequestIsCurrent(w)
  BY DEF PairOK, SessionInv
<1>2. QED
  BY <1>1 DEF RequestIsCurrent, InProgress, NotAsking

LEMMA UserKeepsRequests ==
    ASSUME PairOK, NEW u \in Users, UNCHANGED <<intent, job, asking>>,
           \A v \in Users \ {u} : charged'[v] = charged[v] /\ open'[v] = open[v]
                                  /\ session'[v] = session[v],
           \A w \in Workers : u \notin asking[w].user
    PROVE  OneValidation' /\ OneRequest' /\ \A w \in Workers : RequestIsCurrent(w)'
<1>1. OneValidation /\ OneRequest
  BY DEF PairOK, SessionInv
<1>2. ASSUME NEW w \in Workers PROVE RequestIsCurrent(w)'
  <2>1. RequestIsCurrent(w) /\ asking[w].user \subseteq Users \ {u}
    BY DEF PairOK, SessionInv, SessionTypeOK
  <2>2. ASSUME NEW x \in asking[w].user, NEW t, Holds(x, t) PROVE Holds(x, t)'
    BY <2>1, <2>2 DEF Holds
  <2>3. QED
    BY <2>1, <2>2 DEF RequestIsCurrent, Reserved
<1>3. QED
  BY <1>1, <1>2 DEF OneValidation, OneRequest

LEMMA PayKeepsSessions ==
    ASSUME PairOK, Restricted, NEW u \in Users, NEW s \in Slugs, Pay(u, s)
    PROVE  SessionInv'
<1>1. /\ UNCHANGED <<intent, job, asking, session, page>> /\ ~InProgress(u)
      /\ s \in open[u]
  BY DEF Pay, vars, Restricted
<1>2. \A t \in open[u] : charged[u] = {} /\ Holds(u, t) /\ session[u] = t
  BY DEF PairOK, SessionInv, SessionsAgree, Holds
<1>3. /\ charged'[u] = {s} /\ open'[u] = {}
      /\ \A v \in Users \ {u} : charged'[v] = charged[v] /\ open'[v] = open[v]
  BY <1>1, <1>2 DEF Pay, PairOK, SessionTypeOK
<1>4. OneValidation' /\ OneRequest' /\ \A w \in Workers : RequestIsCurrent(w)'
  BY <1>1, <1>3, NotServed, UserKeepsRequests
<1>5. JobsAreCurrent'
  <2>1. JobsAreCurrent
    BY DEF PairOK, SessionInv
  <2>2. \A j \in Procs : job[j].users \subseteq Users
    BY DEF PairOK, CheckoutTypeOK, Jobs
  <2>3. \A v \in Users : charged[v] # {} => charged'[v] # {}
    BY <1>3
  <2>4. QED
    BY <1>1, <2>1, <2>2, <2>3 DEF JobsAreCurrent
<1>6. ASSUME NEW v \in Users PROVE SessionsAgree(v)'
  <2>1. SessionsAgree(v)
    BY DEF PairOK, SessionInv
  <2>2. CASE v = u
    <3>1. /\ charged'[v] = {session'[v]} /\ session'[v] = intent'[v].slug
          /\ open'[v] = {}
      BY <1>1, <1>2, <1>3, <2>2 DEF Holds
    <3>2. QED
      BY <1>1, <2>1, <3>1 DEF SessionsAgree
  <2>3. CASE v # u
    BY <1>1, <1>3, <2>1, <2>3 DEF SessionsAgree, Holds
  <2>4. QED
    BY <2>2, <2>3
<1>7. SlugUnique'
  BY <1>1 DEF PairOK, SessionInv, SlugUnique
<1>8. QED
  BY <1>4, <1>5, <1>6, <1>7 DEF SessionInv

LEMMA PageKeepsSessions ==
    ASSUME PairOK, NEW u \in Users, ShowSuccess(u) \/ Forget(u)
    PROVE  SessionInv'
<1>1. UNCHANGED <<intent, job, asking, session, open, charged>>
  BY DEF ShowSuccess, Forget, vars
<1>2. \A v \in Users : page'[v] = "paid" => page[v] = "paid" \/ session[v] \in charged[v]
  BY DEF ShowSuccess, Forget, PairOK, SessionTypeOK
<1>3. /\ OneValidation /\ OneRequest /\ JobsAreCurrent /\ SlugUnique
      /\ \A w \in Workers : RequestIsCurrent(w)
      /\ \A v \in Users : SessionsAgree(v)
  BY DEF PairOK, SessionInv
<1>4. \A v \in Users : SessionsAgree(v)'
  BY <1>1, <1>2, <1>3 DEF SessionsAgree, Holds
<1>5. \A w \in Workers : RequestIsCurrent(w)'
  BY <1>1, <1>3 DEF RequestIsCurrent, Holds, Reserved
<1>6. OneValidation' /\ OneRequest' /\ JobsAreCurrent' /\ SlugUnique'
  BY <1>1, <1>3 DEF OneValidation, OneRequest, JobsAreCurrent, SlugUnique
<1>7. QED
  BY <1>4, <1>5, <1>6 DEF SessionInv

LEMMA ExpiryKeepsSessions ==
    ASSUME PairOK, NEW u \in Users, NEW s \in Slugs, SessionExpires(u, s)
    PROVE  SessionInv'
<1>1. /\ UNCHANGED <<intent, job, asking, session, charged, page>>
      /\ \A v \in Users : open'[v] \subseteq open[v]
  BY DEF SessionExpires, vars, PairOK, SessionTypeOK
<1>2. /\ OneValidation /\ OneRequest /\ JobsAreCurrent /\ SlugUnique
      /\ \A w \in Workers : RequestIsCurrent(w)
      /\ \A v \in Users : SessionsAgree(v)
  BY DEF PairOK, SessionInv
<1>3. \A v \in Users : SessionsAgree(v)'
  BY <1>1, <1>2 DEF SessionsAgree
<1>4. ASSUME NEW w \in Workers PROVE RequestIsCurrent(w)'
  <2>1. asking[w].user \subseteq Users
    BY DEF PairOK, SessionTypeOK
  <2>2. \A v \in asking[w].user : open[v] = {} => open'[v] = {}
    BY <1>1, <2>1
  <2>3. QED
    BY <1>1, <1>2, <2>2 DEF RequestIsCurrent, Reserved
<1>5. OneValidation' /\ OneRequest' /\ JobsAreCurrent' /\ SlugUnique'
  BY <1>1, <1>2 DEF OneValidation, OneRequest, JobsAreCurrent, SlugUnique
<1>6. QED
  BY <1>3, <1>4, <1>5 DEF SessionInv

(* Neither clock is part of the invariant.                                 *)
LEMMA TimeKeepsSessions ==
    ASSUME PairOK, NEW u \in Users, TimePasses(u)
    PROVE  SessionInv'
<1>1. UNCHANGED <<intent, job>> /\ UNCHANGED mine
  BY DEF TimePasses, ReservationEnds, PaymentGrowsOld
<1>2. JobsAreCurrent'
  BY <1>1, SameJobs DEF mine
<1>3. QED
  BY <1>1, <1>2, QuietKeepsSessions

LEMMA SessionsStep ==
    ASSUME PairOK, Restricted, [SessionNext]_svars
    PROVE  SessionInv'
<1>1. ASSUME UNCHANGED svars PROVE SessionInv'
  <2>1. UNCHANGED <<intent, job, asking, session, open, charged, page>>
    BY <1>1 DEF svars, vars, mine
  <2>2. SessionInv
    BY DEF PairOK
  <2>3. QED
    BY <2>1, <2>2 DEF SessionInv, OneValidation, OneRequest, RequestIsCurrent, JobsAreCurrent,
                      SessionsAgree, Holds, Reserved, SlugUnique
<1>2. QED
  BY <1>1, AskKeepsSessions, ReserveKeepsSessions, ReservationKeepsSessions, OpenKeepsSessions,
     AnswerKeepsSessions, GiveUpKeepsSessions, OtherJobKeepsSessions, PayKeepsSessions,
     PageKeepsSessions, ExpiryKeepsSessions, TimeKeepsSessions, ProvisionKeepsSessions DEF SessionNext

LEMMA SessionsInit == SessionInit => SessionInv
<1> SUFFICES ASSUME SessionInit PROVE SessionInv
  OBVIOUS
<1>1. /\ \A w \in Workers : asking[w] = NotAsking
      /\ \A u \in Users : /\ session[u] = NoSession /\ open[u] = {} /\ charged[u] = {}
                         /\ page[u] = "none"
                         /\ intent[u].state = "none" /\ intent[u].slug = NoSlug
      /\ \A j \in Procs : job[j] = Idle
      /\ Workers \subseteq Procs
  BY DEF SessionInit, Init, Nothing, Procs
<1>2. NoSlug \notin Customers /\ "none" \notin Settled /\ "none" \notin NonExpired
  BY CheckoutAssumption, SessionAssumption DEF NonExpired, Settled, Success, Errored
<1>3. OneValidation /\ OneRequest /\ \A w \in Workers : RequestIsCurrent(w)
  <2>1. \A w \in Workers : asking[w].at = "idle" /\ asking[w].user = {}
    BY <1>1 DEF NotAsking
  <2>2. OneValidation
    BY <2>1 DEF OneValidation
  <2>3. OneRequest
    BY <2>1 DEF OneRequest
  <2>4. \A w \in Workers : RequestIsCurrent(w)
    BY <1>1, <2>1 DEF RequestIsCurrent
  <2>5. QED
    BY <2>2, <2>3, <2>4
<1>4. JobsAreCurrent
  BY <1>1, IdleIsJob DEF JobsAreCurrent
<1>5. ASSUME NEW u \in Users PROVE SessionsAgree(u)
  <2>1. /\ intent[u].slug = NoSlug /\ intent[u].state = "none"
        /\ charged[u] = {} /\ open[u] = {} /\ page[u] = "none"
    BY <1>1
  <2>2. QED
    BY <1>2, <2>1 DEF SessionsAgree
<1>6. SlugUnique
  BY <1>1, <1>2 DEF SlugUnique
<1>7. QED
  BY <1>3, <1>4, <1>5, <1>6 DEF SessionInv

(* In the model of MCCheckout: jobs and validations do not overlap, and a  *)
(* user asks again only before paying.  The rows, what the requests have   *)
(* read and the sessions then agree at every moment, although reservations *)
(* lapse before, while and after they are paid for.                        *)
THEOREM SessionInvTheorem ==
    ASSUME Restricted
    PROVE  SessionSpec => []SessionInv
<1>1. SessionInit => PairOK
  <2>1. SessionInit => Init
    BY DEF SessionInit
  <2>2. Init => NoPatch
    BY IdleIsJob DEF Init, NoPatch
  <2>3. QED
    BY <2>1, <2>2, InitType, InitInv, SessionInitType, SessionsInit DEF PairOK
<1>2. PairOK /\ [SessionNext]_svars => SessionInv'
  BY SessionsStep
<1>3. "admin" \notin Kinds /\ ~Overlap /\ Kinds = {}
  BY DEF Restricted
<1>4. Spec => []CheckoutInv
  BY <1>3, CheckoutInvTheorem
<1>5. Spec => [](FulfilledByWorkflow /\ NoPatch)
  BY <1>3, FulfilledByWorkflowTheorem
<1>6. SessionSpec => [](SessionTypeOK /\ Named)
  BY SessionInitType, SessionNextType, PTL DEF SessionSpec
<1>7. CheckoutTypeOK /\ CheckoutInv /\ NoPatch /\ SessionTypeOK /\ Named /\ SessionInv => PairOK
  BY DEF PairOK
<1>8. PairOK => SessionInv
  BY DEF PairOK
<1>9. QED
  BY <1>1, <1>2, <1>4, <1>5, <1>6, <1>7, <1>8, SessionImplementsIntents, CheckoutTypeTheorem,
     PTL DEF SessionSpec

(* No two users have a paid intent for one slug.                           *)
THEOREM SlugPaidOnceTheorem ==
    ASSUME Restricted
    PROVE  SessionSpec => []SlugPaidOnce
<1>1. SessionTypeOK /\ SessionInv => SlugPaidOnce
  <2> SUFFICES ASSUME SessionTypeOK, SessionInv, NEW u \in Users, NEW v \in Users, u # v,
                      {intent[u].state, intent[v].state} \subseteq Settled
               PROVE  intent[u].slug # intent[v].slug
    BY DEF SlugPaidOnce
  <2>1. session[u] = intent[u].slug /\ session[u] \in charged[u] /\ charged[u] \subseteq Slugs
    BY DEF SessionInv, SessionsAgree, SessionTypeOK
  <2>2. intent[u].slug # NoSlug
    BY <2>1, CheckoutAssumption
  <2>3. QED
    BY <2>2 DEF SessionInv, SlugUnique, NonExpired
<1>2. QED
  BY <1>1, SessionTypeTheorem, SessionInvTheorem, PTL

(* Nobody pays for the slug of a customer that exists.                     *)
THEOREM NobodyTakesOverTheorem ==
    ASSUME Restricted
    PROVE  SessionSpec => []NobodyTakesOver
<1>1. SessionInv => NobodyTakesOver
  BY DEF SessionInv, SessionsAgree, NobodyTakesOver
<1>2. QED
  BY <1>1, SessionInvTheorem, PTL

(* What a paid intent records, and what its page shows, was paid.          *)
THEOREM PaidSessionTheorem ==
    ASSUME Restricted
    PROVE  SessionSpec => []PaidSessionIsRecorded
<1>1. SessionInv => PaidSessionIsRecorded
  BY DEF SessionInv, SessionsAgree, PaidSessionIsRecorded
<1>2. QED
  BY <1>1, SessionInvTheorem, PTL

(* The workflows of paid sessions and their intents agree on what was      *)
(* fulfilled, as they do for every other way of paying.                    *)
THEOREM SessionsFulfilledTheorem ==
    ASSUME Restricted
    PROVE  SessionSpec => []FulfilledByWorkflow
<1>1. Spec => [](FulfilledByWorkflow /\ NoPatch)
  BY FulfilledByWorkflowTheorem DEF Restricted
<1>2. QED
  BY <1>1, SessionImplementsIntents, PTL

=============================================================================
