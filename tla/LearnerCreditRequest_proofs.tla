--------------------- MODULE LearnerCreditRequest_proofs ---------------------
(* Proofs about learner credit requests, for any processes, requests, pairs*)
(* and limit, with jobs that overlap and processes that die.               *)
EXTENDS LearnerCreditRequest, FiniteSetTheorems, TLAPS

(* A row that exists is about a pair, and so is what a job is about to save*)
RowsHavePairs ==
    /\ \A r \in Ids : req[r].state # "none" => req[r].pair \in Pairs
    /\ \A w \in Workers :
        /\ \A r \in job[w].ids \cup job[w].valid : req[r].pair \in Pairs
        /\ job[w].op \in {"create", "cancel", "decline", "redeem"} =>
                job[w].row.pair \in Pairs
        /\ job[w].op = "expire" /\ job[w].ids # {} => job[w].row.pair \in Pairs

TypeInv == RequestTypeOK /\ RowsHavePairs

LEMMA InitType == Init => TypeInv
  BY DEF Init, TypeInv, RequestTypeOK, RowsHavePairs, Idle, NoReq, Jobs, Reqs, Asgs,
     Trails, ReqStates, Active, Reusable, AsgStates

(* What every job looks like when it begins.                               *)
LEMMA BeginType ==
    ASSUME TypeInv, NEW w \in Workers, NEW op, NEW X \in SUBSET Pairs,
           NEW R \in SUBSET Ids, NEW row \in Reqs, NEW found \in AsgStates,
           Begin(w, op, X, R, row, found)
    PROVE  /\ job' \in [Workers -> Jobs]
           /\ job'[w].op = op /\ job'[w].ids = R /\ job'[w].row = row
           /\ job'[w].valid = {}
           /\ \A v \in Workers : v # w => job'[v] = job[v]
  BY RequestAssumption DEF Begin, TypeInv, RequestTypeOK, Jobs

LEMMA RecordType ==
    ASSUME TypeInv, NEW R, NEW kind \in ReqStates \cup {"reminded"}, NEW ok \in BOOLEAN,
           Record(R, kind, ok) \/ Fail(R, kind) \/ UNCHANGED trail
    PROVE  trail' \in [Ids -> Trails]
<1>1. CASE Record(R, kind, ok)
  <2>1. [kind |-> kind, ok |-> ok] \in Trails
    BY DEF Trails
  <2>2. QED
    BY <1>1, <2>1 DEF Record, TypeInv, RequestTypeOK
<1>2. CASE Fail(R, kind)
  <2>1. [kind |-> kind, ok |-> FALSE] \in Trails
    BY DEF Trails
  <2>2. QED
    BY <1>2, <2>1 DEF Fail, TypeInv, RequestTypeOK
<1>3. QED
  BY <1>1, <1>2 DEF TypeInv, RequestTypeOK

(* Saving a whole row keeps the rows typed and about pairs.                *)
LEMMA WholeType ==
    ASSUME TypeInv, NEW r \in Ids, NEW row \in Reqs, row.pair \in Pairs,
           NEW s \in ReqStates, req' = Whole(r, row, s)
    PROVE  /\ req' \in [Ids -> Reqs]
           /\ \A q \in Ids : req[q].pair \in Pairs => req'[q].pair \in Pairs
           /\ \A q \in Ids : req'[q].state # "none" => req'[q].pair \in Pairs
<1>1. [row EXCEPT !.state = s] \in Reqs /\ [row EXCEPT !.state = s].pair = row.pair
  BY DEF Reqs
<1>2. QED
  BY <1>1 DEF Whole, TypeInv, RequestTypeOK, RowsHavePairs

LEMMA SetAsgType ==
    ASSUME TypeInv, NEW X, NEW s \in AsgStates, SetAsg(X, s)
    PROVE  asg' \in [Pairs -> Asgs]
<1>1. \A x \in Pairs : [asg[x] EXCEPT !.state = s] \in Asgs
  BY DEF TypeInv, RequestTypeOK, Asgs
<1>2. QED
  BY <1>1 DEF SetAsg, TypeInv, RequestTypeOK

LEMMA EndType ==
    ASSUME TypeInv, NEW w \in Workers, End(w)
    PROVE  /\ job' \in [Workers -> Jobs]
           /\ job'[w] = Idle
           /\ \A v \in Workers : v # w => job'[v] = job[v]
  BY DEF End, TypeInv, RequestTypeOK, Idle, NoReq, Jobs, Reqs, ReqStates, Active, Reusable, AsgStates

LEMMA GotoType ==
    ASSUME TypeInv, NEW w \in Workers, Goto(w, "last")
    PROVE  /\ job' \in [Workers -> Jobs]
           /\ job' = [job EXCEPT ![w] = [@ EXCEPT !.at = "last"]]
           /\ job'[w].op = job[w].op /\ job'[w].ids = job[w].ids
           /\ job'[w].row = job[w].row /\ job'[w].pairs = job[w].pairs
           /\ job'[w].valid = job[w].valid
           /\ \A v \in Workers : v # w => job'[v] = job[v]
  BY DEF Goto, TypeInv, RequestTypeOK, Jobs

(* Jobs that end, or go on with what they have read, keep RowsHavePairs.   *)
LEMMA PairsKept ==
    ASSUME TypeInv,
           \A q \in Ids : req[q].pair \in Pairs => req'[q].pair \in Pairs,
           \A q \in Ids : req'[q].state # "none" => req'[q].pair \in Pairs,
           \A v \in Workers :
               \/ job'[v] = Idle
               \/ /\ job'[v].op = job[v].op /\ job'[v].ids = job[v].ids
                  /\ job'[v].valid \subseteq job[v].valid \cup job[v].ids
                  /\ job'[v].row = job[v].row
    PROVE  RowsHavePairs'
<1>1. \A w \in Workers : job[w].ids \cup job[w].valid \subseteq Ids
  BY DEF TypeInv, RequestTypeOK, Jobs
<1>2. QED
  BY <1>1 DEF TypeInv, RowsHavePairs, Idle

(* A job that begins keeps RowsHavePairs when its own rows have pairs.     *)
LEMMA PairsBegun ==
    ASSUME TypeInv, UNCHANGED req, NEW w \in Workers,
           \A v \in Workers : v # w => job'[v] = job[v],
           \A r \in job'[w].ids \cup job'[w].valid : req[r].pair \in Pairs,
           job'[w].op \in {"create", "cancel", "decline", "redeem"} =>
                job'[w].row.pair \in Pairs,
           job'[w].op = "expire" /\ job'[w].ids # {} => job'[w].row.pair \in Pairs
    PROVE  RowsHavePairs'
  BY DEF TypeInv, RowsHavePairs

LEMMA JobBegun ==
    ASSUME TypeInv, UNCHANGED req, NEW w \in Workers, NEW op, NEW X \in SUBSET Pairs,
           NEW R \in SUBSET Ids, NEW row \in Reqs, NEW found \in AsgStates,
           Begin(w, op, X, R, row, found),
           \A r \in R : req[r].pair \in Pairs,
           \/ op = "approve" \/ op = "reverse"
           \/ op = "expire" /\ R = {}
           \/ row.pair \in Pairs
    PROVE  job' \in [Workers -> Jobs] /\ RowsHavePairs'
<1>1. /\ job' \in [Workers -> Jobs]
      /\ job'[w].op = op /\ job'[w].ids = R /\ job'[w].row = row
      /\ job'[w].valid = {}
      /\ \A v \in Workers : v # w => job'[v] = job[v]
  BY BeginType
<1>2. RowsHavePairs'
  BY <1>1, PairsBegun
<1>3. QED
  BY <1>1, <1>2

LEMMA OneBegun ==
    ASSUME TypeInv, UNCHANGED req, NEW w \in Workers, NEW op, NEW x \in Pairs,
           NEW r \in Ids, req[r].pair \in Pairs, NEW found \in AsgStates,
           Begin(w, op, {x}, {r}, req[r], found)
    PROVE  job' \in [Workers -> Jobs] /\ RowsHavePairs'
<1>1. {x} \in SUBSET Pairs /\ {r} \in SUBSET Ids /\ req[r] \in Reqs
  BY DEF TypeInv, RequestTypeOK
<1>2. \A q \in {r} : req[q].pair \in Pairs
  OBVIOUS
<1>3. QED
  BY <1>1, <1>2, JobBegun

LEMMA JobEnded ==
    ASSUME TypeInv, NEW w \in Workers, End(w),
           \/ UNCHANGED req
           \/ /\ \A q \in Ids : req[q].pair \in Pairs => req'[q].pair \in Pairs
              /\ \A q \in Ids : req'[q].state # "none" => req'[q].pair \in Pairs
    PROVE  job' \in [Workers -> Jobs] /\ RowsHavePairs'
<1>1. /\ job' \in [Workers -> Jobs]
      /\ job'[w] = Idle
      /\ \A v \in Workers : v # w => job'[v] = job[v]
  BY EndType
<1>2. /\ \A q \in Ids : req[q].pair \in Pairs => req'[q].pair \in Pairs
      /\ \A q \in Ids : req'[q].state # "none" => req'[q].pair \in Pairs
  BY DEF TypeInv, RowsHavePairs
<1>3. RowsHavePairs'
  BY <1>1, <1>2, PairsKept
<1>4. QED
  BY <1>1, <1>3

LEMMA JobGoesOn ==
    ASSUME TypeInv, NEW w \in Workers, Goto(w, "last"),
           \/ UNCHANGED req
           \/ /\ \A q \in Ids : req[q].pair \in Pairs => req'[q].pair \in Pairs
              /\ \A q \in Ids : req'[q].state # "none" => req'[q].pair \in Pairs
    PROVE  job' \in [Workers -> Jobs] /\ RowsHavePairs'
<1>1. /\ job' \in [Workers -> Jobs]
      /\ job'[w].op = job[w].op /\ job'[w].ids = job[w].ids
      /\ job'[w].row = job[w].row /\ job'[w].valid = job[w].valid
      /\ \A v \in Workers : v # w => job'[v] = job[v]
  BY GotoType
<1>2. /\ \A q \in Ids : req[q].pair \in Pairs => req'[q].pair \in Pairs
      /\ \A q \in Ids : req'[q].state # "none" => req'[q].pair \in Pairs
  BY DEF TypeInv, RowsHavePairs
<1>3. RowsHavePairs'
  BY <1>1, <1>2, PairsKept
<1>4. QED
  BY <1>1, <1>3

(* A job that saves its row under its first request, or does not save.     *)
LEMMA SaveType ==
    ASSUME TypeInv, NEW w \in Workers, NEW r \in Ids, NEW s \in ReqStates,
           job[w].row.pair \in Pairs,
           req' = Whole(r, job[w].row, s) \/ UNCHANGED req
    PROVE  /\ req' \in [Ids -> Reqs]
           /\ \A q \in Ids : req[q].pair \in Pairs => req'[q].pair \in Pairs
           /\ \A q \in Ids : req'[q].state # "none" => req'[q].pair \in Pairs
<1>1. job[w].row \in Reqs
  BY DEF TypeInv, RequestTypeOK, Jobs
<1>2. CASE UNCHANGED req
  BY <1>2 DEF TypeInv, RequestTypeOK, RowsHavePairs
<1>3. CASE req' = Whole(r, job[w].row, s)
  BY <1>1, <1>3, WholeType
<1>4. QED
  BY <1>2, <1>3

LEMMA NamesTyped ==
    /\ ReqStates = {"requested", "approved", "accepted", "cancelled", "expired",
                    "reversed", "none", "declined"}
    /\ AsgStates = {"none", "allocated", "accepted", "cancelled", "expired", "errored",
                    "reversed"}
  BY DEF ReqStates, Active, Reusable, AsgStates

LEMMA CreateType ==
    ASSUME TypeInv, NEW w \in Workers,
           (\E x \in Pairs : ReadForCreate(w, x)) \/ SaveCreated(w)
    PROVE  TypeInv'
<1>1. ASSUME NEW x \in Pairs, ReadForCreate(w, x) PROVE TypeInv'
  <2> DEFINE reusable == {r \in OfPair(x) : req[r].state \in Reusable}
             first == {r \in reusable : \A s \in OfPair(x) : r <= s}
             fresh == [state |-> "requested", pair |-> x, linked |-> FALSE]
  <2>1. Begin(w, "create", {x}, first, fresh, "none")
    BY <1>1 DEF ReadForCreate
  <2>2. first \in SUBSET Ids /\ fresh \in Reqs /\ {x} \in SUBSET Pairs
    BY DEF OfPair, Reqs, ReqStates, Active
  <2>3. \A r \in first : req[r].pair \in Pairs
    BY DEF OfPair
  <2> HIDE DEF first, fresh
  <2>4. fresh.pair \in Pairs
    BY DEF fresh
  <2>5. /\ job' \in [Workers -> Jobs]
        /\ job'[w].op = "create" /\ job'[w].ids = first /\ job'[w].row = fresh
        /\ job'[w].valid = {}
        /\ \A v \in Workers : v # w => job'[v] = job[v]
    BY <2>1, <2>2, BeginType DEF AsgStates
  <2>6. RowsHavePairs'
    BY <1>1, <2>3, <2>4, <2>5, PairsBegun DEF ReadForCreate
  <2>7. QED
    BY <1>1, <2>5, <2>6 DEF ReadForCreate, TypeInv, RequestTypeOK
<1>2. ASSUME SaveCreated(w) PROVE TypeInv'
  <2>1. job[w].row \in Reqs /\ job[w].ids \subseteq Ids /\ job[w].row.pair \in Pairs
    BY <1>2 DEF SaveCreated, At, TypeInv, RequestTypeOK, Jobs, RowsHavePairs
  <2>2. PICK r \in Ids : IF Storable(Whole(r, job[w].row, "requested"))
            THEN req' = Whole(r, job[w].row, "requested") /\ Record({r}, "requested", TRUE)
            ELSE UNCHANGED <<req, trail>>
    BY <1>2, <2>1 DEF SaveCreated
  <2>3. "requested" \in ReqStates
    BY DEF ReqStates, Active
  <2>4. /\ req' \in [Ids -> Reqs]
        /\ \A q \in Ids : req[q].pair \in Pairs => req'[q].pair \in Pairs
        /\ \A q \in Ids : req'[q].state # "none" => req'[q].pair \in Pairs
    <3>1. CASE UNCHANGED req
      BY <3>1 DEF TypeInv, RequestTypeOK, RowsHavePairs
    <3>2. CASE req' = Whole(r, job[w].row, "requested")
      BY <3>2, <2>1, <2>3, WholeType
    <3>3. QED
      BY <2>2, <3>1, <3>2
  <2>5. trail' \in [Ids -> Trails]
    <3>1. CASE UNCHANGED trail
      BY <3>1 DEF TypeInv, RequestTypeOK
    <3>2. CASE Record({r}, "requested", TRUE)
      BY <3>2, <2>3, RecordType
    <3>3. QED
      BY <2>2, <3>1, <3>2
  <2>6. /\ job' \in [Workers -> Jobs]
        /\ job'[w] = Idle
        /\ \A v \in Workers : v # w => job'[v] = job[v]
    BY <1>2, EndType DEF SaveCreated
  <2>7. RowsHavePairs'
    BY <2>4, <2>6, PairsKept
  <2>8. QED
    BY <1>2, <2>4, <2>5, <2>6, <2>7 DEF SaveCreated, TypeInv, RequestTypeOK
<1>3. QED
  BY <1>1, <1>2

LEMMA ApproveType ==
    ASSUME TypeInv, NEW w \in Workers,
           \/ \E R \in SUBSET Ids : ReadForApprove(w, R)
           \/ ReadForApproveAll(w)
           \/ AllocateRequests(w) \/ SaveApproved(w)
    PROVE  TypeInv'
<1>1. ASSUME NEW R \in SUBSET Ids, ReadForApprove(w, R) PROVE TypeInv'
  <2>1. \A r \in R : req[r].pair \in Pairs
    BY <1>1 DEF ReadForApprove, TypeInv, RowsHavePairs
  <2>2. {req[r].pair : r \in R} \in SUBSET Pairs
    BY <2>1
  <2>3. NoReq \in Reqs /\ "none" \in AsgStates
    BY DEF NoReq, Reqs, ReqStates, AsgStates
  <2>4. /\ job' \in [Workers -> Jobs]
        /\ job'[w].op = "approve" /\ job'[w].ids = R /\ job'[w].valid = {}
        /\ \A v \in Workers : v # w => job'[v] = job[v]
    <3> DEFINE X == {req[r].pair : r \in R}
    <3>1. Begin(w, "approve", X, R, NoReq, "none")
      BY <1>1 DEF ReadForApprove
    <3>2. X \in SUBSET Pairs
      BY <2>2
    <3> HIDE DEF X
    <3>3. job' = [job EXCEPT ![w] = [op |-> "approve", at |-> "start", pairs |-> X,
                        ids |-> R, valid |-> {}, row |-> NoReq, found |-> "none"]]
      BY <3>1 DEF Begin
    <3>4. QED
      BY <3>2, <3>3, <2>3 DEF TypeInv, RequestTypeOK, Jobs, Kinds
  <2>5. RowsHavePairs'
    BY <1>1, <2>1, <2>4, PairsBegun DEF ReadForApprove
  <2>6. QED
    BY <1>1, <2>4, <2>5 DEF ReadForApprove, TypeInv, RequestTypeOK
<1>2. ASSUME AllocateRequests(w) PROVE TypeInv'
  <2>1. PICK V \in SUBSET job[w].ids :
          \/ /\ SetAsg({req[r].pair : r \in V}, "allocated")
             /\ job' = [job EXCEPT ![w].at = "last", ![w].valid = V]
             /\ UNCHANGED trail
          \/ /\ Record(job[w].ids, "approved", FALSE)
             /\ End(w)
             /\ UNCHANGED asg
    BY <1>2 DEF AllocateRequests
  <2>2. UNCHANGED <<req, tx, lock>>
    BY <1>2 DEF AllocateRequests
  <2>3. CASE /\ SetAsg({req[r].pair : r \in V}, "allocated")
             /\ job' = [job EXCEPT ![w].at = "last", ![w].valid = V]
             /\ UNCHANGED trail
    <3>1. asg' \in [Pairs -> Asgs]
      BY <2>3, SetAsgType DEF AsgStates
    <3>2. job' \in [Workers -> Jobs]
      <4>1. job \in [Workers -> Jobs]
        BY DEF TypeInv, RequestTypeOK
      <4>2. job[w] \in Jobs
        BY <4>1
      <4>3. [job[w] EXCEPT !.at = "last", !.valid = V] \in Jobs
        BY <4>2 DEF Jobs
      <4> QED
        BY <2>3, <4>1, <4>3
    <3>3. \A v \in Workers : /\ job'[v].op = job[v].op /\ job'[v].ids = job[v].ids
                              /\ job'[v].valid \subseteq job[v].valid \cup job[v].ids
                              /\ job'[v].row = job[v].row
      BY <2>3 DEF TypeInv, RequestTypeOK, Jobs
    <3>4. RowsHavePairs'
      BY <2>2, <3>3, PairsKept DEF TypeInv, RowsHavePairs
    <3>5. QED
      BY <2>2, <2>3, <3>1, <3>2, <3>4 DEF TypeInv, RequestTypeOK
  <2>4. CASE Record(job[w].ids, "approved", FALSE) /\ End(w) /\ UNCHANGED asg
    <3>1. trail' \in [Ids -> Trails]
      BY <2>4, RecordType DEF ReqStates, Active
    <3>2. /\ job' \in [Workers -> Jobs]
          /\ job'[w] = Idle
          /\ \A v \in Workers : v # w => job'[v] = job[v]
      BY <2>4, EndType
    <3>3. RowsHavePairs'
      BY <2>2, <3>2, PairsKept DEF TypeInv, RowsHavePairs
    <3>4. QED
      BY <2>2, <2>4, <3>1, <3>2, <3>3 DEF TypeInv, RequestTypeOK
  <2>5. QED
    BY <2>1, <2>3, <2>4
<1>3. ASSUME SaveApproved(w) PROVE TypeInv'
  <2> DEFINE V == job[w].valid
  <2>1. V \subseteq Ids
    BY DEF TypeInv, RequestTypeOK, Jobs
  <2>2. \/ UNCHANGED <<req, trail>>
        \/ /\ req' = [r \in Ids |-> IF r \in V
                    THEN [req[r] EXCEPT !.state = "approved", !.linked = TRUE]
                    ELSE req[r]]
           /\ trail' = [r \in Ids |-> IF r \in job[w].ids
                              THEN [kind |-> "approved", ok |-> r \in V] ELSE trail[r]]
    BY <1>3 DEF SaveApproved
  <2>3. /\ req' \in [Ids -> Reqs]
        /\ \A q \in Ids : req[q].pair \in Pairs => req'[q].pair \in Pairs
        /\ \A q \in Ids : req'[q].state # "none" => req'[q].pair \in Pairs
    <3>1. CASE UNCHANGED req
      BY <3>1 DEF TypeInv, RequestTypeOK, RowsHavePairs
    <3>2. CASE req' = [r \in Ids |-> IF r \in V
                    THEN [req[r] EXCEPT !.state = "approved", !.linked = TRUE]
                    ELSE req[r]]
      <4> DEFINE done(r) == [req[r] EXCEPT !.state = "approved", !.linked = TRUE]
      <4>1. \A r \in Ids : done(r) \in Reqs /\ done(r).pair = req[r].pair
        BY DEF TypeInv, RequestTypeOK, Reqs, ReqStates, Active
      <4>2. \A r \in V : req[r].pair \in Pairs
        BY DEF TypeInv, RowsHavePairs
      <4> HIDE DEF V
      <4>3. QED
        BY <3>2, <4>1, <4>2 DEF TypeInv, RequestTypeOK, RowsHavePairs
    <3>3. QED
      BY <2>2, <3>1, <3>2
  <2>4. trail' \in [Ids -> Trails]
    <3>1. \A r \in Ids : [kind |-> "approved", ok |-> r \in V] \in Trails
      BY DEF Trails, ReqStates, Active
    <3>2. QED
      BY <2>2, <3>1 DEF TypeInv, RequestTypeOK
  <2>5. /\ job' \in [Workers -> Jobs]
        /\ job'[w] = Idle
        /\ \A v \in Workers : v # w => job'[v] = job[v]
    BY <1>3, EndType DEF SaveApproved
  <2>6. RowsHavePairs'
    BY <2>3, <2>5, PairsKept
  <2>7. QED
    BY <1>3, <2>3, <2>4, <2>5, <2>6 DEF SaveApproved, TypeInv, RequestTypeOK
<1>4. QED
  BY <1>1, <1>2, <1>3 DEF ReadForApproveAll

LEMMA CancelType ==
    ASSUME TypeInv, NEW w \in Workers,
           (\E r \in Ids : ReadForCancel(w, r)) \/ CheckCancel(w) \/ SaveCancelled(w)
    PROVE  TypeInv'
<1>1. ASSUME NEW r \in Ids, ReadForCancel(w, r) PROVE TypeInv'
  <2>1. req[r] \in Reqs /\ req[r].pair \in Pairs
    BY <1>1 DEF ReadForCancel, TypeInv, RequestTypeOK, RowsHavePairs
  <2>2. job' \in [Workers -> Jobs] /\ RowsHavePairs'
    <3>1. "none" \in AsgStates
      BY NamesTyped
    <3>2. UNCHANGED req /\ Begin(w, "cancel", {req[r].pair}, {r}, req[r], "none")
      BY <1>1 DEF ReadForCancel
    <3>3. QED
      BY <2>1, <3>1, <3>2, OneBegun
  <2>3. trail' \in [Ids -> Trails]
    BY <1>1, RecordType, NamesTyped DEF ReadForCancel
  <2>4. QED
    BY <1>1, <2>2, <2>3 DEF ReadForCancel, TypeInv, RequestTypeOK
<1>2. ASSUME CheckCancel(w) PROVE TypeInv'
  <2> DEFINE found == asg[job[w].row.pair].state
  <2>1. found \in AsgStates
    BY <1>2 DEF CheckCancel, At, TypeInv, RequestTypeOK, RowsHavePairs, Asgs
  <2>2. UNCHANGED <<req, asg, tx, lock>>
    BY <1>2 DEF CheckCancel
  <2>3. \/ End(w) /\ UNCHANGED trail
        \/ End(w) /\ Fail(job[w].ids, "cancelled")
        \/ /\ job' = [job EXCEPT ![w].at = "last", ![w].found = found]
           /\ UNCHANGED trail
    BY <1>2 DEF CheckCancel
  <2> HIDE DEF found
  <2>4. trail' \in [Ids -> Trails]
    BY <2>3, RecordType, NamesTyped
  <2>5. job' \in [Workers -> Jobs] /\ RowsHavePairs'
    <3>1. CASE End(w)
      BY <2>2, <3>1, JobEnded
    <3>2. CASE job' = [job EXCEPT ![w].at = "last", ![w].found = found]
      <4>1. job' \in [Workers -> Jobs]
        <5>1. job[w] \in Jobs
          BY DEF TypeInv, RequestTypeOK
        <5>2. [job[w] EXCEPT !.at = "last", !.found = found] \in Jobs
          BY <2>1, <5>1 DEF Jobs
        <5>3. job' = [job EXCEPT ![w] = [job[w] EXCEPT !.at = "last", !.found = found]]
          BY <3>2
        <5> HIDE DEF Jobs
        <5>4. QED
          BY <5>2, <5>3 DEF TypeInv, RequestTypeOK
      <4>2. \A v \in Workers : /\ job'[v].op = job[v].op /\ job'[v].ids = job[v].ids
                                /\ job'[v].valid = job[v].valid
                                /\ job'[v].row = job[v].row
        BY <3>2 DEF TypeInv, RequestTypeOK, Jobs
      <4>3. RowsHavePairs'
        BY <2>2, <4>2, PairsKept DEF TypeInv, RowsHavePairs
      <4>4. QED
        BY <4>1, <4>3
    <3>3. QED
      BY <2>3, <3>1, <3>2
  <2>6. QED
    BY <2>2, <2>4, <2>5 DEF TypeInv, RequestTypeOK
<1>3. ASSUME SaveCancelled(w) PROVE TypeInv'
  <2>1. job[w].ids \subseteq Ids /\ job[w].row.pair \in Pairs
    BY <1>3 DEF SaveCancelled, At, TypeInv, RequestTypeOK, Jobs, RowsHavePairs
  <2>2. PICK r \in Ids :
            \/ /\ req' = Whole(r, job[w].row, "cancelled")
               /\ SetAsg(IF job[w].found \in Cancelable THEN job[w].pairs ELSE {},
                         "cancelled")
               /\ UNCHANGED trail
            \/ Fail({r}, "cancelled") /\ UNCHANGED <<req, asg>>
    BY <1>3, <2>1 DEF SaveCancelled
  <2>3. /\ req' \in [Ids -> Reqs]
        /\ \A q \in Ids : req[q].pair \in Pairs => req'[q].pair \in Pairs
        /\ \A q \in Ids : req'[q].state # "none" => req'[q].pair \in Pairs
    <3>1. "cancelled" \in ReqStates
      BY NamesTyped
    <3>2. req' = Whole(r, job[w].row, "cancelled") \/ UNCHANGED req
      BY <2>2
    <3>3. QED
      BY <2>1, <3>1, <3>2, SaveType
  <2>4. asg' \in [Pairs -> Asgs]
    BY <2>2, SetAsgType, NamesTyped DEF TypeInv, RequestTypeOK
  <2>5. trail' \in [Ids -> Trails]
    BY <2>2, RecordType, NamesTyped
  <2>6. job' \in [Workers -> Jobs] /\ RowsHavePairs'
    BY <1>3, <2>3, JobEnded DEF SaveCancelled
  <2>7. QED
    BY <1>3, <2>3, <2>4, <2>5, <2>6 DEF SaveCancelled, TypeInv, RequestTypeOK
<1>4. QED
  BY <1>1, <1>2, <1>3

LEMMA DeclineType ==
    ASSUME TypeInv, NEW w \in Workers,
           \/ \E r \in Ids : ReadForDecline(w, r) \/ Remind(w, r)
           \/ SaveDeclined(w)
    PROVE  TypeInv'
<1>1. ASSUME NEW r \in Ids, ReadForDecline(w, r) PROVE TypeInv'
  <2>1. req[r] \in Reqs /\ req[r].pair \in Pairs
    BY <1>1 DEF ReadForDecline, TypeInv, RequestTypeOK, RowsHavePairs
  <2>2. job' \in [Workers -> Jobs] /\ RowsHavePairs'
    <3>1. "none" \in AsgStates
      BY NamesTyped
    <3>2. UNCHANGED req /\ Begin(w, "decline", {req[r].pair}, {r}, req[r], "none")
      BY <1>1 DEF ReadForDecline
    <3>3. QED
      BY <2>1, <3>1, <3>2, OneBegun
  <2>3. trail' \in [Ids -> Trails]
    BY <1>1, RecordType, NamesTyped DEF ReadForDecline
  <2>4. QED
    BY <1>1, <2>2, <2>3 DEF ReadForDecline, TypeInv, RequestTypeOK
<1>2. ASSUME NEW r \in Ids, Remind(w, r) PROVE TypeInv'
  <2>1. trail' \in [Ids -> Trails]
    BY <1>2, RecordType DEF Remind
  <2>2. QED
    BY <1>2, <2>1 DEF Remind, TypeInv, RequestTypeOK, RowsHavePairs
<1>3. ASSUME SaveDeclined(w) PROVE TypeInv'
  <2>1. job[w].ids \subseteq Ids /\ job[w].row.pair \in Pairs
    BY <1>3 DEF SaveDeclined, At, TypeInv, RequestTypeOK, Jobs, RowsHavePairs
  <2>2. PICK r \in Ids : req' = Whole(r, job[w].row, "declined")
    BY <1>3, <2>1 DEF SaveDeclined
  <2>3. /\ req' \in [Ids -> Reqs]
        /\ \A q \in Ids : req[q].pair \in Pairs => req'[q].pair \in Pairs
        /\ \A q \in Ids : req'[q].state # "none" => req'[q].pair \in Pairs
    <3>1. "declined" \in ReqStates
      BY NamesTyped
    <3>2. req' = Whole(r, job[w].row, "declined") \/ UNCHANGED req
      BY <2>2
    <3>3. QED
      BY <2>1, <3>1, <3>2, SaveType
  <2>4. job' \in [Workers -> Jobs] /\ RowsHavePairs'
    BY <1>3, <2>3, JobEnded DEF SaveDeclined
  <2>5. QED
    BY <1>3, <2>3, <2>4 DEF SaveDeclined, TypeInv, RequestTypeOK
<1>4. QED
  BY <1>1, <1>2, <1>3

LEMMA RedeemType ==
    ASSUME TypeInv, NEW w \in Workers,
           (\E x \in Pairs : StartRedeem(w, x)) \/ Pay(w) \/ SaveAccepted(w)
    PROVE  TypeInv'
<1>1. ASSUME NEW x \in Pairs, StartRedeem(w, x) PROVE TypeInv'
  <2>1. PICK r \in LinkedTo(x) : /\ Begin(w, "redeem", {x}, {r}, req[r], "allocated")
                                 /\ Record({r}, "accepted", TRUE)
    BY <1>1 DEF StartRedeem
  <2>2. r \in Ids /\ req[r] \in Reqs /\ req[r].pair \in Pairs
    BY DEF LinkedTo, OfPair, TypeInv, RequestTypeOK
  <2>3. job' \in [Workers -> Jobs] /\ RowsHavePairs'
    <3>1. UNCHANGED req /\ "allocated" \in AsgStates
      BY <1>1, NamesTyped DEF StartRedeem
    <3>2. QED
      BY <2>1, <2>2, <3>1, OneBegun
  <2>4. trail' \in [Ids -> Trails]
    BY <2>1, RecordType, NamesTyped
  <2>5. QED
    BY <1>1, <2>3, <2>4 DEF StartRedeem, TypeInv, RequestTypeOK
<1>2. ASSUME Pay(w) PROVE TypeInv'
  <2>1. tx' \subseteq Pairs /\ lock' \subseteq Workers /\ UNCHANGED req
    BY <1>2 DEF Pay, TypeInv, RequestTypeOK, Jobs
  <2>2. asg' \in [Pairs -> Asgs]
    BY <1>2, SetAsgType, NamesTyped DEF Pay
  <2>3. trail' \in [Ids -> Trails]
    BY <1>2, RecordType, NamesTyped DEF Pay
  <2>4. job' \in [Workers -> Jobs] /\ RowsHavePairs'
    BY <1>2, <2>1, JobEnded, JobGoesOn DEF Pay
  <2>5. QED
    BY <2>1, <2>2, <2>3, <2>4 DEF TypeInv, RequestTypeOK
<1>3. ASSUME SaveAccepted(w) PROVE TypeInv'
  <2>1. job[w].ids \subseteq Ids /\ job[w].row.pair \in Pairs
    BY <1>3 DEF SaveAccepted, At, TypeInv, RequestTypeOK, Jobs, RowsHavePairs
  <2>2. PICK r \in Ids :
            \/ req' = Whole(r, job[w].row, "accepted") /\ UNCHANGED trail
            \/ Fail({r}, "accepted") /\ UNCHANGED req
    BY <1>3, <2>1 DEF SaveAccepted
  <2>3. /\ req' \in [Ids -> Reqs]
        /\ \A q \in Ids : req[q].pair \in Pairs => req'[q].pair \in Pairs
        /\ \A q \in Ids : req'[q].state # "none" => req'[q].pair \in Pairs
    <3>1. "accepted" \in ReqStates
      BY NamesTyped
    <3>2. req' = Whole(r, job[w].row, "accepted") \/ UNCHANGED req
      BY <2>2
    <3>3. QED
      BY <2>1, <3>1, <3>2, SaveType
  <2>4. trail' \in [Ids -> Trails]
    BY <2>2, RecordType, NamesTyped
  <2>5. job' \in [Workers -> Jobs] /\ RowsHavePairs'
    BY <1>3, <2>3, JobEnded DEF SaveAccepted
  <2>6. QED
    BY <1>3, <2>3, <2>4, <2>5 DEF SaveAccepted, TypeInv, RequestTypeOK
<1>4. QED
  BY <1>1, <1>2, <1>3

LEMMA ExpireType ==
    ASSUME TypeInv, NEW w \in Workers,
           \/ \E x \in Pairs : ReadForExpire(w, x)
           \/ ExpireRequest(w) \/ ExpireAssignment(w)
    PROVE  TypeInv'
<1>1. ASSUME NEW x \in Pairs, ReadForExpire(w, x) PROVE TypeInv'
  <2>1. UNCHANGED <<req, asg, tx, trail, lock>>
    BY <1>1 DEF ReadForExpire
  <2>2. job' \in [Workers -> Jobs] /\ RowsHavePairs'
    <3>1. CASE Begin(w, "expire", {x}, {}, NoReq, "allocated")
      <4>1. /\ NoReq \in Reqs /\ "allocated" \in AsgStates
            /\ {x} \in SUBSET Pairs /\ {} \in SUBSET Ids
        BY NamesTyped DEF NoReq, Reqs
      <4>2. /\ job' \in [Workers -> Jobs]
            /\ job'[w].op = "expire" /\ job'[w].ids = {} /\ job'[w].valid = {}
            /\ \A v \in Workers : v # w => job'[v] = job[v]
        <5>1. job' = [job EXCEPT ![w] = [op |-> "expire", at |-> "start", pairs |-> {x},
                           ids |-> {}, valid |-> {}, row |-> NoReq, found |-> "allocated"]]
          BY <3>1 DEF Begin
        <5>2. QED
          BY <4>1, <5>1 DEF TypeInv, RequestTypeOK, Jobs, Kinds
      <4>3. RowsHavePairs'
        BY <2>1, <4>2, PairsBegun
      <4>4. QED
        BY <4>2, <4>3
    <3>2. ASSUME NEW r \in LinkedTo(x), Begin(w, "expire", {x}, {r}, req[r], "allocated")
          PROVE  job' \in [Workers -> Jobs] /\ RowsHavePairs'
      <4>1. r \in Ids /\ req[r].pair \in Pairs /\ "allocated" \in AsgStates
        BY NamesTyped DEF LinkedTo, OfPair
      <4>2. QED
        BY <2>1, <3>2, <4>1, OneBegun
    <3>3. QED
      BY <1>1, <3>1, <3>2 DEF ReadForExpire
  <2>3. QED
    BY <2>1, <2>2 DEF TypeInv, RequestTypeOK
<1>2. ASSUME ExpireRequest(w) PROVE TypeInv'
  <2>1. /\ job[w].op = "expire" /\ job[w].ids \subseteq Ids
        /\ job[w].ids # {} => job[w].row.pair \in Pairs
    BY <1>2 DEF ExpireRequest, At, TypeInv, RequestTypeOK, Jobs, RowsHavePairs
  <2>2. \/ UNCHANGED req /\ Goto(w, "last")
        \/ \E r \in job[w].ids :
            \/ req' = Whole(r, job[w].row, "expired") /\ Goto(w, "last")
            \/ End(w) /\ UNCHANGED req
    BY <1>2 DEF ExpireRequest
  <2>3. /\ req' \in [Ids -> Reqs]
        /\ job' \in [Workers -> Jobs] /\ RowsHavePairs'
    <3>1. CASE UNCHANGED req
      BY <2>2, <3>1, JobGoesOn, JobEnded DEF TypeInv, RequestTypeOK
    <3>2. ASSUME NEW r \in job[w].ids, req' = Whole(r, job[w].row, "expired"),
                 Goto(w, "last")
          PROVE  /\ req' \in [Ids -> Reqs]
                 /\ job' \in [Workers -> Jobs] /\ RowsHavePairs'
      <4>1. /\ r \in Ids /\ job[w].row \in Reqs /\ job[w].row.pair \in Pairs
            /\ "expired" \in ReqStates
        BY <2>1, NamesTyped DEF TypeInv, RequestTypeOK, Jobs
      <4>2. /\ req' \in [Ids -> Reqs]
            /\ \A q \in Ids : req[q].pair \in Pairs => req'[q].pair \in Pairs
            /\ \A q \in Ids : req'[q].state # "none" => req'[q].pair \in Pairs
        BY <3>2, <4>1, WholeType
      <4>3. QED
        BY <3>2, <4>2, JobGoesOn
    <3>3. QED
      BY <2>2, <3>1, <3>2
  <2>4. QED
    BY <1>2, <2>3 DEF ExpireRequest, TypeInv, RequestTypeOK
<1>3. ASSUME ExpireAssignment(w) PROVE TypeInv'
  <2>1. asg' \in [Pairs -> Asgs]
    BY <1>3, SetAsgType, NamesTyped DEF ExpireAssignment
  <2>2. job' \in [Workers -> Jobs] /\ RowsHavePairs'
    BY <1>3, JobEnded DEF ExpireAssignment
  <2>3. QED
    BY <1>3, <2>1, <2>2 DEF ExpireAssignment, TypeInv, RequestTypeOK
<1>4. QED
  BY <1>1, <1>2, <1>3

LEMMA ReverseType ==
    ASSUME TypeInv, NEW w \in Workers,
           \/ \E x \in Pairs : ReadForReverse(w, x)
           \/ ReverseAssignment(w) \/ ReverseRequest(w)
    PROVE  TypeInv'
<1>1. ASSUME NEW x \in Pairs, ReadForReverse(w, x) PROVE TypeInv'
  <2>1. LinkedTo(x) \subseteq Ids /\ \A r \in LinkedTo(x) : req[r].pair \in Pairs
    BY DEF LinkedTo, OfPair
  <2>2. NoReq \in Reqs
    BY NamesTyped DEF NoReq, Reqs
  <2>3. job' \in [Workers -> Jobs] /\ RowsHavePairs'
    <3> DEFINE R == LinkedTo(x)
    <3>1. UNCHANGED req /\ Begin(w, "reverse", {x}, R, NoReq, "accepted")
      BY <1>1 DEF ReadForReverse
    <3>2. "accepted" \in AsgStates /\ {x} \in SUBSET Pairs
      BY NamesTyped
    <3>3. R \in SUBSET Ids /\ \A r \in R : req[r].pair \in Pairs
      BY <2>1
    <3> HIDE DEF R
    <3>4. QED
      BY <2>2, <3>1, <3>2, <3>3, JobBegun
  <2>4. trail' \in [Ids -> Trails]
    BY <1>1, RecordType, NamesTyped DEF ReadForReverse
  <2>5. QED
    BY <1>1, <2>3, <2>4 DEF ReadForReverse, TypeInv, RequestTypeOK
<1>2. ASSUME ReverseAssignment(w) PROVE TypeInv'
  <2>1. asg' \in [Pairs -> Asgs]
    BY <1>2, SetAsgType, NamesTyped DEF ReverseAssignment
  <2>2. job' \in [Workers -> Jobs] /\ RowsHavePairs'
    BY <1>2, JobGoesOn DEF ReverseAssignment
  <2>3. QED
    BY <1>2, <2>1, <2>2 DEF ReverseAssignment, TypeInv, RequestTypeOK
<1>3. ASSUME ReverseRequest(w) PROVE TypeInv'
  <2>1. \A r \in Ids : /\ [req[r] EXCEPT !.state = "reversed"] \in Reqs
                       /\ [req[r] EXCEPT !.state = "reversed"].pair = req[r].pair
    BY NamesTyped DEF TypeInv, RequestTypeOK, Reqs
  <2>2. \A r \in job[w].ids : req[r].pair \in Pairs
    BY DEF TypeInv, RowsHavePairs
  <2>3. /\ req' \in [Ids -> Reqs]
        /\ \A q \in Ids : req[q].pair \in Pairs => req'[q].pair \in Pairs
        /\ \A q \in Ids : req'[q].state # "none" => req'[q].pair \in Pairs
    BY <1>3, <2>1, <2>2 DEF ReverseRequest, TypeInv, RequestTypeOK, RowsHavePairs
  <2>4. job' \in [Workers -> Jobs] /\ RowsHavePairs'
    BY <1>3, <2>3, JobEnded DEF ReverseRequest
  <2>5. QED
    BY <1>3, <2>3, <2>4 DEF ReverseRequest, TypeInv, RequestTypeOK
<1>4. QED
  BY <1>1, <1>2, <1>3

LEMMA OtherType ==
    ASSUME TypeInv,
           \/ \E w \in Workers : Crash(w)
           \/ \E x \in Pairs : SubsidyReverses(x) \/ ChangeEmail(x)
    PROVE  TypeInv'
<1>1. ASSUME NEW w \in Workers, Crash(w) PROVE TypeInv'
  <2>1. job' \in [Workers -> Jobs] /\ RowsHavePairs'
    BY <1>1, JobEnded DEF Crash
  <2>2. QED
    BY <1>1, <2>1 DEF Crash, TypeInv, RequestTypeOK
<1>2. ASSUME NEW x \in Pairs, SubsidyReverses(x) PROVE TypeInv'
  BY <1>2 DEF SubsidyReverses, TypeInv, RequestTypeOK, RowsHavePairs
<1>3. ASSUME NEW x \in Pairs, ChangeEmail(x) PROVE TypeInv'
  BY <1>3 DEF ChangeEmail, TypeInv, RequestTypeOK, RowsHavePairs, Asgs
<1>4. QED
  BY <1>1, <1>2, <1>3

LEMMA NextType == TypeInv /\ [Next]_vars => TypeInv'
<1> SUFFICES ASSUME TypeInv, [Next]_vars PROVE TypeInv'
  OBVIOUS
<1>1. ASSUME NEW w \in Workers, LearnerStep(w) PROVE TypeInv'
  BY <1>1, CreateType, RedeemType DEF LearnerStep
<1>2. ASSUME NEW w \in Workers, AdminStep(w) PROVE TypeInv'
  BY <1>2, ApproveType, CancelType, DeclineType DEF AdminStep
<1>3. ASSUME NEW w \in Workers, SystemStep(w) PROVE TypeInv'
  BY <1>3, ExpireType, ReverseType, OtherType DEF SystemStep
<1>4. CASE UNCHANGED vars
  BY <1>4 DEF vars, TypeInv, RequestTypeOK, RowsHavePairs
<1>5. QED
  BY <1>1, <1>2, <1>3, <1>4, OtherType DEF Next

LEMMA TypeAlways == Spec => []TypeInv
  BY InitType, NextType, PTL DEF Spec

(* Rows, jobs, the audit trail and the lock keep their types.              *)
THEOREM RequestType == Spec => []RequestTypeOK
<1>1. TypeInv => RequestTypeOK
  BY DEF TypeInv
<1>2. QED
  BY TypeAlways, <1>1, PTL

-----------------------------------------------------------------------------
(* The budget.  Of the steps only an approval enlarges what is allocated,  *)
(* while nobody holds the lock, and only a redemption enlarges what is     *)
(* spent, while it holds the lock alone: what it pays for was counted among*)
(* the allocated when it began, and nothing was allocated since.           *)

Redeems(w) == job[w].op = "redeem"

LockHeld == \A w \in Workers : Redeems(w) => lock = {w}

RoomToPay ==
    \A w \in Workers : Redeems(w) /\ job[w].at = "start" =>
        Cardinality(tx \cup job[w].pairs) + Cardinality(Allocated \ job[w].pairs) <= Limit

BudgetInv == RequestsWithinBudget /\ LockHeld /\ RoomToPay

LEMMA SetsFinite ==
    ASSUME TypeInv
    PROVE  /\ \A S \in SUBSET Pairs : IsFiniteSet(S) /\ Cardinality(S) \in Nat
           /\ \A S, T \in SUBSET Pairs : S \subseteq T => Cardinality(S) <= Cardinality(T)
           /\ tx \in SUBSET Pairs /\ Allocated \in SUBSET Pairs
           /\ \A w \in Workers : job[w].pairs \in SUBSET Pairs
<1>1. \A S \in SUBSET Pairs : IsFiniteSet(S) /\ Cardinality(S) \in Nat
  BY RequestAssumption, FS_Subset, FS_CardinalityType
<1>2. \A S, T \in SUBSET Pairs : S \subseteq T => Cardinality(S) <= Cardinality(T)
  BY <1>1, FS_Subset
<1>3. QED
  BY <1>1, <1>2 DEF TypeInv, RequestTypeOK, Allocated, Jobs

(* A step that neither spends nor allocates, and begins no redemption.     *)
LEMMA BudgetKept ==
    ASSUME TypeInv, TypeInv', BudgetInv, tx' \subseteq tx, Allocated' \subseteq Allocated,
           \A w \in Workers : Redeems(w)' =>
                /\ Redeems(w) /\ job'[w].pairs = job[w].pairs
                /\ job'[w].at = "start" => job[w].at = "start",
           \/ UNCHANGED lock
           \/ \E v \in Workers : lock' = lock \ {v} /\ ~Redeems(v)'
    PROVE  BudgetInv'
<1> DEFINE used(S, T) == Cardinality(S) + Cardinality(T)
<1>1. \A S, S1, T, T1 \in SUBSET Pairs :
        S1 \subseteq S /\ T1 \subseteq T => used(S1, T1) <= used(S, T)
  BY SetsFinite
<1>2. /\ tx \in SUBSET Pairs /\ Allocated \in SUBSET Pairs
      /\ tx' \in SUBSET Pairs /\ Allocated' \in SUBSET Pairs
      /\ \A w \in Workers : job[w].pairs \in SUBSET Pairs
  BY SetsFinite DEF TypeInv, RequestTypeOK, Allocated
<1>3. \A S, T \in SUBSET Pairs : used(S, T) \in Nat
  BY SetsFinite
<1>4. RequestsWithinBudget'
  <2>1. used(tx', Allocated') <= used(tx, Allocated)
    BY <1>1, <1>2
  <2>2. used(tx', Allocated') \in Nat /\ used(tx, Allocated) \in Nat
    BY <1>2, <1>3
  <2>3. used(tx, Allocated) <= Limit
    BY DEF BudgetInv, RequestsWithinBudget
  <2> HIDE DEF used
  <2>4. used(tx', Allocated') <= Limit
    BY <2>1, <2>2, <2>3, RequestAssumption
  <2>5. QED
    BY <2>4 DEF used, RequestsWithinBudget
<1>5. LockHeld'
  BY DEF BudgetInv, LockHeld
<1>6. RoomToPay'
  <2> SUFFICES ASSUME NEW w \in Workers, Redeems(w)', job'[w].at = "start"
               PROVE  used(tx' \cup job[w].pairs, Allocated' \ job[w].pairs) <= Limit
    BY DEF RoomToPay
  <2> DEFINE P == job[w].pairs
  <2>1. used(tx \cup P, Allocated \ P) <= Limit
    BY DEF BudgetInv, RoomToPay
  <2>2. /\ tx \cup P \in SUBSET Pairs /\ Allocated \ P \in SUBSET Pairs
        /\ tx' \cup P \in SUBSET Pairs /\ Allocated' \ P \in SUBSET Pairs
        /\ tx' \cup P \subseteq tx \cup P /\ Allocated' \ P \subseteq Allocated \ P
    BY <1>2
  <2>3. used(tx' \cup P, Allocated' \ P) <= used(tx \cup P, Allocated \ P)
    BY <1>1, <2>2
  <2>4. /\ used(tx' \cup P, Allocated' \ P) \in Nat
        /\ used(tx \cup P, Allocated \ P) \in Nat
    BY <1>3, <2>2
  <2> HIDE DEF used, P
  <2>5. used(tx' \cup P, Allocated' \ P) <= Limit
    BY <2>1, <2>3, <2>4, RequestAssumption
  <2>6. QED
    BY <2>5 DEF P
<1>7. QED
  BY <1>4, <1>5, <1>6 DEF BudgetInv

(* The assignments of the requests V are at most as many as V.             *)
LEMMA PairsCounted ==
    ASSUME TypeInv, NEW V \in SUBSET Ids
    PROVE  LET X == {req[r].pair : r \in V} IN
           IsFiniteSet(X) /\ IsFiniteSet(V) /\ Cardinality(X) <= Cardinality(V)
              /\ Cardinality(X) \in Nat /\ Cardinality(V) \in Nat
<1> DEFINE X == {req[r].pair : r \in V}
           f == [r \in V |-> req[r].pair]
<1>1. IsFiniteSet(V)
  BY RequestAssumption, FS_Subset
<1>2. f \in [V -> X] /\ \A x \in X : \E r \in V : f[r] = x
  OBVIOUS
<1>3. f \in Surjection(V, X)
  BY <1>2 DEF Surjection
<1> HIDE DEF f
<1>4. IsFiniteSet(X) /\ Cardinality(X) <= Cardinality(V)
  BY <1>1, <1>3, FS_Surjection
<1>5. QED
  BY <1>1, <1>4, FS_CardinalityType

LEMMA AllocateBudget ==
    ASSUME TypeInv, TypeInv', BudgetInv, NEW w \in Workers, AllocateRequests(w)
    PROVE  BudgetInv'
<1>1. lock = {} /\ UNCHANGED <<req, tx, lock>> /\ job[w].ids \subseteq Ids
  BY DEF AllocateRequests, TypeInv, RequestTypeOK, Jobs
<1>2. \A v \in Workers : ~Redeems(v)
  BY <1>1 DEF BudgetInv, LockHeld
<1>3. PICK V \in SUBSET job[w].ids :
        \/ /\ WithinLimit(V)
           /\ SetAsg({req[r].pair : r \in V}, "allocated")
           /\ job' = [job EXCEPT ![w].at = "last", ![w].valid = V]
        \/ End(w) /\ UNCHANGED asg
  BY DEF AllocateRequests
<1>4. \A v \in Workers : ~Redeems(v)'
  BY <1>2, <1>3 DEF End, Idle, Redeems, TypeInv, RequestTypeOK, Jobs
<1>5. LockHeld' /\ RoomToPay'
  BY <1>4 DEF LockHeld, RoomToPay
<1>6. RequestsWithinBudget'
  <2>1. CASE UNCHANGED asg
    BY <1>1, <2>1 DEF BudgetInv, RequestsWithinBudget, Allocated
  <2>2. CASE /\ WithinLimit(V)
             /\ SetAsg({req[r].pair : r \in V}, "allocated")
    <3> DEFINE X == {req[r].pair : r \in V}
    <3>1. Allocated' \subseteq Allocated \cup X
      BY <2>2 DEF SetAsg, Allocated, TypeInv, RequestTypeOK, Asgs
    <3>2. CASE V = {}
      <4>1. Allocated' \subseteq Allocated
        BY <3>1, <3>2
      <4>2. UNCHANGED lock /\ tx' \subseteq tx
        BY <1>1
      <4>3. BudgetInv'
        BY <1>4, <4>1, <4>2, BudgetKept
      <4>4. QED
        BY <4>3 DEF BudgetInv
    <3>3. CASE V # {}
      <4>1. Cardinality(tx) + Cardinality(Allocated) + Cardinality(V) <= Limit
        BY <2>2, <3>3 DEF WithinLimit
      <4>2. /\ IsFiniteSet(X) /\ Cardinality(X) <= Cardinality(V)
            /\ Cardinality(X) \in Nat /\ Cardinality(V) \in Nat
        BY <1>1, PairsCounted
      <4> HIDE DEF X
      <4>3. /\ IsFiniteSet(Allocated) /\ Cardinality(Allocated) \in Nat
            /\ Cardinality(tx) \in Nat
        BY SetsFinite
      <4>4. /\ IsFiniteSet(Allocated \cup X)
            /\ Cardinality(Allocated \cup X)
                 = Cardinality(Allocated) + Cardinality(X) - Cardinality(Allocated \cap X)
        BY <4>2, <4>3, FS_Union
      <4>5. Cardinality(Allocated \cap X) \in Nat
        <5>1. Allocated \cap X \in SUBSET Allocated
          OBVIOUS
        <5>2. QED
          BY <4>3, <5>1, FS_Subset, FS_CardinalityType
      <4>6. Cardinality(Allocated') <= Cardinality(Allocated \cup X)
        BY <3>1, <4>4, FS_Subset
      <4>7. Cardinality(Allocated') \in Nat
        BY <3>1, <4>4, FS_Subset, FS_CardinalityType
      <4>8. QED
        BY <1>1, <4>1, <4>2, <4>3, <4>4, <4>5, <4>6, <4>7, RequestAssumption
           DEF RequestsWithinBudget
    <3>4. QED
      BY <3>2, <3>3
  <2>3. QED
    BY <1>3, <2>1, <2>2
<1>7. QED
  BY <1>5, <1>6 DEF BudgetInv

LEMMA StartRedeemBudget ==
    ASSUME TypeInv, TypeInv', BudgetInv, NEW w \in Workers, NEW x \in Pairs,
           StartRedeem(w, x)
    PROVE  BudgetInv'
<1>1. /\ lock = {} /\ lock' = {w} /\ UNCHANGED <<req, asg, tx>>
      /\ x \in Allocated
  BY DEF StartRedeem, RequestCanRedeem, Allocated
<1>2. \A v \in Workers : ~Redeems(v)
  BY <1>1 DEF BudgetInv, LockHeld
<1>3. /\ job'[w].pairs = {x}
      /\ \A v \in Workers : v # w => job'[v] = job[v]
  BY DEF StartRedeem, Begin, TypeInv, RequestTypeOK
<1>4. LockHeld'
  BY <1>1, <1>2, <1>3 DEF LockHeld, Redeems
<1>5. RequestsWithinBudget'
  BY <1>1 DEF BudgetInv, RequestsWithinBudget, Allocated
<1>6. RoomToPay'
  <2>1. /\ IsFiniteSet(tx) /\ IsFiniteSet(Allocated)
        /\ Cardinality(tx) \in Nat /\ Cardinality(Allocated) \in Nat
    BY SetsFinite
  <2>2. Cardinality(tx \cup {x}) <= Cardinality(tx) + 1 /\ Cardinality(tx \cup {x}) \in Nat
    <3>1. /\ IsFiniteSet(tx \cup {x})
          /\ Cardinality(tx \cup {x}) = IF x \in tx THEN Cardinality(tx) ELSE Cardinality(tx) + 1
      BY <2>1, FS_AddElement
    <3> DEFINE more == Cardinality(tx \cup {x})
    <3>2. more = IF x \in tx THEN Cardinality(tx) ELSE Cardinality(tx) + 1
      BY <3>1
    <3> HIDE DEF more
    <3>3. more <= Cardinality(tx) + 1 /\ more \in Nat
      BY <2>1, <3>2
    <3>4. QED
      BY <3>3 DEF more
  <2>3. Cardinality(Allocated \ {x}) = Cardinality(Allocated) - 1
    BY <1>1, <2>1, FS_RemoveElement
  <2>4. Cardinality(tx \cup {x}) + Cardinality(Allocated \ {x}) <= Limit
    BY <2>1, <2>2, <2>3, RequestAssumption DEF BudgetInv, RequestsWithinBudget
  <2>5. Allocated' = Allocated
    BY <1>1 DEF Allocated
  <2>6. QED
    BY <1>1, <1>2, <1>3, <2>4, <2>5 DEF RoomToPay, Redeems
<1>7. QED
  BY <1>4, <1>5, <1>6 DEF BudgetInv

LEMMA PayBudget ==
    ASSUME TypeInv, TypeInv', BudgetInv, NEW w \in Workers, Pay(w)
    PROVE  BudgetInv'
<1>1. Redeems(w) /\ job[w].at = "start"
  BY DEF Pay, At, Redeems
<1>2. lock = {w}
  BY <1>1 DEF BudgetInv, LockHeld
<1>3. \A v \in Workers : v # w => ~Redeems(v)
  BY <1>2 DEF BudgetInv, LockHeld
<1>4. CASE /\ tx' = tx \cup job[w].pairs
           /\ SetAsg(job[w].pairs, "accepted")
           /\ Goto(w, "last")
           /\ UNCHANGED lock
  <2>1. /\ job'[w].at = "last" /\ job'[w].op = job[w].op
        /\ \A v \in Workers : v # w => job'[v] = job[v]
    BY <1>4 DEF Goto, TypeInv, RequestTypeOK, Jobs
  <2>2. LockHeld' /\ RoomToPay'
    BY <1>2, <1>3, <1>4, <2>1 DEF LockHeld, RoomToPay, Redeems
  <2>3. Allocated' = Allocated \ job[w].pairs
    BY <1>4 DEF SetAsg, Allocated, TypeInv, RequestTypeOK, Asgs
  <2>4. RequestsWithinBudget'
    BY <1>1, <1>4, <2>3 DEF BudgetInv, RoomToPay, RequestsWithinBudget
  <2>5. QED
    BY <2>2, <2>4 DEF BudgetInv
<1>5. CASE SetAsg(job[w].pairs, "errored") /\ End(w) /\ lock' = {} /\ UNCHANGED tx
  <2>1. Allocated' \subseteq Allocated
    BY <1>5 DEF SetAsg, Allocated, TypeInv, RequestTypeOK, Asgs
  <2>2. /\ job'[w] = Idle
        /\ \A v \in Workers : v # w => job'[v] = job[v]
    BY <1>5, EndType
  <2>3. lock' = lock \ {w} /\ ~Redeems(w)'
    BY <1>2, <1>5, <2>2 DEF Redeems, Idle
  <2>4. \A v \in Workers : ~Redeems(v)'
    BY <1>3, <2>2, <2>3 DEF Redeems
  <2>5. QED
    BY <1>5, <2>1, <2>3, <2>4, BudgetKept
<1>6. QED
  BY <1>4, <1>5 DEF Pay

(* A job that begins, other than a redemption.                             *)
LEMMA BeginBudget ==
    ASSUME TypeInv, TypeInv', BudgetInv, UNCHANGED <<asg, tx, lock>>, NEW w \in Workers,
           NEW op, op # "redeem", NEW X, NEW R, NEW row, NEW found,
           Begin(w, op, X, R, row, found)
    PROVE  BudgetInv'
<1>1. /\ job'[w].op = op
      /\ \A v \in Workers : v # w => job'[v] = job[v]
  BY DEF Begin, TypeInv, RequestTypeOK
<1>2. Allocated' \subseteq Allocated /\ tx' \subseteq tx
  BY DEF Allocated
<1>3. QED
  BY <1>1, <1>2, BudgetKept DEF Redeems

(* A job that ends or goes on, other than a redemption that pays.          *)
LEMMA GoBudget ==
    ASSUME TypeInv, TypeInv', BudgetInv, UNCHANGED tx, Allocated' \subseteq Allocated,
           NEW w \in Workers,
           \/ UNCHANGED lock
           \/ lock' = lock \ {w} /\ End(w),
           \/ End(w)
           \/ job[w].op # "redeem" /\ job'[w].op = job[w].op
                /\ \A v \in Workers : v # w => job'[v] = job[v]
    PROVE  BudgetInv'
<1>1. CASE End(w)
  <2>1. /\ job'[w] = Idle
        /\ \A v \in Workers : v # w => job'[v] = job[v]
    BY <1>1, EndType
  <2>2. \A v \in Workers : Redeems(v)' =>
            /\ Redeems(v) /\ job'[v].pairs = job[v].pairs
            /\ job'[v].at = "start" => job[v].at = "start"
    BY <2>1 DEF Redeems, Idle
  <2>3. ~Redeems(w)'
    BY <2>1 DEF Redeems, Idle
  <2>4. QED
    BY <2>2, <2>3, BudgetKept
<1>2. CASE ~End(w)
  <2>1. \A v \in Workers : Redeems(v)' =>
            /\ Redeems(v) /\ job'[v].pairs = job[v].pairs
            /\ job'[v].at = "start" => job[v].at = "start"
    BY <1>2 DEF Redeems
  <2>2. QED
    BY <1>2, <2>1, BudgetKept
<1>3. QED
  BY <1>1, <1>2

LEMMA SetAsgShrinks ==
    ASSUME TypeInv, NEW X, NEW s, s # "allocated", SetAsg(X, s)
    PROVE  Allocated' \subseteq Allocated
  BY DEF SetAsg, Allocated, TypeInv, RequestTypeOK, Asgs

LEMMA LearnerBudget ==
    ASSUME TypeInv, TypeInv', BudgetInv, NEW w \in Workers, LearnerStep(w)
    PROVE  BudgetInv'
<1>1. ASSUME NEW x \in Pairs, ReadForCreate(w, x) PROVE BudgetInv'
  <2>1. UNCHANGED <<asg, tx, lock>>
    BY <1>1 DEF ReadForCreate
  <2>2. \E R, row : Begin(w, "create", {x}, R, row, "none")
    BY <1>1 DEF ReadForCreate
  <2>3. QED
    BY <2>1, <2>2, BeginBudget
<1>2. CASE SaveCreated(w)
  BY <1>2, GoBudget DEF SaveCreated, Allocated
<1>3. CASE SaveAccepted(w)
  <2>1. UNCHANGED <<asg, tx>> /\ End(w) /\ lock' = {} /\ Redeems(w)
    BY <1>3 DEF SaveAccepted, At, Redeems
  <2>2. lock' = lock \ {w}
    BY <2>1 DEF BudgetInv, LockHeld
  <2>3. QED
    BY <2>1, <2>2, GoBudget DEF Allocated
<1>4. QED
  BY <1>1, <1>2, <1>3, StartRedeemBudget, PayBudget DEF LearnerStep

LEMMA AdminBudget ==
    ASSUME TypeInv, TypeInv', BudgetInv, NEW w \in Workers, AdminStep(w)
    PROVE  BudgetInv'
<1>1. ASSUME NEW R \in SUBSET Ids, ReadForApprove(w, R) PROVE BudgetInv'
  <2>1. \E X : Begin(w, "approve", X, R, NoReq, "none")
    BY <1>1 DEF ReadForApprove
  <2>2. QED
    BY <1>1, <2>1, BeginBudget DEF ReadForApprove
<1>2. ASSUME NEW r \in Ids, ReadForCancel(w, r) \/ ReadForDecline(w, r) \/ Remind(w, r)
      PROVE  BudgetInv'
  <2>1. CASE ReadForCancel(w, r)
    BY <2>1, BeginBudget DEF ReadForCancel
  <2>2. CASE ReadForDecline(w, r)
    BY <2>2, BeginBudget DEF ReadForDecline
  <2>3. CASE Remind(w, r)
    BY <2>3 DEF Remind, BudgetInv, RequestsWithinBudget, LockHeld, RoomToPay, Redeems,
       Allocated
  <2>4. QED
    BY <1>2, <2>1, <2>2, <2>3
<1>3. CASE SaveApproved(w)
  BY <1>3, GoBudget DEF SaveApproved, Allocated
<1>4. CASE CheckCancel(w)
  <2>1. UNCHANGED <<asg, tx, lock>> /\ job[w].op = "cancel"
    BY <1>4 DEF CheckCancel, At
  <2>2. End(w) \/ \E found : job' = [job EXCEPT ![w].at = "last", ![w].found = found]
    BY <1>4 DEF CheckCancel
  <2>3. \/ End(w)
        \/ /\ job'[w].op = job[w].op
           /\ \A v \in Workers : v # w => job'[v] = job[v]
    BY <2>2 DEF TypeInv, RequestTypeOK, Jobs
  <2>4. QED
    BY <2>1, <2>3, GoBudget DEF Allocated
<1>5. CASE SaveCancelled(w)
  <2>1. UNCHANGED <<tx, lock>> /\ End(w)
    BY <1>5 DEF SaveCancelled
  <2>2. UNCHANGED asg \/ \E X : SetAsg(X, "cancelled")
    BY <1>5 DEF SaveCancelled
  <2>3. Allocated' \subseteq Allocated
    BY <2>2, SetAsgShrinks DEF Allocated
  <2>4. QED
    BY <2>1, <2>3, GoBudget
<1>6. CASE SaveDeclined(w)
  BY <1>6, GoBudget DEF SaveDeclined, Allocated
<1>7. QED
  BY <1>1, <1>2, <1>3, <1>4, <1>5, <1>6, AllocateBudget DEF AdminStep, ReadForApproveAll

LEMMA SystemBudget ==
    ASSUME TypeInv, TypeInv', BudgetInv, NEW w \in Workers, SystemStep(w)
    PROVE  BudgetInv'
<1>1. ASSUME NEW x \in Pairs, ReadForExpire(w, x) \/ ReadForReverse(w, x)
      PROVE  BudgetInv'
  <2>1. UNCHANGED <<asg, tx, lock>>
    BY <1>1 DEF ReadForExpire, ReadForReverse
  <2>2. \E op, R, row, found : op # "redeem" /\ Begin(w, op, {x}, R, row, found)
    BY <1>1 DEF ReadForExpire, ReadForReverse
  <2>3. QED
    BY <2>1, <2>2, BeginBudget
<1>2. ASSUME Goto(w, "last"), job[w].op # "redeem", UNCHANGED <<tx, lock>>,
             Allocated' \subseteq Allocated
      PROVE  BudgetInv'
  BY <1>2, GotoType, GoBudget
<1>3. CASE ExpireRequest(w)
  <2>1. /\ UNCHANGED <<asg, tx, lock>> /\ job[w].op # "redeem"
        /\ End(w) \/ Goto(w, "last")
    BY <1>3 DEF ExpireRequest, At
  <2>2. QED
    BY <1>2, <2>1, GoBudget DEF Allocated
<1>4. CASE ExpireAssignment(w)
  BY <1>4, SetAsgShrinks, GoBudget DEF ExpireAssignment
<1>5. CASE ReverseAssignment(w)
  <2>1. Allocated' \subseteq Allocated
    BY <1>5, SetAsgShrinks DEF ReverseAssignment
  <2>2. QED
    BY <1>2, <1>5, <2>1 DEF ReverseAssignment, At
<1>6. CASE ReverseRequest(w)
  BY <1>6, GoBudget DEF ReverseRequest, Allocated
<1>7. CASE Crash(w)
  BY <1>7, GoBudget DEF Crash, Allocated
<1>8. QED
  BY <1>1, <1>3, <1>4, <1>5, <1>6, <1>7 DEF SystemStep

LEMMA NextBudget == TypeInv /\ TypeInv' /\ BudgetInv /\ [Next]_vars => BudgetInv'
<1> SUFFICES ASSUME TypeInv, TypeInv', BudgetInv, [Next]_vars PROVE BudgetInv'
  OBVIOUS
<1>1. ASSUME NEW x \in Pairs, SubsidyReverses(x) PROVE BudgetInv'
  <2>1. tx' \subseteq tx /\ Allocated' \subseteq Allocated /\ UNCHANGED <<job, lock>>
    BY <1>1 DEF SubsidyReverses, Allocated
  <2>2. QED
    BY <2>1, BudgetKept DEF Redeems
<1>2. ASSUME NEW x \in Pairs, ChangeEmail(x) PROVE BudgetInv'
  <2>1. UNCHANGED <<tx, job, lock>>
    BY <1>2 DEF ChangeEmail
  <2>2. Allocated' \subseteq Allocated
    BY <1>2 DEF ChangeEmail, Allocated, TypeInv, RequestTypeOK, Asgs
  <2>3. QED
    BY <2>1, <2>2, BudgetKept DEF Redeems
<1>3. CASE UNCHANGED vars
  BY <1>3 DEF vars, BudgetInv, RequestsWithinBudget, LockHeld, RoomToPay, Redeems, Allocated
<1>4. QED
  BY <1>1, <1>2, <1>3, LearnerBudget, AdminBudget, SystemBudget DEF Next

(* What approvals hold back and learners spent stays within the limit,     *)
(* whatever overlaps with the approvals and redemptions and whichever      *)
(* processes die: the lock and the order of the two steps suffice.         *)
THEOREM RequestsWithinBudgetTheorem == Spec => []RequestsWithinBudget
<1>1. Init => BudgetInv
  <2> SUFFICES ASSUME Init PROVE BudgetInv
    OBVIOUS
  <2>1. tx = {} /\ Allocated = {}
    BY DEF Init, Allocated
  <2>2. RequestsWithinBudget
    BY <2>1, FS_EmptySet, RequestAssumption DEF RequestsWithinBudget
  <2>3. QED
    BY <2>2 DEF Init, BudgetInv, LockHeld, RoomToPay, Redeems, Idle
<1>2. BudgetInv => RequestsWithinBudget
  BY DEF BudgetInv
<1>3. QED
  BY TypeAlways, <1>1, <1>2, NextBudget, PTL DEF Spec
-----------------------------------------------------------------------------
(* The two tables.  Requests and assignments of a pair are only written by *)
(* jobs about it, and of those only creates, cancellations and reversals   *)
(* may overlap; when nothing worse does, and no job that writes both tables*)
(* dies, the tables agree.                                                 *)

Gentle ==
    /\ Overlap \subseteq {"create", "cancel", "reverse"}
    /\ Crashes \subseteq {"create", "cancel", "decline"}

Exclusive ==
    \A v, w \in Workers : v # w /\ job[v].pairs \cap job[w].pairs # {} =>
        /\ job[v].op \in {"create", "cancel", "reverse"}
        /\ job[w].op \in {"create", "cancel", "reverse"}

(* The pairs, requests and row of a job belong together.                   *)
JobShape(w) ==
    /\ job[w].op = "idle" <=> job[w] = Idle
    /\ job[w].valid \subseteq job[w].ids
    /\ \A r \in job[w].ids : req[r].pair \in job[w].pairs
    /\ job[w].op # "approve" =>
        /\ \A x, y \in job[w].pairs : x = y
        /\ job[w].op # "reverse" => \A q, r \in job[w].ids : q = r
    /\ job[w].op \in {"cancel", "redeem"} => job[w].ids # {}
    /\ \/ job[w].op \in {"create", "cancel", "decline", "redeem"}
       \/ job[w].op = "expire" /\ job[w].ids # {}
       => job[w].row.pair \in job[w].pairs

(* A pair that was never declined has one row, which is created again.     *)
OneRow(x) ==
    /\ \A r \in OfPair(x) : req[r].state # "none"
    /\ \A r \in OfPair(x) : req[r].state \in {"requested", "declined"} => ~req[r].linked
    /\ NeverDeclined(x) => \A q, r \in OfPair(x) : q = r

Doing(op, x) == \E w \in Workers : At(w, op, "last") /\ x \in job[w].pairs

(* A job is about to save its approval of pair x.                          *)
Approving(x) ==
    \E w \in Workers : /\ At(w, "approve", "last")
                       /\ \E r \in job[w].valid : req[r].pair = x

(* What a request says about the assignment of its pair ...                *)
RequestFits(x) ==
    \A r \in OfPair(x) :
        /\ req[r].state = "approved" =>
            req[r].linked /\ (asg[x].state \in {"allocated", "errored"} \/ Doing("redeem", x))
        /\ req[r].state = "accepted" =>
            req[r].linked /\ (asg[x].state = "accepted" \/ Doing("reverse", x))

(* ... and an allocated assignment about the requests of its pair.         *)
AllocatedFits(x) ==
    asg[x].state = "allocated" =>
        /\ NeverDeclined(x) =>
            \A r \in LinkedTo(x) : req[r].state = "approved" \/ Doing("expire", x)
        /\ NothingDeclined =>
            \/ \E r \in LinkedTo(x) : req[r].state = "approved"
            \/ Approving(x) \/ Doing("expire", x)

(* What jobs rely on while they run.                                       *)
CreateOK(w, x) ==
    /\ ~job[w].row.linked
    /\ \A r \in job[w].ids : req[r].state \in Reusable \cup {"requested"}
    /\ job[w].ids = {} /\ NeverDeclined(x) =>
            \A r \in OfPair(x) : req[r].state = "requested"

ApproveOK(w, x) ==
    /\ \A r \in job[w].ids : req[r].pair = x => req[r].state = "requested"
    /\ job[w].at = "last" =>
        \A r \in job[w].valid : req[r].pair = x => asg[x].state = "allocated"

CancelOK(w, x) ==
    /\ job[w].row.linked => \A r \in job[w].ids :
        /\ req[r].state # "declined"
        /\ \A q \in OfPair(x) : q # r => req[q].state \notin {"approved", "accepted"}
    /\ job[w].at = "last" =>
        /\ job[w].row.linked
        /\ job[w].found \in Cancelable \cup {"cancelled"}
        /\ asg[x].state \in Cancelable \cup {"cancelled"}
        /\ job[w].found = "cancelled" => asg[x].state = "cancelled"

DeclineOK(w) == \A r \in job[w].ids : req[r] = job[w].row /\ req[r].state = "requested"

RedeemOK(w, x) ==
    /\ asg[x].state = IF job[w].at = "start" THEN "allocated" ELSE "accepted"
    /\ \A r \in job[w].ids :
        /\ req[r] = job[w].row /\ req[r].linked
        /\ NeverDeclined(x) => req[r].state = "approved"

ExpireOK(w, x) ==
    /\ job[w].at = "start" =>
        /\ asg[x].state = "allocated"
        /\ \A r \in job[w].ids : req[r] = job[w].row /\ req[r].linked
        /\ job[w].ids = {} => LinkedTo(x) = {}
    /\ job[w].at = "last" =>
        \A r \in OfPair(x) : req[r].state \notin {"approved", "accepted"}

ReverseOK(w, x) ==
    /\ asg[x].state = "reversed" \/ (asg[x].state = "accepted" /\ job[w].at = "start")
    /\ \A r \in OfPair(x) : /\ req[r].state # "approved"
                            /\ req[r].state = "accepted" => r \in job[w].ids
    /\ \A r \in job[w].ids : req[r].state # "declined"

JobOK(w, x) ==
    /\ job[w].op = "create" => CreateOK(w, x)
    /\ job[w].op = "approve" => ApproveOK(w, x)
    /\ job[w].op = "cancel" => CancelOK(w, x)
    /\ job[w].op = "decline" => DeclineOK(w)
    /\ job[w].op = "redeem" => RedeemOK(w, x)
    /\ job[w].op = "expire" => ExpireOK(w, x)
    /\ job[w].op = "reverse" => ReverseOK(w, x)

(* Beside the first request of a pair nothing is cancelled or reversed.    *)
FirstOK(v, w, x) ==
    job[w].op = "create" /\ job[w].ids = {} /\ NeverDeclined(x) =>
        /\ job[v].op = "cancel" => ~job[v].row.linked
        /\ job[v].op = "reverse" => job[v].ids = {}

PairOK(x) ==
    /\ OneRow(x) /\ RequestFits(x) /\ AllocatedFits(x)
    /\ \A w \in Workers : x \in job[w].pairs => JobOK(w, x)
    /\ \A v, w \in Workers : x \in job[v].pairs \cap job[w].pairs => FirstOK(v, w, x)

TablesInv ==
    /\ Exclusive
    /\ Storable(req)
    /\ \A w \in Workers : JobShape(w)
    /\ \A x \in Pairs : PairOK(x)

(* A step that only touches the pairs X, and takes no decline back.        *)
Outside(X) ==
    /\ \A r \in Ids : \/ req'[r] = req[r]
                      \/ /\ req'[r].pair \in X
                         /\ req[r].pair \in Pairs => req'[r].pair = req[r].pair
                         /\ req[r].state # "declined"
    /\ \A y \in Pairs : y \notin X => asg'[y].state = asg[y].state
    /\ \A v \in Workers : \/ job'[v] = job[v]
                          \/ job[v].pairs \subseteq X /\ job'[v].pairs \subseteq X

LEMMA DoneLinks ==
    ASSUME NEW X, Outside(X), NothingDeclined'
    PROVE  NothingDeclined
  BY DEF Outside, NothingDeclined

(* Requests keep their pairs, and a pair outside X keeps its requests.     *)
LEMMA SameRows ==
    ASSUME TypeInv, TypeInv', TablesInv, NEW X \in SUBSET Pairs, Outside(X),
           NEW y \in Pairs, y \notin X
    PROVE  /\ OfPair(y)' = OfPair(y)
           /\ \A r \in OfPair(y) : req'[r] = req[r]
           /\ LinkedTo(y)' = LinkedTo(y)
           /\ asg'[y].state = asg[y].state
           /\ \A v \in Workers : y \in job'[v].pairs \/ y \in job[v].pairs => job'[v] = job[v]
           /\ \A v \in Workers : y \in job[v].pairs => \A r \in job[v].ids :
                    req[r].pair = y \/ req'[r].pair = y => req'[r] = req[r]
           /\ \A v \in Workers : y \in job[v].pairs /\ job[v].op # "approve" =>
                    \A r \in job[v].ids : r \in OfPair(y) /\ req'[r] = req[r]
<1>1. \A r \in Ids : req[r].pair = y \/ req'[r].pair = y => req'[r] = req[r]
  BY DEF Outside
<1>2. OfPair(y)' = OfPair(y) /\ \A r \in OfPair(y) : req'[r] = req[r]
  BY <1>1 DEF OfPair
<1>3. LinkedTo(y)' = LinkedTo(y)
  BY <1>2 DEF LinkedTo
<1>4. asg'[y].state = asg[y].state
  BY DEF Outside
<1>5. \A v \in Workers : y \in job'[v].pairs \/ y \in job[v].pairs => job'[v] = job[v]
  BY DEF Outside
<1>6. \A v \in Workers : job[v].ids \subseteq Ids
  BY DEF TypeInv, RequestTypeOK, Jobs
<1>7. \A v \in Workers : y \in job[v].pairs /\ job[v].op # "approve" =>
            \A r \in job[v].ids : req[r].pair = y
  BY DEF TablesInv, JobShape
<1>8. \A v \in Workers : y \in job[v].pairs => \A r \in job[v].ids :
                    req[r].pair = y \/ req'[r].pair = y => req'[r] = req[r]
  BY <1>1, <1>6
<1>9. \A v \in Workers : y \in job[v].pairs /\ job[v].op # "approve" =>
            \A r \in job[v].ids : r \in OfPair(y) /\ req'[r] = req[r]
  BY <1>1, <1>6, <1>7 DEF OfPair
<1>10. QED
  BY <1>2, <1>3, <1>4, <1>5, <1>8, <1>9

LEMMA Elsewhere ==
    ASSUME TypeInv, TypeInv', TablesInv, NEW X \in SUBSET Pairs, Outside(X),
           NEW y \in Pairs, y \notin X
    PROVE  PairOK(y)'
<1>1. /\ OfPair(y)' = OfPair(y)
      /\ \A r \in OfPair(y) : req'[r] = req[r]
      /\ LinkedTo(y)' = LinkedTo(y)
      /\ asg'[y].state = asg[y].state
      /\ \A v \in Workers : y \in job'[v].pairs \/ y \in job[v].pairs => job'[v] = job[v]
  BY SameRows
<1>2. /\ \A v \in Workers : y \in job[v].pairs => \A r \in job[v].ids :
                    req[r].pair = y \/ req'[r].pair = y => req'[r] = req[r]
      /\ \A v \in Workers : y \in job[v].pairs /\ job[v].op # "approve" =>
                    \A r \in job[v].ids : r \in OfPair(y) /\ req'[r] = req[r]
  BY SameRows
<1>3. PairOK(y)
  BY DEF TablesInv
<1>4. NeverDeclined(y)' <=> NeverDeclined(y)
  BY <1>1 DEF NeverDeclined
<1>5. \A op : Doing(op, y) => Doing(op, y)'
  BY <1>1 DEF Doing, At
<1>6. Approving(y) => Approving(y)'
  <2> SUFFICES ASSUME NEW v \in Workers, At(v, "approve", "last"),
                      NEW r \in job[v].valid, req[r].pair = y
               PROVE  Approving(y)'
    BY DEF Approving
  <2>1. r \in job[v].ids /\ y \in job[v].pairs
    BY DEF TablesInv, JobShape
  <2>2. job'[v] = job[v] /\ req'[r] = req[r]
    BY <1>1, <1>2, <2>1
  <2>3. QED
    BY <2>2 DEF Approving, At
<1>7. OneRow(y)'
  <2>1. OneRow(y)
    BY <1>3 DEF PairOK
  <2>2. QED
    BY <1>1, <1>4, <2>1 DEF OneRow
<1>8. RequestFits(y)'
  <2>1. RequestFits(y)
    BY <1>3 DEF PairOK
  <2>2. QED
    BY <1>1, <1>5, <2>1 DEF RequestFits
<1>9. AllocatedFits(y)'
  <2>1. AllocatedFits(y)
    BY <1>3 DEF PairOK
  <2>2. NothingDeclined' => NothingDeclined
    BY DoneLinks
  <2>3. \A r \in LinkedTo(y) : req'[r] = req[r]
    BY <1>1 DEF LinkedTo
  <2>4. QED
    BY <1>1, <1>4, <1>5, <1>6, <2>1, <2>2, <2>3 DEF AllocatedFits
<1>10. ASSUME NEW w \in Workers, y \in job'[w].pairs PROVE JobOK(w, y)'
  <2>1. job'[w] = job[w] /\ y \in job[w].pairs /\ JobOK(w, y)
    BY <1>1, <1>3, <1>10 DEF PairOK
  <2>2. job'[w].op = "create" => CreateOK(w, y)'
    BY <1>1, <1>2, <1>4, <2>1 DEF JobOK, CreateOK
  <2>3. job'[w].op = "approve" => ApproveOK(w, y)'
    <3>1. job[w].valid \subseteq job[w].ids
      BY DEF TablesInv, JobShape
    <3>2. QED
      BY <1>1, <1>2, <2>1, <3>1 DEF JobOK, ApproveOK
  <2>4. job'[w].op = "cancel" => CancelOK(w, y)'
    BY <1>1, <1>2, <2>1 DEF JobOK, CancelOK
  <2>5. job'[w].op = "decline" => DeclineOK(w)'
    BY <1>2, <2>1 DEF JobOK, DeclineOK
  <2>6. job'[w].op = "redeem" => RedeemOK(w, y)'
    BY <1>1, <1>2, <1>4, <2>1 DEF JobOK, RedeemOK
  <2>7. job'[w].op = "expire" => ExpireOK(w, y)'
    BY <1>1, <1>2, <2>1 DEF JobOK, ExpireOK
  <2>8. job'[w].op = "reverse" => ReverseOK(w, y)'
    BY <1>1, <1>2, <2>1 DEF JobOK, ReverseOK
  <2>9. QED
    BY <2>2, <2>3, <2>4, <2>5, <2>6, <2>7, <2>8 DEF JobOK
<1>11. ASSUME NEW v \in Workers, NEW w \in Workers, y \in job'[v].pairs \cap job'[w].pairs
       PROVE  FirstOK(v, w, y)'
  <2>1. job'[v] = job[v] /\ job'[w] = job[w] /\ FirstOK(v, w, y)
    BY <1>1, <1>3, <1>11 DEF PairOK
  <2>2. QED
    BY <1>4, <2>1 DEF FirstOK
<1>12. QED
  BY <1>7, <1>8, <1>9, <1>10, <1>11 DEF PairOK

(* So a step keeps TablesInv when it does so for the pairs it touches.     *)
LEMMA Assembled ==
    ASSUME TypeInv, TypeInv', TablesInv, NEW X \in SUBSET Pairs, Outside(X),
           Exclusive', Storable(req'), \A w \in Workers : JobShape(w)',
           \A x \in X : PairOK(x)'
    PROVE  TablesInv'
<1>1. \A x \in Pairs : PairOK(x)'
  BY Elsewhere
<1>2. QED
  BY <1>1 DEF TablesInv, Storable

(* Jobs that go on as they were keep their shape.                          *)
LEMMA SameShape ==
    ASSUME TypeInv, TypeInv', TablesInv, NEW X \in SUBSET Pairs, Outside(X),
           NEW v \in Workers, job'[v] = job[v]
    PROVE  JobShape(v)'
<1>1. JobShape(v)
  BY DEF TablesInv
<1>2. \A r \in job[v].ids : req'[r].pair = req[r].pair
  <2>1. \A r \in job[v].ids : r \in Ids /\ req[r].pair \in Pairs
    BY DEF TypeInv, RequestTypeOK, Jobs, RowsHavePairs
  <2>2. QED
    BY <2>1 DEF Outside
<1>3. QED
  BY <1>1, <1>2 DEF JobShape

LEMMA IdleShape ==
    ASSUME NEW v \in Workers, job'[v] = Idle
    PROVE  JobShape(v)'
  BY DEF JobShape, Idle

(* A job that begins, on what it has just read.                            *)
LEMMA Begun ==
    ASSUME Gentle, TypeInv, TypeInv', TablesInv, UNCHANGED <<req, asg>>,
           NEW w \in Workers, NEW op, NEW X \in SUBSET Pairs, NEW R, NEW row, NEW found,
           Begin(w, op, X, R, row, found),
           JobShape(w)',
           \A x \in X : JobOK(w, x)',
           \A x \in X : \A v \in Workers :
                v # w /\ x \in job[v].pairs => FirstOK(v, w, x)' /\ FirstOK(w, v, x)'
    PROVE  TablesInv'
<1>1. /\ job[w] = Idle /\ job[w].pairs = {}
      /\ job'[w] = [op |-> op, at |-> "start", pairs |-> X, ids |-> R, valid |-> {},
                    row |-> row, found |-> found]
      /\ \A v \in Workers : v # w => job'[v] = job[v]
  BY DEF Begin, Idle, TypeInv, RequestTypeOK
<1>2. job'[w].pairs = X /\ job'[w].op = op
  BY <1>1
<1>3. Outside(X)
  BY <1>1, <1>2 DEF Outside
<1>4. Exclusive'
  <2>1. \A v \in Workers : job[v].pairs \cap X # {} =>
            op \in {"create", "cancel", "reverse"} /\ job[v].op \in {"create", "cancel", "reverse"}
    BY DEF Begin, Gentle
  <2>2. SUFFICES ASSUME NEW u \in Workers, NEW v \in Workers, u # v,
                        job'[u].pairs \cap job'[v].pairs # {}
                 PROVE  /\ job'[u].op \in {"create", "cancel", "reverse"}
                        /\ job'[v].op \in {"create", "cancel", "reverse"}
    BY DEF Exclusive
  <2>3. CASE u = w
    BY <1>1, <1>2, <2>1, <2>2, <2>3
  <2>4. CASE v = w
    <3>1. job'[u] = job[u] /\ job[u].pairs \cap X # {}
      BY <1>1, <1>2, <2>2, <2>4
    <3>2. QED
      BY <1>2, <2>1, <2>4, <3>1
  <2>5. CASE u # w /\ v # w
    BY <1>1, <2>2, <2>5 DEF TablesInv, Exclusive
  <2>6. QED
    BY <2>3, <2>4, <2>5
<1>5. Storable(req')
  BY DEF TablesInv
<1>6. \A v \in Workers : JobShape(v)'
  BY <1>1, <1>3, SameShape
<1>7. ASSUME NEW x \in X PROVE PairOK(x)'
  <2>1. PairOK(x)
    BY DEF TablesInv
  <2>2. \A o : Doing(o, x) => Doing(o, x)'
    BY <1>1 DEF Doing, At
  <2>3. Approving(x) => Approving(x)'
    <3> SUFFICES ASSUME NEW v \in Workers, At(v, "approve", "last"),
                        \E r \in job[v].valid : req[r].pair = x
                 PROVE  Approving(x)'
      BY DEF Approving
    <3>1. job'[v] = job[v]
      BY <1>1 DEF At, Idle
    <3>2. QED
      BY <3>1 DEF Approving, At
  <2>4. OneRow(x)' /\ RequestFits(x)' /\ AllocatedFits(x)'
    BY <2>1, <2>2, <2>3 DEF PairOK, OneRow, RequestFits, AllocatedFits, NeverDeclined,
       NothingDeclined, OfPair, LinkedTo
  <2>5. ASSUME NEW v \in Workers, x \in job'[v].pairs PROVE JobOK(v, x)'
    <3>1. CASE v = w
      BY <3>1
    <3>2. CASE v # w
      <4>1. job'[v] = job[v] /\ JobOK(v, x)
        BY <1>1, <2>1, <2>5, <3>2 DEF PairOK
      <4>2. QED
        BY <4>1 DEF JobOK, CreateOK, ApproveOK, CancelOK, DeclineOK, RedeemOK, ExpireOK,
           ReverseOK, NeverDeclined, OfPair, LinkedTo
    <3>3. QED
      BY <3>1, <3>2
  <2>6. ASSUME NEW u \in Workers, NEW v \in Workers, x \in job'[u].pairs \cap job'[v].pairs
        PROVE  FirstOK(u, v, x)'
    <3>1. CASE u # w /\ v # w
      <4>1. job'[u] = job[u] /\ job'[v] = job[v] /\ FirstOK(u, v, x)
        BY <1>1, <2>1, <2>6, <3>1 DEF PairOK
      <4>2. QED
        BY <4>1 DEF FirstOK, NeverDeclined, OfPair
    <3>2. CASE u = w /\ v = w
      BY <3>2 DEF FirstOK
    <3>3. CASE u # w /\ v = w
      BY <1>1, <2>6, <3>3
    <3>4. CASE u = w /\ v # w
      BY <1>1, <2>6, <3>4
    <3>5. QED
      BY <3>1, <3>2, <3>3, <3>4
  <2>7. QED
    BY <2>4, <2>5, <2>6 DEF PairOK
<1>8. QED
  BY <1>3, <1>4, <1>5, <1>6, <1>7, Assembled

LEMMA ExclusiveKept ==
    ASSUME TablesInv, NEW w \in Workers,
           job'[w].pairs \subseteq job[w].pairs,
           job'[w].op = job[w].op \/ job'[w].pairs = {},
           \A v \in Workers : v # w => job'[v] = job[v]
    PROVE  Exclusive'
<1> SUFFICES ASSUME NEW u \in Workers, NEW v \in Workers, u # v,
                    job'[u].pairs \cap job'[v].pairs # {}
             PROVE  /\ job'[u].op \in {"create", "cancel", "reverse"}
                    /\ job'[v].op \in {"create", "cancel", "reverse"}
  BY DEF Exclusive
<1>1. job[u].pairs \cap job[v].pairs # {} /\ job'[u].op = job[u].op /\ job'[v].op = job[v].op
  OBVIOUS
<1>2. QED
  BY <1>1 DEF TablesInv, Exclusive

(* A job that ends and leaves the tables as they are.                      *)
LEMMA Ended ==
    ASSUME TypeInv, TypeInv', TablesInv, UNCHANGED <<req, asg>>, NEW w \in Workers, End(w),
           job[w].at = "start" \/ job[w].op \in {"create", "cancel", "decline"}
                \/ (job[w].op = "approve" /\ ~NothingDeclined)
    PROVE  TablesInv'
<1> DEFINE X == job[w].pairs
<1>1. /\ job'[w] = Idle /\ job'[w].pairs = {}
      /\ \A v \in Workers : v # w => job'[v] = job[v]
  BY EndType DEF Idle
<1>2. X \in SUBSET Pairs
  BY DEF TypeInv, RequestTypeOK, Jobs
<1>3. Outside(X)
  BY <1>1 DEF Outside
<1>4. Exclusive'
  BY <1>1, ExclusiveKept
<1>5. Storable(req')
  BY DEF TablesInv
<1>6. \A v \in Workers : JobShape(v)'
  BY <1>1, <1>2, <1>3, SameShape, IdleShape
<1>7. ASSUME NEW x \in X PROVE PairOK(x)'
  <2>1. PairOK(x)
    BY <1>2 DEF TablesInv
  <2>2. \A o \in {"redeem", "expire", "reverse"} : Doing(o, x) => Doing(o, x)'
    <3> SUFFICES ASSUME NEW o \in {"redeem", "expire", "reverse"}, NEW v \in Workers,
                        At(v, o, "last"), x \in job[v].pairs
                 PROVE  Doing(o, x)'
      BY DEF Doing
    <3>1. v # w
      BY DEF At
    <3>2. QED
      BY <1>1, <3>1 DEF Doing, At
  <2>3. Approving(x) /\ NothingDeclined => Approving(x)'
    <3> SUFFICES ASSUME NothingDeclined, NEW v \in Workers, At(v, "approve", "last"),
                        \E r \in job[v].valid : req[r].pair = x
                 PROVE  Approving(x)'
      BY DEF Approving
    <3>1. job'[v] = job[v]
      BY <1>1 DEF At
    <3>2. QED
      BY <3>1 DEF Approving, At
  <2>4. OneRow(x)' /\ RequestFits(x)' /\ AllocatedFits(x)'
    <3>1. OneRow(x)'
      BY <2>1 DEF PairOK, OneRow, NeverDeclined, OfPair
    <3>2. RequestFits(x)'
      BY <2>1, <2>2 DEF PairOK, RequestFits, OfPair
    <3>3. AllocatedFits(x)'
      BY <2>1, <2>2, <2>3 DEF PairOK, AllocatedFits, NeverDeclined,
         NothingDeclined, OfPair, LinkedTo
    <3>4. QED
      BY <3>1, <3>2, <3>3
  <2>5. ASSUME NEW v \in Workers, x \in job'[v].pairs PROVE JobOK(v, x)'
    <3>1. job'[v] = job[v] /\ JobOK(v, x)
      BY <1>1, <2>1, <2>5 DEF PairOK
    <3>2. QED
      BY <3>1 DEF JobOK, CreateOK, ApproveOK, CancelOK, DeclineOK, RedeemOK, ExpireOK,
         ReverseOK, NeverDeclined, OfPair, LinkedTo
  <2>6. ASSUME NEW u \in Workers, NEW v \in Workers, x \in job'[u].pairs \cap job'[v].pairs
        PROVE  FirstOK(u, v, x)'
    <3>1. job'[u] = job[u] /\ job'[v] = job[v] /\ FirstOK(u, v, x)
      BY <1>1, <2>1, <2>6 DEF PairOK
    <3>2. QED
      BY <3>1 DEF FirstOK, NeverDeclined, OfPair
  <2>7. QED
    BY <2>4, <2>5, <2>6 DEF PairOK
<1>8. QED
  BY <1>2, <1>3, <1>4, <1>5, <1>6, <1>7, Assembled

(* A job that goes on or ends, on the pairs it is about.                   *)
LEMMA Stepped ==
    ASSUME TypeInv, TypeInv', TablesInv, NEW w \in Workers, Outside(job[w].pairs),
           Storable(req'),
           \A v \in Workers : v # w => job'[v] = job[v],
           \/ job'[w] = Idle
           \/ /\ job'[w].op = job[w].op /\ job'[w].pairs = job[w].pairs
              /\ job'[w].ids = job[w].ids /\ job'[w].row = job[w].row
              /\ job'[w].valid \subseteq job[w].ids /\ job[w].op # "idle",
           \A x \in job[w].pairs : OneRow(x)' /\ RequestFits(x)' /\ AllocatedFits(x)',
           \A v \in Workers : \A x \in job[w].pairs \cap job'[v].pairs : JobOK(v, x)'
    PROVE  TablesInv'
<1>1. job[w].pairs \in SUBSET Pairs
  BY DEF TypeInv, RequestTypeOK, Jobs
<1>2. job'[w].pairs \subseteq job[w].pairs
  BY DEF Idle
<1>3. Exclusive'
  BY <1>2, ExclusiveKept DEF Idle
<1>4. \A v \in Workers : JobShape(v)'
  <2>1. ASSUME job'[w].op = job[w].op, job'[w].pairs = job[w].pairs,
               job'[w].ids = job[w].ids, job'[w].row = job[w].row,
               job'[w].valid \subseteq job[w].ids, job[w].op # "idle"
        PROVE  JobShape(w)'
    <3>1. JobShape(w)
      BY DEF TablesInv
    <3>2. \A r \in job[w].ids : req'[r].pair = req[r].pair
      <4>1. \A r \in job[w].ids : r \in Ids /\ req[r].pair \in Pairs
        BY DEF TypeInv, RequestTypeOK, Jobs, RowsHavePairs
      <4>2. QED
        BY <4>1 DEF Outside
    <3>3. job'[w] # Idle
      BY <2>1 DEF Idle
    <3>4. QED
      BY <2>1, <3>1, <3>2, <3>3 DEF JobShape
  <2>2. \A v \in Workers : v # w => JobShape(v)'
    BY <1>1, SameShape
  <2>3. QED
    BY <2>1, <2>2, IdleShape
<1>5. ASSUME NEW x \in job[w].pairs PROVE PairOK(x)'
  <2>1. PairOK(x) /\ x \in Pairs
    BY <1>1 DEF TablesInv
  <2>2. NeverDeclined(x)' => NeverDeclined(x)
    <3> SUFFICES ASSUME NEW r \in Ids, req[r].pair = x, req[r].state = "declined"
                 PROVE  req'[r].pair = x /\ req'[r].state = "declined"
      BY DEF NeverDeclined, OfPair
    <3> QED
      BY DEF Outside
  <2>3. ASSUME NEW u \in Workers, NEW v \in Workers, x \in job'[u].pairs \cap job'[v].pairs
        PROVE  FirstOK(u, v, x)'
    <3>1. /\ \A t \in {u, v} : /\ job'[t].op = job[t].op /\ job'[t].ids = job[t].ids
                               /\ job'[t].row = job[t].row /\ job'[t].pairs = job[t].pairs
      BY <2>3 DEF Idle
    <3>2. FirstOK(u, v, x)
      BY <2>1, <2>3, <3>1 DEF PairOK
    <3>3. QED
      BY <2>2, <3>1, <3>2 DEF FirstOK
  <2>4. QED
    BY <2>3 DEF PairOK
<1>6. QED
  BY <1>1, <1>3, <1>4, <1>5, Assembled

(* What the last steps of jobs promise about a pair outlives other steps.  *)
LEMMA StillDoing ==
    ASSUME NEW w \in Workers, \A v \in Workers : v # w => job'[v] = job[v],
           NEW o, NEW x, Doing(o, x), ~At(w, o, "last")
    PROVE  Doing(o, x)'
<1>1. PICK v \in Workers : At(v, o, "last") /\ x \in job[v].pairs
  BY DEF Doing
<1>2. v # w /\ job'[v] = job[v]
  BY <1>1
<1>3. QED
  BY <1>1, <1>2 DEF Doing, At

LEMMA StillApproving ==
    ASSUME TypeInv, TablesInv, NEW w \in Workers, Outside(job[w].pairs),
           \A v \in Workers : v # w => job'[v] = job[v],
           NEW x \in Pairs, Approving(x), ~At(w, "approve", "last")
    PROVE  Approving(x)'
<1>1. PICK v \in Workers : /\ At(v, "approve", "last")
                           /\ \E r \in job[v].valid : req[r].pair = x
  BY DEF Approving
<1>2. PICK r \in job[v].valid : req[r].pair = x
  BY <1>1
<1>3. v # w /\ job'[v] = job[v]
  BY <1>1
<1>4. r \in Ids
  BY DEF TypeInv, RequestTypeOK, Jobs
<1>5. req'[r].pair = x
  BY <1>2, <1>4 DEF Outside
<1>6. QED
  BY <1>1, <1>3, <1>5 DEF Approving, At

-----------------------------------------------------------------------------
LEMMA ReadForCreateTables ==
    ASSUME Gentle, TypeInv, TypeInv', TablesInv, NEW w \in Workers, NEW x \in Pairs,
           ReadForCreate(w, x)
    PROVE  TablesInv'
<1> DEFINE reusable == {r \in OfPair(x) : req[r].state \in Reusable}
           first == {r \in reusable : \A s \in OfPair(x) : r <= s}
           fresh == [state |-> "requested", pair |-> x, linked |-> FALSE]
<1>1. Begin(w, "create", {x}, first, fresh, "none") /\ UNCHANGED <<req, asg>>
  BY DEF ReadForCreate
<1>2. /\ first \subseteq OfPair(x)
      /\ \A r \in first : req[r].state \in Reusable
      /\ \A r \in first : \A s \in OfPair(x) : r <= s
      /\ \A r \in OfPair(x) : req[r].state \in Reusable /\ (\A s \in OfPair(x) : r <= s)
            => r \in first
      /\ fresh.pair = x /\ fresh.linked = FALSE
  OBVIOUS
<1> HIDE DEF first, fresh
<1>3. OfPair(x) \subseteq Ids /\ \A r \in OfPair(x) : r \in Nat
  BY RequestAssumption DEF OfPair
<1>4. ASSUME NEW q \in first, NEW r \in first PROVE q = r
  <2>1. q \in Nat /\ r \in Nat /\ q <= r /\ r <= q
    BY <1>2, <1>3
  <2>2. QED
    BY <2>1
<1>5. PairOK(x)
  BY DEF TablesInv
<1>6. first = {} /\ NeverDeclined(x) => OfPair(x) = {}
  <2> SUFFICES ASSUME first = {}, NeverDeclined(x), NEW q \in OfPair(x)
               PROVE  FALSE
    OBVIOUS
  <2>1. \A r \in OfPair(x) : r = q
    BY <1>5 DEF PairOK, OneRow
  <2>2. \A s \in OfPair(x) : q <= s
    <3>1. q \in Nat /\ q <= q
      BY <1>3
    <3>2. QED
      BY <2>1, <3>1
  <2>3. req[q].state \in Reusable
    <3>1. req[q].state \in ReqStates
      BY <1>3 DEF TypeInv, RequestTypeOK, Reqs
    <3>2. req[q].state \notin Active
      BY DEF ReadForCreate, ActiveOf
    <3>3. req[q].state \notin {"none", "declined"}
      BY <1>5 DEF PairOK, OneRow, NeverDeclined
    <3>4. QED
      BY <3>1, <3>2, <3>3 DEF ReqStates
  <2>4. QED
    BY <1>2, <2>2, <2>3
<1>7. job'[w] = [op |-> "create", at |-> "start", pairs |-> {x}, ids |-> first,
                 valid |-> {}, row |-> fresh, found |-> "none"]
  BY <1>1 DEF Begin, TypeInv, RequestTypeOK
<1>8. /\ job'[w].op = "create" /\ job'[w].pairs = {x} /\ job'[w].ids = first
      /\ job'[w].valid = {} /\ job'[w].row = fresh
  BY <1>7
<1>9. JobShape(w)'
  <2>1. \A r \in first : req'[r].pair = x
    BY <1>1, <1>2 DEF OfPair
  <2>2. QED
    BY <1>2, <1>4, <1>8, <2>1 DEF JobShape, Idle
<1>10. NeverDeclined(x)' = NeverDeclined(x) /\ OfPair(x)' = OfPair(x)
  BY <1>1 DEF NeverDeclined, OfPair
<1>11. JobOK(w, x)'
  BY <1>1, <1>2, <1>6, <1>8, <1>10 DEF JobOK, CreateOK
<1>12. ASSUME NEW v \in Workers, v # w, x \in job[v].pairs
       PROVE  FirstOK(v, w, x)' /\ FirstOK(w, v, x)'
  <2>1. FirstOK(w, v, x)'
    BY <1>8 DEF FirstOK
  <2>2. job'[v] = job[v] /\ JobShape(v) /\ job[v].ids \subseteq Ids
    BY <1>1, <1>12 DEF Begin, TablesInv, TypeInv, RequestTypeOK, Jobs
  <2>3. job[v].op \in {"cancel", "reverse"} /\ job[v].ids # {} => OfPair(x) # {}
    BY <1>12, <2>2 DEF JobShape, OfPair
  <2>4. FirstOK(v, w, x)'
    BY <1>6, <1>8, <1>10, <2>2, <2>3 DEF FirstOK, JobShape
  <2>5. QED
    BY <2>1, <2>4
<1>13. QED
  BY <1>1, <1>9, <1>11, <1>12, Begun

LEMMA WholeRows ==
    ASSUME TypeInv, NEW r \in Ids, NEW row \in Reqs, NEW s, req' = Whole(r, row, s)
    PROVE  /\ req'[r].state = s /\ req'[r].pair = row.pair /\ req'[r].linked = row.linked
           /\ \A q \in Ids : q # r => req'[q] = req[q]
<1> DEFINE new == [row EXCEPT !.state = s]
<1>1. new.state = s /\ new.pair = row.pair /\ new.linked = row.linked
  BY DEF Reqs
<1>2. req' = [req EXCEPT ![r] = new]
  BY DEF Whole
<1> HIDE DEF new
<1>3. req'[r] = new /\ \A q \in Ids : q # r => req'[q] = req[q]
  BY <1>2 DEF TypeInv, RequestTypeOK
<1>4. QED
  BY <1>1, <1>3

(* Other jobs about the pair of a job, if any, are of the gentle kinds.    *)
LEMMA Beside ==
    ASSUME TablesInv, NEW w \in Workers, NEW v \in Workers, v # w,
           NEW x \in job[w].pairs \cap job[v].pairs
    PROVE  /\ job[w].op \in {"create", "cancel", "reverse"}
           /\ job[v].op \in {"create", "cancel", "reverse"}
  BY DEF TablesInv, Exclusive

LEMMA SteppedOne ==
    ASSUME TypeInv, TypeInv', TablesInv, NEW w \in Workers, NEW x \in Pairs,
           job[w].pairs = {x}, Outside({x}), Storable(req'),
           \A v \in Workers : v # w => job'[v] = job[v],
           \/ job'[w] = Idle
           \/ /\ job'[w].op = job[w].op /\ job'[w].pairs = job[w].pairs
              /\ job'[w].ids = job[w].ids /\ job'[w].row = job[w].row
              /\ job'[w].valid \subseteq job[w].ids /\ job[w].op # "idle",
           OneRow(x)', RequestFits(x)', AllocatedFits(x)',
           \A v \in Workers : x \in job'[v].pairs => JobOK(v, x)'
    PROVE  TablesInv'
<1>1. Outside(job[w].pairs)
  OBVIOUS
<1>2. \A y \in job[w].pairs : OneRow(y)' /\ RequestFits(y)' /\ AllocatedFits(y)'
  OBVIOUS
<1>3. \A v \in Workers : \A y \in job[w].pairs \cap job'[v].pairs : JobOK(v, y)'
  OBVIOUS
<1>4. QED
  BY <1>1, <1>2, <1>3, Stepped

LEMMA SaveCreatedTables ==
    ASSUME Gentle, TypeInv, TypeInv', TablesInv, NEW w \in Workers, SaveCreated(w)
    PROVE  TablesInv'
<1>1. /\ job[w].op = "create" /\ job[w].at = "start" /\ End(w) /\ UNCHANGED asg
      /\ job'[w] = Idle /\ \A v \in Workers : v # w => job'[v] = job[v]
  BY EndType DEF SaveCreated, At
<1>2. PICK x \in Pairs, row \in Reqs :
      /\ row = job[w].row /\ row.pair = x /\ job[w].pairs = {x} /\ job[w].ids \subseteq Ids
      /\ \A r \in job[w].ids : req[r].pair = x
      /\ \A q, r \in job[w].ids : q = r
  BY <1>1 DEF TypeInv, RequestTypeOK, RowsHavePairs, Jobs, TablesInv, JobShape
<1>3. PairOK(x) /\ CreateOK(w, x)
  BY <1>1, <1>2 DEF TablesInv, PairOK, JobOK
<1>4. PICK r \in IF job[w].ids = {} THEN {i \in Ids : req[i].state = "none"} ELSE job[w].ids :
        \/ req' = Whole(r, row, "requested") /\ Storable(req')
        \/ UNCHANGED req
  BY <1>2 DEF SaveCreated
<1>5. r \in Ids /\ req[r].state \in Reusable \cup {"requested", "none"}
  BY <1>2, <1>3, <1>4 DEF CreateOK
<1>6. CASE UNCHANGED req
  BY <1>1, <1>6, Ended
<1>7. CASE req' = Whole(r, row, "requested") /\ Storable(req')
  <2>1. /\ req'[r].state = "requested" /\ req'[r].pair = x /\ req'[r].linked = FALSE
        /\ \A q \in Ids : q # r => req'[q] = req[q]
    BY <1>2, <1>3, <1>5, <1>7, WholeRows DEF CreateOK
  <2>2. req[r].pair \in Pairs => req[r].pair = x /\ job[w].ids = {r}
    <3>1. CASE job[w].ids = {}
      <4>1. req[r].state = "none"
        BY <1>4, <3>1
      <4>2. req[r].pair \in Pairs => r \in OfPair(req[r].pair)
        BY <1>5 DEF OfPair
      <4>3. QED
        BY <4>1, <4>2 DEF TablesInv, PairOK, OneRow
    <3>2. CASE job[w].ids # {}
      BY <1>2, <1>4, <3>2
    <3>3. QED
      BY <3>1, <3>2
  <2>3. req[r].state # "declined"
    BY <1>5 DEF Reusable
  <2>4. Outside({x})
    BY <1>1, <1>2, <2>1, <2>2, <2>3 DEF Outside, Idle
  <2>5. OfPair(x)' = OfPair(x) \cup {r}
    BY <1>5, <2>1 DEF OfPair
  <2>6. NeverDeclined(x)' => NeverDeclined(x)
    <3> SUFFICES ASSUME NEW q \in OfPair(x), req[q].state = "declined"
                 PROVE  req'[q].state = "declined" /\ q \in OfPair(x)'
      BY DEF NeverDeclined
    <3> QED
      BY <2>1, <2>3, <2>5 DEF OfPair
  <2>7. NothingDeclined' => NothingDeclined
    BY <2>4, DoneLinks
  <2>8. OneRow(x)'
    <3>1. \A q \in OfPair(x)' : req'[q].state # "none"
      BY <1>3, <2>1, <2>5 DEF PairOK, OneRow, OfPair
    <3>2. \A q \in OfPair(x)' : req'[q].state \in {"requested", "declined"} => ~req'[q].linked
      BY <1>3, <2>1, <2>5 DEF PairOK, OneRow, OfPair
    <3>3. NeverDeclined(x)' => \A q \in OfPair(x)' : q = r
      <4> SUFFICES ASSUME NeverDeclined(x)', NEW q \in OfPair(x), q # r
                   PROVE  FALSE
        BY <2>5
      <4>1. CASE job[w].ids = {}
        <5>1. req[q].state = "requested"
          BY <1>3, <2>6, <4>1 DEF CreateOK
        <5>2. /\ q \in Ids /\ req'[q].state \in Active /\ req'[r].state \in Active
              /\ req'[q].pair = x /\ req'[r].pair = x
          BY <2>1, <5>1 DEF OfPair, Active
        <5>3. x # NoPair
          BY <1>2, RequestAssumption
        <5>4. QED
          BY <1>5, <1>7, <5>2, <5>3 DEF Storable
      <4>2. CASE job[w].ids # {}
        <5>1. r \in OfPair(x)
          BY <1>2, <1>4, <1>5, <4>2 DEF OfPair
        <5>2. QED
          BY <1>3, <2>6, <5>1 DEF PairOK, OneRow
      <4>3. QED
        BY <4>1, <4>2
    <3>4. QED
      BY <3>1, <3>2, <3>3 DEF OneRow
  <2>9. \A o \in {"redeem", "expire", "reverse"} : Doing(o, x) => Doing(o, x)'
    BY <1>1, StillDoing DEF At
  <2>10. Approving(x) => Approving(x)'
    BY <1>1, <1>2, <2>4, StillApproving DEF At
  <2>11. \A q \in OfPair(x) : q # r => req'[q] = req[q]
    BY <2>1 DEF OfPair
  <2>12. RequestFits(x)'
    BY <1>1, <1>3, <2>1, <2>5, <2>9, <2>11 DEF PairOK, RequestFits
  <2>13. AllocatedFits(x)'
    <3>1. LinkedTo(x)' = LinkedTo(x) \ {r}
      BY <2>1, <2>5, <2>11 DEF LinkedTo
    <3>2. req[r].state # "approved"
      BY <1>5 DEF Reusable
    <3>3. \A q \in LinkedTo(x) \ {r} : req'[q] = req[q]
      BY <2>11 DEF LinkedTo
    <3>4. AllocatedFits(x)
      BY <1>3 DEF PairOK
    <3>5. QED
      BY <1>1, <2>6, <2>7, <2>9, <2>10, <3>1, <3>2, <3>3, <3>4 DEF AllocatedFits
  <2>14. ASSUME NEW v \in Workers, x \in job'[v].pairs PROVE JobOK(v, x)'
    <3>1. v # w /\ job'[v] = job[v] /\ x \in job[v].pairs /\ JobOK(v, x)
      BY <1>1, <1>3, <2>14 DEF Idle, PairOK
    <3>2. job[v].op \in {"create", "cancel", "reverse"}
      BY <1>2, <3>1, Beside
    <3>3. job[v].ids \subseteq OfPair(x)
      <4>1. job[v].ids \subseteq Ids
        BY DEF TypeInv, RequestTypeOK, Jobs
      <4>2. QED
        BY <3>1, <3>2, <4>1 DEF TablesInv, JobShape, OfPair
    <3>4. CASE job[v].op = "create"
      <4>1. CreateOK(v, x)
        BY <3>1, <3>4 DEF JobOK
      <4>2. \A q \in job[v].ids : req'[q].state \in Reusable \cup {"requested"}
        BY <2>1, <2>11, <3>3, <4>1 DEF CreateOK
      <4>3. job[v].ids = {} /\ NeverDeclined(x)' =>
                \A q \in OfPair(x)' : req'[q].state = "requested"
        BY <2>1, <2>5, <2>6, <2>11, <4>1 DEF CreateOK
      <4>4. CreateOK(v, x)'
        BY <3>1, <4>1, <4>2, <4>3 DEF CreateOK
      <4>5. QED
        BY <3>1, <3>4, <4>4 DEF JobOK
    <3>5. CASE job[v].op = "cancel"
      <4>1. CancelOK(v, x)
        BY <3>1, <3>5 DEF JobOK
      <4>2. \A q \in job[v].ids : req[q].state # "declined" => req'[q].state # "declined"
        BY <2>1, <2>11, <3>3
      <4>3. \A q \in OfPair(x)' : q = r \/ (q \in OfPair(x) /\ req'[q] = req[q])
        BY <2>5, <2>11
      <4>4. req'[r].state \notin {"approved", "accepted"}
        BY <2>1
      <4>5. CancelOK(v, x)'
        BY <1>1, <3>1, <4>1, <4>2, <4>3, <4>4 DEF CancelOK
      <4>6. QED
        BY <3>1, <3>5, <4>5 DEF JobOK
    <3>6. CASE job[v].op = "reverse"
      <4>1. ReverseOK(v, x)
        BY <3>1, <3>6 DEF JobOK
      <4>2. \A q \in OfPair(x)' : /\ req'[q].state # "approved"
                                  /\ req'[q].state = "accepted" => q \in job[v].ids
        BY <2>1, <2>5, <2>11, <4>1 DEF ReverseOK
      <4>3. \A q \in job[v].ids : req'[q].state # "declined"
        BY <2>1, <2>11, <3>3, <4>1 DEF ReverseOK
      <4>4. ReverseOK(v, x)'
        BY <1>1, <3>1, <4>1, <4>2, <4>3 DEF ReverseOK
      <4>5. QED
        BY <3>1, <3>6, <4>4 DEF JobOK
    <3>7. QED
      BY <3>2, <3>4, <3>5, <3>6
  <2>15. QED
    BY <1>1, <1>2, <1>7, <2>4, <2>8, <2>12, <2>13, <2>14, SteppedOne
<1>8. QED
  BY <1>4, <1>6, <1>7

(* A job of another kind is alone with its pairs.                          *)
LEMMA Nobody ==
    ASSUME TablesInv, NEW w \in Workers, job[w].op \notin {"create", "cancel", "reverse"},
           NEW x \in job[w].pairs, NEW v \in Workers, x \in job[v].pairs
    PROVE  v = w
  BY Beside

LEMMA ReadForApproveTables ==
    ASSUME Gentle, TypeInv, TypeInv', TablesInv, NEW w \in Workers, NEW R \in SUBSET Ids,
           ReadForApprove(w, R)
    PROVE  TablesInv'
<1>1. /\ \A r \in R : req[r].state = "requested" /\ req[r].pair \in Pairs
      /\ UNCHANGED <<req, asg>>
  BY DEF ReadForApprove, TypeInv, RowsHavePairs
<1>2. PICK X \in SUBSET Pairs : X = {req[r].pair : r \in R}
  BY <1>1
<1>3. Begin(w, "approve", X, R, NoReq, "none")
  BY <1>2 DEF ReadForApprove
<1>4. job'[w] = [op |-> "approve", at |-> "start", pairs |-> X, ids |-> R,
                 valid |-> {}, row |-> NoReq, found |-> "none"]
  BY <1>3 DEF Begin, TypeInv, RequestTypeOK
<1>5. /\ job'[w].op = "approve" /\ job'[w].pairs = X /\ job'[w].ids = R
      /\ job'[w].valid = {} /\ job'[w].at = "start"
  BY <1>4
<1>6. JobShape(w)'
  BY <1>1, <1>2, <1>5 DEF JobShape, Idle
<1>7. \A x \in X : JobOK(w, x)'
  BY <1>1, <1>5 DEF JobOK, ApproveOK
<1>8. \A x \in X : \A v \in Workers : FirstOK(v, w, x)' /\ FirstOK(w, v, x)'
  BY <1>5 DEF FirstOK
<1>9. QED
  BY <1>1, <1>3, <1>6, <1>7, <1>8, Begun

LEMMA SetAsgStates ==
    ASSUME TypeInv, NEW X, NEW s, SetAsg(X, s)
    PROVE  \A x \in Pairs : asg'[x].state = IF x \in X THEN s ELSE asg[x].state
  BY DEF SetAsg, TypeInv, RequestTypeOK, Asgs

LEMMA AllocateTables ==
    ASSUME Gentle, TypeInv, TypeInv', TablesInv, NEW w \in Workers, AllocateRequests(w)
    PROVE  TablesInv'
<1>1. /\ job[w].op = "approve" /\ job[w].at = "start" /\ UNCHANGED req
      /\ job[w].ids \subseteq Ids /\ job[w].pairs \subseteq Pairs
      /\ \A r \in job[w].ids : req[r].pair \in job[w].pairs
  BY DEF AllocateRequests, At, TypeInv, RequestTypeOK, Jobs, TablesInv, JobShape
<1>2. PICK V \in SUBSET job[w].ids :
        \/ /\ \A y \in {req[r].pair : r \in V} : Found(y) \/ Insertable(y)
           /\ SetAsg({req[r].pair : r \in V}, "allocated")
           /\ job' = [job EXCEPT ![w].at = "last", ![w].valid = V]
        \/ End(w) /\ UNCHANGED asg
  BY DEF AllocateRequests
<1>3. CASE End(w) /\ UNCHANGED asg
  BY <1>1, <1>3, Ended
<1>4. CASE /\ \A y \in {req[r].pair : r \in V} : Found(y) \/ Insertable(y)
           /\ SetAsg({req[r].pair : r \in V}, "allocated")
           /\ job' = [job EXCEPT ![w].at = "last", ![w].valid = V]
  <2>1. PICK X \in SUBSET Pairs : X = {req[r].pair : r \in V}
    BY <1>1
  <2>2. X \subseteq job[w].pairs
    BY <1>1, <2>1
  <2>3. /\ job'[w].op = job[w].op /\ job'[w].pairs = job[w].pairs
        /\ job'[w].ids = job[w].ids /\ job'[w].row = job[w].row
        /\ job'[w].valid = V /\ job'[w].at = "last"
        /\ \A v \in Workers : v # w => job'[v] = job[v]
    BY <1>4 DEF TypeInv, RequestTypeOK, Jobs
  <2>4. \A x \in Pairs : asg'[x].state = IF x \in X THEN "allocated" ELSE asg[x].state
    BY <1>4, <2>1, SetAsgStates
  <2>5. Outside(job[w].pairs)
    BY <1>1, <2>2, <2>3, <2>4 DEF Outside
  <2>6. Storable(req')
    BY <1>1 DEF TablesInv
  <2>7. ASSUME NEW x \in job[w].pairs
        PROVE  OneRow(x)' /\ RequestFits(x)' /\ AllocatedFits(x)'
    <3>1. x \in Pairs /\ PairOK(x) /\ JobOK(w, x)
      BY <1>1 DEF TablesInv, PairOK
    <3>2. OneRow(x) /\ RequestFits(x) /\ AllocatedFits(x) /\ ApproveOK(w, x)
      BY <1>1, <3>1 DEF PairOK, JobOK
    <3>3. /\ OfPair(x)' = OfPair(x) /\ LinkedTo(x)' = LinkedTo(x)
          /\ NeverDeclined(x)' = NeverDeclined(x) /\ NothingDeclined' = NothingDeclined
      BY <1>1 DEF OfPair, LinkedTo, NeverDeclined, NothingDeclined
    <3>4. OneRow(x)'
      BY <1>1, <3>2, <3>3 DEF OneRow
    <3>5. \A o : Doing(o, x) => Doing(o, x)'
      BY <1>1, <2>3, StillDoing DEF At
    <3>6. CASE x \notin X
      <4>1. asg'[x].state = asg[x].state
        BY <2>4, <3>1, <3>6
      <4>2. Approving(x) => Approving(x)'
        BY <1>1, <2>3, <2>5, <3>1, StillApproving DEF At
      <4>3. RequestFits(x)'
        BY <1>1, <3>2, <3>3, <3>5, <4>1 DEF RequestFits
      <4>4. AllocatedFits(x)'
        BY <1>1, <3>2, <3>3, <3>5, <4>1, <4>2 DEF AllocatedFits
      <4>5. QED
        BY <3>4, <4>3, <4>4
    <3>7. CASE x \in X
      <4>1. PICK r \in V : req[r].pair = x
        BY <2>1, <3>7
      <4>2. r \in OfPair(x) /\ req[r].state = "requested"
        BY <1>1, <3>2, <4>1 DEF OfPair, ApproveOK
      <4>5. \A q \in OfPair(x) : req[q].state \notin {"approved", "accepted"}
        <5>1. x # NoPair /\ Storable(req) /\ OfPair(x) \subseteq Ids
          BY <3>1, RequestAssumption DEF TablesInv, OfPair
        <5>2. \A q \in OfPair(x) : q # r => req[q].state \notin Active
          BY <4>2, <5>1 DEF Storable, Active, OfPair
        <5>3. QED
          BY <4>2, <5>2 DEF Active
      <4>6. RequestFits(x)'
        BY <1>1, <3>3, <4>5 DEF RequestFits
      <4>7. NeverDeclined(x) => LinkedTo(x) = {}
        <5>1. r \in OfPair(x) /\ ~req[r].linked
          BY <3>2, <4>2 DEF OneRow
        <5>2. NeverDeclined(x) => \A q \in OfPair(x) : q = r
          BY <3>2, <5>1 DEF OneRow
        <5>3. QED
          BY <5>1, <5>2 DEF LinkedTo
      <4>8. Approving(x)'
        <5>1. At(w, "approve", "last")' /\ r \in job'[w].valid /\ req'[r].pair = x
          BY <1>1, <2>3, <4>1 DEF At
        <5>2. QED
          BY <5>1 DEF Approving
      <4>9. AllocatedFits(x)'
        BY <3>3, <4>7, <4>8 DEF AllocatedFits
      <4>10. QED
        BY <3>4, <4>6, <4>9
    <3>8. QED
      BY <3>6, <3>7
  <2>8. ASSUME NEW v \in Workers, NEW x \in job[w].pairs \cap job'[v].pairs
        PROVE  JobOK(v, x)'
    <3>1. v = w
      BY <1>1, <2>3, <2>8, Nobody
    <3>2. x \in Pairs /\ ApproveOK(w, x)
      BY <1>1 DEF TablesInv, PairOK, JobOK
    <3>3. \A r \in V : req[r].pair = x => asg'[x].state = "allocated"
      BY <2>1, <2>4, <3>2
    <3>4. ApproveOK(w, x)'
      BY <1>1, <2>3, <3>2, <3>3 DEF ApproveOK
    <3>5. QED
      BY <1>1, <2>3, <3>1, <3>4 DEF JobOK
  <2>9. QED
    BY <1>1, <2>3, <2>5, <2>6, <2>7, <2>8, Stepped
<1>5. QED
  BY <1>2, <1>3, <1>4

LEMMA SaveApprovedTables ==
    ASSUME Gentle, TypeInv, TypeInv', TablesInv, NEW w \in Workers, SaveApproved(w)
    PROVE  TablesInv'
<1>1. /\ job[w].op = "approve" /\ job[w].at = "last" /\ UNCHANGED asg /\ End(w)
      /\ job'[w] = Idle /\ \A v \in Workers : v # w => job'[v] = job[v]
  BY EndType DEF SaveApproved, At
<1>2. PICK V \in SUBSET Ids : V = job[w].valid
  BY DEF TypeInv, RequestTypeOK, Jobs
<1>3. PICK X \in SUBSET Pairs : X = job[w].pairs
  BY DEF TypeInv, RequestTypeOK, Jobs
<1>4. \A r \in V : r \in job[w].ids /\ req[r].pair \in X
  BY <1>2, <1>3 DEF TablesInv, JobShape
<1>5. \A x \in X : PairOK(x) /\ ApproveOK(w, x)
  BY <1>1, <1>3 DEF TablesInv, PairOK, JobOK
<1>6. \A r \in V : req[r].state = "requested" /\ asg[req[r].pair].state = "allocated"
  BY <1>1, <1>2, <1>4, <1>5 DEF ApproveOK
<1> DEFINE done(r) == [req[r] EXCEPT !.state = "approved", !.linked = TRUE]
           new == [r \in Ids |-> IF r \in V THEN done(r) ELSE req[r]]
<1>7. \/ req' = new /\ Storable(req')
      \/ UNCHANGED req /\ ~Storable(new)
  BY <1>2 DEF SaveApproved
<1>8. /\ \A r \in V : /\ new[r].state = "approved" /\ new[r].linked = TRUE
                      /\ new[r].pair = req[r].pair
      /\ \A r \in Ids : r \notin V => new[r] = req[r]
  BY DEF TypeInv, RequestTypeOK, Reqs
<1> HIDE DEF new
<1>9. CASE UNCHANGED req /\ ~Storable(new)
  <2>1. ~NothingDeclined
    <3> SUFFICES ASSUME NothingDeclined PROVE Storable(new)
      BY <1>9
    <3>1. ASSUME NEW r \in Ids, NEW s \in Ids, r # s, new[r].pair = new[s].pair,
                 new[r].pair # NoPair
          PROVE  FALSE
      <4>1. req[r].pair = req[s].pair /\ req[r].pair # NoPair
        BY <1>8, <3>1
      <4>2. req[r].pair \in Pairs
        BY <4>1 DEF TypeInv, RequestTypeOK, Reqs
      <4>3. OneRow(req[r].pair) /\ NeverDeclined(req[r].pair)
        BY <4>2 DEF TablesInv, PairOK, NothingDeclined, NeverDeclined, OfPair
      <4>4. QED
        BY <3>1, <4>1, <4>3 DEF OneRow, OfPair
    <3>2. QED
      BY <3>1 DEF Storable
  <2>2. QED
    BY <1>1, <1>9, <2>1, Ended
<1>10. CASE req' = new /\ Storable(req')
  <2>1. /\ \A r \in V : /\ req'[r].state = "approved" /\ req'[r].linked = TRUE
                        /\ req'[r].pair = req[r].pair
        /\ \A r \in Ids : r \notin V => req'[r] = req[r]
    BY <1>8, <1>10
  <2>2. Outside(X)
    BY <1>1, <1>3, <1>4, <1>6, <2>1 DEF Outside, Idle
  <2>3. ASSUME NEW x \in X
        PROVE  OneRow(x)' /\ RequestFits(x)' /\ AllocatedFits(x)'
    <3>1. OneRow(x) /\ RequestFits(x) /\ AllocatedFits(x)
      BY <1>5 DEF PairOK
    <3>2. OfPair(x)' = OfPair(x) /\ OfPair(x) \subseteq Ids
      BY <2>1 DEF OfPair
    <3>3. \A v \in Workers : x \in job[v].pairs => v = w
      BY <1>1, <1>3, Nobody
    <3>4. NeverDeclined(x)' => NeverDeclined(x)
      BY <1>6, <2>1, <3>2 DEF NeverDeclined
    <3>5. OneRow(x)'
      BY <2>1, <3>1, <3>2, <3>4 DEF OneRow
    <3>6. ~Doing("redeem", x) /\ ~Doing("expire", x) /\ ~Doing("reverse", x)
      BY <1>1, <3>3 DEF Doing, At
    <3>7. \A r \in OfPair(x) \cap V : asg[x].state = "allocated"
      BY <1>6 DEF OfPair
    <3>8. RequestFits(x)'
      BY <1>1, <2>1, <3>1, <3>2, <3>6, <3>7 DEF RequestFits
    <3>9. AllocatedFits(x)'
      <4>1. ASSUME asg[x].state = "allocated", NeverDeclined(x), NEW r \in LinkedTo(x)'
            PROVE  req'[r].state = "approved"
        <5>1. r \in OfPair(x) /\ req'[r].linked
          BY <3>2 DEF LinkedTo
        <5>2. CASE r \notin V
          BY <2>1, <3>1, <3>2, <3>6, <4>1, <5>1, <5>2 DEF AllocatedFits, LinkedTo
        <5>3. QED
          BY <2>1, <5>2
      <4>2. ASSUME asg[x].state = "allocated", NothingDeclined
            PROVE  \E r \in LinkedTo(x)' : req'[r].state = "approved"
        <5>1. CASE \E r \in LinkedTo(x) : req[r].state = "approved"
          <6>1. PICK r \in LinkedTo(x) : req[r].state = "approved"
            BY <5>1
          <6>2. r \in OfPair(x) /\ req[r].linked
            BY DEF LinkedTo
          <6>3. req'[r].state = "approved" /\ req'[r].linked
            BY <2>1, <3>2, <6>1, <6>2
          <6>4. QED
            BY <3>2, <6>2, <6>3 DEF LinkedTo
        <5>2. CASE Approving(x)
          <6>1. PICK v \in Workers : /\ At(v, "approve", "last")
                                     /\ \E r \in job[v].valid : req[r].pair = x
            BY <5>2 DEF Approving
          <6>2. PICK r \in job[v].valid : req[r].pair = x
            BY <6>1
          <6>3. x \in job[v].pairs
            BY <6>2 DEF TablesInv, JobShape
          <6>4. r \in V
            BY <1>2, <3>3, <6>3
          <6>5. r \in OfPair(x) /\ req'[r].linked /\ req'[r].state = "approved"
            BY <2>1, <6>2, <6>4 DEF OfPair
          <6>6. QED
            BY <3>2, <6>5 DEF LinkedTo
        <5>3. QED
          BY <3>1, <3>6, <4>2, <5>1, <5>2 DEF AllocatedFits
      <4>3. NothingDeclined' => NothingDeclined
        BY <2>2, DoneLinks
      <4>4. QED
        BY <1>1, <3>4, <4>1, <4>2, <4>3 DEF AllocatedFits
    <3>10. QED
      BY <3>5, <3>8, <3>9
  <2>4. \A v \in Workers : X \cap job'[v].pairs = {}
    <3> SUFFICES ASSUME NEW v \in Workers, NEW x \in X \cap job'[v].pairs PROVE FALSE
      OBVIOUS
    <3>1. v # w /\ job'[v] = job[v]
      BY <1>1 DEF Idle
    <3>2. QED
      BY <1>1, <1>3, <3>1, Nobody
  <2>5. QED
    BY <1>1, <1>3, <1>10, <2>2, <2>3, <2>4, Stepped
<1>11. QED
  BY <1>7, <1>9, <1>10

(* A job that goes on to its last step without touching the tables.        *)
LEMMA GoesOn ==
    ASSUME TypeInv, TypeInv', TablesInv, UNCHANGED <<req, asg>>, NEW w \in Workers,
           NEW x \in Pairs, job[w].pairs = {x}, job[w].at = "start", job[w].op # "idle",
           /\ job'[w].op = job[w].op /\ job'[w].pairs = job[w].pairs
           /\ job'[w].ids = job[w].ids /\ job'[w].row = job[w].row
           /\ job'[w].valid = job[w].valid,
           \A v \in Workers : v # w => job'[v] = job[v],
           JobOK(w, x)'
    PROVE  TablesInv'
<1>1. Outside({x})
  BY DEF Outside
<1>2. Storable(req')
  BY DEF TablesInv
<1>3. PairOK(x) /\ JobShape(w)
  BY DEF TablesInv
<1>4. \A o : Doing(o, x) => Doing(o, x)'
  BY StillDoing DEF At
<1>5. Approving(x) => Approving(x)'
  BY <1>1, StillApproving DEF At
<1>6. OneRow(x)' /\ RequestFits(x)' /\ AllocatedFits(x)'
  <2>1. OneRow(x)'
    BY <1>3 DEF PairOK, OneRow, NeverDeclined, OfPair
  <2>2. RequestFits(x)'
    BY <1>3, <1>4 DEF PairOK, RequestFits, OfPair
  <2>3. AllocatedFits(x)'
    BY <1>3, <1>4, <1>5 DEF PairOK, AllocatedFits, NeverDeclined, NothingDeclined, OfPair,
       LinkedTo
  <2>4. QED
    BY <2>1, <2>2, <2>3
<1>7. ASSUME NEW v \in Workers, x \in job'[v].pairs PROVE JobOK(v, x)'
  <2>1. CASE v = w
    BY <2>1
  <2>2. CASE v # w
    <3>1. job'[v] = job[v] /\ JobOK(v, x)
      BY <1>3, <1>7, <2>2 DEF PairOK
    <3>2. QED
      BY <3>1 DEF JobOK, CreateOK, ApproveOK, CancelOK, DeclineOK, RedeemOK, ExpireOK,
         ReverseOK, NeverDeclined, OfPair, LinkedTo
  <2>3. QED
    BY <2>1, <2>2
<1>8. job'[w].valid \subseteq job[w].ids
  BY <1>3 DEF JobShape
<1>9. QED
  BY <1>1, <1>2, <1>6, <1>7, <1>8, SteppedOne

LEMMA ReadForCancelTables ==
    ASSUME Gentle, TypeInv, TypeInv', TablesInv, NEW w \in Workers, NEW r \in Ids,
           ReadForCancel(w, r)
    PROVE  TablesInv'
<1>1. PICK x \in Pairs : x = req[r].pair
  BY DEF ReadForCancel, TypeInv, RowsHavePairs
<1>2. PICK row \in Reqs : row = req[r]
  BY DEF TypeInv, RequestTypeOK
<1>3. Begin(w, "cancel", {x}, {r}, row, "none") /\ UNCHANGED <<req, asg>>
  BY <1>1, <1>2 DEF ReadForCancel
<1>4. job'[w] = [op |-> "cancel", at |-> "start", pairs |-> {x}, ids |-> {r},
                 valid |-> {}, row |-> row, found |-> "none"]
  BY <1>3 DEF Begin, TypeInv, RequestTypeOK
<1>5. /\ job'[w].op = "cancel" /\ job'[w].pairs = {x} /\ job'[w].ids = {r}
      /\ job'[w].valid = {} /\ job'[w].at = "start" /\ job'[w].row = row
  BY <1>4
<1>6. JobShape(w)'
  BY <1>1, <1>2, <1>3, <1>5 DEF JobShape, Idle
<1>7. /\ PairOK(x) /\ OneRow(x) /\ RequestFits(x) /\ r \in OfPair(x)
      /\ OfPair(x)' = OfPair(x) /\ OfPair(x) \subseteq Ids
  BY <1>1, <1>3 DEF TablesInv, PairOK, OfPair
<1>8. row.linked => \A q \in OfPair(x) : q # r => req[q].state \notin {"approved", "accepted"}
  <2> SUFFICES ASSUME row.linked, NEW q \in OfPair(x), q # r,
                      req[q].state \in {"approved", "accepted"}
               PROVE  FALSE
    OBVIOUS
  <2>1. req[q].linked
    BY <1>7 DEF RequestFits
  <2>2. x # NoPair
    BY RequestAssumption
  <2>3. QED
    BY <1>1, <1>2, <1>7, <2>1, <2>2 DEF TablesInv, Storable, OfPair
<1>9. JobOK(w, x)'
  <2>1. row.linked => req[r].state # "declined"
    BY <1>2, <1>7 DEF OneRow
  <2>2. CancelOK(w, x)'
    BY <1>3, <1>5, <1>7, <1>8, <2>1 DEF CancelOK
  <2>3. QED
    BY <1>5, <2>2 DEF JobOK
<1>10. ASSUME NEW v \in Workers, v # w, x \in job[v].pairs
       PROVE  FirstOK(v, w, x)' /\ FirstOK(w, v, x)'
  <2>1. FirstOK(v, w, x)'
    BY <1>5 DEF FirstOK
  <2>2. job'[v] = job[v] /\ JobOK(v, x)
    BY <1>3, <1>7, <1>10 DEF Begin, PairOK
  <2>3. NeverDeclined(x)' = NeverDeclined(x)
    BY <1>3 DEF NeverDeclined, OfPair
  <2>4. job[v].op = "create" /\ job[v].ids = {} /\ NeverDeclined(x) => ~row.linked
    BY <1>2, <1>7, <2>2 DEF JobOK, CreateOK, OneRow
  <2>5. FirstOK(w, v, x)'
    BY <1>5, <2>2, <2>3, <2>4 DEF FirstOK
  <2>6. QED
    BY <2>1, <2>5
<1>11. QED
  BY <1>3, <1>6, <1>9, <1>10, Begun

(* What a cancellation is about.                                           *)
LEMMA CancelJob ==
    ASSUME TypeInv, TablesInv, NEW w \in Workers, job[w].op = "cancel"
    PROVE  \E x \in Pairs : \E row \in Reqs :
                /\ job[w].pairs = {x} /\ job[w].row = row /\ row.pair = x
                /\ job[w].ids \subseteq OfPair(x)
                /\ PairOK(x) /\ CancelOK(w, x)
<1>1. PICK row \in Reqs : row = job[w].row
  BY DEF TypeInv, RequestTypeOK, Jobs
<1>2. PICK x \in Pairs : x = row.pair
  BY <1>1 DEF TypeInv, RowsHavePairs
<1>3. job[w].pairs = {x} /\ job[w].ids \subseteq Ids
  BY <1>1, <1>2 DEF TablesInv, JobShape, TypeInv, RequestTypeOK, Jobs
<1>4. job[w].ids \subseteq OfPair(x)
  BY <1>3 DEF TablesInv, JobShape, OfPair
<1>5. PairOK(x) /\ CancelOK(w, x)
  BY <1>3 DEF TablesInv, PairOK, JobOK
<1>6. QED
  BY <1>1, <1>2, <1>3, <1>4, <1>5

LEMMA CheckCancelTables ==
    ASSUME Gentle, TypeInv, TypeInv', TablesInv, NEW w \in Workers, CheckCancel(w)
    PROVE  TablesInv'
<1>1. job[w].op = "cancel" /\ job[w].at = "start" /\ UNCHANGED <<req, asg>>
  BY DEF CheckCancel, At
<1>2. PICK x \in Pairs, row \in Reqs :
        /\ job[w].pairs = {x} /\ job[w].row = row /\ row.pair = x
        /\ job[w].ids \subseteq OfPair(x)
        /\ PairOK(x) /\ CancelOK(w, x)
  BY <1>1, CancelJob
<1>3. PICK found \in AsgStates : found = asg[x].state
  BY DEF TypeInv, RequestTypeOK, Asgs
<1>4. \/ End(w)
      \/ /\ row.linked /\ found \in Cancelable \cup {"cancelled"}
         /\ job' = [job EXCEPT ![w].at = "last", ![w].found = found]
  BY <1>2, <1>3 DEF CheckCancel
<1>5. CASE End(w)
  BY <1>1, <1>5, Ended
<1>6. CASE /\ row.linked /\ found \in Cancelable \cup {"cancelled"}
           /\ job' = [job EXCEPT ![w].at = "last", ![w].found = found]
  <2>1. /\ job'[w].op = job[w].op /\ job'[w].pairs = job[w].pairs
        /\ job'[w].ids = job[w].ids /\ job'[w].row = job[w].row
        /\ job'[w].valid = job[w].valid /\ job'[w].found = found
        /\ \A v \in Workers : v # w => job'[v] = job[v]
    BY <1>6 DEF TypeInv, RequestTypeOK, Jobs
  <2>2. OfPair(x)' = OfPair(x)
    BY <1>1 DEF OfPair
  <2>3. CancelOK(w, x)'
    <3>1. job'[w].row.linked => \A r \in job'[w].ids :
            /\ req'[r].state # "declined"
            /\ \A q \in OfPair(x)' : q # r => req'[q].state \notin {"approved", "accepted"}
      BY <1>1, <1>2, <2>1, <2>2 DEF CancelOK
    <3>2. /\ job'[w].row.linked /\ job'[w].found = found
          /\ found \in Cancelable \cup {"cancelled"} /\ asg'[x].state = found
      BY <1>1, <1>2, <1>3, <1>6, <2>1
    <3>3. QED
      BY <3>1, <3>2 DEF CancelOK
  <2>4. JobOK(w, x)'
    BY <1>1, <2>1, <2>3 DEF JobOK
  <2>5. QED
    BY <1>1, <1>2, <2>1, <2>4, GoesOn
<1>7. QED
  BY <1>4, <1>5, <1>6

LEMMA SaveCancelledTables ==
    ASSUME Gentle, TypeInv, TypeInv', TablesInv, NEW w \in Workers, SaveCancelled(w)
    PROVE  TablesInv'
<1>1. /\ job[w].op = "cancel" /\ job[w].at = "last" /\ End(w)
      /\ job'[w] = Idle /\ \A v \in Workers : v # w => job'[v] = job[v]
  BY EndType DEF SaveCancelled, At
<1>2. PICK x \in Pairs, row \in Reqs :
        /\ job[w].pairs = {x} /\ job[w].row = row /\ row.pair = x
        /\ job[w].ids \subseteq OfPair(x)
        /\ PairOK(x) /\ CancelOK(w, x)
  BY <1>1, CancelJob
<1>3. PICK r \in job[w].ids :
        \/ /\ req' = Whole(r, row, "cancelled") /\ Storable(req')
           /\ SetAsg(IF job[w].found \in Cancelable THEN job[w].pairs ELSE {}, "cancelled")
        \/ UNCHANGED <<req, asg>>
  BY <1>2 DEF SaveCancelled
<1>4. /\ row.linked /\ req[r].state # "declined"
      /\ \A q \in OfPair(x) : q # r => req[q].state \notin {"approved", "accepted"}
      /\ r \in OfPair(x) /\ r \in Ids
      /\ asg[x].state \in Cancelable \cup {"cancelled"}
      /\ job[w].found \in Cancelable \/ asg[x].state = "cancelled"
  BY <1>1, <1>2 DEF CancelOK, OfPair
<1>5. CASE UNCHANGED <<req, asg>>
  BY <1>1, <1>5, Ended
<1>6. CASE /\ req' = Whole(r, row, "cancelled") /\ Storable(req')
           /\ SetAsg(IF job[w].found \in Cancelable THEN job[w].pairs ELSE {}, "cancelled")
  <2>1. /\ req'[r].state = "cancelled" /\ req'[r].pair = x /\ req'[r].linked = TRUE
        /\ \A q \in Ids : q # r => req'[q] = req[q]
    BY <1>2, <1>4, <1>6, WholeRows DEF Reqs
  <2>2. asg'[x].state = "cancelled" /\ \A y \in Pairs : y # x => asg'[y].state = asg[y].state
    <3> DEFINE Y == IF job[w].found \in Cancelable THEN job[w].pairs ELSE {}
    <3>1. SetAsg(Y, "cancelled") /\ Y \subseteq {x}
      BY <1>2, <1>6
    <3>2. asg[x].state = "cancelled" \/ x \in Y
      BY <1>2, <1>4
    <3> HIDE DEF Y
    <3>3. \A y \in Pairs : asg'[y].state = IF y \in Y THEN "cancelled" ELSE asg[y].state
      BY <3>1, SetAsgStates
    <3>4. QED
      BY <3>1, <3>2, <3>3
  <2>3. req[r].pair = x
    BY <1>4 DEF OfPair
  <2>4. Outside({x})
    BY <1>1, <1>2, <1>4, <2>1, <2>2, <2>3 DEF Outside, Idle
  <2>5. OfPair(x)' = OfPair(x)
    BY <2>1, <2>3 DEF OfPair
  <2>6. NeverDeclined(x)' => NeverDeclined(x)
    BY <1>4, <2>1, <2>5 DEF NeverDeclined, OfPair
  <2>7. OneRow(x) /\ RequestFits(x) /\ AllocatedFits(x)
    BY <1>2 DEF PairOK
  <2>8. \A q \in OfPair(x) : q # r => req'[q] = req[q]
    BY <2>1 DEF OfPair
  <2>9. OneRow(x)'
    BY <2>1, <2>5, <2>6, <2>7, <2>8 DEF OneRow
  <2>10. RequestFits(x)' /\ AllocatedFits(x)'
    BY <1>4, <2>1, <2>2, <2>5, <2>8 DEF RequestFits, AllocatedFits, Cancelable
  <2>11. ASSUME NEW v \in Workers, x \in job'[v].pairs PROVE JobOK(v, x)'
    <3>1. v # w /\ job'[v] = job[v] /\ x \in job[v].pairs /\ JobOK(v, x)
      BY <1>1, <1>2, <2>11 DEF Idle, PairOK
    <3>2. job[v].op \in {"create", "cancel", "reverse"}
      BY <1>2, <3>1, Beside
    <3>3. job[v].ids \subseteq OfPair(x)
      <4>1. job[v].ids \subseteq Ids
        BY DEF TypeInv, RequestTypeOK, Jobs
      <4>2. QED
        BY <3>1, <3>2, <4>1 DEF TablesInv, JobShape, OfPair
    <3>4. CASE job[v].op = "create"
      <4>1. CreateOK(v, x) /\ FirstOK(w, v, x)
        BY <1>2, <3>1, <3>4 DEF JobOK, PairOK
      <4>2. ~(job[v].ids = {} /\ NeverDeclined(x))
        BY <1>1, <1>2, <1>4, <3>4, <4>1 DEF FirstOK
      <4>3. \A q \in job[v].ids : req'[q].state \in Reusable \cup {"requested"}
        BY <2>1, <2>8, <3>3, <4>1 DEF CreateOK, Reusable
      <4>4. CreateOK(v, x)'
        BY <2>6, <3>1, <4>1, <4>2, <4>3 DEF CreateOK
      <4>5. QED
        BY <3>1, <3>4, <4>4 DEF JobOK
    <3>5. CASE job[v].op = "cancel"
      <4>1. CancelOK(v, x)
        BY <3>1, <3>5 DEF JobOK
      <4>2. \A q \in job[v].ids : req[q].state # "declined" => req'[q].state # "declined"
        BY <2>1, <2>8, <3>3
      <4>3. \A q \in OfPair(x)' : q = r \/ (q \in OfPair(x) /\ req'[q] = req[q])
        BY <2>5, <2>8
      <4>4. req'[r].state \notin {"approved", "accepted"}
        BY <2>1
      <4>5. CancelOK(v, x)'
        BY <2>2, <3>1, <4>1, <4>2, <4>3, <4>4 DEF CancelOK
      <4>6. QED
        BY <3>1, <3>5, <4>5 DEF JobOK
    <3>6. CASE job[v].op = "reverse"
      <4>1. asg[x].state \in {"accepted", "reversed"}
        BY <3>1, <3>6 DEF JobOK, ReverseOK
      <4>2. QED
        BY <1>4, <4>1 DEF Cancelable
    <3>7. QED
      BY <3>2, <3>4, <3>5, <3>6
  <2>12. QED
    BY <1>1, <1>2, <1>6, <2>4, <2>9, <2>10, <2>11, SteppedOne
<1>7. QED
  BY <1>3, <1>5, <1>6

LEMMA ReadForDeclineTables ==
    ASSUME Gentle, TypeInv, TypeInv', TablesInv, NEW w \in Workers, NEW r \in Ids,
           ReadForDecline(w, r)
    PROVE  TablesInv'
<1>1. PICK x \in Pairs : x = req[r].pair
  BY DEF ReadForDecline, TypeInv, RowsHavePairs
<1>2. PICK row \in Reqs : row = req[r]
  BY DEF TypeInv, RequestTypeOK
<1>3. /\ Begin(w, "decline", {x}, {r}, row, "none") /\ UNCHANGED <<req, asg>>
      /\ req[r].state = "requested"
  BY <1>1, <1>2 DEF ReadForDecline
<1>4. job'[w] = [op |-> "decline", at |-> "start", pairs |-> {x}, ids |-> {r},
                 valid |-> {}, row |-> row, found |-> "none"]
  BY <1>3 DEF Begin, TypeInv, RequestTypeOK
<1>5. /\ job'[w].op = "decline" /\ job'[w].pairs = {x} /\ job'[w].ids = {r}
      /\ job'[w].valid = {} /\ job'[w].row = row
  BY <1>4
<1>6. JobShape(w)'
  BY <1>1, <1>2, <1>3, <1>5 DEF JobShape, Idle
<1>7. JobOK(w, x)'
  BY <1>2, <1>3, <1>5 DEF JobOK, DeclineOK
<1>8. \A v \in Workers : FirstOK(v, w, x)' /\ FirstOK(w, v, x)'
  BY <1>5 DEF FirstOK
<1>9. QED
  BY <1>3, <1>6, <1>7, <1>8, Begun

LEMMA SaveDeclinedTables ==
    ASSUME Gentle, TypeInv, TypeInv', TablesInv, NEW w \in Workers, SaveDeclined(w)
    PROVE  TablesInv'
<1>1. /\ job[w].op = "decline" /\ End(w) /\ UNCHANGED asg
      /\ job'[w] = Idle /\ \A v \in Workers : v # w => job'[v] = job[v]
  BY EndType DEF SaveDeclined, At
<1>2. PICK row \in Reqs : row = job[w].row
  BY DEF TypeInv, RequestTypeOK, Jobs
<1>3. PICK x \in Pairs : x = row.pair
  BY <1>1, <1>2 DEF TypeInv, RowsHavePairs
<1>4. job[w].pairs = {x} /\ job[w].ids \subseteq Ids
  BY <1>1, <1>2, <1>3 DEF TablesInv, JobShape, TypeInv, RequestTypeOK, Jobs
<1>5. PairOK(x) /\ DeclineOK(w)
  BY <1>1, <1>4 DEF TablesInv, PairOK, JobOK
<1>6. PICK r \in job[w].ids : req' = Whole(r, row, "declined")
  BY <1>2 DEF SaveDeclined
<1>7. r \in Ids /\ req[r] = row /\ req[r].state = "requested" /\ req[r].pair = x
  BY <1>2, <1>3, <1>4, <1>5 DEF DeclineOK
<1>8. ~req[r].linked
  BY <1>5, <1>7 DEF PairOK, OneRow, OfPair
<1>9. /\ req'[r].state = "declined" /\ req'[r].pair = x /\ req'[r].linked = FALSE
      /\ \A q \in Ids : q # r => req'[q] = req[q]
  BY <1>3, <1>6, <1>7, <1>8, WholeRows DEF Reqs
<1>10. Outside({x})
  BY <1>1, <1>4, <1>7, <1>9 DEF Outside, Idle
<1>11. Storable(req')
  <2>1. Storable(req)
    BY DEF TablesInv
  <2>2. \A q \in Ids : /\ req'[q].pair = req[q].pair
                       /\ req'[q].linked => req[q].linked
                       /\ req'[q].state \in Active => req[q].state \in Active
    BY <1>7, <1>9 DEF Active
  <2>3. QED
    BY <2>1, <2>2 DEF Storable
<1>12. OfPair(x)' = OfPair(x) /\ r \in OfPair(x) /\ \A q \in OfPair(x) : q # r => req'[q] = req[q]
  BY <1>7, <1>9 DEF OfPair
<1>13. ~NeverDeclined(x)' /\ ~NothingDeclined'
  BY <1>7, <1>9, <1>12 DEF NeverDeclined, NothingDeclined
<1>14. OneRow(x)'
  BY <1>5, <1>9, <1>12, <1>13 DEF PairOK, OneRow
<1>15. \A o \in {"redeem", "reverse"} : Doing(o, x) => Doing(o, x)'
  BY <1>1, StillDoing DEF At
<1>16. RequestFits(x)'
  BY <1>1, <1>5, <1>9, <1>12, <1>15 DEF PairOK, RequestFits
<1>17. AllocatedFits(x)'
  BY <1>13 DEF AllocatedFits
<1>18. \A v \in Workers : x \notin job'[v].pairs
  BY <1>1, <1>4, Nobody DEF Idle
<1>19. QED
  BY <1>1, <1>4, <1>10, <1>11, <1>14, <1>16, <1>17, <1>18, SteppedOne

LEMMA StartRedeemTables ==
    ASSUME Gentle, TypeInv, TypeInv', TablesInv, NEW w \in Workers, NEW x \in Pairs,
           StartRedeem(w, x)
    PROVE  TablesInv'
<1>1. PICK r \in LinkedTo(x) : Begin(w, "redeem", {x}, {r}, req[r], "allocated")
  BY DEF StartRedeem
<1>2. /\ r \in Ids /\ req[r].pair = x /\ req[r].linked /\ asg[x].state = "allocated"
      /\ UNCHANGED <<req, asg>>
  BY DEF LinkedTo, OfPair, StartRedeem, RequestCanRedeem
<1>3. PICK row \in Reqs : row = req[r]
  BY <1>2 DEF TypeInv, RequestTypeOK
<1>4. /\ Begin(w, "redeem", {x}, {r}, row, "allocated")
      /\ job'[w] = [op |-> "redeem", at |-> "start", pairs |-> {x}, ids |-> {r},
                    valid |-> {}, row |-> row, found |-> "allocated"]
  BY <1>1, <1>3 DEF Begin, TypeInv, RequestTypeOK
<1>5. /\ job'[w].op = "redeem" /\ job'[w].at = "start" /\ job'[w].pairs = {x}
      /\ job'[w].ids = {r} /\ job'[w].valid = {} /\ job'[w].row = row
  BY <1>4
<1>6. JobShape(w)'
  BY <1>2, <1>3, <1>5 DEF JobShape, Idle
<1>7. \A v \in Workers : x \notin job[v].pairs
  BY <1>4 DEF Begin, Gentle
<1>8. NeverDeclined(x) => req[r].state = "approved"
  BY <1>2, <1>7 DEF TablesInv, PairOK, AllocatedFits, Doing
<1>9. NeverDeclined(x)' = NeverDeclined(x)
  BY <1>2 DEF NeverDeclined, OfPair
<1>10. JobOK(w, x)'
  BY <1>2, <1>3, <1>5, <1>8, <1>9 DEF JobOK, RedeemOK
<1>11. QED
  BY <1>2, <1>4, <1>6, <1>7, <1>10, Begun

(* What a redemption is about.                                             *)
LEMMA RedeemJob ==
    ASSUME TypeInv, TablesInv, NEW w \in Workers, job[w].op = "redeem"
    PROVE  \E x \in Pairs : \E row \in Reqs : \E r \in Ids :
                /\ job[w].pairs = {x} /\ job[w].row = row /\ row.pair = x
                /\ job[w].ids = {r} /\ req[r] = row /\ row.linked
                /\ PairOK(x) /\ RedeemOK(w, x)
                /\ \A v \in Workers : x \in job[v].pairs => v = w
<1>1. PICK row \in Reqs : row = job[w].row
  BY DEF TypeInv, RequestTypeOK, Jobs
<1>2. PICK x \in Pairs : x = row.pair
  BY <1>1 DEF TypeInv, RowsHavePairs
<1>3. job[w].pairs = {x} /\ job[w].ids \subseteq Ids
  BY <1>1, <1>2 DEF TablesInv, JobShape, TypeInv, RequestTypeOK, Jobs
<1>4. PICK r \in Ids : job[w].ids = {r}
  BY <1>3 DEF TablesInv, JobShape
<1>5. PairOK(x) /\ RedeemOK(w, x)
  BY <1>3 DEF TablesInv, PairOK, JobOK
<1>6. req[r] = row /\ row.linked
  BY <1>1, <1>4, <1>5 DEF RedeemOK
<1>7. \A v \in Workers : x \in job[v].pairs => v = w
  BY <1>3, Nobody
<1>8. QED
  BY <1>1, <1>2, <1>3, <1>4, <1>5, <1>6, <1>7

LEMMA PayTables ==
    ASSUME Gentle, TypeInv, TypeInv', TablesInv, NEW w \in Workers, Pay(w)
    PROVE  TablesInv'
<1>1. job[w].op = "redeem" /\ job[w].at = "start" /\ UNCHANGED req
  BY DEF Pay, At
<1>2. PICK x \in Pairs, row \in Reqs, r \in Ids :
        /\ job[w].pairs = {x} /\ job[w].row = row /\ row.pair = x
        /\ job[w].ids = {r} /\ req[r] = row /\ row.linked
        /\ PairOK(x) /\ RedeemOK(w, x)
        /\ \A v \in Workers : x \in job[v].pairs => v = w
  BY <1>1, RedeemJob
<1>3. /\ OfPair(x)' = OfPair(x) /\ LinkedTo(x)' = LinkedTo(x)
      /\ NeverDeclined(x)' = NeverDeclined(x)
      /\ asg[x].state = "allocated" /\ ~Doing("reverse", x)
  BY <1>1, <1>2 DEF OfPair, LinkedTo, NeverDeclined, RedeemOK, Doing, At
<1>4. OneRow(x)' /\ RequestFits(x)
  BY <1>1, <1>2, <1>3 DEF PairOK, OneRow
<1>5. Storable(req')
  BY <1>1 DEF TablesInv
<1>6. CASE SetAsg(job[w].pairs, "accepted") /\ Goto(w, "last")
  <2>1. /\ job'[w].op = job[w].op /\ job'[w].ids = job[w].ids
        /\ job'[w].row = job[w].row /\ job'[w].pairs = job[w].pairs
        /\ job'[w].valid = job[w].valid /\ job'[w].at = "last"
        /\ \A v \in Workers : v # w => job'[v] = job[v]
    BY <1>6 DEF Goto, TypeInv, RequestTypeOK, Jobs
  <2>2. /\ asg'[x].state = "accepted"
        /\ \A y \in Pairs : y # x => asg'[y].state = asg[y].state
    BY <1>2, <1>6, SetAsgStates
  <2>3. Outside({x})
    BY <1>1, <1>2, <2>1, <2>2 DEF Outside
  <2>4. Doing("redeem", x)'
    BY <1>1, <1>2, <2>1 DEF Doing, At
  <2>5. RequestFits(x)' /\ AllocatedFits(x)'
    BY <1>1, <1>3, <1>4, <2>2, <2>4 DEF RequestFits, AllocatedFits
  <2>6. RedeemOK(w, x)'
    BY <1>1, <1>2, <1>3, <2>1, <2>2 DEF RedeemOK
  <2>7. \A v \in Workers : x \in job'[v].pairs => JobOK(v, x)'
    BY <1>1, <1>2, <2>1, <2>6 DEF JobOK
  <2>8. job'[w].valid \subseteq job[w].ids
    BY <2>1 DEF TablesInv, JobShape
  <2>9. QED
    BY <1>1, <1>2, <1>4, <1>5, <2>1, <2>3, <2>5, <2>7, <2>8, SteppedOne
<1>7. CASE SetAsg(job[w].pairs, "errored") /\ End(w)
  <2>1. job'[w] = Idle /\ \A v \in Workers : v # w => job'[v] = job[v]
    BY <1>7, EndType
  <2>2. /\ asg'[x].state = "errored"
        /\ \A y \in Pairs : y # x => asg'[y].state = asg[y].state
    BY <1>2, <1>7, SetAsgStates
  <2>3. Outside({x})
    BY <1>1, <1>2, <2>1, <2>2 DEF Outside, Idle
  <2>4. RequestFits(x)' /\ AllocatedFits(x)'
    BY <1>1, <1>3, <1>4, <2>2 DEF RequestFits, AllocatedFits
  <2>5. \A v \in Workers : x \notin job'[v].pairs
    BY <1>2, <2>1 DEF Idle
  <2>6. QED
    BY <1>2, <1>4, <1>5, <2>1, <2>3, <2>4, <2>5, SteppedOne
<1>8. QED
  BY <1>6, <1>7 DEF Pay

LEMMA SaveAcceptedTables ==
    ASSUME Gentle, TypeInv, TypeInv', TablesInv, NEW w \in Workers, SaveAccepted(w)
    PROVE  TablesInv'
<1>1. /\ job[w].op = "redeem" /\ job[w].at = "last" /\ UNCHANGED asg /\ End(w)
      /\ job'[w] = Idle /\ \A v \in Workers : v # w => job'[v] = job[v]
  BY EndType DEF SaveAccepted, At
<1>2. PICK x \in Pairs, row \in Reqs, r \in Ids :
        /\ job[w].pairs = {x} /\ job[w].row = row /\ row.pair = x
        /\ job[w].ids = {r} /\ req[r] = row /\ row.linked
        /\ PairOK(x) /\ RedeemOK(w, x)
        /\ \A v \in Workers : x \in job[v].pairs => v = w
  BY <1>1, RedeemJob
<1> DEFINE new == Whole(r, row, "accepted")
<1>3. \/ req' = new /\ Storable(req')
      \/ UNCHANGED req /\ ~Storable(new)
  BY <1>2 DEF SaveAccepted
<1>4. /\ asg[x].state = "accepted" /\ r \in OfPair(x) /\ OfPair(x) \subseteq Ids
      /\ Storable(req) /\ x # NoPair
  BY <1>1, <1>2, RequestAssumption DEF RedeemOK, OfPair, TablesInv
<1>5. /\ \A q \in OfPair(x) : q # r => ~req[q].linked
  BY <1>2, <1>4 DEF Storable, OfPair
<1>6. \A q \in OfPair(x) : req[q].state \in {"approved", "accepted"} => q = r
  BY <1>2, <1>5 DEF PairOK, RequestFits
<1>7. \A v \in Workers : x \notin job'[v].pairs
  BY <1>1, <1>2 DEF Idle
<1>8. AllocatedFits(x)'
  BY <1>1, <1>4 DEF AllocatedFits
<1> HIDE DEF new
<1>9. CASE UNCHANGED req /\ ~Storable(new)
  <2>1. Outside({x})
    BY <1>1, <1>2, <1>9 DEF Outside, Idle
  <2>2. req[r].state # "approved"
    <3> SUFFICES ASSUME req[r].state = "approved" PROVE Storable(new)
      BY <1>9
    <3>1. /\ new[r].pair = req[r].pair /\ new[r].linked = req[r].linked
          /\ \A q \in Ids : q # r => new[q] = req[q]
      BY <1>2 DEF new, Whole, Reqs, TypeInv, RequestTypeOK
    <3>2. \A q \in Ids : /\ new[q].pair = req[q].pair /\ new[q].linked = req[q].linked
                         /\ new[q].state \in Active => req[q].state \in Active
      BY <3>1 DEF Active
    <3>3. QED
      BY <1>4, <3>2 DEF Storable
  <2>3. OfPair(x)' = OfPair(x) /\ NeverDeclined(x)' = NeverDeclined(x)
    BY <1>9 DEF OfPair, NeverDeclined
  <2>4. OneRow(x)'
    BY <1>2, <1>9, <2>3 DEF PairOK, OneRow
  <2>5. RequestFits(x)'
    BY <1>1, <1>2, <1>4, <1>6, <1>9, <2>2, <2>3 DEF PairOK, RequestFits
  <2>6. Storable(req')
    BY <1>4, <1>9
  <2>7. QED
    BY <1>1, <1>2, <1>7, <1>8, <2>1, <2>4, <2>5, <2>6, SteppedOne
<1>10. CASE req' = new /\ Storable(req')
  <2>1. /\ req'[r].state = "accepted" /\ req'[r].pair = x /\ req'[r].linked = TRUE
        /\ \A q \in Ids : q # r => req'[q] = req[q]
    BY <1>2, <1>10, WholeRows DEF new, Reqs
  <2>2. OfPair(x)' = OfPair(x)
    BY <1>2, <2>1 DEF OfPair
  <2>3. \A q \in OfPair(x) : q # r => req'[q] = req[q]
    BY <1>4, <2>1
  <2>4. req[r].state # "declined"
    BY <1>2, <1>4 DEF PairOK, OneRow
  <2>5. Outside({x})
    BY <1>1, <1>2, <2>1, <2>4 DEF Outside, Idle
  <2>6. NeverDeclined(x)' => NeverDeclined(x)
    BY <1>4, <2>1, <2>2, <2>3, <2>4 DEF NeverDeclined
  <2>7. OneRow(x)'
    BY <1>2, <2>1, <2>2, <2>3, <2>6 DEF PairOK, OneRow
  <2>8. RequestFits(x)'
    BY <1>1, <1>4, <1>6, <2>1, <2>2, <2>3 DEF RequestFits
  <2>9. QED
    BY <1>1, <1>2, <1>7, <1>8, <1>10, <2>5, <2>7, <2>8, SteppedOne
<1>11. QED
  BY <1>3, <1>9, <1>10

LEMMA ReadForExpireTables ==
    ASSUME Gentle, TypeInv, TypeInv', TablesInv, NEW w \in Workers, NEW x \in Pairs,
           ReadForExpire(w, x)
    PROVE  TablesInv'
<1>1. asg[x].state = "allocated" /\ UNCHANGED <<req, asg>>
  BY DEF ReadForExpire
<1>2. ASSUME NEW R \in SUBSET LinkedTo(x), NEW row \in Reqs,
             Begin(w, "expire", {x}, R, row, "allocated"),
             \A r \in R : req[r] = row /\ R = {r},
             R = {} => LinkedTo(x) = {}
      PROVE  TablesInv'
  <2>1. job'[w] = [op |-> "expire", at |-> "start", pairs |-> {x}, ids |-> R,
                   valid |-> {}, row |-> row, found |-> "allocated"]
    BY <1>2 DEF Begin, TypeInv, RequestTypeOK
  <2>2. /\ job'[w].op = "expire" /\ job'[w].at = "start" /\ job'[w].pairs = {x}
        /\ job'[w].ids = R /\ job'[w].valid = {} /\ job'[w].row = row
    BY <2>1
  <2>3. \A r \in R : req[r].pair = x /\ req[r].linked /\ r \in Ids
    BY DEF LinkedTo, OfPair
  <2>4. JobShape(w)'
    BY <1>1, <1>2, <2>2, <2>3 DEF JobShape, Idle
  <2>5. LinkedTo(x)' = LinkedTo(x)
    BY <1>1 DEF LinkedTo, OfPair
  <2>6. JobOK(w, x)'
    BY <1>1, <1>2, <2>2, <2>3, <2>5 DEF JobOK, ExpireOK
  <2>7. \A v \in Workers : x \notin job[v].pairs
    BY <1>2 DEF Begin, Gentle
  <2>8. QED
    BY <1>1, <1>2, <2>4, <2>6, <2>7, Begun
<1>3. CASE LinkedTo(x) = {} /\ Begin(w, "expire", {x}, {}, NoReq, "allocated")
  <2>1. NoReq \in Reqs
    BY NamesTyped DEF NoReq, Reqs
  <2>2. QED
    BY <1>2, <1>3, <2>1
<1>4. CASE \E r \in LinkedTo(x) : Begin(w, "expire", {x}, {r}, req[r], "allocated")
  <2>1. PICK r \in LinkedTo(x) : Begin(w, "expire", {x}, {r}, req[r], "allocated")
    BY <1>4
  <2>2. PICK row \in Reqs : row = req[r]
    BY DEF LinkedTo, OfPair, TypeInv, RequestTypeOK
  <2>3. QED
    BY <1>2, <2>1, <2>2
<1>5. QED
  BY <1>3, <1>4 DEF ReadForExpire

(* What an expiration is about.                                            *)
LEMMA ExpireJob ==
    ASSUME TypeInv, TablesInv, NEW w \in Workers, NEW x \in job[w].pairs,
           job[w].op = "expire"
    PROVE  /\ x \in Pairs /\ job[w].pairs = {x}
           /\ job[w].ids \subseteq OfPair(x) /\ OfPair(x) \subseteq Ids
           /\ PairOK(x) /\ ExpireOK(w, x)
           /\ \A v \in Workers : x \in job[v].pairs => v = w
<1>1. x \in Pairs /\ job[w].pairs = {x} /\ job[w].ids \subseteq Ids
  BY DEF TypeInv, RequestTypeOK, Jobs, TablesInv, JobShape
<1>2. job[w].ids \subseteq OfPair(x) /\ OfPair(x) \subseteq Ids
  BY <1>1 DEF TablesInv, JobShape, OfPair
<1>3. PairOK(x) /\ ExpireOK(w, x)
  BY <1>1 DEF TablesInv, PairOK, JobOK
<1>4. \A v \in Workers : x \in job[v].pairs => v = w
  BY <1>1, Nobody
<1>5. QED
  BY <1>1, <1>2, <1>3, <1>4

(* Its request is the only one that could be approved or accepted.         *)
LEMMA OnlyLinked ==
    ASSUME TypeInv, TablesInv, NEW x \in Pairs, NEW r \in LinkedTo(x), NEW q \in OfPair(x),
           q # r
    PROVE  req[q].state \notin {"approved", "accepted"} /\ ~req[q].linked
<1>1. /\ r \in Ids /\ q \in Ids /\ req[r].pair = x /\ req[q].pair = x /\ req[r].linked
      /\ x # NoPair
  BY RequestAssumption DEF LinkedTo, OfPair
<1>2. ~req[q].linked
  BY <1>1 DEF TablesInv, Storable
<1>3. QED
  BY <1>2 DEF TablesInv, PairOK, RequestFits

LEMMA ExpireRequestTables ==
    ASSUME Gentle, TypeInv, TypeInv', TablesInv, NEW w \in Workers, ExpireRequest(w)
    PROVE  TablesInv'
<1>1. job[w].op = "expire" /\ job[w].at = "start" /\ UNCHANGED asg
  BY DEF ExpireRequest, At
<1>2. ASSUME UNCHANGED req, End(w) PROVE TablesInv'
  BY <1>1, <1>2, Ended
<1>3. CASE job[w].pairs = {}
  <2>1. job[w].ids = {} /\ Goto(w, "last") /\ UNCHANGED req
    BY <1>1, <1>3 DEF ExpireRequest, TablesInv, JobShape
  <2>2. /\ job'[w].op = job[w].op /\ job'[w].ids = job[w].ids
        /\ job'[w].row = job[w].row /\ job'[w].pairs = job[w].pairs
        /\ job'[w].valid = job[w].valid
        /\ \A v \in Workers : v # w => job'[v] = job[v]
    BY <2>1, GotoType
  <2>3. Outside(job[w].pairs)
    BY <1>1, <1>3, <2>1, <2>2 DEF Outside
  <2>4. Storable(req') /\ job[w].valid \subseteq job[w].ids
    BY <2>1 DEF TablesInv, JobShape
  <2>5. QED
    BY <1>1, <1>3, <2>2, <2>3, <2>4, Stepped
<1>4. ASSUME NEW x \in job[w].pairs PROVE TablesInv'
  <2>1. /\ x \in Pairs /\ job[w].pairs = {x}
        /\ job[w].ids \subseteq OfPair(x) /\ OfPair(x) \subseteq Ids
        /\ PairOK(x) /\ ExpireOK(w, x)
        /\ \A v \in Workers : x \in job[v].pairs => v = w
    BY <1>1, ExpireJob
  <2>2. ASSUME Goto(w, "last")
        PROVE  /\ job'[w].op = job[w].op /\ job'[w].ids = job[w].ids
               /\ job'[w].row = job[w].row /\ job'[w].pairs = job[w].pairs
               /\ job'[w].valid = job[w].valid /\ job'[w].at = "last"
               /\ \A v \in Workers : v # w => job'[v] = job[v]
    BY <2>2 DEF Goto, TypeInv, RequestTypeOK, Jobs
  <2>3. CASE job[w].ids = {} /\ Goto(w, "last") /\ UNCHANGED req
    <3>1. LinkedTo(x) = {}
      BY <1>1, <2>1, <2>3 DEF ExpireOK
    <3>2. \A r \in OfPair(x) : req[r].state \notin {"approved", "accepted"}
      BY <2>1, <3>1 DEF PairOK, RequestFits, LinkedTo
    <3>3. OfPair(x)' = OfPair(x)
      BY <2>3 DEF OfPair
    <3>4. JobOK(w, x)'
      BY <1>1, <2>2, <2>3, <3>2, <3>3 DEF JobOK, ExpireOK
    <3>5. QED
      BY <1>1, <2>1, <2>2, <2>3, <3>4, GoesOn
  <2>4. ASSUME NEW r \in job[w].ids,
               req' = Whole(r, job[w].row, "expired"), Storable(req'), Goto(w, "last")
        PROVE  TablesInv'
    <3>1. PICK row \in Reqs : row = job[w].row
      BY DEF TypeInv, RequestTypeOK, Jobs
    <3>2. /\ r \in OfPair(x) /\ r \in Ids /\ req[r] = row /\ row.linked /\ row.pair = x
          /\ r \in LinkedTo(x)
      BY <1>1, <2>1, <3>1 DEF ExpireOK, OfPair, LinkedTo
    <3>3. /\ req'[r].state = "expired" /\ req'[r].pair = x /\ req'[r].linked = TRUE
          /\ \A q \in Ids : q # r => req'[q] = req[q]
      BY <2>4, <3>1, <3>2, WholeRows DEF Reqs
    <3>4. OfPair(x)' = OfPair(x) /\ \A q \in OfPair(x) : q # r => req'[q] = req[q]
      BY <2>1, <3>2, <3>3 DEF OfPair
    <3>5. req[r].state # "declined"
      BY <2>1, <3>2 DEF PairOK, OneRow
    <3>6. Outside({x})
      BY <1>1, <2>1, <2>2, <2>4, <3>2, <3>3, <3>5 DEF Outside
    <3>7. NeverDeclined(x)' => NeverDeclined(x)
      BY <3>4, <3>5 DEF NeverDeclined
    <3>8. OneRow(x)'
      BY <2>1, <3>3, <3>4, <3>7 DEF PairOK, OneRow
    <3>9. \A q \in OfPair(x) : req'[q].state \notin {"approved", "accepted"}
      BY <2>1, <3>2, <3>3, <3>4, OnlyLinked
    <3>10. Doing("expire", x)'
      BY <1>1, <2>1, <2>2, <2>4 DEF Doing, At
    <3>11. RequestFits(x)' /\ AllocatedFits(x)'
      BY <3>4, <3>9, <3>10 DEF RequestFits, AllocatedFits
    <3>12. JobOK(w, x)'
      BY <1>1, <2>2, <2>4, <3>4, <3>9 DEF JobOK, ExpireOK
    <3>13. \A v \in Workers : x \in job'[v].pairs => JobOK(v, x)'
      BY <2>1, <2>2, <2>4, <3>12
    <3>14. job'[w].valid \subseteq job[w].ids
      BY <2>2, <2>4 DEF TablesInv, JobShape
    <3>15. QED
      BY <1>1, <2>1, <2>2, <2>4, <3>6, <3>8, <3>11, <3>13, <3>14, SteppedOne
  <2>5. QED
    BY <1>2, <2>3, <2>4 DEF ExpireRequest
<1>5. QED
  BY <1>3, <1>4

LEMMA ExpireAssignmentTables ==
    ASSUME Gentle, TypeInv, TypeInv', TablesInv, NEW w \in Workers, ExpireAssignment(w)
    PROVE  TablesInv'
<1>1. /\ job[w].op = "expire" /\ job[w].at = "last" /\ UNCHANGED req
      /\ SetAsg(job[w].pairs, "expired") /\ End(w)
      /\ job'[w] = Idle /\ \A v \in Workers : v # w => job'[v] = job[v]
  BY EndType DEF ExpireAssignment, At
<1>2. \A y \in Pairs : asg'[y].state = IF y \in job[w].pairs THEN "expired" ELSE asg[y].state
  BY <1>1, SetAsgStates
<1>3. Outside(job[w].pairs)
  BY <1>1, <1>2 DEF Outside, Idle
<1>4. Storable(req')
  BY <1>1 DEF TablesInv
<1>5. ASSUME NEW x \in job[w].pairs
      PROVE  OneRow(x)' /\ RequestFits(x)' /\ AllocatedFits(x)'
  <2>1. x \in Pairs /\ PairOK(x) /\ ExpireOK(w, x)
    BY <1>1, ExpireJob
  <2>2. asg'[x].state = "expired"
    BY <1>2, <2>1
  <2>3. OfPair(x)' = OfPair(x) /\ NeverDeclined(x)' = NeverDeclined(x)
    BY <1>1 DEF OfPair, NeverDeclined
  <2>4. OneRow(x)'
    BY <1>1, <2>1, <2>3 DEF PairOK, OneRow
  <2>5. RequestFits(x)' /\ AllocatedFits(x)'
    BY <1>1, <2>1, <2>2, <2>3 DEF ExpireOK, RequestFits, AllocatedFits
  <2>6. QED
    BY <2>4, <2>5
<1>6. \A v \in Workers : job[w].pairs \cap job'[v].pairs = {}
  BY <1>1, ExpireJob DEF Idle
<1>7. QED
  BY <1>1, <1>3, <1>4, <1>5, <1>6, Stepped

LEMMA ReadForReverseTables ==
    ASSUME Gentle, TypeInv, TypeInv', TablesInv, NEW w \in Workers, NEW x \in Pairs,
           ReadForReverse(w, x)
    PROVE  TablesInv'
<1>1. PICK R \in SUBSET Ids : R = LinkedTo(x)
  BY DEF LinkedTo, OfPair
<1>2. /\ asg[x].state = "accepted" /\ UNCHANGED <<req, asg>>
      /\ Begin(w, "reverse", {x}, R, NoReq, "accepted")
  BY <1>1 DEF ReadForReverse
<1>3. job'[w] = [op |-> "reverse", at |-> "start", pairs |-> {x}, ids |-> R,
                 valid |-> {}, row |-> NoReq, found |-> "accepted"]
  BY <1>2 DEF Begin, TypeInv, RequestTypeOK
<1>4. /\ job'[w].op = "reverse" /\ job'[w].at = "start" /\ job'[w].pairs = {x}
      /\ job'[w].ids = R /\ job'[w].valid = {}
  BY <1>3
<1>5. JobShape(w)'
  BY <1>1, <1>2, <1>4 DEF JobShape, Idle, LinkedTo, OfPair
<1>6. /\ OneRow(x) /\ RequestFits(x) /\ OfPair(x)' = OfPair(x)
      /\ NeverDeclined(x)' = NeverDeclined(x)
  BY <1>2 DEF TablesInv, PairOK, OfPair, NeverDeclined
<1>7. ~Doing("redeem", x)
  BY <1>2 DEF Begin, Gentle, Doing, At
<1>8. JobOK(w, x)'
  <2>1. \A r \in OfPair(x) : req[r].state # "approved"
    BY <1>2, <1>6, <1>7 DEF RequestFits
  <2>2. \A r \in OfPair(x) : req[r].state = "accepted" => r \in R
    BY <1>1, <1>6 DEF RequestFits, LinkedTo
  <2>3. \A r \in R : req[r].state # "declined"
    BY <1>1, <1>6 DEF OneRow, LinkedTo
  <2>4. ReverseOK(w, x)'
    BY <1>2, <1>4, <1>6, <2>1, <2>2, <2>3 DEF ReverseOK
  <2>5. QED
    BY <1>4, <2>4 DEF JobOK
<1>9. ASSUME NEW v \in Workers, v # w, x \in job[v].pairs
      PROVE  FirstOK(v, w, x)' /\ FirstOK(w, v, x)'
  <2>1. FirstOK(v, w, x)'
    BY <1>4 DEF FirstOK
  <2>2. job'[v] = job[v] /\ JobOK(v, x)
    BY <1>2, <1>9 DEF Begin, TablesInv, PairOK
  <2>3. job[v].op = "create" /\ job[v].ids = {} /\ NeverDeclined(x) => R = {}
    BY <1>1, <1>6, <2>2 DEF JobOK, CreateOK, OneRow, LinkedTo
  <2>4. FirstOK(w, v, x)'
    BY <1>4, <1>6, <2>2, <2>3 DEF FirstOK
  <2>5. QED
    BY <2>1, <2>4
<1>10. QED
  BY <1>2, <1>5, <1>8, <1>9, Begun

(* What a reversal is about.                                               *)
LEMMA ReverseJob ==
    ASSUME TypeInv, TablesInv, NEW w \in Workers, NEW x \in job[w].pairs,
           job[w].op = "reverse"
    PROVE  /\ x \in Pairs /\ job[w].pairs = {x}
           /\ job[w].ids \subseteq OfPair(x) /\ OfPair(x) \subseteq Ids
           /\ PairOK(x) /\ ReverseOK(w, x)
<1>1. x \in Pairs /\ job[w].pairs = {x} /\ job[w].ids \subseteq Ids
  BY DEF TypeInv, RequestTypeOK, Jobs, TablesInv, JobShape
<1>2. job[w].ids \subseteq OfPair(x) /\ OfPair(x) \subseteq Ids
  BY <1>1 DEF TablesInv, JobShape, OfPair
<1>3. PairOK(x) /\ ReverseOK(w, x)
  BY <1>1 DEF TablesInv, PairOK, JobOK
<1>4. QED
  BY <1>1, <1>2, <1>3

LEMMA ReverseAssignmentTables ==
    ASSUME Gentle, TypeInv, TypeInv', TablesInv, NEW w \in Workers, ReverseAssignment(w)
    PROVE  TablesInv'
<1>1. /\ job[w].op = "reverse" /\ job[w].at = "start" /\ UNCHANGED req
      /\ SetAsg(job[w].pairs, "reversed")
      /\ job'[w].op = job[w].op /\ job'[w].ids = job[w].ids
      /\ job'[w].row = job[w].row /\ job'[w].pairs = job[w].pairs
      /\ job'[w].valid = job[w].valid /\ job'[w].at = "last"
      /\ \A v \in Workers : v # w => job'[v] = job[v]
  BY DEF ReverseAssignment, At, Goto, TypeInv, RequestTypeOK, Jobs
<1>2. \A y \in Pairs : asg'[y].state = IF y \in job[w].pairs THEN "reversed" ELSE asg[y].state
  BY <1>1, SetAsgStates
<1>3. Outside(job[w].pairs)
  BY <1>1, <1>2 DEF Outside
<1>4. Storable(req') /\ job[w].valid \subseteq job[w].ids
  BY <1>1 DEF TablesInv, JobShape
<1>5. ASSUME NEW x \in job[w].pairs
      PROVE  /\ OneRow(x)' /\ RequestFits(x)' /\ AllocatedFits(x)'
             /\ \A v \in Workers : x \in job'[v].pairs => JobOK(v, x)'
  <2>1. x \in Pairs /\ PairOK(x) /\ ReverseOK(w, x) /\ x \in job'[w].pairs
    BY <1>1, ReverseJob
  <2>2. asg'[x].state = "reversed"
    BY <1>2, <2>1
  <2>3. OfPair(x)' = OfPair(x) /\ NeverDeclined(x)' = NeverDeclined(x)
    BY <1>1 DEF OfPair, NeverDeclined
  <2>4. OneRow(x)'
    BY <1>1, <2>1, <2>3 DEF PairOK, OneRow
  <2>5. Doing("reverse", x)'
    BY <1>1, <2>1 DEF Doing, At
  <2>6. RequestFits(x)'
    BY <1>1, <2>1, <2>3, <2>5 DEF PairOK, ReverseOK, RequestFits
  <2>7. AllocatedFits(x)'
    BY <2>2 DEF AllocatedFits
  <2>8. ASSUME NEW v \in Workers, x \in job'[v].pairs PROVE JobOK(v, x)'
    <3>1. CASE v = w
      <4>1. ReverseOK(w, x)'
        BY <1>1, <2>1, <2>2, <2>3 DEF ReverseOK
      <4>2. QED
        BY <1>1, <3>1, <4>1 DEF JobOK
    <3>2. CASE v # w
      <4>1. job'[v] = job[v] /\ x \in job[v].pairs /\ JobOK(v, x)
        BY <1>1, <2>1, <2>8, <3>2 DEF PairOK
      <4>2. job[v].op \in {"create", "cancel", "reverse"}
        BY <3>2, <4>1, Beside
      <4>3. CASE job[v].op = "create"
        BY <1>1, <2>3, <4>1, <4>3 DEF JobOK, CreateOK
      <4>4. CASE job[v].op = "cancel"
        <5>1. CancelOK(v, x) /\ asg[x].state \in {"accepted", "reversed"}
          BY <2>1, <4>1, <4>4 DEF JobOK, ReverseOK
        <5>2. job[v].at # "last"
          BY <5>1 DEF CancelOK, Cancelable
        <5>3. CancelOK(v, x)'
          BY <1>1, <2>3, <4>1, <5>1, <5>2 DEF CancelOK
        <5>4. QED
          BY <4>1, <4>4, <5>3 DEF JobOK
      <4>5. CASE job[v].op = "reverse"
        <5>1. ReverseOK(v, x)
          BY <4>1, <4>5 DEF JobOK
        <5>2. ReverseOK(v, x)'
          BY <1>1, <2>2, <2>3, <4>1, <5>1 DEF ReverseOK
        <5>3. QED
          BY <4>1, <4>5, <5>2 DEF JobOK
      <4>6. QED
        BY <4>2, <4>3, <4>4, <4>5
    <3>3. QED
      BY <3>1, <3>2
  <2>9. QED
    BY <2>4, <2>6, <2>7, <2>8
<1>6. QED
  BY <1>1, <1>3, <1>4, <1>5, Stepped

LEMMA ReverseRequestTables ==
    ASSUME Gentle, TypeInv, TypeInv', TablesInv, NEW w \in Workers, ReverseRequest(w)
    PROVE  TablesInv'
<1>1. /\ job[w].op = "reverse" /\ job[w].at = "last" /\ UNCHANGED asg
      /\ job'[w] = Idle /\ \A v \in Workers : v # w => job'[v] = job[v]
  BY EndType DEF ReverseRequest, At
<1>2. PICK R \in SUBSET Ids : R = job[w].ids
  BY DEF TypeInv, RequestTypeOK, Jobs
<1>3. /\ \A r \in R : /\ req'[r].state = "reversed" /\ req'[r].pair = req[r].pair
                      /\ req'[r].linked = req[r].linked
      /\ \A r \in Ids : r \notin R => req'[r] = req[r]
  BY <1>2 DEF ReverseRequest, TypeInv, RequestTypeOK, Reqs
<1>4. \A x \in job[w].pairs : /\ x \in Pairs /\ job[w].pairs = {x}
                              /\ R \subseteq OfPair(x) /\ OfPair(x) \subseteq Ids
                              /\ PairOK(x) /\ ReverseOK(w, x)
  BY <1>1, <1>2, ReverseJob
<1>5. \A r \in R : req[r].pair \in job[w].pairs /\ req[r].state # "declined"
  BY <1>2, <1>4 DEF TablesInv, JobShape, ReverseOK
<1>6. Outside(job[w].pairs)
  BY <1>1, <1>3, <1>5 DEF Outside, Idle
<1>7. Storable(req')
  <2>1. \A q \in Ids : /\ req'[q].pair = req[q].pair
                       /\ req'[q].linked => req[q].linked
                       /\ req'[q].state \in Active => req[q].state \in Active
    BY <1>3 DEF Active
  <2>2. Storable(req)
    BY DEF TablesInv
  <2>3. QED
    BY <2>1, <2>2 DEF Storable
<1>8. ASSUME NEW x \in job[w].pairs
      PROVE  /\ OneRow(x)' /\ RequestFits(x)' /\ AllocatedFits(x)'
             /\ \A v \in Workers : x \in job'[v].pairs => JobOK(v, x)'
  <2>1. /\ x \in Pairs /\ R \subseteq OfPair(x) /\ OfPair(x) \subseteq Ids
        /\ PairOK(x) /\ ReverseOK(w, x)
    BY <1>4
  <2>2. OfPair(x)' = OfPair(x)
    BY <1>3 DEF OfPair
  <2>3. /\ \A q \in OfPair(x) : q \notin R => req'[q] = req[q]
        /\ \A q \in R : req'[q].state = "reversed" /\ req'[q].linked = req[q].linked
    BY <1>3, <2>1
  <2>4. NeverDeclined(x)' => NeverDeclined(x)
    BY <1>5, <2>2, <2>3 DEF NeverDeclined
  <2>5. OneRow(x)'
    BY <2>1, <2>2, <2>3, <2>4 DEF PairOK, OneRow
  <2>6. asg[x].state = "reversed" /\ asg'[x].state = "reversed"
    BY <1>1, <2>1 DEF ReverseOK
  <2>7. \A q \in OfPair(x) : req'[q].state \notin {"approved", "accepted"}
    BY <1>2, <2>1, <2>3 DEF ReverseOK
  <2>8. RequestFits(x)' /\ AllocatedFits(x)'
    BY <2>2, <2>6, <2>7 DEF RequestFits, AllocatedFits
  <2>9. ASSUME NEW v \in Workers, x \in job'[v].pairs PROVE JobOK(v, x)'
    <3>1. v # w /\ job'[v] = job[v] /\ x \in job[v].pairs /\ JobOK(v, x)
      BY <1>1, <2>1, <2>9 DEF Idle, PairOK
    <3>2. job[v].op \in {"create", "cancel", "reverse"}
      BY <3>1, Beside
    <3>3. job[v].ids \subseteq OfPair(x)
      BY <3>1, <3>2, <2>1 DEF TablesInv, JobShape, OfPair, TypeInv, RequestTypeOK, Jobs
    <3>4. CASE job[v].op = "create"
      <4>1. CreateOK(v, x) /\ FirstOK(w, v, x)
        BY <2>1, <3>1, <3>4 DEF JobOK, PairOK
      <4>2. \A q \in job[v].ids : req'[q].state \in Reusable \cup {"requested"}
        BY <2>3, <3>3, <4>1 DEF CreateOK, Reusable
      <4>3. job[v].ids = {} /\ NeverDeclined(x)' =>
                \A q \in OfPair(x)' : req'[q].state = "requested"
        BY <1>1, <1>2, <2>2, <2>3, <2>4, <3>4, <4>1 DEF CreateOK, FirstOK
      <4>4. CreateOK(v, x)'
        BY <3>1, <4>1, <4>2, <4>3 DEF CreateOK
      <4>5. QED
        BY <3>1, <3>4, <4>4 DEF JobOK
    <3>5. CASE job[v].op = "cancel"
      <4>1. CancelOK(v, x)
        BY <3>1, <3>5 DEF JobOK
      <4>2. \A q \in job[v].ids : req[q].state # "declined" => req'[q].state # "declined"
        BY <2>3, <3>3
      <4>3. CancelOK(v, x)'
        BY <1>1, <2>2, <2>7, <3>1, <4>1, <4>2 DEF CancelOK
      <4>4. QED
        BY <3>1, <3>5, <4>3 DEF JobOK
    <3>6. CASE job[v].op = "reverse"
      <4>1. ReverseOK(v, x)
        BY <3>1, <3>6 DEF JobOK
      <4>2. \A q \in job[v].ids : req'[q].state # "declined"
        BY <2>3, <3>3, <4>1 DEF ReverseOK
      <4>3. ReverseOK(v, x)'
        BY <2>2, <2>6, <2>7, <3>1, <4>2 DEF ReverseOK
      <4>4. QED
        BY <3>1, <3>6, <4>3 DEF JobOK
    <3>7. QED
      BY <3>2, <3>4, <3>5, <3>6
  <2>10. QED
    BY <2>5, <2>8, <2>9
<1>9. QED
  BY <1>1, <1>6, <1>7, <1>8, Stepped

-----------------------------------------------------------------------------
(* Steps that change neither a request, nor the state of an assignment.    *)
LEMMA StillTables ==
    ASSUME TypeInv, TypeInv', TablesInv, UNCHANGED <<req, job>>,
           \A x \in Pairs : asg'[x].state = asg[x].state
    PROVE  TablesInv'
<1>1. Outside({})
  BY DEF Outside
<1>2. Exclusive' /\ Storable(req')
  BY DEF TablesInv, Exclusive
<1>3. \A w \in Workers : JobShape(w)'
  BY <1>1, SameShape
<1>4. QED
  BY <1>1, <1>2, <1>3, Assembled

LEMMA NextTables ==
    Gentle /\ TypeInv /\ TypeInv' /\ TablesInv /\ [Next]_vars => TablesInv'
<1> SUFFICES ASSUME Gentle, TypeInv, TypeInv', TablesInv, [Next]_vars PROVE TablesInv'
  OBVIOUS
<1>1. ASSUME NEW w \in Workers, LearnerStep(w) PROVE TablesInv'
  BY <1>1, ReadForCreateTables, StartRedeemTables, SaveCreatedTables, PayTables,
     SaveAcceptedTables DEF LearnerStep
<1>2. ASSUME NEW w \in Workers, AdminStep(w) PROVE TablesInv'
  <2>1. ASSUME NEW r \in Ids, ReadForCancel(w, r) \/ ReadForDecline(w, r) \/ Remind(w, r)
        PROVE  TablesInv'
    <3>1. CASE Remind(w, r)
      BY <3>1, StillTables DEF Remind
    <3>2. QED
      BY <2>1, <3>1, ReadForCancelTables, ReadForDeclineTables
  <2>2. CASE (\E R \in SUBSET Ids : ReadForApprove(w, R)) \/ ReadForApproveAll(w)
    BY <2>2, ReadForApproveTables DEF ReadForApproveAll
  <2>3. CASE \/ AllocateRequests(w) \/ SaveApproved(w)
             \/ CheckCancel(w) \/ SaveCancelled(w) \/ SaveDeclined(w)
    BY <2>3, AllocateTables, SaveApprovedTables, CheckCancelTables, SaveCancelledTables,
       SaveDeclinedTables
  <2>4. QED
    BY <1>2, <2>1, <2>2, <2>3 DEF AdminStep
<1>3. ASSUME NEW w \in Workers, SystemStep(w) PROVE TablesInv'
  <2>1. CASE Crash(w)
    BY <2>1, Ended DEF Crash, Gentle
  <2>2. QED
    BY <1>3, <2>1, ReadForExpireTables, ReadForReverseTables, ExpireRequestTables,
       ExpireAssignmentTables, ReverseAssignmentTables, ReverseRequestTables
       DEF SystemStep
<1>4. ASSUME NEW x \in Pairs, SubsidyReverses(x) \/ ChangeEmail(x) PROVE TablesInv'
  <2>1. \A y \in Pairs : asg'[y].state = asg[y].state
    BY <1>4 DEF SubsidyReverses, ChangeEmail, TypeInv, RequestTypeOK, Asgs
  <2>2. QED
    BY <1>4, <2>1, StillTables DEF SubsidyReverses, ChangeEmail
<1>5. CASE UNCHANGED vars
  BY <1>5, StillTables DEF vars
<1>6. QED
  BY <1>1, <1>2, <1>3, <1>4, <1>5 DEF Next

LEMMA InitTables == Init => TablesInv
<1> SUFFICES ASSUME Init PROVE TablesInv
  OBVIOUS
<1>1. /\ \A r \in Ids : req[r] = NoReq
      /\ \A x \in Pairs : asg[x].state = "none"
      /\ \A w \in Workers : job[w] = Idle
  BY DEF Init
<1>2. \A x \in Pairs : OfPair(x) = {}
  <2>1. NoReq.pair = NoPair
    BY DEF NoReq
  <2>2. \A r \in Ids : req[r].pair \notin Pairs
    BY <1>1, <2>1, RequestAssumption
  <2>3. QED
    BY <2>2 DEF OfPair
<1>3. Exclusive /\ \A w \in Workers : JobShape(w)
  BY <1>1 DEF Exclusive, JobShape, Idle
<1>4. Storable(req)
  BY <1>1 DEF Storable, NoReq
<1>5. \A x \in Pairs : PairOK(x)
  BY <1>1, <1>2 DEF PairOK, OneRow, RequestFits, AllocatedFits, Idle
<1>6. QED
  BY <1>3, <1>4, <1>5 DEF TablesInv

LEMMA TablesAlways ==
    ASSUME Gentle
    PROVE  Spec => [](TypeInv /\ TablesInv)
<1>1. TypeInv /\ TypeInv' /\ TablesInv /\ [Next]_vars => TablesInv'
  BY NextTables
<1>2. QED
  BY TypeAlways, InitTables, <1>1, PTL DEF Spec

(* Requests and assignments agree whenever nobody is between the steps of a*)
(* job about them, as long as only creates, cancellations and reversals    *)
(* overlap on a pair and no process dies that writes both tables.          *)
THEOREM RequestsAgreeTheorem ==
    ASSUME Gentle
    PROVE  Spec => []RequestsAgree
<1>1. TypeInv /\ TablesInv => RequestsAgree
  <2> SUFFICES ASSUME TypeInv, TablesInv, NEW x \in Pairs, AtRest(x)
               PROVE  /\ \A r \in OfPair(x) :
                            /\ req[r].state = "approved" =>
                                req[r].linked /\ asg[x].state \in {"allocated", "errored"}
                            /\ req[r].state = "accepted" =>
                                req[r].linked /\ asg[x].state = "accepted"
                      /\ asg[x].state = "allocated" /\ NothingDeclined =>
                            \E r \in LinkedTo(x) : req[r].state = "approved"
    BY DEF RequestsAgree
  <2>1. \A o : ~Doing(o, x)
    BY DEF AtRest, Doing
  <2>2. ~Approving(x)
    <3>1. \A w \in Workers : \A r \in job[w].valid : req[r].pair \in job[w].pairs
      BY DEF TablesInv, JobShape
    <3>2. QED
      BY <3>1 DEF AtRest, Approving
  <2>3. RequestFits(x) /\ AllocatedFits(x)
    BY DEF TablesInv, PairOK
  <2>4. QED
    BY <2>1, <2>2, <2>3 DEF RequestFits, AllocatedFits
<1>2. Spec => [](TypeInv /\ TablesInv)
  BY TablesAlways
<1>3. QED
  BY <1>1, <1>2, PTL

(* Nothing but a redemption charges, and it has read an approved request   *)
(* that nobody has touched since.                                          *)
THEOREM ChargedWhenApprovedTheorem ==
    ASSUME Gentle
    PROVE  Spec => ChargedWhenApproved
<1>1. TypeInv /\ TablesInv /\ [Next]_vars =>
        [\A x \in tx' \ tx : NeverDeclined(x) =>
            \E r \in LinkedTo(x) : req[r].state = "approved"]_vars
  <2> SUFFICES ASSUME TypeInv, TablesInv, Next, NEW x \in tx' \ tx, NeverDeclined(x)
               PROVE  \E r \in LinkedTo(x) : req[r].state = "approved"
    OBVIOUS
  <2>1. PICK w \in Workers : Pay(w)
    BY DEF Next, LearnerStep, AdminStep, SystemStep, ReadForCreate, StartRedeem,
       SaveCreated, SaveAccepted, ReadForApprove, ReadForApproveAll, AllocateRequests,
       SaveApproved, ReadForCancel, ReadForDecline, Remind, CheckCancel, SaveCancelled,
       SaveDeclined, ReadForExpire, ReadForReverse, ExpireRequest, ExpireAssignment,
       ReverseAssignment, ReverseRequest, Crash, SubsidyReverses, ChangeEmail
  <2>2. job[w].op = "redeem" /\ x \in job[w].pairs
    BY <2>1 DEF Pay, At
  <2>3. PICK y \in Pairs, row \in Reqs, r \in Ids :
          /\ job[w].pairs = {y} /\ job[w].row = row /\ row.pair = y
          /\ job[w].ids = {r} /\ req[r] = row /\ row.linked
          /\ PairOK(y) /\ RedeemOK(w, y)
          /\ \A v \in Workers : y \in job[v].pairs => v = w
    BY <2>2, RedeemJob
  <2>4. req[r].state = "approved"
    BY <2>2, <2>3 DEF RedeemOK
  <2>5. r \in LinkedTo(x)
    BY <2>2, <2>3 DEF LinkedTo, OfPair
  <2>6. QED
    BY <2>4, <2>5
<1>2. Spec => [](TypeInv /\ TablesInv)
  BY TablesAlways
<1>3. QED
  BY <1>1, <1>2, PTL DEF Spec, ChargedWhenApproved
==============================================================================
