------------------------- MODULE SubsidyRequest_proofs -------------------------
(* Proofs about requests for licences and coupon codes, for any learners,  *)
(* requests, processes, chains of tasks and stock, and any number of lost  *)
(* tasks, unheard answers and crashes.                                     *)
EXTENDS SubsidyRequest, FiniteSetTheorems, TLAPS

(* Jobs and chains are about rows that exist, and a row has a learner.     *)
RowsExist ==
    /\ \A i \in Existing : req[i].learner \in Learners
    /\ \A w \in Workers : job[w].ids \subseteq Existing
    /\ \A w \in Workers : job[w].op = "create" => job[w].learner \in Learners
    /\ \A c \in Chains : chain[c].ids \subseteq Existing

TypeInv == SubsidyTypeOK /\ RowsExist

LEMMA Counted ==
    ASSUME TypeInv
    PROVE  /\ Cardinality(Ids) \in Nat /\ Cardinality(Existing) \in 0 .. Cardinality(Ids)
           /\ \A i \in Ids \ Existing : Cardinality(Existing) + 1 \in 0 .. Cardinality(Ids)
<1>1. IsFiniteSet(Existing) /\ Cardinality(Existing) <= Cardinality(Ids)
  BY SubsidyAssumption, FS_Subset DEF Existing
<1>2. Cardinality(Ids) \in Nat /\ Cardinality(Existing) \in Nat
  BY <1>1, SubsidyAssumption, FS_CardinalityType
<1>3. ASSUME NEW i \in Ids \ Existing
      PROVE  Cardinality(Existing) + 1 <= Cardinality(Ids)
  <2>1. Cardinality(Existing \cup {i}) = Cardinality(Existing) + 1
    BY <1>1, <1>3, FS_AddElement
  <2>2. Existing \cup {i} \in SUBSET Ids
    BY DEF Existing
  <2>3. Cardinality(Existing \cup {i}) <= Cardinality(Ids)
    BY <2>2, SubsidyAssumption, FS_Subset
  <2>4. QED
    BY <2>1, <2>3
<1>4. QED
  BY <1>1, <1>2, <1>3

LEMMA RecordsTyped ==
    /\ NoReq \in Reqs /\ Free \in ChainRecords /\ NoConfig \in Configs /\ Idle \in Jobs
    /\ Idle.ids = {} /\ Idle.op = "idle" /\ Free.ids = {}
<1>1. 0 \in 0 .. Cardinality(Ids)
  BY SubsidyAssumption, FS_CardinalityType
<1>2. NoConfig \in Configs
  BY <1>1 DEF NoConfig, Configs, Types
<1>3. QED
  BY <1>1, <1>2 DEF NoReq, Free, Idle, Reqs, ChainRecords, Jobs, States, Types, Kinds

LEMMA InitType == Init => TypeInv
<1> SUFFICES ASSUME Init PROVE TypeInv
  OBVIOUS
<1>1. config \in Configs
  BY RecordsTyped DEF Init, Configs
<1>2. SubsidyTypeOK
  BY <1>1, RecordsTyped, SubsidyAssumption DEF Init, SubsidyTypeOK, Credits
<1>3. RowsExist
  BY RecordsTyped DEF Init, RowsExist, Existing, NoReq
<1>4. QED
  BY <1>2, <1>3 DEF TypeInv

(* What a job may become, with everything but jobs and chains unchanged.   *)
LEMMA JobType ==
    ASSUME TypeInv, NEW w \in Workers, NEW j \in Jobs, job' = [job EXCEPT ![w] = j],
           j.ids \subseteq Existing, j.op = "create" => j.learner \in Learners
    PROVE  /\ job' \in [Workers -> Jobs]
           /\ \A v \in Workers : job'[v].ids \subseteq Existing
           /\ \A v \in Workers : job'[v].op = "create" => job'[v].learner \in Learners
  BY DEF TypeInv, SubsidyTypeOK, RowsExist

LEMMA EndType ==
    ASSUME TypeInv, NEW w \in Workers, End(w)
    PROVE  /\ job' \in [Workers -> Jobs]
           /\ \A v \in Workers : job'[v].ids \subseteq Existing
           /\ \A v \in Workers : job'[v].op = "create" => job'[v].learner \in Learners
  BY JobType, RecordsTyped DEF End

LEMMA ChainType ==
    ASSUME TypeInv, NEW c \in Chains, NEW r \in ChainRecords,
           chain' = [chain EXCEPT ![c] = r], r.ids \subseteq Existing
    PROVE  /\ chain' \in [Chains -> ChainRecords]
           /\ \A d \in Chains : chain'[d].ids \subseteq Existing
  BY DEF TypeInv, SubsidyTypeOK, RowsExist

(* Writing the state of rows that exist leaves the rest of them alone.     *)
LEMMA SetStateType ==
    ASSUME TypeInv, NEW R \in SUBSET Existing, NEW s \in States \ {"none"},
           SetState(R, s)
    PROVE  /\ req' \in [Ids -> Reqs] /\ Existing' = Existing
           /\ \A i \in Ids : /\ req'[i].learner = req[i].learner
                              /\ req'[i].type = req[i].type
                              /\ req'[i].state = IF i \in R THEN s ELSE req[i].state
<1>1. \A i \in Ids : /\ [req[i] EXCEPT !.state = s] \in Reqs
                     /\ [req[i] EXCEPT !.state = s].learner = req[i].learner
                     /\ [req[i] EXCEPT !.state = s].type = req[i].type
                     /\ [req[i] EXCEPT !.state = s].state = s
  BY DEF TypeInv, SubsidyTypeOK, Reqs
<1>2. /\ req' \in [Ids -> Reqs]
      /\ \A i \in Ids : /\ req'[i].learner = req[i].learner
                        /\ req'[i].type = req[i].type
                        /\ req'[i].state = IF i \in R THEN s ELSE req[i].state
  BY <1>1 DEF SetState, TypeInv, SubsidyTypeOK
<1>3. Existing' = Existing
  BY <1>2 DEF Existing
<1>4. QED
  BY <1>2, <1>3

LEMMA ReceiversTyped ==
    ASSUME TypeInv, NEW c \in Chains
    PROVE  /\ chain[c] \in ChainRecords /\ Receivers(c) \subseteq Learners
           /\ Cardinality(Receivers(c)) \in Nat
<1> DEFINE R == ToAssign(c)
           L == LearnersOf(R)
           f == [i \in R |-> req[i].learner]
<1>1. chain[c] \in ChainRecords /\ R \subseteq Existing /\ R \subseteq Ids
  BY DEF ToAssign, TypeInv, SubsidyTypeOK, RowsExist, Existing
<1>2. L \subseteq Learners
  BY <1>1 DEF LearnersOf, TypeInv, RowsExist
<1>3. IsFiniteSet(R)
  BY <1>1, SubsidyAssumption, FS_Subset
<1>4. f \in Surjection(R, L)
  BY DEF Surjection, LearnersOf
<1> HIDE DEF R, f
<1>5. IsFiniteSet(L)
  BY <1>3, <1>4, FS_Surjection
<1>6. Receivers(c) \in SUBSET L
  BY DEF Receivers, R
<1> HIDE DEF L
<1>7. Cardinality(Receivers(c)) \in Nat
  BY <1>5, <1>6, FS_Subset, FS_CardinalityType
<1>8. QED
  BY <1>1, <1>2, <1>6, <1>7

LEMMA CreateType ==
    ASSUME TypeInv, NEW w \in Workers,
           \/ \E l \in Learners, t \in Types : ReadForCreate(w, l, t)
           \/ SaveCreated(w)
    PROVE  TypeInv'
<1>1. ASSUME NEW l \in Learners, NEW t \in Types, ReadForCreate(w, l, t)
      PROVE  TypeInv'
  <2> DEFINE j == [Idle EXCEPT !.op = "create", !.type = t, !.learner = l]
  <2>1. j \in Jobs /\ j.ids = {} /\ j.learner = l
    BY RecordsTyped DEF Jobs, Kinds, Idle
  <2>2. job' = [job EXCEPT ![w] = j]
    BY <1>1 DEF ReadForCreate, Begin
  <2> HIDE DEF j
  <2>3. /\ job' \in [Workers -> Jobs]
        /\ \A v \in Workers : job'[v].ids \subseteq Existing
        /\ \A v \in Workers : job'[v].op = "create" => job'[v].learner \in Learners
    BY <2>1, <2>2, JobType
  <2>4. QED
    BY <1>1, <2>3 DEF ReadForCreate, fvars, TypeInv, SubsidyTypeOK, RowsExist, Existing
<1>2. ASSUME SaveCreated(w) PROVE TypeInv'
  <2>1. job[w] \in Jobs /\ job[w].learner \in Learners
    BY <1>2 DEF SaveCreated, At, TypeInv, SubsidyTypeOK, RowsExist
  <2>2. PICK i \in Ids \ Existing :
            req' = [req EXCEPT ![i] = [state |-> "requested", type |-> job[w].type,
                    learner |-> job[w].learner, nth |-> Cardinality(Existing) + 1]]
    BY <1>2 DEF SaveCreated
  <2>3. [state |-> "requested", type |-> job[w].type,
         learner |-> job[w].learner, nth |-> Cardinality(Existing) + 1] \in Reqs
    <3> DEFINE n == Cardinality(Existing) + 1
    <3>1. n \in 0 .. Cardinality(Ids)
      BY <2>2, Counted
    <3> HIDE DEF n
    <3>2. [state |-> "requested", type |-> job[w].type,
           learner |-> job[w].learner, nth |-> n] \in Reqs
      BY <2>1, <3>1 DEF Reqs, Jobs, States
    <3>3. QED
      BY <3>2 DEF n
  <2>4. /\ req' \in [Ids -> Reqs] /\ Existing' = Existing \cup {i}
        /\ \A k \in Existing' : req'[k].learner \in Learners
    BY <2>1, <2>2, <2>3 DEF Existing, TypeInv, SubsidyTypeOK, RowsExist
  <2>5. /\ job' \in [Workers -> Jobs]
        /\ \A v \in Workers : job'[v].ids \subseteq Existing
        /\ \A v \in Workers : job'[v].op = "create" => job'[v].learner \in Learners
    BY <1>2, EndType DEF SaveCreated
  <2>6. QED
    BY <1>2, <2>4, <2>5 DEF SaveCreated, fvars, TypeInv, SubsidyTypeOK, RowsExist
<1>3. QED
  BY <1>1, <1>2

(* Reads of the reviews, the configurations and the reminder.              *)
LEMMA ReadType ==
    ASSUME TypeInv, NEW w \in Workers, NEW op, op # "create", NEW j \in Jobs, j.op = op,
           j.ids \subseteq Existing, Begin(w, op, j),
           UNCHANGED <<req, config, credit, held, used, fvars>>,
           chain' \in [Chains -> ChainRecords],
           \A c \in Chains : chain'[c].ids \subseteq Existing
    PROVE  TypeInv'
<1>1. /\ job' \in [Workers -> Jobs]
      /\ \A v \in Workers : job'[v].ids \subseteq Existing
      /\ \A v \in Workers : job'[v].op = "create" => job'[v].learner \in Learners
  BY JobType DEF Begin
<1>2. QED
  BY <1>1 DEF fvars, TypeInv, SubsidyTypeOK, RowsExist, Existing

LEMMA ReviewType ==
    ASSUME TypeInv, NEW w \in Workers,
           \/ \E t \in Types, R \in SUBSET Ids :
                    ReadForApprove(w, t, R) \/ ReadForDecline(w, t, R)
           \/ SavePending(w) \/ QueueAssignment(w) \/ SaveDeclined(w)
    PROVE  TypeInv'
<1>0. /\ chain \in [Chains -> ChainRecords]
      /\ \A c \in Chains : chain[c].ids \subseteq Existing
      /\ job[w] \in Jobs /\ job[w].ids \subseteq Existing
  BY DEF TypeInv, SubsidyTypeOK, RowsExist
<1>1. ASSUME NEW t \in Types, NEW R \in SUBSET Ids,
             ReadForApprove(w, t, R) \/ ReadForDecline(w, t, R)
      PROVE  TypeInv'
  <2> DEFINE Q == {i \in R : req[i].state \in Approvable}
             a == [Idle EXCEPT !.op = "approve", !.type = t, !.ids = Q]
             d == [Idle EXCEPT !.op = "decline", !.type = t, !.ids = Q]
  <2>1. Q \subseteq Existing /\ Q \subseteq Ids
    BY DEF Approvable, Existing
  <2>2. UNCHANGED <<req, config, credit, held, used, chain, fvars>>
    BY <1>1 DEF ReadForApprove, ReadForDecline
  <2>3. Begin(w, "approve", a) \/ Begin(w, "decline", d)
    BY <1>1 DEF ReadForApprove, ReadForDecline
  <2> HIDE DEF Q
  <2>4. /\ a \in Jobs /\ a.op = "approve" /\ a.ids = Q
        /\ d \in Jobs /\ d.op = "decline" /\ d.ids = Q
    BY <2>1, RecordsTyped DEF Jobs, Kinds
  <2> HIDE DEF a, d
  <2>5. QED
    BY <1>0, <2>1, <2>2, <2>3, <2>4, ReadType
<1>2. ASSUME SavePending(w) PROVE TypeInv'
  <2>1. /\ req' \in [Ids -> Reqs] /\ Existing' = Existing
        /\ \A i \in Ids : req'[i].learner = req[i].learner
    BY <1>0, <1>2, SetStateType DEF SavePending, States
  <2> DEFINE j == [job[w] EXCEPT !.at = "saved"]
  <2>2. /\ j \in Jobs /\ j.ids = job[w].ids /\ j.op = job[w].op
        /\ j.learner = job[w].learner
    BY <1>0 DEF Jobs
  <2>3. job' = [job EXCEPT ![w] = j] /\ job[w].op # "create"
    BY <1>2 DEF SavePending, At
  <2> HIDE DEF j
  <2>4. /\ job' \in [Workers -> Jobs]
        /\ \A v \in Workers : job'[v].ids \subseteq Existing
        /\ \A v \in Workers : job'[v].op = "create" => job'[v].learner \in Learners
    BY <1>0, <2>2, <2>3, JobType
  <2>5. QED
    BY <1>2, <2>1, <2>4 DEF SavePending, fvars, TypeInv, SubsidyTypeOK, RowsExist, Existing
<1>3. ASSUME QueueAssignment(w) PROVE TypeInv'
  <2> DEFINE r == [at |-> "assign", type |-> job[w].type, ids |-> job[w].ids, given |-> {}]
  <2>1. PICK c \in Chains : chain' = [chain EXCEPT ![c] = r]
    BY <1>3 DEF QueueAssignment
  <2>2. r \in ChainRecords /\ r.ids \subseteq Existing
    BY <1>0 DEF ChainRecords, Jobs
  <2> HIDE DEF r
  <2>3. /\ chain' \in [Chains -> ChainRecords]
        /\ \A d \in Chains : chain'[d].ids \subseteq Existing
    BY <2>1, <2>2, ChainType
  <2>4. /\ job' \in [Workers -> Jobs]
        /\ \A v \in Workers : job'[v].ids \subseteq Existing
        /\ \A v \in Workers : job'[v].op = "create" => job'[v].learner \in Learners
    BY <1>3, EndType DEF QueueAssignment
  <2>5. QED
    BY <1>3, <2>3, <2>4 DEF QueueAssignment, fvars, TypeInv, SubsidyTypeOK, RowsExist,
       Existing
<1>4. ASSUME SaveDeclined(w) PROVE TypeInv'
  <2>1. /\ req' \in [Ids -> Reqs] /\ Existing' = Existing
        /\ \A i \in Ids : req'[i].learner = req[i].learner
    BY <1>0, <1>4, SetStateType DEF SaveDeclined, States
  <2>2. /\ job' \in [Workers -> Jobs]
        /\ \A v \in Workers : job'[v].ids \subseteq Existing
        /\ \A v \in Workers : job'[v].op = "create" => job'[v].learner \in Learners
    BY <1>4, EndType DEF SaveDeclined
  <2>3. QED
    BY <1>4, <2>1, <2>2 DEF SaveDeclined, fvars, TypeInv, SubsidyTypeOK, RowsExist, Existing
<1>5. QED
  BY <1>1, <1>2, <1>3, <1>4

LEMMA GiveType ==
    ASSUME TypeInv, NEW c \in Chains, Give(c)
    PROVE  held' \in [Types -> SUBSET Learners] /\ used' \in [Types -> Nat]
<1>1. /\ chain[c].type \in Types /\ Receivers(c) \subseteq Learners
      /\ Cardinality(Receivers(c)) \in Nat
  BY ReceiversTyped DEF ChainRecords
<1> DEFINE t == chain[c].type
           L == Receivers(c)
           n == Cardinality(L)
<1>2. /\ held' = [held EXCEPT ![t] = held[t] \cup L]
      /\ used' = [used EXCEPT ![t] = used[t] + n]
  BY DEF Give
<1> HIDE DEF t, L, n
<1>3. t \in Types /\ L \subseteq Learners /\ n \in Nat
  BY <1>1 DEF t, L, n
<1>4. QED
  BY <1>2, <1>3 DEF TypeInv, SubsidyTypeOK

LEMMA WasteType ==
    ASSUME TypeInv, NEW c \in Chains, NEW L \in SUBSET Learners, Waste(c, L)
    PROVE  wasted' \in [Types -> SUBSET Learners]
<1>1. chain[c].type \in Types
  BY DEF TypeInv, SubsidyTypeOK, ChainRecords
<1>2. QED
  BY <1>1 DEF Waste, TypeInv, SubsidyTypeOK

LEMMA GoesType ==
    ASSUME TypeInv, NEW wrong, Goes(wrong)
    PROVE  faults' \in 0 .. MaxFaults /\ faults' # 0
  BY SubsidyAssumption DEF Goes, TypeInv, SubsidyTypeOK

(* The end of a chain, for whatever reason.                                *)
LEMMA FreeType ==
    ASSUME TypeInv, NEW c \in Chains, chain' = [chain EXCEPT ![c] = Free]
    PROVE  /\ chain' \in [Chains -> ChainRecords]
           /\ \A d \in Chains : chain'[d].ids \subseteq Existing
  BY ChainType, RecordsTyped

(* What an update writes: approved, error or nothing, for rows of its own. *)
LEMMA UpdateType ==
    ASSUME TypeInv, NEW c \in Chains, Update(c)
    PROVE  /\ req' \in [Ids -> Reqs] /\ Existing' = Existing
           /\ \A i \in Ids :
                /\ req'[i].learner = req[i].learner /\ req'[i].type = req[i].type
                /\ \/ req'[i] = req[i]
                   \/ i \in chain[c].ids /\ req'[i].state \in {"approved", "error"}
           /\ chain[c].type = "license" =>
                \A i \in chain[c].ids : req'[i].state \in {"approved", "error"}
<1> DEFINE given == {i \in chain[c].ids : req[i].learner \in chain[c].given}
           put(i, s) == [req[i] EXCEPT !.state = s]
<1>1. chain[c].ids \subseteq Existing /\ Existing \subseteq Ids
  BY DEF TypeInv, RowsExist, Existing
<1>2. \A i \in Ids, s \in States :
        /\ put(i, s) \in Reqs /\ put(i, s).state = s
        /\ put(i, s).learner = req[i].learner /\ put(i, s).type = req[i].type
  BY DEF TypeInv, SubsidyTypeOK, Reqs
<1>3. CASE chain[c].type = "license"
  <2>1. req' = [i \in Ids |-> IF i \notin chain[c].ids THEN req[i]
                              ELSE put(i, IF i \in given THEN "approved" ELSE "error")]
    BY <1>3 DEF Update
  <2>2. \A i \in Ids : (IF i \in given THEN "approved" ELSE "error") \in States
    BY DEF States
  <2> HIDE DEF given, put
  <2>3. \A i \in Ids : /\ req'[i] \in Reqs
                       /\ req'[i].learner = req[i].learner /\ req'[i].type = req[i].type
                       /\ i \notin chain[c].ids => req'[i] = req[i]
                       /\ i \in chain[c].ids => req'[i].state \in {"approved", "error"}
    BY <1>2, <2>1, <2>2 DEF TypeInv, SubsidyTypeOK
  <2>4. req' \in [Ids -> Reqs]
    BY <2>1, <2>3
  <2>5. Existing' = Existing
    BY <1>1, <2>3 DEF Existing
  <2>6. QED
    BY <1>1, <2>3, <2>4, <2>5
<1>4. CASE chain[c].type # "license"
  <2> DEFINE R == IF given = chain[c].ids THEN given ELSE {}
  <2>1. SetState(R, "approved")
    BY <1>4 DEF Update
  <2>2. R \in SUBSET Existing /\ R \subseteq chain[c].ids /\ "approved" \in States \ {"none"}
    BY <1>1 DEF States
  <2> HIDE DEF R
  <2>3. /\ req' \in [Ids -> Reqs] /\ Existing' = Existing
        /\ \A i \in Ids : /\ req'[i].learner = req[i].learner
                          /\ req'[i].type = req[i].type
                          /\ req'[i].state = IF i \in R THEN "approved" ELSE req[i].state
    BY <2>1, <2>2, SetStateType
  <2>4. \A i \in Ids : i \notin R => req'[i] = req[i]
    BY <2>1 DEF SetState
  <2>5. QED
    BY <1>4, <2>2, <2>3, <2>4
<1>5. QED
  BY <1>3, <1>4

LEMMA TaskType ==
    ASSUME TypeInv, NEW c \in Chains, TaskStep(c) \/ AssignUnheard(c) \/ GiveUp(c)
    PROVE  TypeInv'
<1>0. chain[c] \in ChainRecords /\ chain[c].ids \subseteq Existing
  BY DEF TypeInv, SubsidyTypeOK, RowsExist
<1>1. CASE Assign(c)
  <2>1. CASE ToAssign(c) = {}
    BY <1>1, <2>1, FreeType DEF Assign, fvars, TypeInv, SubsidyTypeOK, RowsExist, Existing
  <2>2. CASE ToAssign(c) # {}
    <3> DEFINE r == [chain[c] EXCEPT !.at = "update", !.given = Receivers(c)]
    <3>1. r \in ChainRecords /\ r.ids \subseteq Existing
      BY <1>0, ReceiversTyped DEF ChainRecords
    <3>2. chain' = [chain EXCEPT ![c] = r] /\ Give(c)
      BY <1>1, <2>2 DEF Assign
    <3> HIDE DEF r
    <3>3. /\ chain' \in [Chains -> ChainRecords]
          /\ \A d \in Chains : chain'[d].ids \subseteq Existing
      BY <3>1, <3>2, ChainType
    <3>4. held' \in [Types -> SUBSET Learners] /\ used' \in [Types -> Nat]
      BY <3>2, GiveType
    <3>5. QED
      BY <1>1, <3>3, <3>4 DEF Assign, fvars, TypeInv, SubsidyTypeOK, RowsExist, Existing
  <2>3. QED
    BY <2>1, <2>2
<1>2. CASE Update(c)
  <2>1. /\ chain' \in [Chains -> ChainRecords]
        /\ \A d \in Chains : chain'[d].ids \subseteq Existing
    BY <1>2, FreeType DEF Update
  <2>2. QED
    BY <1>2, <2>1, UpdateType DEF Update, fvars, TypeInv, SubsidyTypeOK, RowsExist, Existing
<1>3. CASE Flush(c)
  <2>1. PICK R \in SUBSET chain[c].ids : SetState(R, "declined")
    BY <1>3 DEF Flush
  <2>2. /\ req' \in [Ids -> Reqs] /\ Existing' = Existing
        /\ \A i \in Ids : req'[i].learner = req[i].learner
    BY <1>0, <2>1, SetStateType DEF States
  <2>3. /\ chain' \in [Chains -> ChainRecords]
        /\ \A d \in Chains : chain'[d].ids \subseteq Existing
    BY <1>3, FreeType DEF Flush
  <2>4. QED
    BY <1>3, <2>2, <2>3 DEF Flush, fvars, TypeInv, SubsidyTypeOK, RowsExist, Existing
<1>4. CASE AssignUnheard(c)
  <2>1. held' \in [Types -> SUBSET Learners] /\ used' \in [Types -> Nat]
    BY <1>4, GiveType DEF AssignUnheard
  <2>2. wasted' \in [Types -> SUBSET Learners] /\ faults' \in 0 .. MaxFaults
    BY <1>4, WasteType, GoesType, ReceiversTyped DEF AssignUnheard
  <2>3. QED
    BY <1>4, <2>1, <2>2 DEF AssignUnheard, TypeInv, SubsidyTypeOK, RowsExist, Existing
<1>5. CASE GiveUp(c)
  <2>1. wasted' \in [Types -> SUBSET Learners] /\ faults' \in 0 .. MaxFaults
    BY <1>0, <1>5, WasteType, GoesType DEF GiveUp, ChainRecords
  <2>2. /\ chain' \in [Chains -> ChainRecords]
        /\ \A d \in Chains : chain'[d].ids \subseteq Existing
    BY <1>5, FreeType DEF GiveUp
  <2>3. QED
    BY <1>5, <2>1, <2>2 DEF GiveUp, TypeInv, SubsidyTypeOK, RowsExist, Existing
<1>6. QED
  BY <1>1, <1>2, <1>3, <1>4, <1>5 DEF TaskStep

LEMMA ConfigType ==
    ASSUME TypeInv, NEW w \in Workers,
           \/ \E t \in Types, b \in BOOLEAN : ReadForConfigure(w, t, b)
           \/ \E b \in BOOLEAN : ReadForActivate(w, b) \/ ReadForLink(w, b)
           \/ ReadForMail(w)
           \/ SaveConfig(w) \/ SaveActive(w) \/ SaveLink(w) \/ SaveReminded(w) \/ Crash(w)
    PROVE  TypeInv'
<1>0. /\ chain \in [Chains -> ChainRecords]
      /\ \A c \in Chains : chain[c].ids \subseteq Existing
      /\ job[w] \in Jobs /\ config \in Configs /\ Existing \subseteq Ids
  BY DEF TypeInv, SubsidyTypeOK, RowsExist, Existing
<1>1. ASSUME NEW t \in Types, NEW b \in BOOLEAN, ReadForConfigure(w, t, b)
      PROVE  TypeInv'
  <2> DEFINE row == [config EXCEPT !.type = t, !.enabled = b]
             j == [Idle EXCEPT !.op = "configure", !.row = row]
             F == {i \in OfType(config.type) : req[i].state \in Open}
             r == [at |-> "flush", type |-> config.type, ids |-> F, given |-> {}]
  <2>1. row \in Configs
    BY <1>0 DEF Configs
  <2>2. F \subseteq Existing /\ F \subseteq Ids
    BY DEF OfType, Existing
  <2>3. Begin(w, "configure", j)
    BY <1>1 DEF ReadForConfigure
  <2>4. UNCHANGED chain \/ \E c \in Chains : chain' = [chain EXCEPT ![c] = r]
    BY <1>1 DEF ReadForConfigure
  <2> HIDE DEF row, F
  <2>5. j \in Jobs /\ j.op = "configure" /\ j.ids \subseteq Existing
    BY <2>1, RecordsTyped DEF Jobs, Kinds
  <2>6. r \in ChainRecords /\ r.ids \subseteq Existing
    BY <1>0, <2>2 DEF ChainRecords, Configs
  <2> HIDE DEF j, r
  <2>7. /\ chain' \in [Chains -> ChainRecords]
        /\ \A c \in Chains : chain'[c].ids \subseteq Existing
    BY <1>0, <2>4, <2>6, ChainType
  <2>8. QED
    BY <1>1, <2>3, <2>5, <2>7, ReadType DEF ReadForConfigure
<1>2. ASSUME NEW b \in BOOLEAN, ReadForActivate(w, b) \/ ReadForLink(w, b)
      PROVE  TypeInv'
  <2> DEFINE a == [Idle EXCEPT !.op = "activate", !.flag = b]
             l == [Idle EXCEPT !.op = "link", !.flag = b]
  <2>1. /\ a \in Jobs /\ a.op = "activate" /\ a.ids = {}
        /\ l \in Jobs /\ l.op = "link" /\ l.ids = {}
    BY RecordsTyped DEF Jobs, Kinds
  <2>2. Begin(w, "activate", a) \/ Begin(w, "link", l)
    BY <1>2 DEF ReadForActivate, ReadForLink
  <2> HIDE DEF a, l
  <2>3. UNCHANGED <<req, config, credit, held, used, chain, fvars>>
    BY <1>2 DEF ReadForActivate, ReadForLink
  <2>4. QED
    BY <1>0, <2>1, <2>2, <2>3, ReadType
<1>3. CASE ReadForMail(w)
  <2> DEFINE new == {i \in OfType(config.type) :
                      req[i].state = "requested" /\ req[i].nth > config.reminded}
             j == [Idle EXCEPT !.op = "mail", !.ids = new, !.row = config]
  <2>1. new \subseteq Existing /\ new \subseteq Ids
    BY DEF OfType, Existing
  <2>2. Begin(w, "mail", j) /\ UNCHANGED <<req, config, credit, held, used, chain, fvars>>
    BY <1>3 DEF ReadForMail
  <2> HIDE DEF new
  <2>3. j \in Jobs /\ j.op = "mail" /\ j.ids = new
    BY <1>0, <2>1, RecordsTyped DEF Jobs, Kinds
  <2> HIDE DEF j
  <2>4. QED
    BY <1>0, <2>1, <2>2, <2>3, ReadType
<1>4. ASSUME End(w), UNCHANGED <<req, held, used, chain, wasted>>,
             config' \in Configs, credit' \in Credits, faults' \in 0 .. MaxFaults
      PROVE  TypeInv'
  <2>1. /\ job' \in [Workers -> Jobs]
        /\ \A v \in Workers : job'[v].ids \subseteq Existing
        /\ \A v \in Workers : job'[v].op = "create" => job'[v].learner \in Learners
    BY <1>4, EndType
  <2>2. QED
    BY <1>4, <2>1 DEF TypeInv, SubsidyTypeOK, RowsExist, Existing
<1>5. credit \in Credits /\ faults \in 0 .. MaxFaults
  BY DEF TypeInv, SubsidyTypeOK
<1>6. CASE SaveConfig(w)
  BY <1>0, <1>4, <1>5, <1>6 DEF SaveConfig, fvars, Jobs
<1>7. CASE SaveActive(w) \/ SaveLink(w)
  <2>1. credit' \in Credits
    BY <1>0, <1>5, <1>7 DEF SaveActive, SaveLink, Credits, Jobs
  <2>2. QED
    BY <1>0, <1>4, <1>5, <1>7, <2>1 DEF SaveActive, SaveLink, fvars
<1>8. CASE SaveReminded(w)
  <2>1. [job[w].row EXCEPT !.reminded = Cardinality(Existing)] \in Configs
    <3>1. job[w].row \in Configs
      BY <1>0 DEF Jobs
    <3> DEFINE n == Cardinality(Existing)
    <3>2. n \in 0 .. Cardinality(Ids)
      BY Counted
    <3> HIDE DEF n
    <3>3. [job[w].row EXCEPT !.reminded = n] \in Configs
      BY <3>1, <3>2 DEF Configs
    <3>4. QED
      BY <3>3 DEF n
  <2>2. config' \in Configs
    BY <1>0, <1>8, <2>1 DEF SaveReminded
  <2>3. QED
    BY <1>4, <1>5, <1>8, <2>2 DEF SaveReminded, fvars
<1>9. CASE Crash(w)
  <2>1. faults' \in 0 .. MaxFaults
    BY <1>5, <1>9, GoesType DEF Crash
  <2>2. QED
    BY <1>0, <1>4, <1>5, <1>9, <2>1 DEF Crash
<1>10. QED
  BY <1>1, <1>2, <1>3, <1>6, <1>7, <1>8, <1>9

LEMMA NextType == TypeInv /\ [Next]_vars => TypeInv'
<1> SUFFICES ASSUME TypeInv, [Next]_vars PROVE TypeInv'
  OBVIOUS
<1>1. CASE UNCHANGED vars
  BY <1>1 DEF vars, fvars, TypeInv, SubsidyTypeOK, RowsExist, Existing
<1>2. ASSUME NEW w \in Workers, ReadStep(w) \/ SaveStep(w) \/ Crash(w) PROVE TypeInv'
  BY <1>2, CreateType, ReviewType, ConfigType DEF ReadStep, SaveStep
<1>3. QED
  BY <1>1, <1>2, TaskType DEF Next

LEMMA TypeAlways == Spec => []TypeInv
  BY InitType, NextType, PTL DEF Spec

(* Rows, configurations, chains of tasks and jobs keep their types, also   *)
(* when tasks are lost or run again.                                       *)
THEOREM SubsidyType == Spec => []SubsidyTypeOK
<1>1. TypeInv => SubsidyTypeOK
  BY DEF TypeInv
<1>2. QED
  BY TypeAlways, <1>1, PTL

-----------------------------------------------------------------------------
(* Jobs that exclude one another.                                          *)
Apart(a, b) == {a, b} \notin Overlap

LEMMA BeginAlone ==
    ASSUME TypeInv, NEW w \in Workers, NEW op, NEW j, Begin(w, op, j), j.op = op
    PROVE  /\ job'[w] = j /\ job[w] = Idle
           /\ \A v \in Workers \ {w} :
                /\ job'[v] = job[v]
                /\ \A b \in Kinds : Apart(op, b) => job'[v].op # b
<1>1. /\ job'[w] = j /\ job[w] = Idle
      /\ \A v \in Workers \ {w} : job'[v] = job[v]
  BY DEF Begin, TypeInv, SubsidyTypeOK
<1>2. ASSUME NEW v \in Workers \ {w}, NEW b \in Kinds, Apart(op, b), job[v].op = b
      PROVE  FALSE
  <2>1. job[v] # Idle
    BY <1>2 DEF Idle, Kinds
  <2>2. {op, job[v].op} \in Overlap
    BY <2>1 DEF Begin, MayRun
  <2>3. QED
    BY <1>2, <2>2 DEF Apart
<1>3. QED
  BY <1>1, <1>2

LEMMA EndAlone ==
    ASSUME TypeInv, NEW w \in Workers, End(w)
    PROVE  /\ job'[w] = Idle /\ job'[w].op = "idle"
           /\ \A v \in Workers \ {w} : job'[v] = job[v]
  BY RecordsTyped DEF End, TypeInv, SubsidyTypeOK

-----------------------------------------------------------------------------
(* One request that waits for its review.  A view that is about to insert  *)
(* one has seen none, and nothing else makes a request wait again.         *)
Waits(l, t) ==
    {i \in Existing : req[i].learner = l /\ req[i].type = t /\ req[i].state = "requested"}

WaitInv ==
    /\ OneRequested
    /\ \A w, v \in Workers : job[w].op = "create" /\ job[v].op = "create" => w = v
    /\ \A w \in Workers : job[w].op = "create" => Waits(job[w].learner, job[w].type) = {}

LEMMA WaitKept ==
    ASSUME WaitInv, Existing' = Existing,
           \A i \in Existing : /\ req'[i].learner = req[i].learner
                               /\ req'[i].type = req[i].type
                               /\ req'[i].state = "requested" => req[i].state = "requested",
           \A v \in Workers : job'[v] = job[v] \/ job'[v].op # "create"
    PROVE  WaitInv'
<1>1. OneRequested'
  BY DEF WaitInv, OneRequested
<1>2. \A l, t : Waits(l, t)' \subseteq Waits(l, t)
  BY DEF Waits
<1>3. QED
  BY <1>1, <1>2 DEF WaitInv

(* Jobs other than create: they begin, go on, and end.                     *)
LEMMA OtherJobs ==
    ASSUME TypeInv, NEW w \in Workers,
           \/ End(w)
           \/ \E op, j : Begin(w, op, j) /\ j.op = op /\ op # "create"
           \/ job[w].op = "approve" /\ job' = [job EXCEPT ![w].at = "saved"]
    PROVE  \A v \in Workers : job'[v] = job[v] \/ job'[v].op # "create"
<1>1. CASE End(w)
  BY <1>1, EndAlone
<1>2. ASSUME NEW op, NEW j, Begin(w, op, j), j.op = op, op # "create"
      PROVE  \A v \in Workers : job'[v] = job[v] \/ job'[v].op # "create"
  BY <1>2, BeginAlone
<1>3. CASE job[w].op = "approve" /\ job' = [job EXCEPT ![w].at = "saved"]
  BY <1>3 DEF TypeInv, SubsidyTypeOK, Jobs
<1>4. QED
  BY <1>1, <1>2, <1>3

LEMMA ReviewJobs ==
    ASSUME NEW w \in Workers,
           \/ \E t \in Types, R \in SUBSET Ids :
                    ReadForApprove(w, t, R) \/ ReadForDecline(w, t, R)
           \/ \E t \in Types, b \in BOOLEAN : ReadForConfigure(w, t, b)
           \/ \E b \in BOOLEAN : ReadForActivate(w, b) \/ ReadForLink(w, b)
    PROVE  /\ UNCHANGED req
           /\ \E op, j : Begin(w, op, j) /\ j.op = op /\ op \notin {"create", "mail"}
<1>1. ASSUME NEW t \in Types, NEW R \in SUBSET Ids, ReadForApprove(w, t, R)
      PROVE  UNCHANGED req /\ \E op, j : Begin(w, op, j) /\ j.op = op /\ op \notin {"create", "mail"}
  <2> DEFINE j == [Idle EXCEPT !.op = "approve", !.type = t,
                               !.ids = {i \in R : req[i].state \in Approvable}]
  <2>1. UNCHANGED req /\ Begin(w, "approve", j) /\ j.op = "approve"
    BY <1>1 DEF ReadForApprove, Idle
  <2> HIDE DEF j
  <2>2. QED
    BY <2>1
<1>2. ASSUME NEW t \in Types, NEW R \in SUBSET Ids, ReadForDecline(w, t, R)
      PROVE  UNCHANGED req /\ \E op, j : Begin(w, op, j) /\ j.op = op /\ op \notin {"create", "mail"}
  <2> DEFINE j == [Idle EXCEPT !.op = "decline", !.type = t,
                               !.ids = {i \in R : req[i].state \in Approvable}]
  <2>1. UNCHANGED req /\ Begin(w, "decline", j) /\ j.op = "decline"
    BY <1>2 DEF ReadForDecline, Idle
  <2> HIDE DEF j
  <2>2. QED
    BY <2>1
<1>3. ASSUME NEW t \in Types, NEW b \in BOOLEAN, ReadForConfigure(w, t, b)
      PROVE  UNCHANGED req /\ \E op, j : Begin(w, op, j) /\ j.op = op /\ op \notin {"create", "mail"}
  <2> DEFINE j == [Idle EXCEPT !.op = "configure",
                               !.row = [config EXCEPT !.type = t, !.enabled = b]]
  <2>1. UNCHANGED req /\ Begin(w, "configure", j) /\ j.op = "configure"
    BY <1>3 DEF ReadForConfigure, Idle
  <2> HIDE DEF j
  <2>2. QED
    BY <2>1
<1>4. ASSUME NEW b \in BOOLEAN, ReadForActivate(w, b) \/ ReadForLink(w, b)
      PROVE  UNCHANGED req /\ \E op, j : Begin(w, op, j) /\ j.op = op /\ op \notin {"create", "mail"}
  <2> DEFINE a == [Idle EXCEPT !.op = "activate", !.flag = b]
             l == [Idle EXCEPT !.op = "link", !.flag = b]
  <2>1. /\ UNCHANGED req /\ (Begin(w, "activate", a) \/ Begin(w, "link", l))
        /\ a.op = "activate" /\ l.op = "link"
    BY <1>4 DEF ReadForActivate, ReadForLink, Idle
  <2> HIDE DEF a, l
  <2>2. QED
    BY <2>1
<1>5. QED
  BY <1>1, <1>2, <1>3, <1>4

LEMMA ReadJobs ==
    ASSUME NEW w \in Workers,
           \/ \E t \in Types, R \in SUBSET Ids :
                    ReadForApprove(w, t, R) \/ ReadForDecline(w, t, R)
           \/ \E t \in Types, b \in BOOLEAN : ReadForConfigure(w, t, b)
           \/ \E b \in BOOLEAN : ReadForActivate(w, b) \/ ReadForLink(w, b)
           \/ ReadForMail(w)
    PROVE  /\ UNCHANGED req
           /\ \E op, j : Begin(w, op, j) /\ j.op = op /\ op # "create"
<1>1. ASSUME ReadForMail(w)
      PROVE  UNCHANGED req /\ \E op, j : Begin(w, op, j) /\ j.op = op /\ op # "create"
  <2> DEFINE new == {i \in OfType(config.type) :
                      req[i].state = "requested" /\ req[i].nth > config.reminded}
             j == [Idle EXCEPT !.op = "mail", !.ids = new, !.row = config]
  <2>1. UNCHANGED req /\ Begin(w, "mail", j) /\ j.op = "mail"
    BY <1>1 DEF ReadForMail, Idle
  <2> HIDE DEF j
  <2>2. QED
    BY <2>1
<1>2. QED
  BY <1>1, ReviewJobs

LEMMA WaitNext ==
    ASSUME TypeInv, WaitInv, Apart("create", "create"), [Next]_vars
    PROVE  WaitInv'
<1>0. Existing \subseteq Ids
  BY DEF Existing
<1>1. ASSUME NEW w \in Workers, NEW l \in Learners, NEW t \in Types, ReadForCreate(w, l, t)
      PROVE  WaitInv'
  <2> DEFINE j == [Idle EXCEPT !.op = "create", !.type = t, !.learner = l]
  <2>1. Begin(w, "create", j) /\ UNCHANGED req /\ MayCreate(l, t)
    BY <1>1 DEF ReadForCreate
  <2>2. j.op = "create" /\ j.type = t /\ j.learner = l
    BY DEF Idle
  <2> HIDE DEF j
  <2>3. /\ job'[w] = j
        /\ \A v \in Workers \ {w} : job'[v] = job[v] /\ job'[v].op # "create"
    BY <2>1, <2>2, BeginAlone DEF Kinds
  <2>4. Waits(l, t) = {}
    BY <2>1 DEF MayCreate, Waits, OfType, Outstanding
  <2>5. \A k, u : Waits(k, u)' = Waits(k, u)
    BY <2>1 DEF Waits, Existing
  <2>6. OneRequested'
    BY <2>1 DEF WaitInv, OneRequested, Existing
  <2>7. QED
    BY <2>2, <2>3, <2>4, <2>5, <2>6 DEF WaitInv
<1>2. ASSUME NEW w \in Workers, SaveCreated(w) PROVE WaitInv'
  <2>1. PICK i \in Ids \ Existing :
            req' = [req EXCEPT ![i] = [state |-> "requested", type |-> job[w].type,
                    learner |-> job[w].learner, nth |-> Cardinality(Existing) + 1]]
    BY <1>2 DEF SaveCreated
  <2>2. /\ Existing' = Existing \cup {i}
        /\ req'[i].type = job[w].type /\ req'[i].learner = job[w].learner
        /\ \A k \in Existing : req'[k] = req[k]
    BY <2>1 DEF Existing, TypeInv, SubsidyTypeOK
  <2>3. Waits(job[w].learner, job[w].type) = {}
    BY <1>2 DEF SaveCreated, At, WaitInv
  <2>4. OneRequested'
    BY <2>2, <2>3 DEF OneRequested, WaitInv, Waits
  <2>5. \A v \in Workers : job'[v].op # "create"
    BY <1>2, EndAlone DEF SaveCreated, At, WaitInv
  <2>6. QED
    BY <2>4, <2>5 DEF WaitInv
<1>3. ASSUME NEW w \in Workers,
             \/ \E t \in Types, R \in SUBSET Ids :
                      ReadForApprove(w, t, R) \/ ReadForDecline(w, t, R)
             \/ \E t \in Types, b \in BOOLEAN : ReadForConfigure(w, t, b)
             \/ \E b \in BOOLEAN : ReadForActivate(w, b) \/ ReadForLink(w, b)
             \/ ReadForMail(w)
      PROVE  WaitInv'
  <2>1. UNCHANGED req /\ \E op, j : Begin(w, op, j) /\ j.op = op /\ op # "create"
    BY <1>3, ReadJobs
  <2>2. \A v \in Workers : job'[v] = job[v] \/ job'[v].op # "create"
    BY <2>1, OtherJobs
  <2>3. QED
    BY <2>1, <2>2, WaitKept DEF Existing
<1>4. ASSUME NEW w \in Workers,
             \/ QueueAssignment(w) \/ SaveConfig(w) \/ SaveActive(w) \/ SaveLink(w)
             \/ SaveReminded(w) \/ Crash(w)
      PROVE  WaitInv'
  <2>1. UNCHANGED req /\ End(w)
    BY <1>4 DEF QueueAssignment, SaveConfig, SaveActive, SaveLink, SaveReminded, Crash
  <2>2. \A v \in Workers : job'[v] = job[v] \/ job'[v].op # "create"
    BY <2>1, OtherJobs
  <2>3. QED
    BY <2>1, <2>2, WaitKept DEF Existing
<1>5. ASSUME NEW w \in Workers, SavePending(w) \/ SaveDeclined(w) PROVE WaitInv'
  <2>1. job[w].ids \in SUBSET Existing
    BY DEF TypeInv, RowsExist
  <2>2. \E s \in {"pending", "declined"} : SetState(job[w].ids, s)
    BY <1>5 DEF SavePending, SaveDeclined
  <2>3. PICK s \in States \ {"none", "requested"} : SetState(job[w].ids, s)
    BY <2>2 DEF States
  <2>4. /\ Existing' = Existing
        /\ \A k \in Ids : /\ req'[k].learner = req[k].learner
                          /\ req'[k].type = req[k].type
                          /\ req'[k].state = "requested" => req[k].state = "requested"
    <3> DEFINE R == job[w].ids
    <3>1. R \in SUBSET Existing /\ s \in States \ {"none"} /\ SetState(R, s)
      BY <2>1, <2>3
    <3> HIDE DEF R
    <3>2. /\ Existing' = Existing
          /\ \A k \in Ids : /\ req'[k].learner = req[k].learner
                            /\ req'[k].type = req[k].type
                            /\ req'[k].state = IF k \in R THEN s ELSE req[k].state
      BY <3>1, SetStateType
    <3>3. QED
      BY <2>3, <3>2
  <2>5. \A v \in Workers : job'[v] = job[v] \/ job'[v].op # "create"
    <3>1. CASE SavePending(w)
      <4>1. job[w].op = "approve" /\ job' = [job EXCEPT ![w].at = "saved"]
        BY <3>1 DEF SavePending, At
      <4>2. QED
        BY <4>1, OtherJobs
    <3>2. CASE SaveDeclined(w)
      BY <3>2, OtherJobs DEF SaveDeclined
    <3>3. QED
      BY <1>5, <3>1, <3>2
  <2>6. QED
    BY <1>0, <2>4, <2>5, WaitKept
<1>6. ASSUME NEW c \in Chains, TaskStep(c) \/ AssignUnheard(c) \/ GiveUp(c)
      PROVE  WaitInv'
  <2>1. UNCHANGED job
    BY <1>6 DEF TaskStep, Assign, Update, Flush, AssignUnheard, GiveUp
  <2>2. /\ Existing' = Existing
        /\ \A k \in Ids : /\ req'[k].learner = req[k].learner
                          /\ req'[k].type = req[k].type
                          /\ req'[k].state = "requested" => req[k].state = "requested"
    <3>1. CASE Assign(c) \/ AssignUnheard(c) \/ GiveUp(c)
      BY <3>1 DEF Assign, AssignUnheard, GiveUp, Existing
    <3>2. CASE Update(c)
      BY <3>2, UpdateType
    <3>3. CASE Flush(c)
      <4>1. PICK R \in SUBSET chain[c].ids : SetState(R, "declined")
        BY <3>3 DEF Flush
      <4>2. R \in SUBSET Existing /\ "declined" \in States \ {"none"}
        BY DEF TypeInv, RowsExist, States
      <4>3. QED
        BY <4>1, <4>2, SetStateType
    <3>4. QED
      BY <1>6, <3>1, <3>2, <3>3 DEF TaskStep
  <2>3. QED
    BY <1>0, <2>1, <2>2, WaitKept
<1>7. CASE UNCHANGED vars
  BY <1>7, WaitKept DEF vars, Existing
<1>8. QED
  BY <1>1, <1>2, <1>3, <1>4, <1>5, <1>6, <1>7 DEF Next, ReadStep, SaveStep

(* When two create calls of a customer do not overlap, no learner waits for*)
(* the review of two requests of one type: no approval, task or change of  *)
(* the configuration makes a request wait again.                           *)
THEOREM OneRequestedTheorem ==
    ASSUME Apart("create", "create")
    PROVE  Spec => []OneRequested
<1>1. Init => WaitInv
  BY DEF Init, WaitInv, OneRequested, Existing, NoReq, Idle
<1>2. TypeInv /\ WaitInv /\ [Next]_vars => WaitInv'
  BY WaitNext
<1>3. WaitInv => OneRequested
  BY DEF WaitInv
<1>4. QED
  BY TypeAlways, <1>1, <1>2, <1>3, PTL DEF Spec

-----------------------------------------------------------------------------
(* The owner of a pending request: the chain of tasks of one approval, or  *)
(* the view that has still to queue it.                                    *)
ReviewsApart ==
    /\ Apart("approve", "approve") /\ Apart("approve", "decline")
    /\ Apart("approve", "configure") /\ Apart("configure", "configure")

OwnC(c, i) == Assigning(c) /\ i \in chain[c].ids
OwnW(w, i) == Queueing(w) /\ i \in job[w].ids
Owned(i) == (\E c \in Chains : OwnC(c, i)) \/ (\E w \in Workers : OwnW(w, i))

OwnedIsPending == \A i \in Ids : Owned(i) => req[i].state = "pending"

OwnersDiffer ==
    \A i \in Ids :
        /\ \A c, d \in Chains : OwnC(c, i) /\ OwnC(d, i) => c = d
        /\ \A w, v \in Workers : OwnW(w, i) /\ OwnW(v, i) => w = v
        /\ \A c \in Chains, w \in Workers : ~(OwnC(c, i) /\ OwnW(w, i))

PendingIsOwned == \A i \in Ids : req[i].state = "pending" /\ faults = 0 => Owned(i)

ReviewsAlone ==
    \A w, v \in Workers :
        job[w].op = "approve" /\ job[v].op \in {"approve", "decline", "configure"} => w = v

(* What a review has read is still so when it saves.                       *)
ReviewsCurrent ==
    \A w \in Workers : \A i \in job[w].ids :
        /\ At(w, "approve", "read") => req[i].state \in Approvable /\ i \notin Flushed
        /\ job[w].op = "decline" => req[i].state # "pending"

FlushedIsFree == \A i \in Flushed : ~Owned(i)

(* Each learner of a chain of coupon codes has been given one.             *)
CodesForAll ==
    \A c \in Chains : chain[c].at = "update" /\ chain[c].type = "coupon" =>
        \A i \in chain[c].ids : req[i].learner \in chain[c].given

OwnerInv ==
    /\ OwnedIsPending /\ OwnersDiffer /\ PendingIsOwned
    /\ ReviewsAlone /\ ReviewsCurrent /\ FlushedIsFree /\ CodesForAll

LEMMA FlushedIs ==
    ASSUME NEW i
    PROVE  i \in Flushed <=> \E c \in Chains : chain[c].at = "flush" /\ i \in chain[c].ids
  BY DEF Flushed

LEMMA IdsTyped ==
    ASSUME TypeInv
    PROVE  /\ \A w \in Workers : job[w] \in Jobs /\ job[w].ids \subseteq Existing
           /\ \A c \in Chains : chain[c] \in ChainRecords /\ chain[c].ids \subseteq Existing
           /\ Existing \subseteq Ids /\ Flushed \subseteq Ids
           /\ \A i \in Ids : req[i] \in Reqs
           /\ faults \in Nat
<1>1. Existing \subseteq Ids
  BY DEF Existing
<1>2. \A c \in Chains : chain[c] \in ChainRecords /\ chain[c].ids \subseteq Existing
  BY DEF TypeInv, SubsidyTypeOK, RowsExist
<1>3. Flushed \subseteq Ids
  BY <1>1, <1>2 DEF Flushed
<1>4. QED
  BY <1>1, <1>2, <1>3, SubsidyAssumption DEF TypeInv, SubsidyTypeOK, RowsExist

(* A step that writes no request and gives none a new owner.               *)
LEMMA OwnerKept ==
    ASSUME TypeInv, TypeInv', OwnerInv, UNCHANGED req,
           \A i \in Ids : \A c \in Chains : OwnC(c, i)' => OwnC(c, i),
           \A i \in Ids : \A w \in Workers : OwnW(w, i)' => OwnW(w, i),
           faults' # 0 \/ (UNCHANGED faults /\ \A i \in Ids : Owned(i) => Owned(i)'),
           Flushed' \subseteq Flushed,
           \A v \in Workers :
               job'[v] = job[v] \/ job'[v].op \notin {"approve", "decline", "configure"},
           \A c \in Chains : chain'[c] = chain[c] \/ chain'[c].at # "update"
    PROVE  OwnerInv'
<1>1. \A i \in Ids : Owned(i)' => Owned(i)
  BY DEF Owned
<1>2. OwnedIsPending'
  BY <1>1 DEF OwnerInv, OwnedIsPending
<1>3. OwnersDiffer'
  BY DEF OwnerInv, OwnersDiffer
<1>4. PendingIsOwned'
  BY DEF OwnerInv, PendingIsOwned
<1>5. ReviewsAlone'
  BY DEF OwnerInv, ReviewsAlone
<1>6. ReviewsCurrent'
  BY DEF OwnerInv, ReviewsCurrent, At
<1>7. FlushedIsFree'
  BY <1>1, IdsTyped DEF OwnerInv, FlushedIsFree
<1>8. CodesForAll'
  BY DEF OwnerInv, CodesForAll
<1>9. QED
  BY <1>2, <1>3, <1>4, <1>5, <1>6, <1>7, <1>8 DEF OwnerInv

(* The same for a fault, after which a pending request may have no owner.  *)
LEMMA OwnerFault ==
    ASSUME TypeInv, TypeInv', OwnerInv, UNCHANGED req, faults' # 0,
           \A i \in Ids : \A c \in Chains : OwnC(c, i)' => OwnC(c, i),
           \A i \in Ids : \A w \in Workers : OwnW(w, i)' => OwnW(w, i),
           Flushed' \subseteq Flushed,
           \A v \in Workers :
               job'[v] = job[v] \/ job'[v].op \notin {"approve", "decline", "configure"},
           \A c \in Chains : chain'[c] = chain[c] \/ chain'[c].at # "update"
    PROVE  OwnerInv'
<1>1. \A i \in Ids : Owned(i)' => Owned(i)
  BY DEF Owned
<1>2. OwnedIsPending'
  BY <1>1 DEF OwnerInv, OwnedIsPending
<1>3. OwnersDiffer'
  BY DEF OwnerInv, OwnersDiffer
<1>4. PendingIsOwned'
  BY DEF PendingIsOwned
<1>5. ReviewsAlone'
  BY DEF OwnerInv, ReviewsAlone
<1>6. ReviewsCurrent'
  BY DEF OwnerInv, ReviewsCurrent, At
<1>7. FlushedIsFree'
  BY <1>1, IdsTyped DEF OwnerInv, FlushedIsFree
<1>8. CodesForAll'
  BY DEF OwnerInv, CodesForAll
<1>9. QED
  BY <1>2, <1>3, <1>4, <1>5, <1>6, <1>7, <1>8 DEF OwnerInv

(* The same for a step of jobs only.                                       *)
LEMMA OwnerJobs ==
    ASSUME TypeInv, TypeInv', OwnerInv, UNCHANGED <<req, chain, faults>>, NEW w \in Workers,
           ~Queueing(w), job'[w].op \notin {"approve", "decline", "configure"},
           \A v \in Workers \ {w} : job'[v] = job[v]
    PROVE  OwnerInv'
<1>1. \A i \in Ids : /\ \A c \in Chains : OwnC(c, i)' <=> OwnC(c, i)
                     /\ \A v \in Workers : OwnW(v, i)' <=> OwnW(v, i)
  BY DEF OwnC, OwnW, Assigning, Queueing, At
<1>2. \A i \in Ids : Owned(i) => Owned(i)'
  BY <1>1 DEF Owned
<1>3. Flushed' \subseteq Flushed
  BY DEF Flushed
<1>4. QED
  BY <1>1, <1>2, <1>3, OwnerKept

(* Reads.  Those of the reviews begin alone.                               *)
LEMMA OwnerReads ==
    ASSUME TypeInv, TypeInv', OwnerInv, ReviewsApart, NEW w \in Workers, ReadStep(w)
    PROVE  OwnerInv'
<1>0. ASSUME NEW op, op \notin {"approve", "decline", "configure"}, NEW j, j.op = op,
             Begin(w, op, j), UNCHANGED <<req, chain, faults>>
      PROVE  OwnerInv'
  <2>1. /\ job'[w] = j /\ job[w] = Idle
        /\ \A v \in Workers \ {w} : job'[v] = job[v]
    BY <1>0, BeginAlone
  <2>2. ~Queueing(w)
    BY <2>1 DEF Queueing, At, Idle
  <2>3. QED
    BY <1>0, <2>1, <2>2, OwnerJobs
<1>1. ASSUME NEW l \in Learners, NEW t \in Types, ReadForCreate(w, l, t) PROVE OwnerInv'
  <2> DEFINE j == [Idle EXCEPT !.op = "create", !.type = t, !.learner = l]
  <2>1. Begin(w, "create", j) /\ UNCHANGED <<req, chain, faults>> /\ j.op = "create"
    BY <1>1 DEF ReadForCreate, fvars, Idle
  <2> HIDE DEF j
  <2>2. QED
    BY <1>0, <2>1
<1>2. ASSUME NEW b \in BOOLEAN, ReadForActivate(w, b) \/ ReadForLink(w, b) PROVE OwnerInv'
  <2> DEFINE a == [Idle EXCEPT !.op = "activate", !.flag = b]
             l == [Idle EXCEPT !.op = "link", !.flag = b]
  <2>1. /\ UNCHANGED <<req, chain, faults>>
        /\ (Begin(w, "activate", a) \/ Begin(w, "link", l))
        /\ a.op = "activate" /\ l.op = "link"
    BY <1>2 DEF ReadForActivate, ReadForLink, Idle, fvars
  <2> HIDE DEF a, l
  <2>2. QED
    BY <1>0, <2>1
<1>3. CASE ReadForMail(w)
  <2> DEFINE new == {i \in OfType(config.type) :
                      req[i].state = "requested" /\ req[i].nth > config.reminded}
             j == [Idle EXCEPT !.op = "mail", !.ids = new, !.row = config]
  <2>1. UNCHANGED <<req, chain, faults>> /\ Begin(w, "mail", j) /\ j.op = "mail"
    BY <1>3 DEF ReadForMail, Idle, fvars
  <2> HIDE DEF j
  <2>2. QED
    BY <1>0, <2>1
<1>4. ASSUME NEW t \in Types, NEW R \in SUBSET Ids, ReadForApprove(w, t, R)
      PROVE  OwnerInv'
  <2> DEFINE Q == {i \in R : req[i].state \in Approvable}
             j == [Idle EXCEPT !.op = "approve", !.type = t, !.ids = Q]
  <2>1. /\ Begin(w, "approve", j) /\ UNCHANGED <<req, chain, faults>>
        /\ j.op = "approve" /\ j.at = "read" /\ j.ids = Q
    BY <1>4 DEF ReadForApprove, fvars, Idle
  <2>2. \A i \in Q : req[i].state \in Approvable /\ i \notin Flushed
    BY <1>4 DEF ReadForApprove, ReviewsApart, Apart
  <2> HIDE DEF Q, j
  <2>3. /\ job'[w] = j /\ job[w] = Idle
        /\ \A v \in Workers \ {w} :
            /\ job'[v] = job[v]
            /\ job'[v].op \notin {"approve", "decline", "configure"}
    BY <2>1, BeginAlone DEF ReviewsApart, Kinds
  <2>4. \A i \in Ids : /\ \A c \in Chains : OwnC(c, i)' <=> OwnC(c, i)
                       /\ \A v \in Workers : OwnW(v, i)' <=> OwnW(v, i)
    BY <2>1, <2>3 DEF OwnC, OwnW, Assigning, Queueing, At, Idle
  <2>5. Flushed' = Flushed /\ \A i \in Ids : Owned(i)' <=> Owned(i)
    BY <2>1, <2>4 DEF Flushed, Owned
  <2>6. OwnedIsPending' /\ OwnersDiffer' /\ PendingIsOwned'
    BY <2>1, <2>4, <2>5 DEF OwnerInv, OwnedIsPending, OwnersDiffer, PendingIsOwned
  <2>7. ReviewsAlone'
    BY <2>3 DEF ReviewsAlone
  <2>8. ReviewsCurrent'
    BY <2>1, <2>2, <2>3, <2>5 DEF OwnerInv, ReviewsCurrent, At
  <2>9. FlushedIsFree' /\ CodesForAll'
    BY <2>1, <2>5, IdsTyped DEF OwnerInv, FlushedIsFree, CodesForAll
  <2>10. QED
    BY <2>6, <2>7, <2>8, <2>9 DEF OwnerInv
<1>5. ASSUME NEW t \in Types, NEW R \in SUBSET Ids, ReadForDecline(w, t, R)
      PROVE  OwnerInv'
  <2> DEFINE Q == {i \in R : req[i].state \in Approvable}
             j == [Idle EXCEPT !.op = "decline", !.type = t, !.ids = Q]
  <2>1. /\ Begin(w, "decline", j) /\ UNCHANGED <<req, chain, faults>>
        /\ j.op = "decline" /\ j.at = "read" /\ j.ids = Q
    BY <1>5 DEF ReadForDecline, fvars, Idle
  <2>2. \A i \in Q : req[i].state # "pending"
    BY DEF Approvable
  <2>3. Apart("decline", "approve")
    BY DEF ReviewsApart, Apart
  <2> HIDE DEF Q, j
  <2>4. /\ job'[w] = j /\ job[w] = Idle
        /\ \A v \in Workers \ {w} : job'[v] = job[v] /\ job'[v].op # "approve"
    BY <2>1, <2>3, BeginAlone DEF Kinds
  <2>5. \A i \in Ids : /\ \A c \in Chains : OwnC(c, i)' <=> OwnC(c, i)
                       /\ \A v \in Workers : OwnW(v, i)' <=> OwnW(v, i)
    BY <2>1, <2>4 DEF OwnC, OwnW, Assigning, Queueing, At, Idle
  <2>6. Flushed' = Flushed /\ \A i \in Ids : Owned(i)' <=> Owned(i)
    BY <2>1, <2>5 DEF Flushed, Owned
  <2>7. OwnedIsPending' /\ OwnersDiffer' /\ PendingIsOwned'
    BY <2>1, <2>5, <2>6 DEF OwnerInv, OwnedIsPending, OwnersDiffer, PendingIsOwned
  <2>8. ReviewsAlone'
    BY <2>1, <2>4 DEF ReviewsAlone
  <2>9. ReviewsCurrent'
    BY <2>1, <2>2, <2>4, <2>6 DEF OwnerInv, ReviewsCurrent, At
  <2>10. FlushedIsFree' /\ CodesForAll'
    BY <2>1, <2>6, IdsTyped DEF OwnerInv, FlushedIsFree, CodesForAll
  <2>11. QED
    BY <2>7, <2>8, <2>9, <2>10 DEF OwnerInv
<1>6. ASSUME NEW t \in Types, NEW b \in BOOLEAN, ReadForConfigure(w, t, b)
      PROVE  OwnerInv'
  <2> DEFINE j == [Idle EXCEPT !.op = "configure",
                               !.row = [config EXCEPT !.type = t, !.enabled = b]]
             F == {i \in OfType(config.type) : req[i].state \in Open}
  <2>1. /\ Begin(w, "configure", j) /\ UNCHANGED <<req, faults>> /\ j.op = "configure"
    BY <1>6 DEF ReadForConfigure, fvars, Idle
  <2>2. Handled = {}
    BY <1>6 DEF ReadForConfigure, ReviewsApart, Apart
  <2>3. Apart("configure", "approve")
    BY DEF ReviewsApart, Apart
  <2>4. UNCHANGED chain
        \/ \E c \in Chains : /\ chain[c] = Free
                             /\ chain' = [chain EXCEPT ![c] = [at |-> "flush",
                                    type |-> config.type, ids |-> F, given |-> {}]]
    BY <1>6 DEF ReadForConfigure
  <2> HIDE DEF j, F
  <2>5. /\ job'[w] = j /\ job[w] = Idle
        /\ \A v \in Workers \ {w} : job'[v] = job[v] /\ job'[v].op # "approve"
    BY <2>1, <2>3, BeginAlone DEF Kinds
  <2>6. \A v \in Workers : ~Queueing(v) /\ ~Queueing(v)' /\ job'[v].op # "approve"
    BY <2>1, <2>5 DEF Queueing, At, Idle
  <2>7. \A c \in Chains : chain[c].ids = {}
    BY <2>2 DEF Handled
  <2>8. \A c \in Chains : ~(\E i \in Ids : OwnC(c, i)')
    BY <2>4, <2>7, IdsTyped DEF OwnC, Assigning, TypeInv, SubsidyTypeOK
  <2>9. \A i \in Ids : ~Owned(i) /\ ~Owned(i)'
    BY <2>6, <2>7, <2>8 DEF Owned, OwnC, OwnW
  <2>10. OwnedIsPending' /\ OwnersDiffer' /\ PendingIsOwned'
    BY <2>1, <2>9 DEF OwnerInv, OwnedIsPending, OwnersDiffer, PendingIsOwned, Owned
  <2>11. ReviewsAlone'
    BY <2>6 DEF ReviewsAlone
  <2>12. ReviewsCurrent'
    BY <2>1, <2>5, <2>6 DEF OwnerInv, ReviewsCurrent, At
  <2>13. FlushedIsFree'
    <3>1. \A c \in Chains : chain'[c].ids \subseteq Ids
      BY DEF TypeInv, SubsidyTypeOK, ChainRecords
    <3>2. Flushed' \subseteq Ids
      BY <3>1 DEF Flushed
    <3>3. QED
      BY <2>9, <3>2 DEF FlushedIsFree
  <2>14. CodesForAll'
    BY <2>1, <2>4 DEF OwnerInv, CodesForAll, TypeInv, SubsidyTypeOK
  <2>15. QED
    BY <2>10, <2>11, <2>12, <2>13, <2>14 DEF OwnerInv
<1>7. QED
  BY <1>1, <1>2, <1>3, <1>4, <1>5, <1>6 DEF ReadStep

(* Saves that end a job and write a request nobody owns, or none.          *)
LEMMA OwnerSaves ==
    ASSUME TypeInv, TypeInv', OwnerInv, ReviewsApart, NEW w \in Workers,
           SaveStep(w) \/ Crash(w)
    PROVE  OwnerInv'
<1>1. CASE \/ SaveConfig(w) \/ SaveActive(w) \/ SaveLink(w) \/ SaveReminded(w)
           \/ Crash(w) /\ job[w].at # "saved"
  <2>1. UNCHANGED <<req, chain, faults>> /\ End(w) /\ ~Queueing(w)
    BY <1>1 DEF SaveConfig, SaveActive, SaveLink, SaveReminded, Crash, Queueing, At, fvars
  <2>2. QED
    BY <2>1, EndAlone, OwnerJobs
<1>2. CASE Crash(w) /\ job[w].at = "saved"
  <2>1. UNCHANGED <<req, chain>> /\ End(w) /\ faults' # 0
    BY <1>2, GoesType DEF Crash
  <2>2. /\ job'[w].op = "idle"
        /\ \A v \in Workers \ {w} : job'[v] = job[v]
    BY <2>1, EndAlone
  <2>3. \A i \in Ids : /\ \A c \in Chains : OwnC(c, i)' => OwnC(c, i)
                       /\ \A v \in Workers : OwnW(v, i)' => OwnW(v, i)
    BY <2>1, <2>2 DEF OwnC, OwnW, Assigning, Queueing, At
  <2>4. Flushed' \subseteq Flushed
    BY <2>1 DEF Flushed
  <2>5. \A v \in Workers :
            job'[v] = job[v] \/ job'[v].op \notin {"approve", "decline", "configure"}
    BY <2>2
  <2>6. \A d \in Chains : chain'[d] = chain[d]
    BY <2>1
  <2>7. /\ \A i \in Ids : \A d \in Chains : OwnC(d, i)' => OwnC(d, i)
        /\ \A i \in Ids : \A v \in Workers : OwnW(v, i)' => OwnW(v, i)
    BY <2>3
  <2>8. QED
    BY <2>1, <2>4, <2>5, <2>6, <2>7, OwnerFault
<1>3. CASE SaveCreated(w)
  <2>1. PICK n \in Ids \ Existing : \E r : r.state = "requested" /\ req' = [req EXCEPT ![n] = r]
    <3>1. PICK n \in Ids \ Existing : req' = [req EXCEPT ![n] =
                [state |-> "requested", type |-> job[w].type,
                 learner |-> job[w].learner, nth |-> Cardinality(Existing) + 1]]
      BY <1>3 DEF SaveCreated
    <3> DEFINE r == [state |-> "requested", type |-> job[w].type,
                     learner |-> job[w].learner, nth |-> Cardinality(Existing) + 1]
    <3>2. r.state = "requested" /\ req' = [req EXCEPT ![n] = r]
      BY <3>1
    <3> HIDE DEF r
    <3>3. QED
      BY <3>2
  <2>2. /\ req'[n].state = "requested"
        /\ \A i \in Ids \ {n} : req'[i] = req[i]
    BY <2>1 DEF TypeInv, SubsidyTypeOK
  <2>3. UNCHANGED <<chain, faults>> /\ End(w) /\ job[w].op = "create"
    BY <1>3 DEF SaveCreated, At, fvars
  <2>4. /\ job'[w].op = "idle"
        /\ \A v \in Workers \ {w} : job'[v] = job[v]
    BY <2>3, EndAlone
  <2>5. \A i \in Ids : /\ \A c \in Chains : OwnC(c, i)' <=> OwnC(c, i)
                       /\ \A v \in Workers : OwnW(v, i)' <=> OwnW(v, i)
    BY <2>3, <2>4 DEF OwnC, OwnW, Assigning, Queueing, At
  <2>6. Flushed' = Flushed /\ \A i \in Ids : Owned(i)' <=> Owned(i)
    BY <2>3, <2>5 DEF Flushed, Owned
  <2>7. /\ ~Owned(n)
        /\ \A v \in Workers : n \notin job[v].ids
        /\ \A c \in Chains : n \notin chain[c].ids
    BY <2>1, IdsTyped DEF Owned, OwnC, OwnW
  <2>8. OwnedIsPending' /\ OwnersDiffer' /\ PendingIsOwned'
    BY <2>2, <2>3, <2>5, <2>6, <2>7
       DEF OwnerInv, OwnedIsPending, OwnersDiffer, PendingIsOwned
  <2>9. ReviewsAlone'
    BY <2>4 DEF OwnerInv, ReviewsAlone
  <2>10. ReviewsCurrent'
    BY <2>2, <2>4, <2>6, <2>7, IdsTyped DEF OwnerInv, ReviewsCurrent, At
  <2>11. FlushedIsFree'
    BY <2>6, IdsTyped DEF OwnerInv, FlushedIsFree
  <2>12. CodesForAll'
    BY <2>2, <2>3, <2>7, IdsTyped DEF OwnerInv, CodesForAll
  <2>13. QED
    BY <2>8, <2>9, <2>10, <2>11, <2>12 DEF OwnerInv
<1>4. CASE SavePending(w)
  <2> DEFINE R == job[w].ids
  <2>1. R \in SUBSET Existing /\ R \subseteq Ids
    BY IdsTyped
  <2>2. /\ SetState(R, "pending") /\ UNCHANGED <<chain, faults>> /\ At(w, "approve", "read")
        /\ job' = [job EXCEPT ![w].at = "saved"]
    BY <1>4 DEF SavePending, fvars
  <2>3. \A i \in R : req[i].state \in Approvable /\ i \notin Flushed /\ ~Owned(i)
    BY <2>1, <2>2 DEF OwnerInv, ReviewsCurrent, OwnedIsPending, Approvable
  <2>4. /\ job'[w].op = "approve" /\ job'[w].at = "saved" /\ job'[w].ids = R
        /\ \A v \in Workers \ {w} : /\ job'[v] = job[v]
                                    /\ job[v].op \notin {"approve", "decline", "configure"}
    BY <2>2 DEF At, TypeInv, SubsidyTypeOK, Jobs, OwnerInv, ReviewsAlone
  <2>5. ~Queueing(w)
    BY <2>2 DEF Queueing, At
  <2> HIDE DEF R
  <2>6. \A i \in Ids : /\ req'[i].state = IF i \in R THEN "pending" ELSE req[i].state
                       /\ req'[i].learner = req[i].learner
    BY <2>1, <2>2, SetStateType DEF States
  <2>7. \A i \in Ids : /\ \A c \in Chains : OwnC(c, i)' <=> OwnC(c, i)
                       /\ \A v \in Workers : OwnW(v, i)' <=> (v = w /\ i \in R)
    BY <2>2, <2>4 DEF OwnC, OwnW, Assigning, Queueing, At
  <2>8. \A v \in Workers : ~Queueing(v)
    BY <2>4, <2>5 DEF Queueing, At
  <2>9. \A i \in Ids : Owned(i)' <=> (i \in R \/ Owned(i))
    BY <2>7, <2>8 DEF Owned, OwnW
  <2>10. Flushed' = Flushed
    BY <2>2 DEF Flushed
  <2>11. OwnedIsPending' /\ PendingIsOwned'
    BY <2>2, <2>6, <2>9 DEF OwnerInv, OwnedIsPending, PendingIsOwned
  <2>12. OwnersDiffer'
    BY <2>3, <2>7 DEF OwnerInv, OwnersDiffer, Owned
  <2>13. ReviewsAlone'
    BY <2>4 DEF ReviewsAlone
  <2>14. ReviewsCurrent'
    BY <2>4 DEF ReviewsCurrent, At
  <2>15. FlushedIsFree'
    BY <2>3, <2>9, <2>10, IdsTyped DEF OwnerInv, FlushedIsFree
  <2>16. CodesForAll'
    BY <2>2, <2>6, IdsTyped DEF OwnerInv, CodesForAll
  <2>17. QED
    BY <2>11, <2>12, <2>13, <2>14, <2>15, <2>16 DEF OwnerInv
<1>5. CASE QueueAssignment(w)
  <2> DEFINE R == job[w].ids
  <2>1. PICK c \in Chains : /\ chain[c] = Free
                            /\ chain' = [chain EXCEPT ![c] = [at |-> "assign",
                                    type |-> job[w].type, ids |-> R, given |-> {}]]
    BY <1>5 DEF QueueAssignment
  <2>2. UNCHANGED <<req, faults>> /\ Queueing(w) /\ End(w)
    BY <1>5 DEF QueueAssignment, Queueing, fvars
  <2>3. /\ job'[w].op = "idle"
        /\ \A v \in Workers \ {w} : job'[v] = job[v]
    BY <2>2, EndAlone
  <2>4. /\ chain'[c].at = "assign" /\ chain'[c].ids = R
        /\ \A d \in Chains \ {c} : chain'[d] = chain[d]
    BY <2>1 DEF TypeInv, SubsidyTypeOK
  <2>5. \A i \in R : OwnW(w, i)
    BY <2>2 DEF OwnW
  <2> HIDE DEF R
  <2>6. \A i \in Ids :
            /\ \A d \in Chains : OwnC(d, i)' <=> (d = c /\ i \in R) \/ (d # c /\ OwnC(d, i))
            /\ ~OwnC(c, i)
            /\ \A v \in Workers : OwnW(v, i)' <=> (v # w /\ OwnW(v, i))
    BY <2>1, <2>3, <2>4 DEF OwnC, OwnW, Assigning, Queueing, At, Free
  <2>7. \A i \in Ids : OwnW(w, i) => i \in R
    BY DEF OwnW, R
  <2>8. \A i \in Ids : Owned(i)' <=> Owned(i)
    BY <2>5, <2>6, <2>7 DEF Owned
  <2>9. Flushed' = Flushed
    <3>1. \A d \in Chains : (chain'[d].at = "flush") <=> (chain[d].at = "flush")
      BY <2>1, <2>4 DEF Free
    <3>2. \A d \in Chains : chain[d].at = "flush" => chain'[d].ids = chain[d].ids
      BY <2>1, <2>4 DEF Free
    <3>3. \A i : i \in Flushed' <=> \E d \in Chains : chain'[d].at = "flush" /\ i \in chain'[d].ids
      BY DEF Flushed
    <3>4. QED
      BY <3>1, <3>2, <3>3, FlushedIs
  <2>10. OwnedIsPending' /\ PendingIsOwned'
    BY <2>2, <2>8 DEF OwnerInv, OwnedIsPending, PendingIsOwned
  <2>11. OwnersDiffer'
    BY <2>5, <2>6 DEF OwnerInv, OwnersDiffer
  <2>12. ReviewsAlone'
    BY <2>3 DEF OwnerInv, ReviewsAlone
  <2>13. ReviewsCurrent'
    BY <2>2, <2>3, <2>9 DEF OwnerInv, ReviewsCurrent, At
  <2>14. FlushedIsFree'
    BY <2>8, <2>9, IdsTyped DEF OwnerInv, FlushedIsFree
  <2>15. CodesForAll'
    BY <2>2, <2>4 DEF OwnerInv, CodesForAll
  <2>16. QED
    BY <2>10, <2>11, <2>12, <2>13, <2>14, <2>15 DEF OwnerInv
<1>6. CASE SaveDeclined(w)
  <2> DEFINE R == job[w].ids
  <2>1. R \in SUBSET Existing /\ R \subseteq Ids
    BY IdsTyped
  <2>2. /\ SetState(R, "declined") /\ UNCHANGED <<chain, faults>>
        /\ At(w, "decline", "read") /\ End(w)
    BY <1>6 DEF SaveDeclined, fvars
  <2>3. \A i \in R : req[i].state # "pending" /\ ~Owned(i)
    BY <2>1, <2>2 DEF OwnerInv, ReviewsCurrent, OwnedIsPending, At
  <2>4. /\ job'[w].op = "idle"
        /\ \A v \in Workers \ {w} : job'[v] = job[v] /\ job[v].op # "approve"
    BY <2>2, EndAlone DEF At, OwnerInv, ReviewsAlone
  <2>5. \A v \in Workers : ~Queueing(v) /\ ~Queueing(v)'
    BY <2>2, <2>4 DEF Queueing, At
  <2> HIDE DEF R
  <2>6. \A i \in Ids : /\ req'[i].state = IF i \in R THEN "declined" ELSE req[i].state
                       /\ req'[i].learner = req[i].learner
    BY <2>1, <2>2, SetStateType DEF States
  <2>7. \A i \in Ids : /\ \A c \in Chains : OwnC(c, i)' <=> OwnC(c, i)
                       /\ \A v \in Workers : OwnW(v, i)' <=> OwnW(v, i)
    BY <2>2, <2>5 DEF OwnC, OwnW, Assigning
  <2>8. Flushed' = Flushed /\ \A i \in Ids : Owned(i)' <=> Owned(i)
    BY <2>2, <2>7 DEF Flushed, Owned
  <2>9. OwnedIsPending' /\ PendingIsOwned' /\ OwnersDiffer'
    BY <2>2, <2>3, <2>6, <2>7, <2>8
       DEF OwnerInv, OwnedIsPending, PendingIsOwned, OwnersDiffer
  <2>10. ReviewsAlone'
    BY <2>4 DEF OwnerInv, ReviewsAlone
  <2>11. ReviewsCurrent'
    BY <2>4, <2>6, IdsTyped DEF OwnerInv, ReviewsCurrent, At
  <2>12. FlushedIsFree'
    BY <2>8, IdsTyped DEF OwnerInv, FlushedIsFree
  <2>13. CodesForAll'
    BY <2>2, <2>6, IdsTyped DEF OwnerInv, CodesForAll
  <2>14. QED
    BY <2>9, <2>10, <2>11, <2>12, <2>13 DEF OwnerInv
<1>7. QED
  BY <1>1, <1>2, <1>3, <1>4, <1>5, <1>6 DEF SaveStep

(* Tasks.                                                                  *)
LEMMA OwnerTasks ==
    ASSUME TypeInv, TypeInv', OwnerInv, NEW c \in Chains,
           TaskStep(c) \/ AssignUnheard(c) \/ GiveUp(c)
    PROVE  OwnerInv'
<1>0. UNCHANGED job /\ \A i \in Ids : \A v \in Workers : OwnW(v, i)' <=> OwnW(v, i)
  BY DEF TaskStep, Assign, Update, Flush, AssignUnheard, GiveUp, OwnW, Queueing, At
<1>1. ASSUME chain' = [chain EXCEPT ![c] = Free]
      PROVE  /\ \A d \in Chains : IF d = c THEN chain'[d] = Free ELSE chain'[d] = chain[d]
             /\ \A i \in Ids : \A d \in Chains : OwnC(d, i)' <=> (d # c /\ OwnC(d, i))
             /\ Flushed' \subseteq Flushed
  <2>1. \A d \in Chains : IF d = c THEN chain'[d] = Free ELSE chain'[d] = chain[d]
    BY <1>1 DEF TypeInv, SubsidyTypeOK
  <2>2. \A i : i \in Flushed' <=> \E d \in Chains : chain'[d].at = "flush" /\ i \in chain'[d].ids
    BY DEF Flushed
  <2>3. QED
    BY <2>1, <2>2, FlushedIs DEF OwnC, Assigning, Free
<1>2. CASE Assign(c) /\ ToAssign(c) = {}
  <2>1. UNCHANGED <<req, faults>> /\ chain' = [chain EXCEPT ![c] = Free]
    BY <1>2 DEF Assign, fvars
  <2>2. \A i \in Ids : ~OwnC(c, i)
    <3> SUFFICES ASSUME NEW i \in Ids, OwnC(c, i) PROVE FALSE
      OBVIOUS
    <3>1. req[i].state = "pending" /\ i \in chain[c].ids
      BY DEF OwnerInv, OwnedIsPending, Owned, OwnC
    <3>2. i \in ToAssign(c)
      BY <3>1 DEF ToAssign
    <3>3. QED
      BY <1>2, <3>2
  <2>3. \A i \in Ids : Owned(i) => Owned(i)'
    BY <1>0, <1>1, <2>1, <2>2 DEF Owned
  <2>4. \A d \in Chains : chain'[d] = chain[d] \/ chain'[d].at # "update"
    BY <1>1, <2>1 DEF Free
  <2>5. QED
    BY <1>0, <1>1, <2>1, <2>3, <2>4, OwnerKept
<1>3. CASE Assign(c) /\ ToAssign(c) # {}
  <2>1. /\ UNCHANGED <<req, faults>> /\ chain[c].at = "assign"
        /\ chain' = [chain EXCEPT ![c].at = "update", ![c].given = Receivers(c)]
    BY <1>3 DEF Assign, fvars
  <2>2. /\ chain'[c].at = "update" /\ chain'[c].ids = chain[c].ids
        /\ chain'[c].type = chain[c].type /\ chain'[c].given = Receivers(c)
        /\ \A d \in Chains \ {c} : chain'[d] = chain[d]
    BY <2>1 DEF TypeInv, SubsidyTypeOK, ChainRecords
  <2>3. \A i \in Ids : \A d \in Chains : OwnC(d, i)' <=> OwnC(d, i)
    BY <2>1, <2>2 DEF OwnC, Assigning
  <2>4. \A i : i \in Flushed' <=> i \in Flushed
    <3>1. \A i : i \in Flushed' <=> \E d \in Chains : chain'[d].at = "flush" /\ i \in chain'[d].ids
      BY DEF Flushed
    <3>2. \A d \in Chains : (chain'[d].at = "flush") <=> (chain[d].at = "flush")
      BY <2>1, <2>2
    <3>3. \A d \in Chains : chain'[d].ids = chain[d].ids
      BY <2>2
    <3>4. QED
      BY <3>1, <3>2, <3>3, FlushedIs
  <2>5. Flushed' = Flushed
    BY <2>4
  <2>6. \A i \in Ids : Owned(i)' <=> Owned(i)
    BY <1>0, <2>3 DEF Owned
  <2>7. OwnedIsPending' /\ PendingIsOwned' /\ OwnersDiffer'
    BY <1>0, <2>1, <2>3, <2>6 DEF OwnerInv, OwnedIsPending, PendingIsOwned, OwnersDiffer
  <2>8. ReviewsAlone' /\ ReviewsCurrent'
    BY <1>0, <2>1, <2>5 DEF OwnerInv, ReviewsAlone, ReviewsCurrent, At
  <2>9. FlushedIsFree'
    BY <2>5, <2>6, IdsTyped DEF OwnerInv, FlushedIsFree
  <2>10. chain[c].type = "coupon" => \A i \in chain[c].ids : req[i].learner \in Receivers(c)
    <3>1. \A i \in chain[c].ids : i \in Ids /\ req[i].state = "pending"
      BY <2>1, IdsTyped DEF OwnerInv, OwnedIsPending, Owned, OwnC, Assigning
    <3>2. \A i \in chain[c].ids : i \in ToAssign(c)
      BY <3>1 DEF ToAssign
    <3>3. QED
      BY <3>2 DEF Receivers, LearnersOf
  <2>11. CodesForAll'
    BY <2>1, <2>2, <2>10 DEF OwnerInv, CodesForAll
  <2>12. QED
    BY <2>7, <2>8, <2>9, <2>11 DEF OwnerInv
<1>4. CASE AssignUnheard(c)
  <2>1. UNCHANGED <<req, chain>> /\ faults' # 0
    BY <1>4, GoesType DEF AssignUnheard
  <2>2. /\ \A i \in Ids : \A d \in Chains : OwnC(d, i)' => OwnC(d, i)
        /\ Flushed' \subseteq Flushed
    BY <2>1 DEF OwnC, Assigning, Flushed
  <2>3. /\ \A i \in Ids : \A v \in Workers : OwnW(v, i)' => OwnW(v, i)
        /\ \A v \in Workers : job'[v] = job[v]
        /\ \A d \in Chains : chain'[d] = chain[d]
    BY <1>0, <2>1
  <2>4. QED
    BY <2>1, <2>2, <2>3, OwnerFault
<1>5. CASE GiveUp(c)
  <2>1. UNCHANGED req /\ faults' # 0 /\ chain' = [chain EXCEPT ![c] = Free]
    BY <1>5, GoesType DEF GiveUp
  <2>2. \A d \in Chains : chain'[d] = chain[d] \/ chain'[d].at # "update"
    BY <1>1, <2>1 DEF Free
  <2>3. /\ \A i \in Ids : \A v \in Workers : OwnW(v, i)' => OwnW(v, i)
        /\ \A i \in Ids : \A d \in Chains : OwnC(d, i)' => OwnC(d, i)
        /\ Flushed' \subseteq Flushed
        /\ \A v \in Workers : job'[v] = job[v]
    BY <1>0, <1>1, <2>1
  <2>4. QED
    BY <2>1, <2>2, <2>3, OwnerFault
<1>6. ASSUME UNCHANGED faults, chain' = [chain EXCEPT ![c] = Free],
             \A i \in Ids : req'[i].learner = req[i].learner,
             \A i \in Ids : /\ req'[i].state # req[i].state => i \in chain[c].ids
                            /\ req'[i].state = "pending" => req[i].state = "pending",
             Assigning(c) => \A i \in chain[c].ids : req'[i].state # "pending",
             chain[c].at = "flush" \/ Assigning(c)
      PROVE  OwnerInv'
  <2>1. \A i \in Ids : Owned(i)' => Owned(i)
    BY <1>0, <1>1, <1>6 DEF Owned
  <2>2. \A i \in Ids : req'[i].state # req[i].state => ~Owned(i)'
    <3> SUFFICES ASSUME NEW i \in Ids, req'[i].state # req[i].state PROVE ~Owned(i)'
      OBVIOUS
    <3>1. CASE Assigning(c)
      <4>1. OwnC(c, i)
        BY <1>6, <3>1 DEF OwnC
      <4>2. QED
        BY <1>0, <1>1, <1>6, <4>1 DEF OwnerInv, OwnersDiffer, Owned
    <3>2. CASE chain[c].at = "flush"
      <4>1. i \in Flushed
        BY <1>6, <3>2, FlushedIs
      <4>2. QED
        BY <2>1, <4>1 DEF OwnerInv, FlushedIsFree
    <3>3. QED
      BY <1>6, <3>1, <3>2
  <2>3. OwnedIsPending'
    BY <2>1, <2>2 DEF OwnerInv, OwnedIsPending
  <2>4. OwnersDiffer'
    BY <1>0, <1>1, <1>6 DEF OwnerInv, OwnersDiffer
  <2>5. PendingIsOwned'
    <3> SUFFICES ASSUME NEW i \in Ids, req'[i].state = "pending", faults' = 0
                 PROVE  Owned(i)'
      BY DEF PendingIsOwned
    <3>1. Owned(i) /\ ~OwnC(c, i)
      BY <1>6 DEF OwnerInv, PendingIsOwned, OwnC
    <3>2. QED
      BY <1>0, <1>1, <1>6, <3>1 DEF Owned
  <2>6. ReviewsAlone'
    BY <1>0 DEF OwnerInv, ReviewsAlone
  <2>7. ReviewsCurrent'
    <3> SUFFICES ASSUME NEW v \in Workers, NEW i \in job[v].ids
                 PROVE  /\ At(v, "approve", "read") =>
                                req'[i].state \in Approvable /\ i \notin Flushed'
                        /\ job[v].op = "decline" => req'[i].state # "pending"
      BY <1>0 DEF ReviewsCurrent, At
    <3>1. i \in Ids
      BY IdsTyped
    <3>2. job[v].op = "decline" => req'[i].state # "pending"
      BY <1>6, <3>1 DEF OwnerInv, ReviewsCurrent
    <3>3. ASSUME At(v, "approve", "read")
          PROVE  req'[i].state \in Approvable /\ i \notin Flushed'
      <4>1. req[i].state \in Approvable /\ i \notin Flushed
        BY <3>3 DEF OwnerInv, ReviewsCurrent
      <4>2. i \notin chain[c].ids
        <5>1. CASE Assigning(c)
          BY <3>1, <4>1, <5>1 DEF OwnerInv, OwnedIsPending, Owned, OwnC, Approvable
        <5>2. CASE chain[c].at = "flush"
          BY <4>1, <5>2, FlushedIs
        <5>3. QED
          BY <1>6, <5>1, <5>2
      <4>3. QED
        BY <1>1, <1>6, <3>1, <4>1, <4>2
    <3>4. QED
      BY <3>2, <3>3
  <2>8. FlushedIsFree'
    BY <1>1, <1>6, <2>1, IdsTyped DEF OwnerInv, FlushedIsFree
  <2>9. CodesForAll'
    BY <1>1, <1>6, IdsTyped DEF OwnerInv, CodesForAll, Free
  <2>10. QED
    BY <2>3, <2>4, <2>5, <2>6, <2>7, <2>8, <2>9 DEF OwnerInv
<1>7. CASE Update(c)
  <2>1. /\ UNCHANGED faults /\ chain' = [chain EXCEPT ![c] = Free]
        /\ chain[c].at = "update" /\ Assigning(c)
    BY <1>7 DEF Update, fvars, Assigning
  <2>2. \A i \in Ids :
            /\ req'[i].learner = req[i].learner
            /\ \/ req'[i] = req[i]
               \/ i \in chain[c].ids /\ req'[i].state \in {"approved", "error"}
    BY <1>7, UpdateType
  <2>3. \A i \in chain[c].ids : req'[i].state # "pending"
    <3>1. CASE chain[c].type = "license"
      BY <1>7, <3>1, UpdateType
    <3>2. CASE chain[c].type = "coupon"
      <4> DEFINE R == {i \in chain[c].ids : req[i].learner \in chain[c].given}
      <4>1. R = chain[c].ids
        BY <2>1, <3>2 DEF OwnerInv, CodesForAll
      <4>2. SetState(R, "approved")
        BY <1>7, <3>2, <4>1 DEF Update
      <4>3. R \in SUBSET Existing /\ "approved" \in States \ {"none"}
        BY IdsTyped DEF States
      <4>4. R \subseteq Ids
        BY <4>3, IdsTyped
      <4> HIDE DEF R
      <4>5. \A i \in R : req'[i].state = "approved"
        BY <4>2, <4>3, <4>4, SetStateType
      <4>6. QED
        BY <4>1, <4>5
    <3>3. QED
      BY <3>1, <3>2, IdsTyped DEF ChainRecords, Types
  <2>4. QED
    BY <1>6, <2>1, <2>2, <2>3
<1>8. CASE Flush(c)
  <2>1. PICK R \in SUBSET chain[c].ids : SetState(R, "declined")
    BY <1>8 DEF Flush
  <2>2. /\ UNCHANGED faults /\ chain' = [chain EXCEPT ![c] = Free]
        /\ chain[c].at = "flush" /\ ~Assigning(c)
    BY <1>8 DEF Flush, fvars, Assigning
  <2>3. R \in SUBSET Existing /\ "declined" \in States \ {"none"}
    BY IdsTyped DEF States
  <2>4. \A i \in Ids : /\ req'[i].learner = req[i].learner
                       /\ req'[i].state = IF i \in R THEN "declined" ELSE req[i].state
    BY <2>1, <2>3, SetStateType
  <2>5. QED
    BY <1>6, <2>1, <2>2, <2>4
<1>9. QED
  BY <1>2, <1>3, <1>4, <1>5, <1>7, <1>8 DEF TaskStep

LEMMA OwnerNext ==
    ASSUME TypeInv, TypeInv', OwnerInv, ReviewsApart, [Next]_vars
    PROVE  OwnerInv'
<1>1. CASE UNCHANGED vars
  BY <1>1, OwnerKept DEF vars, fvars, OwnC, OwnW, Assigning, Queueing, At, Owned, Flushed
<1>2. QED
  BY <1>1, OwnerReads, OwnerSaves, OwnerTasks DEF Next

LEMMA OwnerInit == Init => OwnerInv
  BY DEF Init, OwnerInv, OwnedIsPending, OwnersDiffer, PendingIsOwned, ReviewsAlone,
     ReviewsCurrent, FlushedIsFree, CodesForAll, Owned, OwnC, OwnW, Assigning, Queueing, At,
     Flushed, Free, Idle, NoReq

LEMMA OwnerAlways ==
    ASSUME ReviewsApart
    PROVE  Spec => []OwnerInv
<1>1. TypeInv /\ TypeInv' /\ OwnerInv /\ [Next]_vars => OwnerInv'
  BY OwnerNext
<1>2. QED
  BY TypeAlways, OwnerInit, <1>1, PTL DEF Spec

(* When approvals overlap neither with one another nor with declines and   *)
(* changes of the configuration, a pending request has one owner, whatever *)
(* tasks are lost, and none is owned that is not pending.                  *)
THEOREM PendingHasOneOwnerTheorem ==
    ASSUME ReviewsApart
    PROVE  Spec => []PendingHasOneOwner
<1>1. TypeInv /\ OwnerInv => PendingHasOneOwner
  <2> SUFFICES ASSUME TypeInv, OwnerInv, NEW i \in Ids
               PROVE  LET owners == {c \in Chains : Assigning(c) /\ i \in chain[c].ids}
                              \cup {w \in Workers : Queueing(w) /\ i \in job[w].ids} IN
                      IF req[i].state = "pending"
                      THEN IF owners = {} THEN faults > 0 ELSE \E o \in owners : owners = {o}
                      ELSE owners = {}
    BY DEF PendingHasOneOwner
  <2> DEFINE C == {c \in Chains : Assigning(c) /\ i \in chain[c].ids}
             W == {w \in Workers : Queueing(w) /\ i \in job[w].ids}
  <2>1. \A c \in Chains : c \in C <=> OwnC(c, i)
    BY DEF OwnC
  <2>2. \A w \in Workers : w \in W <=> OwnW(w, i)
    BY DEF OwnW
  <2>3. C \subseteq Chains /\ W \subseteq Workers
    OBVIOUS
  <2> HIDE DEF C, W
  <2>4. CASE req[i].state # "pending"
    <3>1. ~Owned(i)
      BY <2>4 DEF OwnerInv, OwnedIsPending
    <3>2. C \cup W = {}
      BY <2>1, <2>2, <2>3, <3>1 DEF Owned
    <3>3. QED
      BY <2>4, <3>2 DEF C, W
  <2>5. CASE req[i].state = "pending"
    <3>1. CASE C \cup W = {}
      <4>1. ~Owned(i)
        BY <2>1, <2>2, <2>3, <3>1 DEF Owned
      <4>2. faults > 0
        BY <2>5, <4>1, IdsTyped DEF OwnerInv, PendingIsOwned
      <4>3. QED
        BY <2>5, <3>1, <4>2 DEF C, W
    <3>2. CASE C \cup W # {}
      <4>1. /\ \A c, d \in C : c = d
            /\ \A w, v \in W : w = v
            /\ C = {} \/ W = {}
        BY <2>1, <2>2, <2>3 DEF OwnerInv, OwnersDiffer
      <4>2. PICK o \in C \cup W : TRUE
        BY <3>2
      <4>3. C \cup W = {o}
        BY <4>1, <4>2
      <4>4. QED
        BY <2>5, <3>2, <4>3 DEF C, W
    <3>3. QED
      BY <3>1, <3>2
  <2>6. QED
    BY <2>4, <2>5
<1>2. QED
  BY TypeAlways, OwnerAlways, <1>1, PTL

-----------------------------------------------------------------------------
(* The reminder.  What its task has read stays all there is to say about   *)
(* the time before: rows that come later have a higher number, and no row  *)
(* begins to wait that did not wait before.                                *)
(* The requests that a reminder which reads now would be about.            *)
New == {i \in OfType(config.type) : req[i].state = "requested" /\ req[i].nth > config.reminded}

Numbered == \A i \in Existing : req[i].nth <= Cardinality(Existing)

Covers(j) ==
    \A i \in OfType(j.row.type) :
        req[i].state = "requested" /\ req[i].nth > j.row.reminded
        => i \in j.ids \/ \A k \in j.ids : req[k].nth < req[i].nth

MailInv == Numbered /\ \A w \in Workers : job[w].op = "mail" => Covers(job[w])

(* Steps that create no row and make none wait.                            *)
RowsKept ==
    /\ Existing' = Existing
    /\ \A i \in Ids : /\ req'[i].nth = req[i].nth /\ req'[i].type = req[i].type
                      /\ req'[i].state = "requested" => req[i].state = "requested"

LEMMA SetStateKeepsRows ==
    ASSUME TypeInv, NEW R \in SUBSET Existing, NEW s \in States \ {"none", "requested"},
           SetState(R, s)
    PROVE  RowsKept
<1>1. /\ Existing' = Existing
      /\ \A i \in Ids : /\ req'[i].type = req[i].type
                        /\ req'[i].state = IF i \in R THEN s ELSE req[i].state
  BY SetStateType
<1>2. \A i \in Ids : req'[i].nth = req[i].nth
  BY DEF SetState, TypeInv, SubsidyTypeOK, Reqs
<1>3. QED
  BY <1>1, <1>2 DEF RowsKept

LEMMA UpdateKeepsRows ==
    ASSUME TypeInv, NEW c \in Chains, Update(c)
    PROVE  RowsKept
<1>1. /\ Existing' = Existing
      /\ \A i \in Ids : /\ req'[i].type = req[i].type
                        /\ req'[i] = req[i] \/ req'[i].state \in {"approved", "error"}
  BY UpdateType
<1>2. ASSUME NEW i \in Ids PROVE req'[i].nth = req[i].nth
  BY DEF Update, SetState, TypeInv, SubsidyTypeOK, Reqs
<1>3. QED
  BY <1>1, <1>2 DEF RowsKept

LEMMA MailKept ==
    ASSUME TypeInv, MailInv, RowsKept,
           \A v \in Workers :
               \/ /\ job'[v].op = job[v].op /\ job'[v].ids = job[v].ids
                  /\ job'[v].row = job[v].row
               \/ job'[v].op # "mail"
    PROVE  MailInv'
<1>1. Existing \subseteq Ids
  BY DEF Existing
<1>2. Numbered'
  BY <1>1 DEF MailInv, Numbered, RowsKept
<1>3. ASSUME NEW v \in Workers, job'[v].op = "mail" PROVE Covers(job[v])'
  <2>1. Covers(job[v]) /\ job[v].ids \subseteq Ids
    BY <1>1, <1>3 DEF MailInv, TypeInv, RowsExist
  <2>2. job'[v].ids = job[v].ids /\ job'[v].row = job[v].row
    BY <1>3
  <2>3. QED
    BY <1>1, <2>1, <2>2 DEF Covers, RowsKept, OfType
<1>4. QED
  BY <1>2, <1>3 DEF MailInv

LEMMA SameRows ==
    ASSUME UNCHANGED req
    PROVE  RowsKept
  BY DEF RowsKept, Existing

LEMMA MailBegin ==
    ASSUME TypeInv, MailInv, NEW w \in Workers, NEW op, NEW j,
           Begin(w, op, j), j.op = op, op = "mail" => Covers(j), UNCHANGED req
    PROVE  MailInv'
<1>1. job'[w] = j /\ \A v \in Workers \ {w} : job'[v] = job[v]
  BY BeginAlone
<1>2. Numbered'
  BY DEF MailInv, Numbered, Existing
<1>3. ASSUME NEW v \in Workers, job'[v].op = "mail" PROVE Covers(job[v])'
  <2>1. Covers(job'[v])
    BY <1>1, <1>3 DEF MailInv
  <2>2. QED
    BY <2>1 DEF Covers, OfType, Existing
<1>4. QED
  BY <1>2, <1>3 DEF MailInv

LEMMA MailRead ==
    ASSUME TypeInv, MailInv, NEW w \in Workers, ReadStep(w)
    PROVE  MailInv'
<1>1. ASSUME NEW l \in Learners, NEW t \in Types, ReadForCreate(w, l, t) PROVE MailInv'
  <2> DEFINE j == [Idle EXCEPT !.op = "create", !.type = t, !.learner = l]
  <2>1. Begin(w, "create", j) /\ UNCHANGED req /\ j.op = "create"
    BY <1>1 DEF ReadForCreate, Idle
  <2> HIDE DEF j
  <2>2. QED
    BY <2>1, MailBegin
<1>2. CASE ReadForMail(w)
  <2> DEFINE j == [Idle EXCEPT !.op = "mail", !.ids = New, !.row = config]
  <2>1. /\ Begin(w, "mail", j) /\ UNCHANGED req
        /\ j.op = "mail" /\ j.ids = New /\ j.row = config
    BY <1>2 DEF ReadForMail, Idle, New
  <2> HIDE DEF j
  <2>2. Covers(j)
    BY <2>1 DEF Covers, New
  <2>3. QED
    BY <2>1, <2>2, MailBegin
<1>3. ASSUME \/ \E t \in Types, R \in SUBSET Ids :
                      ReadForApprove(w, t, R) \/ ReadForDecline(w, t, R)
             \/ \E t \in Types, b \in BOOLEAN : ReadForConfigure(w, t, b)
             \/ \E b \in BOOLEAN : ReadForActivate(w, b) \/ ReadForLink(w, b)
      PROVE  MailInv'
  <2>1. UNCHANGED req /\ \E op, j : Begin(w, op, j) /\ j.op = op /\ op # "mail"
    BY <1>3, ReviewJobs
  <2>2. QED
    BY <2>1, MailBegin
<1>4. QED
  BY <1>1, <1>2, <1>3 DEF ReadStep

LEMMA MailSave ==
    ASSUME TypeInv, MailInv, NEW w \in Workers, SaveStep(w) \/ Crash(w)
    PROVE  MailInv'
<1>1. CASE \/ QueueAssignment(w) \/ SaveConfig(w) \/ SaveActive(w) \/ SaveLink(w)
           \/ SaveReminded(w) \/ Crash(w)
  <2>1. UNCHANGED req /\ End(w)
    BY <1>1 DEF QueueAssignment, SaveConfig, SaveActive, SaveLink, SaveReminded, Crash
  <2>2. QED
    BY <2>1, EndAlone, SameRows, MailKept
<1>2. CASE SavePending(w) \/ SaveDeclined(w)
  <2>1. PICK s \in States \ {"none", "requested"} : SetState(job[w].ids, s)
    BY <1>2 DEF SavePending, SaveDeclined, States
  <2>2. job[w].ids \in SUBSET Existing
    BY DEF TypeInv, RowsExist
  <2>3. RowsKept
    BY <2>1, <2>2, SetStateKeepsRows
  <2>4. \/ End(w)
        \/ job[w].op = "approve" /\ job' = [job EXCEPT ![w].at = "saved"]
    BY <1>2 DEF SavePending, SaveDeclined, At
  <2>5. \A v \in Workers : job'[v] = job[v] \/ job'[v].op # "mail"
    <3>1. CASE End(w)
      BY <3>1, EndAlone
    <3>2. CASE job[w].op = "approve" /\ job' = [job EXCEPT ![w].at = "saved"]
      BY <3>2 DEF TypeInv, SubsidyTypeOK, Jobs
    <3>3. QED
      BY <2>4, <3>1, <3>2
  <2>6. QED
    BY <2>3, <2>5, MailKept
<1>3. CASE SaveCreated(w)
  <2>1. PICK n \in Ids \ Existing :
            req' = [req EXCEPT ![n] = [state |-> "requested", type |-> job[w].type,
                    learner |-> job[w].learner, nth |-> Cardinality(Existing) + 1]]
    BY <1>3 DEF SaveCreated
  <2>2. /\ Existing' = Existing \cup {n}
        /\ req'[n].nth = Cardinality(Existing) + 1
        /\ \A k \in Existing : req'[k] = req[k]
    BY <2>1 DEF Existing, TypeInv, SubsidyTypeOK
  <2>3. IsFiniteSet(Existing) /\ Cardinality(Existing) \in Nat
    BY Counted, SubsidyAssumption, FS_Subset DEF Existing
  <2>4. Cardinality(Existing') = Cardinality(Existing) + 1
    BY <2>2, <2>3, FS_AddElement
  <2>5. \A k \in Existing : req[k].nth \in Nat
    BY DEF Existing, TypeInv, SubsidyTypeOK, Reqs
  <2>6. \A k \in Existing : req[k].nth <= Cardinality(Existing)
    BY DEF MailInv, Numbered
  <2>7. Numbered'
    BY <2>2, <2>3, <2>4, <2>5, <2>6 DEF Numbered
  <2>8. ASSUME NEW v \in Workers, job'[v].op = "mail" PROVE Covers(job[v])'
    <3>1. job'[v] = job[v] /\ Covers(job[v]) /\ job[v].ids \subseteq Existing
      BY <1>3, <2>8, EndAlone DEF SaveCreated, MailInv, TypeInv, RowsExist
    <3>2. ASSUME NEW i \in Existing', req'[i].type = job[v].row.type,
                 req'[i].state = "requested", req'[i].nth > job[v].row.reminded
          PROVE  i \in job[v].ids \/ \A k \in job[v].ids : req'[k].nth < req'[i].nth
      <4>1. CASE i = n
        BY <2>2, <2>3, <2>5, <2>6, <3>1, <4>1
      <4>2. CASE i \in Existing
        <5>1. i \in OfType(job[v].row.type) /\ req'[i] = req[i]
          BY <2>2, <3>2, <4>2 DEF OfType
        <5>2. i \in job[v].ids \/ \A k \in job[v].ids : req[k].nth < req[i].nth
          BY <3>1, <3>2, <5>1 DEF Covers
        <5>3. QED
          BY <2>2, <3>1, <5>1, <5>2
      <4>3. QED
        BY <2>2, <3>2, <4>1, <4>2
    <3>3. QED
      BY <3>1, <3>2 DEF Covers, OfType
  <2>9. QED
    BY <2>7, <2>8 DEF MailInv
<1>4. QED
  BY <1>1, <1>2, <1>3 DEF SaveStep

LEMMA MailTask ==
    ASSUME TypeInv, MailInv, NEW c \in Chains,
           TaskStep(c) \/ AssignUnheard(c) \/ GiveUp(c)
    PROVE  MailInv'
<1>1. UNCHANGED job
  BY DEF TaskStep, Assign, Update, Flush, AssignUnheard, GiveUp
<1>2. RowsKept
  <2>1. CASE Assign(c) \/ AssignUnheard(c) \/ GiveUp(c)
    BY <2>1, SameRows DEF Assign, AssignUnheard, GiveUp
  <2>2. CASE Flush(c)
    <3>1. PICK R \in SUBSET chain[c].ids : SetState(R, "declined")
      BY <2>2 DEF Flush
    <3>2. R \in SUBSET Existing /\ "declined" \in States \ {"none", "requested"}
      BY DEF TypeInv, RowsExist, States
    <3>3. QED
      BY <3>1, <3>2, SetStateKeepsRows
  <2>3. CASE Update(c)
    BY <2>3, UpdateKeepsRows
  <2>4. QED
    BY <2>1, <2>2, <2>3 DEF TaskStep
<1>3. QED
  BY <1>1, <1>2, MailKept

LEMMA MailNext ==
    ASSUME TypeInv, MailInv, [Next]_vars
    PROVE  MailInv'
<1>1. CASE UNCHANGED vars
  BY <1>1, SameRows, MailKept DEF vars
<1>2. QED
  BY <1>1, MailRead, MailSave, MailTask DEF Next

(* Whatever overlaps, a reminder leaves out no request that waits, of its  *)
(* type and newer than the date it has read, other than those created after*)
(* it had read.  That those exist is why the coverage is not complete.     *)
THEOREM ReminderSkipsNoneTheorem == Spec => ReminderSkipsNone
<1>1. Init => MailInv
  BY DEF Init, MailInv, Numbered, Existing, NoReq, Idle
<1>2. TypeInv /\ MailInv /\ [Next]_vars => MailInv'
  BY MailNext
<1>3. TypeInv /\ MailInv /\ [Next]_vars =>
        [\A w \in Workers : \A i \in OfType(job[w].row.type) :
            /\ At(w, "mail", "read") /\ job'[w] = Idle /\ config' # config
            /\ req[i].state = "requested" /\ req[i].nth > job[w].row.reminded
            => i \in job[w].ids \/ \A k \in job[w].ids : req[k].nth < req[i].nth]_vars
  BY DEF MailInv, Covers, At
<1>4. QED
  BY TypeAlways, <1>1, <1>2, <1>3, PTL DEF Spec, ReminderSkipsNone

-----------------------------------------------------------------------------
(* What was given.  JobOK and ChainOK say what jobs and chains of tasks    *)
(* know of the rows they will write: an approval and a chain are about one *)
(* type, nothing that is approved will be declined, and a learner who holds*)
(* no licence has no second request that is outstanding, also when another *)
(* is about to be created.                                                 *)
Serves(i, t, l) == i \in OfType(t) /\ req[i].learner = l

JobOK(j) ==
    /\ j.op = "approve" => \A i \in j.ids : req[i].type = j.type
    /\ j.op = "decline" => \A i \in j.ids : req[i].state # "approved"
    /\ j.op = "create" /\ j.type = "license" =>
        \A i \in Existing : Serves(i, "license", j.learner) /\ req[i].state \in Outstanding
            => j.learner \in held["license"]

(* Whoever a chain has given a licence has one request in it, and none that*)
(* is approved.                                                            *)
ChainOK(k) ==
    /\ \A i \in k.ids : req[i].type = k.type
    /\ k.at = "flush" => \A i \in k.ids : req[i].state # "approved"
    /\ k.at = "update" =>
        /\ \A l \in k.given : \E i \in k.ids : req[i].learner = l
        /\ \A i \in k.ids : req[i].learner \in held[k.type]
    /\ k.at = "update" /\ k.type = "license" => \A l \in k.given :
        /\ \A i \in Existing : Serves(i, "license", l) => req[i].state # "approved"
        /\ \A i, j \in k.ids : req[i].learner = l /\ req[j].learner = l => i = j

(* A request for a licence is an error because its learner holds one.      *)
RowsOK ==
    \A i \in Existing :
        req[i].state = "approved" \/ (req[i].state = "error" /\ req[i].type = "license")
            => req[i].learner \in held[req[i].type]

OutstandingOnce ==
    \A i, j \in Existing : \A l \in Learners :
        /\ Serves(i, "license", l) /\ Serves(j, "license", l)
        /\ req[i].state \in Outstanding /\ req[j].state \in Outstanding
        => i = j \/ l \in held["license"]

ApprovedOnce ==
    \A i, j \in Existing : \A l \in Learners :
        /\ Serves(i, "license", l) /\ Serves(j, "license", l)
        /\ req[i].state = "approved" /\ req[j].state = "approved"
        => i = j

Giving(c, t, l) == chain[c].at = "update" /\ chain[c].type = t /\ l \in chain[c].given

GivenApart ==
    \A c, d \in Chains, l \in Learners :
        Giving(c, "license", l) /\ Giving(d, "license", l) => c = d

Recorded(t, l) ==
    \/ \E i \in Existing : Serves(i, t, l) /\ req[i].state = "approved"
    \/ \E c \in Chains : Giving(c, t, l)

AllRecorded == \A t \in Types : \A l \in held[t] \ wasted[t] : Recorded(t, l)

GivenInv ==
    /\ \A w \in Workers : JobOK(job[w])
    /\ \A c \in Chains : ChainOK(chain[c])
    /\ RowsOK /\ OutstandingOnce /\ ApprovedOnce /\ GivenApart /\ AllRecorded

(* A step that gives nothing, approves nothing and makes no error, and     *)
(* after which the jobs that began or went on are as JobOK says.           *)
LEMMA GivenQuiet ==
    ASSUME TypeInv, TypeInv', GivenInv, UNCHANGED <<held, wasted>>, Existing' = Existing,
           \A i \in Existing :
                /\ req'[i].learner = req[i].learner /\ req'[i].type = req[i].type
                /\ req'[i].state = "approved" <=> req[i].state = "approved"
                /\ req'[i].state = "error" => req[i].state = "error"
                /\ req'[i].state \in Outstanding => req[i].state \in Outstanding \cup {"error"},
           \A v \in Workers : job'[v] = job[v] \/ JobOK(job[v])',
           \A d \in Chains : \/ chain'[d] = chain[d]
                             \/ /\ chain[d].at # "update" /\ chain'[d].at # "update"
                                /\ ChainOK(chain[d])'
    PROVE  GivenInv'
<1>0. /\ \A v \in Workers : job[v].ids \subseteq Existing
      /\ \A d \in Chains : chain[d].ids \subseteq Existing
      /\ \A i \in Existing : req[i].learner \in Learners
  BY DEF TypeInv, RowsExist
<1>1. \A i, t, l : (i \in Existing /\ Serves(i, t, l)') <=> (i \in Existing /\ Serves(i, t, l))
  BY DEF Serves, OfType
<1>2. \A v \in Workers : JobOK(job[v])'
  <2> SUFFICES ASSUME NEW v \in Workers, job'[v] = job[v] PROVE JobOK(job[v])'
    OBVIOUS
  <2>1. JobOK(job[v])
    BY DEF GivenInv
  <2>2. job[v].op = "create" /\ job[v].type = "license" =>
            \A i \in Existing : Serves(i, "license", job[v].learner)
                                /\ req'[i].state \in Outstanding
                => job[v].learner \in held["license"]
    BY <2>1 DEF JobOK, GivenInv, RowsOK, Serves, OfType
  <2>3. QED
    BY <1>0, <1>1, <2>1, <2>2 DEF JobOK
<1>3. \A d \in Chains : ChainOK(chain[d])'
  <2> SUFFICES ASSUME NEW d \in Chains, chain'[d] = chain[d] PROVE ChainOK(chain[d])'
    OBVIOUS
  <2>1. ChainOK(chain[d])
    BY DEF GivenInv
  <2>2. QED
    BY <1>0, <1>1, <2>1 DEF ChainOK
<1>4. RowsOK'
  BY DEF GivenInv, RowsOK
<1>5. OutstandingOnce'
  BY <1>1 DEF GivenInv, OutstandingOnce, RowsOK, Serves, OfType
<1>6. ApprovedOnce'
  BY <1>1 DEF GivenInv, ApprovedOnce
<1>7. \A d \in Chains : \A t, l : Giving(d, t, l)' <=> Giving(d, t, l)
  BY DEF Giving
<1>8. GivenApart'
  BY <1>7 DEF GivenInv, GivenApart
<1>9. AllRecorded'
  BY <1>1, <1>7 DEF GivenInv, AllRecorded, Recorded
<1>10. QED
  BY <1>2, <1>3, <1>4, <1>5, <1>6, <1>8, <1>9 DEF GivenInv

LEMMA GivenReads ==
    ASSUME TypeInv, TypeInv', OwnerInv, GivenInv, NEW w \in Workers, ReadStep(w)
    PROVE  GivenInv'
<1>0. UNCHANGED <<req, held, wasted>> /\ Existing' = Existing
  BY DEF ReadStep, ReadForCreate, ReadForApprove, ReadForDecline, ReadForConfigure,
     ReadForActivate, ReadForLink, ReadForMail, fvars, Existing
<1>1. ASSUME NEW j, NEW op, Begin(w, op, j), JobOK(j)', UNCHANGED chain
      PROVE  GivenInv'
  <2>1. job'[w] = j /\ \A v \in Workers \ {w} : job'[v] = job[v]
    BY <1>1, BeginAlone DEF Begin, TypeInv, SubsidyTypeOK
  <2>2. \A v \in Workers : job'[v] = job[v] \/ JobOK(job[v])'
    BY <1>1, <2>1 DEF JobOK
  <2>3. QED
    BY <1>0, <1>1, <2>2, GivenQuiet
<1>2. ASSUME NEW l \in Learners, NEW t \in Types, ReadForCreate(w, l, t) PROVE GivenInv'
  <2> DEFINE j == [Idle EXCEPT !.op = "create", !.type = t, !.learner = l]
  <2>1. /\ Begin(w, "create", j) /\ UNCHANGED chain /\ MayCreate(l, t)
        /\ j.op = "create" /\ j.type = t /\ j.learner = l
    BY <1>2 DEF ReadForCreate, Idle
  <2> HIDE DEF j
  <2>2. JobOK(j)'
    BY <1>0, <2>1 DEF JobOK, MayCreate, Serves, OfType
  <2>3. QED
    BY <1>1, <2>1, <2>2
<1>3. ASSUME NEW t \in Types, NEW R \in SUBSET Ids, ReadForApprove(w, t, R) PROVE GivenInv'
  <2> DEFINE Q == {i \in R : req[i].state \in Approvable}
             j == [Idle EXCEPT !.op = "approve", !.type = t, !.ids = Q]
  <2>1. /\ Begin(w, "approve", j) /\ UNCHANGED chain /\ R \subseteq OfType(t)
        /\ j.op = "approve" /\ j.type = t /\ j.ids = Q
    BY <1>3 DEF ReadForApprove, Selected, Idle
  <2> HIDE DEF j
  <2>2. PICK k : /\ Begin(w, "approve", k) /\ k.op = "approve" /\ k.type = t
                 /\ \A i \in k.ids : req[i].type = t
    BY <2>1 DEF OfType
  <2>3. JobOK(k)'
    BY <1>0, <2>2 DEF JobOK
  <2>4. QED
    BY <1>1, <2>1, <2>2, <2>3
<1>4. ASSUME NEW t \in Types, NEW R \in SUBSET Ids, ReadForDecline(w, t, R) PROVE GivenInv'
  <2> DEFINE Q == {i \in R : req[i].state \in Approvable}
             j == [Idle EXCEPT !.op = "decline", !.type = t, !.ids = Q]
  <2>1. /\ Begin(w, "decline", j) /\ UNCHANGED chain
        /\ j.op = "decline" /\ j.ids = Q
    BY <1>4 DEF ReadForDecline, Idle
  <2> HIDE DEF j
  <2>2. PICK k : /\ Begin(w, "decline", k) /\ k.op = "decline"
                 /\ \A i \in k.ids : req[i].state # "approved"
    BY <2>1 DEF Approvable
  <2>3. JobOK(k)'
    BY <1>0, <2>2 DEF JobOK
  <2>4. QED
    BY <1>1, <2>1, <2>2, <2>3
<1>5. ASSUME NEW t \in Types, NEW b \in BOOLEAN, ReadForConfigure(w, t, b) PROVE GivenInv'
  <2> DEFINE j == [Idle EXCEPT !.op = "configure",
                               !.row = [config EXCEPT !.type = t, !.enabled = b]]
             F == {i \in OfType(config.type) : req[i].state \in Open}
             r == [at |-> "flush", type |-> config.type, ids |-> F, given |-> {}]
  <2>1. /\ Begin(w, "configure", j) /\ j.op = "configure"
        /\ \/ UNCHANGED chain
           \/ \E c \in Chains : chain[c] = Free /\ chain' = [chain EXCEPT ![c] = r]
    BY <1>5 DEF ReadForConfigure, Idle
  <2>2. r.at = "flush" /\ r.ids = F /\ r.type = config.type
    OBVIOUS
  <2> HIDE DEF j, r
  <2>3. PICK k, q :
            /\ Begin(w, "configure", k) /\ k.op = "configure"
            /\ \/ UNCHANGED chain
               \/ \E c \in Chains : chain[c] = Free /\ chain' = [chain EXCEPT ![c] = q]
            /\ q.at = "flush"
            /\ \A i \in q.ids : req[i].type = q.type /\ req[i].state # "approved"
    BY <2>1, <2>2 DEF OfType, Open
  <2>4. JobOK(k)' /\ ChainOK(q)'
    BY <1>0, <2>3 DEF JobOK, ChainOK
  <2>5. job'[w] = k /\ \A v \in Workers \ {w} : job'[v] = job[v]
    BY <2>3, BeginAlone DEF Begin, TypeInv, SubsidyTypeOK
  <2>6. \A v \in Workers : job'[v] = job[v] \/ JobOK(job[v])'
    BY <2>4, <2>5 DEF JobOK
  <2>7. \A d \in Chains : \/ chain'[d] = chain[d]
                          \/ chain[d].at = "free" /\ chain'[d] = q
    BY <2>3 DEF Free, TypeInv, SubsidyTypeOK
  <2>8. \A d \in Chains : chain'[d] = q => ChainOK(chain[d])'
    BY <2>4 DEF ChainOK
  <2>9. QED
    BY <1>0, <2>3, <2>6, <2>7, <2>8, GivenQuiet
<1>6. ASSUME NEW b \in BOOLEAN, ReadForActivate(w, b) \/ ReadForLink(w, b) PROVE GivenInv'
  <2> DEFINE a == [Idle EXCEPT !.op = "activate", !.flag = b]
             k == [Idle EXCEPT !.op = "link", !.flag = b]
  <2>1. /\ Begin(w, "activate", a) \/ Begin(w, "link", k)
        /\ UNCHANGED chain /\ a.op = "activate" /\ k.op = "link"
    BY <1>6 DEF ReadForActivate, ReadForLink, Idle
  <2> HIDE DEF a, k
  <2>2. JobOK(a)' /\ JobOK(k)'
    BY <2>1 DEF JobOK
  <2>3. QED
    BY <1>1, <2>1, <2>2
<1>7. CASE ReadForMail(w)
  <2> DEFINE j == [Idle EXCEPT !.op = "mail", !.ids = New, !.row = config]
  <2>1. Begin(w, "mail", j) /\ UNCHANGED chain /\ j.op = "mail"
    BY <1>7 DEF ReadForMail, Idle, New
  <2> HIDE DEF j
  <2>2. PICK k : Begin(w, "mail", k) /\ k.op = "mail"
    BY <2>1
  <2>3. JobOK(k)'
    BY <2>2 DEF JobOK
  <2>4. QED
    BY <1>1, <2>1, <2>2, <2>3
<1>8. QED
  BY <1>2, <1>3, <1>4, <1>5, <1>6, <1>7 DEF ReadStep

LEMMA GivenSaves ==
    ASSUME TypeInv, TypeInv', OwnerInv, WaitInv, GivenInv, NEW w \in Workers,
           SaveStep(w) \/ Crash(w)
    PROVE  GivenInv'
<1>0. UNCHANGED <<held, wasted>>
  BY DEF SaveStep, SaveCreated, SavePending, QueueAssignment, SaveDeclined, SaveConfig,
     SaveActive, SaveLink, SaveReminded, Crash, fvars
<1>1. ASSUME End(w)
      PROVE  \A v \in Workers : job'[v] = job[v] \/ JobOK(job[v])'
  BY <1>1, EndAlone DEF JobOK
<1>2. CASE SaveConfig(w) \/ SaveActive(w) \/ SaveLink(w) \/ SaveReminded(w) \/ Crash(w)
  <2>1. End(w) /\ UNCHANGED <<req, chain>>
    BY <1>2 DEF SaveConfig, SaveActive, SaveLink, SaveReminded, Crash
  <2>2. Existing' = Existing
    BY <2>1 DEF Existing
  <2>3. QED
    BY <1>0, <1>1, <2>1, <2>2, GivenQuiet
<1>3. CASE QueueAssignment(w)
  <2> DEFINE r == [at |-> "assign", type |-> job[w].type, ids |-> job[w].ids, given |-> {}]
  <2>1. /\ End(w) /\ UNCHANGED req /\ job[w].op = "approve"
        /\ \E c \in Chains : chain[c] = Free /\ chain' = [chain EXCEPT ![c] = r]
    BY <1>3 DEF QueueAssignment, At
  <2>2. r.at = "assign" /\ r.ids = job[w].ids /\ r.type = job[w].type
    OBVIOUS
  <2> HIDE DEF r
  <2>3. \A i \in job[w].ids : req[i].type = job[w].type
    BY <2>1 DEF GivenInv, JobOK
  <2>4. PICK q :
            /\ \E c \in Chains : chain[c] = Free /\ chain' = [chain EXCEPT ![c] = q]
            /\ q.at = "assign" /\ \A i \in q.ids : req[i].type = q.type
    BY <2>1, <2>2, <2>3
  <2>5. Existing' = Existing
    BY <2>1 DEF Existing
  <2>6. ChainOK(q)'
    BY <2>1, <2>4 DEF ChainOK
  <2>7. \A d \in Chains : \/ chain'[d] = chain[d]
                          \/ chain[d].at = "free" /\ chain'[d] = q
    BY <2>4 DEF Free, TypeInv, SubsidyTypeOK
  <2>8. \A d \in Chains : chain'[d] = q => ChainOK(chain[d])'
    BY <2>6 DEF ChainOK
  <2>9. QED
    BY <1>0, <1>1, <2>1, <2>4, <2>5, <2>7, <2>8, GivenQuiet
<1>4. ASSUME NEW s \in {"pending", "declined"}, SetState(job[w].ids, s), UNCHANGED chain,
             \A i \in job[w].ids : req[i].state # "approved",
             s = "pending" => \A i \in job[w].ids : req[i].state \in Approvable,
             \A v \in Workers : job'[v] = job[v] \/ JobOK(job[v])'
      PROVE  GivenInv'
  <2>1. job[w].ids \in SUBSET Existing /\ s \in States \ {"none"} /\ Existing \subseteq Ids
    BY IdsTyped DEF States
  <2> DEFINE R == job[w].ids
  <2>2. R \in SUBSET Existing /\ SetState(R, s)
    BY <1>4, <2>1
  <2>3. /\ \A i \in R : req[i].state # "approved"
        /\ s = "pending" => \A i \in R : req[i].state \in Approvable
    BY <1>4
  <2> HIDE DEF R
  <2>4. /\ Existing' = Existing
        /\ \A i \in Ids : /\ req'[i].learner = req[i].learner
                          /\ req'[i].type = req[i].type
                          /\ req'[i].state = IF i \in R THEN s ELSE req[i].state
    BY <2>1, <2>2, SetStateType
  <2>5. \A i \in Existing :
            /\ req'[i].learner = req[i].learner /\ req'[i].type = req[i].type
            /\ req'[i].state = "approved" <=> req[i].state = "approved"
            /\ req'[i].state = "error" => req[i].state = "error"
            /\ req'[i].state \in Outstanding => req[i].state \in Outstanding \cup {"error"}
    BY <2>1, <2>3, <2>4, <1>4 DEF Outstanding, Approvable
  <2>6. QED
    BY <1>0, <1>4, <2>4, <2>5, GivenQuiet
<1>5. CASE SaveDeclined(w)
  <2>1. End(w) /\ SetState(job[w].ids, "declined") /\ UNCHANGED chain /\ job[w].op = "decline"
    BY <1>5 DEF SaveDeclined, At
  <2>2. \A i \in job[w].ids : req[i].state # "approved"
    BY <2>1 DEF GivenInv, JobOK
  <2>3. QED
    BY <1>1, <1>4, <2>1, <2>2
<1>6. CASE SavePending(w)
  <2>1. /\ SetState(job[w].ids, "pending") /\ UNCHANGED chain
        /\ At(w, "approve", "read") /\ job' = [job EXCEPT ![w].at = "saved"]
    BY <1>6 DEF SavePending
  <2>2. \A i \in job[w].ids : req[i].state \in Approvable
    BY <2>1 DEF OwnerInv, ReviewsCurrent
  <2>3. /\ job'[w].op = "approve" /\ job'[w].ids = job[w].ids /\ job'[w].type = job[w].type
        /\ \A v \in Workers \ {w} : job'[v] = job[v]
    BY <2>1 DEF At, TypeInv, SubsidyTypeOK, Jobs
  <2>4. job[w].ids \in SUBSET Existing /\ Existing \subseteq Ids
    BY IdsTyped
  <2>5. \A i \in job[w].ids : req'[i].type = req[i].type
    BY <2>1, <2>4, SetStateType DEF States
  <2>6. JobOK(job[w])'
    BY <2>1, <2>3, <2>5 DEF GivenInv, JobOK, At
  <2>7. QED
    BY <1>4, <2>1, <2>2, <2>3, <2>6 DEF Approvable
<1>7. CASE SaveCreated(w)
  <2>1. End(w) /\ UNCHANGED chain /\ job[w].op = "create"
    BY <1>7 DEF SaveCreated, At
  <2>2. PICK n \in Ids \ Existing :
            req' = [req EXCEPT ![n] = [state |-> "requested", type |-> job[w].type,
                    learner |-> job[w].learner, nth |-> Cardinality(Existing) + 1]]
    BY <1>7 DEF SaveCreated
  <2>3. /\ Existing' = Existing \cup {n} /\ req'[n].state = "requested"
        /\ req'[n].type = job[w].type /\ req'[n].learner = job[w].learner
        /\ \A i \in Existing : req'[i] = req[i]
    BY <2>2 DEF Existing, TypeInv, SubsidyTypeOK
  <2>4. \A i \in Existing : \A t, l : Serves(i, t, l)' <=> Serves(i, t, l)
    BY <2>3 DEF Serves, OfType
  <2>5. /\ \A v \in Workers : job[v].ids \subseteq Existing
        /\ \A d \in Chains : chain[d].ids \subseteq Existing
    BY DEF TypeInv, RowsExist
  <2>6. \A v \in Workers : JobOK(job[v])'
    <3> SUFFICES ASSUME NEW v \in Workers PROVE JobOK(job[v])'
      OBVIOUS
    <3>1. job'[v].op # "create"
      BY <2>1, EndAlone DEF WaitInv
    <3>2. CASE job'[v] = job[v]
      <4>1. JobOK(job[v])
        BY DEF GivenInv
      <4>2. QED
        BY <2>3, <2>5, <3>1, <3>2, <4>1 DEF JobOK
    <3>3. QED
      BY <1>1, <2>1, <3>2
  <2>7. \A d \in Chains : ChainOK(chain[d])'
    <3> SUFFICES ASSUME NEW d \in Chains PROVE ChainOK(chain[d])'
      OBVIOUS
    <3>1. ChainOK(chain[d])
      BY DEF GivenInv
    <3>2. QED
      BY <1>0, <2>1, <2>3, <2>4, <2>5, <3>1 DEF ChainOK
  <2>8. RowsOK'
    BY <1>0, <2>3 DEF GivenInv, RowsOK
  <2>9. OutstandingOnce'
    <3> SUFFICES ASSUME NEW i \in Existing', NEW k \in Existing', NEW l \in Learners,
                        Serves(i, "license", l)', Serves(k, "license", l)',
                        req'[i].state \in Outstanding, req'[k].state \in Outstanding, i # k
                 PROVE  l \in held["license"]
      BY <1>0 DEF OutstandingOnce
    <3>1. CASE i \in Existing /\ k \in Existing
      BY <2>3, <2>4, <3>1 DEF GivenInv, OutstandingOnce
    <3>2. CASE i = n \/ k = n
      <4>1. PICK o \in Existing : o \in {i, k}
        BY <2>3, <3>2
      <4>2. job[w].type = "license" /\ job[w].learner = l
        BY <2>3, <3>2 DEF Serves, OfType
      <4>3. Serves(o, "license", l) /\ req[o].state \in Outstanding
        BY <2>3, <2>4, <4>1
      <4>4. JobOK(job[w])
        BY DEF GivenInv
      <4>5. QED
        BY <2>1, <4>2, <4>3, <4>4 DEF JobOK
    <3>3. QED
      BY <2>3, <3>1, <3>2
  <2>10. ApprovedOnce'
    BY <2>3, <2>4 DEF GivenInv, ApprovedOnce
  <2>11. GivenApart'
    BY <2>1 DEF GivenInv, GivenApart, Giving
  <2>12. AllRecorded'
    BY <1>0, <2>1, <2>3, <2>4 DEF GivenInv, AllRecorded, Recorded, Giving
  <2>13. QED
    BY <2>6, <2>7, <2>8, <2>9, <2>10, <2>11, <2>12 DEF GivenInv
<1>8. QED
  BY <1>2, <1>3, <1>5, <1>6, <1>7 DEF SaveStep

(* An update approves the requests of its chain whose learners were given  *)
(* something, and the rest, of which there is none among coupon codes, is  *)
(* in error.                                                               *)
LEMMA UpdateWrites ==
    ASSUME TypeInv, OwnerInv, NEW c \in Chains, Update(c)
    PROVE  \A i \in Existing :
              /\ i \notin chain[c].ids => req'[i].state = req[i].state
              /\ i \in chain[c].ids => req'[i].state =
                    IF req[i].learner \in chain[c].given THEN "approved" ELSE "error"
<1> DEFINE R == chain[c].ids
           given == {i \in R : req[i].learner \in chain[c].given}
<1>1. R \subseteq Existing /\ Existing \subseteq Ids /\ chain[c].type \in Types
  BY IdsTyped DEF ChainRecords
<1>2. CASE chain[c].type = "license"
  <2>1. req' = [i \in Ids |-> IF i \notin R THEN req[i] ELSE
                [req[i] EXCEPT !.state = IF i \in given THEN "approved" ELSE "error"]]
    BY <1>2 DEF Update
  <2>2. \A i \in given : i \in R /\ req[i].learner \in chain[c].given
    OBVIOUS
  <2>3. \A i \in R : req[i].learner \in chain[c].given => i \in given
    OBVIOUS
  <2> HIDE DEF given, R
  <2>4. \A i \in Ids : i \notin R => req'[i] = req[i]
    BY <2>1
  <2>5. \A i \in Ids : \A s : [req[i] EXCEPT !.state = s].state = s
    BY DEF TypeInv, SubsidyTypeOK, Reqs
  <2>6. /\ \A i \in R : i \in given => req'[i] = [req[i] EXCEPT !.state = "approved"]
        /\ \A i \in R : i \notin given => req'[i] = [req[i] EXCEPT !.state = "error"]
    BY <1>1, <2>1
  <2>7. /\ \A i \in R : i \in given => req'[i].state = "approved"
        /\ \A i \in R : i \notin given => req'[i].state = "error"
    <3> DEFINE a(i) == [req[i] EXCEPT !.state = "approved"]
               e(i) == [req[i] EXCEPT !.state = "error"]
    <3>1. \A i \in Ids : a(i).state = "approved" /\ e(i).state = "error"
      BY <2>5
    <3>2. /\ \A i \in R : i \in given => req'[i] = a(i)
          /\ \A i \in R : i \notin given => req'[i] = e(i)
      BY <2>6
    <3> HIDE DEF a, e
    <3>3. QED
      BY <1>1, <3>1, <3>2 DEF R
  <2>8. QED
    BY <1>1, <2>2, <2>3, <2>4, <2>7 DEF R
<1>3. CASE chain[c].type = "coupon"
  <2>1. chain[c].at = "update"
    BY <1>3 DEF Update
  <2>2. \A i \in R : req[i].learner \in chain[c].given
    BY <1>3, <2>1 DEF OwnerInv, CodesForAll
  <2>3. given = R
    BY <2>2
  <2>4. SetState(given, "approved")
    BY <1>3, <2>3 DEF Update
  <2>5. R \in SUBSET Existing /\ SetState(R, "approved") /\ "approved" \in States \ {"none"}
    BY <1>1, <2>3, <2>4 DEF States
  <2> HIDE DEF given, R
  <2>6. \A i \in Ids : req'[i].state = IF i \in R THEN "approved" ELSE req[i].state
    BY <2>5, SetStateType
  <2>7. QED
    BY <1>1, <2>2, <2>6 DEF R
<1>4. QED
  BY <1>1, <1>2, <1>3 DEF Types

(* Nothing but its own task knows of a request that a chain will settle.   *)
LEMMA UpdateKeepsGiven ==
    ASSUME TypeInv, TypeInv', OwnerInv, GivenInv, NEW c \in Chains, Update(c)
    PROVE  GivenInv'
<1> DEFINE R == chain[c].ids
           L == chain[c].given
           T == chain[c].type
<1>1. /\ UNCHANGED <<held, wasted, job>> /\ Existing' = Existing
      /\ chain[c].at = "update"
      /\ chain'[c] = Free /\ \A d \in Chains \ {c} : chain'[d] = chain[d]
      /\ \A i \in Existing : req'[i].learner = req[i].learner /\ req'[i].type = req[i].type
  BY UpdateType, IdsTyped DEF Update, fvars, TypeInv, SubsidyTypeOK
<1>2. \A i \in Existing : /\ i \notin R => req'[i].state = req[i].state
                          /\ i \in R => req'[i].state = IF req[i].learner \in L THEN "approved"
                                                        ELSE "error"
  BY UpdateWrites
<1>3. /\ R \subseteq Existing /\ Existing \subseteq Ids
      /\ \A v \in Workers : job[v].ids \subseteq Existing
      /\ \A d \in Chains : chain[d].ids \subseteq Existing
      /\ \A i \in Existing : req[i].learner \in Learners
  BY IdsTyped DEF TypeInv, RowsExist
<1>4. \A i \in R : req[i].state = "pending" /\ i \notin Flushed
  <2> SUFFICES ASSUME NEW i \in R PROVE req[i].state = "pending" /\ i \notin Flushed
    OBVIOUS
  <2>1. i \in Ids /\ OwnC(c, i)
    BY <1>1, <1>3 DEF OwnC, Assigning
  <2>2. QED
    BY <2>1 DEF OwnerInv, OwnedIsPending, FlushedIsFree, Owned
<1>5. ChainOK(chain[c])
  BY DEF GivenInv
<1>6. /\ \A i \in R : req[i].type = T /\ req[i].learner \in held[T]
      /\ \A l \in L : \E i \in R : req[i].learner = l
      /\ T = "license" => \A l \in L :
            /\ \A i \in Existing : Serves(i, "license", l) => req[i].state # "approved"
            /\ \A i, k \in R : req[i].learner = l /\ req[k].learner = l => i = k
  BY <1>1, <1>5 DEF ChainOK
<1>7. \A d \in Chains \ {c} : chain[d].at = "flush" => chain[d].ids \cap R = {}
  BY <1>4, FlushedIs
<1>8. \A v \in Workers : job[v].op = "decline" => job[v].ids \cap R = {}
  BY <1>4 DEF OwnerInv, ReviewsCurrent
<1>9. L \subseteq Learners /\ T \in Types
  BY IdsTyped DEF ChainRecords
<1>10. Free.at = "free" /\ Free.ids = {} /\ Free.given = {}
  BY DEF Free
<1>11. \A l \in L : T = "license" => Giving(c, "license", l)
  BY <1>1 DEF Giving
<1>12. \A d \in Chains : \A t, l : Giving(d, t, l)' <=> d # c /\ Giving(d, t, l)
  BY <1>1, <1>10 DEF Giving
<1>13. \A l : Giving(c, T, l) <=> l \in L
  BY <1>1 DEF Giving
<1> HIDE DEF R, L, T
<1>14. \A i \in Existing : \A t, l : Serves(i, t, l)' <=> Serves(i, t, l)
  BY <1>1 DEF Serves, OfType
<1>15. \A i \in Existing : /\ req[i].state = "approved" => req'[i].state = "approved"
                           /\ req'[i].state = "approved" =>
                                req[i].state = "approved" \/ (i \in R /\ req[i].learner \in L)
                           /\ req'[i].state = "error" => req[i].state = "error" \/ i \in R
                           /\ req'[i].state \in Outstanding => req[i].state \in Outstanding
  BY <1>2, <1>4 DEF Outstanding
<1>16. \A v \in Workers : JobOK(job[v])'
  <2> SUFFICES ASSUME NEW v \in Workers PROVE JobOK(job[v])'
    OBVIOUS
  <2>1. JobOK(job[v])
    BY DEF GivenInv
  <2>2. QED
    BY <1>1, <1>3, <1>8, <1>14, <1>15, <2>1 DEF JobOK
<1>17. \A d \in Chains : ChainOK(chain[d])'
  <2> SUFFICES ASSUME NEW d \in Chains PROVE ChainOK(chain[d])'
    OBVIOUS
  <2>1. CASE d = c
    BY <1>1, <1>10, <2>1 DEF ChainOK
  <2>2. CASE d # c
    <3>1. ChainOK(chain[d])
      BY DEF GivenInv
    <3>2. chain'[d] = chain[d] /\ chain[d].ids \subseteq Existing
      BY <1>1, <1>3, <2>2
    <3>3. chain[d].at = "flush" => \A i \in chain[d].ids : req'[i].state # "approved"
      BY <1>7, <1>15, <2>2, <3>1, <3>2 DEF ChainOK
    <3>4. ASSUME chain[d].at = "update", chain[d].type = "license", NEW l \in chain[d].given,
                 NEW i \in Existing, Serves(i, "license", l)
          PROVE  req'[i].state # "approved"
      <4>1. req[i].state # "approved"
        BY <3>1, <3>4 DEF ChainOK
      <4>2. l \in Learners /\ req[i].learner = l /\ req[i].type = "license"
        BY <1>3, <3>4 DEF Serves, OfType
      <4>3. ASSUME i \in R, l \in L PROVE FALSE
        <5>1. Giving(c, "license", l) /\ Giving(d, "license", l)
          BY <1>6, <1>11, <3>4, <4>2, <4>3 DEF Giving
        <5>2. QED
          BY <2>2, <4>2, <5>1 DEF GivenInv, GivenApart
      <4>4. QED
        BY <1>15, <4>1, <4>2, <4>3
    <3>5. QED
      BY <1>1, <1>14, <3>1, <3>2, <3>3, <3>4 DEF ChainOK
  <2>3. QED
    BY <2>1, <2>2
<1>18. RowsOK'
  <2> SUFFICES ASSUME NEW i \in Existing,
                      req'[i].state = "approved"
                        \/ (req'[i].state = "error" /\ req[i].type = "license")
               PROVE  req[i].learner \in held[req[i].type]
    BY <1>1 DEF RowsOK
  <2>1. CASE i \in R
    BY <1>6, <2>1
  <2>2. CASE i \notin R
    BY <1>15, <2>2 DEF GivenInv, RowsOK
  <2>3. QED
    BY <2>1, <2>2
<1>19. OutstandingOnce'
  BY <1>1, <1>14, <1>15 DEF GivenInv, OutstandingOnce
<1>20. ApprovedOnce'
  <2> SUFFICES ASSUME NEW i \in Existing, NEW k \in Existing, NEW l \in Learners,
                      Serves(i, "license", l), Serves(k, "license", l),
                      req'[i].state = "approved", req'[k].state = "approved"
               PROVE  i = k
    BY <1>1, <1>14 DEF ApprovedOnce
  <2>1. /\ req[i].learner = l /\ req[i].type = "license"
        /\ req[k].learner = l /\ req[k].type = "license"
    BY DEF Serves, OfType
  <2>2. CASE i \in R /\ l \in L
    BY <1>6, <1>15, <2>1, <2>2
  <2>3. CASE k \in R /\ l \in L
    BY <1>6, <1>15, <2>1, <2>3
  <2>4. CASE req[i].state = "approved" /\ req[k].state = "approved"
    BY <2>4 DEF GivenInv, ApprovedOnce
  <2>5. QED
    BY <1>15, <2>1, <2>2, <2>3, <2>4
<1>21. GivenApart'
  BY <1>12 DEF GivenInv, GivenApart
<1>22. AllRecorded'
  <2> SUFFICES ASSUME NEW t \in Types, NEW l \in held[t] \ wasted[t] PROVE Recorded(t, l)'
    BY <1>1 DEF AllRecorded
  <2>1. Recorded(t, l)
    BY DEF GivenInv, AllRecorded
  <2>2. ASSUME NEW i \in Existing, Serves(i, t, l), req[i].state = "approved"
        PROVE  Recorded(t, l)'
    BY <1>1, <1>14, <1>15, <2>2 DEF Recorded
  <2>3. ASSUME NEW d \in Chains, d # c, Giving(d, t, l) PROVE Recorded(t, l)'
    BY <1>12, <2>3 DEF Recorded
  <2>4. ASSUME Giving(c, t, l) PROVE Recorded(t, l)'
    <3>1. t = T /\ l \in L
      BY <2>4 DEF Giving, T, L
    <3>2. PICK i \in R : req[i].learner = l
      BY <1>6, <3>1
    <3>3. req'[i].state = "approved" /\ i \in Existing /\ Serves(i, t, l)
      BY <1>2, <1>3, <1>6, <3>1, <3>2 DEF Serves, OfType
    <3>4. QED
      BY <1>1, <1>14, <3>3 DEF Recorded
  <2>5. QED
    BY <2>1, <2>2, <2>3, <2>4 DEF Recorded
<1>23. QED
  BY <1>16, <1>17, <1>18, <1>19, <1>20, <1>21, <1>22 DEF GivenInv

(* Who receives something: a learner of the chain, and of licences one who *)
(* has none.                                                               *)
LEMMA GiveOnce ==
    ASSUME TypeInv, OwnerInv, GivenInv, NEW c \in Chains, chain[c].at = "assign", Give(c)
    PROVE  LET t == chain[c].type IN
           /\ t \in Types /\ Receivers(c) \subseteq Learners
           /\ held'[t] = held[t] \cup Receivers(c)
           /\ \A u \in Types \ {t} : held'[u] = held[u]
           /\ \A i \in chain[c].ids : req[i].learner \in held'[t]
           /\ \A l \in Receivers(c) : \E i \in chain[c].ids : req[i].learner = l
           /\ t = "license" => \A l \in Receivers(c) :
                /\ l \notin held[t]
                /\ \A i \in Existing : Serves(i, "license", l) => req[i].state # "approved"
                /\ \A i, k \in chain[c].ids : req[i].learner = l /\ req[k].learner = l => i = k
<1> DEFINE t == chain[c].type
           R == chain[c].ids
           L == Receivers(c)
<1>1. t \in Types /\ L \subseteq Learners /\ held' = [held EXCEPT ![t] = held[t] \cup L]
  BY ReceiversTyped DEF ChainRecords, Give
<1>2. R \subseteq Existing /\ Existing \subseteq Ids
  BY IdsTyped
<1>3. \A i \in R : req[i].state = "pending"
  BY <1>2 DEF OwnerInv, OwnedIsPending, Owned, OwnC, Assigning
<1>4. ToAssign(c) = R
  BY <1>3 DEF ToAssign
<1>5. L = {req[i].learner : i \in R} \ (IF t = "license" THEN held["license"] ELSE {})
  BY <1>4 DEF Receivers, LearnersOf
<1>6. ChainOK(chain[c])
  BY DEF GivenInv
<1>7. \A i \in R : req[i].type = t
  BY <1>6 DEF ChainOK
<1> HIDE DEF t, R, L
<1>8. held'[t] = held[t] \cup L /\ \A u \in Types \ {t} : held'[u] = held[u]
  BY <1>1 DEF TypeInv, SubsidyTypeOK
<1>9. /\ \A i \in R : req[i].learner \in held'[t]
      /\ \A l \in L : \E i \in R : req[i].learner = l
  BY <1>5, <1>8
<1>10. ASSUME t = "license", NEW l \in L
       PROVE  /\ l \notin held[t]
              /\ \A i \in Existing : Serves(i, "license", l) => req[i].state # "approved"
              /\ \A i, k \in R : req[i].learner = l /\ req[k].learner = l => i = k
  <2>1. l \notin held["license"] /\ l \in Learners
    BY <1>1, <1>5, <1>10
  <2>2. \A i \in Existing : Serves(i, "license", l) => req[i].state # "approved"
    BY <2>1 DEF GivenInv, RowsOK, Serves, OfType
  <2>3. ASSUME NEW i \in R, NEW k \in R, req[i].learner = l, req[k].learner = l
        PROVE  i = k
    <3>1. Serves(i, "license", l) /\ Serves(k, "license", l)
      BY <1>2, <1>7, <1>10, <2>3 DEF Serves, OfType
    <3>2. req[i].state \in Outstanding /\ req[k].state \in Outstanding
      BY <1>3 DEF Outstanding
    <3>3. i \in Existing /\ k \in Existing
      BY <1>2
    <3>4. QED
      BY <2>1, <3>1, <3>2, <3>3 DEF GivenInv, OutstandingOnce
  <2>4. QED
    BY <1>10, <2>1, <2>2, <2>3
<1>11. QED
  BY <1>1, <1>8, <1>9, <1>10 DEF t, R, L

(* Steps that give something, and write no request.                        *)
LEMMA GivesKeepGiven ==
    ASSUME TypeInv, TypeInv', OwnerInv, GivenInv, NEW c \in Chains,
           (Assign(c) /\ ToAssign(c) # {}) \/ AssignUnheard(c)
    PROVE  GivenInv'
<1> DEFINE t == chain[c].type
           L == Receivers(c)
<1>1. /\ UNCHANGED <<req, job>> /\ Existing' = Existing
      /\ chain[c].at = "assign" /\ Give(c)
  BY DEF Assign, AssignUnheard, Existing
<1>2. /\ t \in Types /\ L \subseteq Learners
      /\ held'[t] = held[t] \cup L
      /\ \A u \in Types \ {t} : held'[u] = held[u]
      /\ \A i \in chain[c].ids : req[i].learner \in held'[t]
      /\ \A l \in L : \E i \in chain[c].ids : req[i].learner = l
      /\ t = "license" => \A l \in L :
            /\ l \notin held[t]
            /\ \A i \in Existing : Serves(i, "license", l) => req[i].state # "approved"
            /\ \A i, k \in chain[c].ids : req[i].learner = l /\ req[k].learner = l => i = k
  BY <1>1, GiveOnce
<1> HIDE DEF t, L
<1>3. \A u \in Types : held[u] \subseteq held'[u]
  BY <1>2
<1>4. \A i, u, l : Serves(i, u, l)' <=> Serves(i, u, l)
  BY <1>1 DEF Serves, OfType
<1>5. /\ \A i \in Existing : req[i].type \in Types
      /\ \A d \in Chains : chain[d].type \in Types
      /\ "license" \in Types
  BY IdsTyped DEF Reqs, ChainRecords, Types
<1>6. \A v \in Workers : JobOK(job[v])'
  <2> SUFFICES ASSUME NEW v \in Workers PROVE JobOK(job[v])'
    OBVIOUS
  <2>1. JobOK(job[v])
    BY DEF GivenInv
  <2>2. QED
    BY <1>1, <1>3, <1>4, <1>5, <2>1 DEF JobOK
<1>7. RowsOK' /\ OutstandingOnce' /\ ApprovedOnce'
  <2>1. RowsOK'
    BY <1>1, <1>3, <1>5 DEF GivenInv, RowsOK
  <2>2. OutstandingOnce'
    BY <1>1, <1>3, <1>4, <1>5 DEF GivenInv, OutstandingOnce
  <2>3. ApprovedOnce'
    BY <1>1, <1>4 DEF GivenInv, ApprovedOnce
  <2>4. QED
    BY <2>1, <2>2, <2>3
<1>8. \A d \in Chains : chain'[d] = chain[d] => ChainOK(chain[d])'
  <2> SUFFICES ASSUME NEW d \in Chains, chain'[d] = chain[d] PROVE ChainOK(chain[d])'
    OBVIOUS
  <2>1. ChainOK(chain[d]) /\ chain[d].type \in Types
    BY <1>5 DEF GivenInv
  <2>2. QED
    BY <1>1, <1>3, <1>4, <2>1 DEF ChainOK
<1>9. CASE AssignUnheard(c)
  <2>1. /\ UNCHANGED chain
        /\ wasted' = [wasted EXCEPT ![t] = wasted[t] \cup L]
    BY <1>9 DEF AssignUnheard, Waste, t, L
  <2>2. \A u \in Types : held'[u] \ wasted'[u] \subseteq held[u] \ wasted[u]
    BY <1>2, <2>1 DEF TypeInv, SubsidyTypeOK
  <2>3. GivenApart'
    BY <2>1 DEF GivenInv, GivenApart, Giving
  <2>4. \A u \in Types : \A l : Recorded(u, l)' <=> Recorded(u, l)
    BY <1>1, <1>4, <2>1 DEF Recorded, Giving
  <2>5. AllRecorded'
    BY <2>2, <2>4 DEF GivenInv, AllRecorded
  <2>6. QED
    BY <1>6, <1>7, <1>8, <2>1, <2>3, <2>5 DEF GivenInv
<1>10. CASE Assign(c) /\ ToAssign(c) # {}
  <2>1. /\ UNCHANGED wasted
        /\ chain' = [chain EXCEPT ![c].at = "update", ![c].given = L]
    BY <1>10 DEF Assign, fvars, L
  <2>2. /\ chain'[c].at = "update" /\ chain'[c].given = L
        /\ chain'[c].ids = chain[c].ids /\ chain'[c].type = t
        /\ \A d \in Chains \ {c} : chain'[d] = chain[d]
    BY <2>1 DEF TypeInv, SubsidyTypeOK, ChainRecords, t
  <2>3. ChainOK(chain[c])'
    <3>1. \A i \in chain[c].ids : req[i].type = t
      BY DEF GivenInv, ChainOK, t
    <3>2. QED
      BY <1>1, <1>2, <1>4, <2>2, <3>1 DEF ChainOK
  <2>4. \A d \in Chains : ChainOK(chain[d])'
    BY <1>8, <2>2, <2>3
  <2>5. \A d \in Chains \ {c} : \A u, l : Giving(d, u, l)' <=> Giving(d, u, l)
    BY <2>2 DEF Giving
  <2>6. \A u, l : Giving(c, u, l)' <=> u = t /\ l \in L
    BY <2>2 DEF Giving
  <2>7. ~\E u, l : Giving(c, u, l)
    BY <1>1 DEF Giving
  <2>8. \A d \in Chains, l \in Learners :
            Giving(d, "license", l) => l \in held["license"]
    <3> SUFFICES ASSUME NEW d \in Chains, NEW l \in Learners, Giving(d, "license", l)
                 PROVE  l \in held["license"]
      OBVIOUS
    <3>1. ChainOK(chain[d])
      BY DEF GivenInv
    <3>2. QED
      BY <3>1 DEF ChainOK, Giving
  <2>9. GivenApart'
    BY <1>2, <2>5, <2>6, <2>8 DEF GivenInv, GivenApart
  <2>10. AllRecorded'
    <3> SUFFICES ASSUME NEW u \in Types, NEW l \in held'[u] \ wasted[u] PROVE Recorded(u, l)'
      BY <2>1 DEF AllRecorded
    <3>1. CASE u = t /\ l \in L
      BY <2>6, <3>1 DEF Recorded
    <3>2. CASE ~(u = t /\ l \in L)
      <4>1. l \in held[u] \ wasted[u]
        BY <1>2, <3>2
      <4>2. Recorded(u, l)
        BY <4>1 DEF GivenInv, AllRecorded
      <4>3. QED
        BY <1>1, <1>4, <2>5, <2>7, <4>2 DEF Recorded
    <3>3. QED
      BY <3>1, <3>2
  <2>11. QED
    BY <1>6, <1>7, <2>4, <2>9, <2>10 DEF GivenInv
<1>11. QED
  BY <1>9, <1>10

LEMMA GivenTasks ==
    ASSUME TypeInv, TypeInv', OwnerInv, GivenInv, NEW c \in Chains,
           TaskStep(c) \/ AssignUnheard(c) \/ GiveUp(c)
    PROVE  GivenInv'
<1>1. ASSUME chain' = [chain EXCEPT ![c] = Free]
      PROVE  /\ chain'[c] = Free /\ \A d \in Chains \ {c} : chain'[d] = chain[d]
             /\ \A d \in Chains : \/ chain'[d] = chain[d]
                                  \/ /\ d = c /\ chain'[d].at # "update"
                                     /\ ChainOK(chain[d])'
  <2>1. chain'[c] = Free /\ \A d \in Chains \ {c} : chain'[d] = chain[d]
    BY <1>1 DEF TypeInv, SubsidyTypeOK
  <2>2. chain'[c].at = "free" /\ chain'[c].ids = {}
    BY <2>1 DEF Free
  <2>3. \A d \in Chains : d = c => chain'[d].at # "update" /\ ChainOK(chain[d])'
    BY <2>2 DEF ChainOK
  <2>4. QED
    BY <2>1, <2>3
<1>2. CASE Assign(c) /\ ToAssign(c) = {}
  <2>1. /\ UNCHANGED <<req, held, job, wasted>> /\ chain[c].at = "assign"
        /\ chain' = [chain EXCEPT ![c] = Free] /\ Existing' = Existing
    BY <1>2 DEF Assign, fvars, Existing
  <2>2. QED
    BY <1>1, <2>1, GivenQuiet
<1>3. CASE Flush(c)
  <2>1. PICK R \in SUBSET chain[c].ids : SetState(R, "declined")
    BY <1>3 DEF Flush
  <2>2. /\ UNCHANGED <<held, job, wasted>> /\ chain[c].at = "flush"
        /\ chain' = [chain EXCEPT ![c] = Free]
    BY <1>3 DEF Flush, fvars
  <2>3. R \in SUBSET Existing /\ "declined" \in States \ {"none"} /\ Existing \subseteq Ids
    BY IdsTyped DEF States
  <2>4. /\ Existing' = Existing
        /\ \A i \in Ids : /\ req'[i].learner = req[i].learner
                          /\ req'[i].type = req[i].type
                          /\ req'[i].state = IF i \in R THEN "declined" ELSE req[i].state
    BY <2>1, <2>3, SetStateType
  <2>5. \A i \in R : req[i].state # "approved"
    BY <2>2 DEF GivenInv, ChainOK
  <2>6. \A i \in Existing :
            /\ req'[i].learner = req[i].learner /\ req'[i].type = req[i].type
            /\ req'[i].state = "approved" <=> req[i].state = "approved"
            /\ req'[i].state = "error" => req[i].state = "error"
            /\ req'[i].state \in Outstanding => req[i].state \in Outstanding \cup {"error"}
    BY <2>3, <2>4, <2>5 DEF Outstanding
  <2>7. QED
    BY <1>1, <2>2, <2>4, <2>6, GivenQuiet
<1>4. CASE GiveUp(c)
  <2>1. /\ UNCHANGED <<req, held, job>> /\ Existing' = Existing
        /\ chain' = [chain EXCEPT ![c] = Free]
        /\ Waste(c, chain[c].given) /\ chain[c].type \in Types
    BY <1>4, IdsTyped DEF GiveUp, Existing, ChainRecords
  <2>2. /\ chain'[c].at = "free" /\ \A d \in Chains \ {c} : chain'[d] = chain[d]
        /\ \A d \in Chains : chain'[d] = chain[d] \/ ChainOK(chain[d])'
    BY <1>1, <2>1 DEF Free
  <2>3. \A i, t, l : Serves(i, t, l)' <=> Serves(i, t, l)
    BY <2>1 DEF Serves, OfType
  <2>4. \A v \in Workers : JobOK(job[v])'
    <3> SUFFICES ASSUME NEW v \in Workers PROVE JobOK(job[v])'
      OBVIOUS
    <3>1. JobOK(job[v])
      BY DEF GivenInv
    <3>2. QED
      BY <2>1, <2>3, <3>1 DEF JobOK
  <2>5. \A d \in Chains : ChainOK(chain[d])'
    <3> SUFFICES ASSUME NEW d \in Chains, chain'[d] = chain[d] PROVE ChainOK(chain[d])'
      BY <2>2
    <3>1. ChainOK(chain[d])
      BY DEF GivenInv
    <3>2. QED
      BY <2>1, <2>3, <3>1 DEF ChainOK
  <2>6. RowsOK' /\ OutstandingOnce' /\ ApprovedOnce'
    BY <2>1, <2>3 DEF GivenInv, RowsOK, OutstandingOnce, ApprovedOnce
  <2>7. \A d \in Chains : \A t, l : Giving(d, t, l)' <=> d # c /\ Giving(d, t, l)
    BY <2>2 DEF Giving
  <2>8. GivenApart'
    BY <2>7 DEF GivenInv, GivenApart
  <2>9. AllRecorded'
    <3> SUFFICES ASSUME NEW t \in Types, NEW l \in held[t], l \notin wasted'[t]
                 PROVE  Recorded(t, l)'
      BY <2>1 DEF AllRecorded
    <3>1. l \notin wasted[t] /\ ~(chain[c].type = t /\ l \in chain[c].given)
      BY <2>1 DEF Waste, TypeInv, SubsidyTypeOK
    <3>2. Recorded(t, l) /\ ~Giving(c, t, l)
      BY <3>1 DEF GivenInv, AllRecorded, Giving
    <3>3. QED
      BY <2>1, <2>3, <2>7, <3>2 DEF Recorded
  <2>10. QED
    BY <2>4, <2>5, <2>6, <2>8, <2>9 DEF GivenInv
<1>5. QED
  BY <1>2, <1>3, <1>4, UpdateKeepsGiven, GivesKeepGiven DEF TaskStep

LEMMA GivenNext ==
    ASSUME TypeInv, TypeInv', OwnerInv, WaitInv, GivenInv, [Next]_vars
    PROVE  GivenInv'
<1>1. CASE UNCHANGED vars
  <2>1. /\ UNCHANGED <<req, held, chain, job, wasted>> /\ Existing' = Existing
    BY <1>1 DEF vars, fvars, Existing
  <2>2. QED
    BY <2>1, GivenQuiet
<1>2. QED
  BY <1>1, GivenReads, GivenSaves, GivenTasks DEF Next

LEMMA GivenInit == Init => GivenInv
<1> SUFFICES ASSUME Init PROVE GivenInv
  OBVIOUS
<1>1. /\ Existing = {} /\ \A t \in Types : held[t] = {}
      /\ \A w \in Workers : job[w].op = "idle"
      /\ \A c \in Chains : chain[c].at = "free" /\ chain[c].ids = {}
  BY DEF Init, Existing, NoReq, Idle, Free
<1>2. \A w \in Workers : JobOK(job[w])
  BY <1>1 DEF JobOK
<1>3. \A c \in Chains : ChainOK(chain[c])
  BY <1>1 DEF ChainOK
<1>4. QED
  BY <1>1, <1>2, <1>3 DEF GivenInv, RowsOK, OutstandingOnce, ApprovedOnce, GivenApart,
     Giving, AllRecorded

(* When neither reviews nor creations overlap among themselves, every      *)
(* licence and code that was given, and of which a task heard, is with an  *)
(* approved request, and a learner has a licence for one request only,     *)
(* although approvals skip nobody who is named twice, the license manager  *)
(* skips who holds a licence, and outcomes are written by primary key.     *)
THEOREM GivenIsRecordedTheorem ==
    ASSUME ReviewsApart, Apart("create", "create")
    PROVE  Spec => []GivenIsRecorded
<1>1. TypeInv /\ TypeInv' /\ OwnerInv /\ WaitInv /\ GivenInv /\ [Next]_vars => GivenInv'
  BY GivenNext
<1>2. TypeInv /\ WaitInv /\ [Next]_vars => WaitInv'
  BY WaitNext
<1>3. Init => WaitInv
  BY DEF Init, WaitInv, OneRequested, Existing, NoReq, Idle
<1>4. TypeInv /\ GivenInv => GivenIsRecorded
  <2> SUFFICES ASSUME TypeInv, GivenInv, NEW t \in Types
               PROVE  /\ \A i \in OfType(t) : req[i].state = "approved" =>
                          /\ req[i].learner \in held[t]
                          /\ \A j \in OfType(t) \ {i} : t = "license" /\ req[j].state = "approved"
                                  => req[j].learner # req[i].learner
                      /\ \A l \in held[t] \ wasted[t] :
                          \/ \E i \in OfType(t) : req[i].learner = l /\ req[i].state = "approved"
                          \/ \E c \in Chains : chain[c].at = "update" /\ chain[c].type = t
                                               /\ l \in chain[c].given
    BY DEF GivenIsRecorded
  <2>1. \A l \in held[t] \ wasted[t] :
            \/ \E i \in OfType(t) : req[i].learner = l /\ req[i].state = "approved"
            \/ \E c \in Chains : chain[c].at = "update" /\ chain[c].type = t
                                 /\ l \in chain[c].given
    BY DEF GivenInv, AllRecorded, Recorded, Serves, Giving
  <2>2. ASSUME NEW i \in OfType(t), req[i].state = "approved" PROVE req[i].learner \in held[t]
    BY <2>2 DEF GivenInv, RowsOK, OfType
  <2>3. ASSUME NEW i \in OfType(t), NEW j \in OfType(t) \ {i}, req[i].state = "approved",
               t = "license", req[j].state = "approved"
        PROVE  req[j].learner # req[i].learner
    BY <2>3 DEF GivenInv, ApprovedOnce, Serves, OfType, TypeInv, RowsExist
  <2>4. QED
    BY <2>1, <2>2, <2>3
<1>5. QED
  BY TypeAlways, OwnerAlways, GivenInit, <1>1, <1>2, <1>3, <1>4, PTL DEF Spec
===============================================================================
