------------------------ MODULE AssignmentNotice_proofs ------------------------
(* Proofs about what a learner is told of an assignment, for any number of *)
(* waiting tasks and of times that the assignment ends.                    *)
EXTENDS AssignmentNotice, TLAPS

LEMMA QueueType ==
    ASSUME NoticeTypeOK, NEW K, Queue(K)
    PROVE  queue' \in [TaskKinds -> 0 .. MaxQueued]
  BY NoticeAssumption DEF Queue, NoticeTypeOK

LEMMA SetStateType ==
    ASSUME NoticeTypeOK, NEW s \in States, SetState(s)
    PROVE  row' \in Rows /\ row'.real = row.real
  BY DEF SetState, NoticeTypeOK, Rows, Dues

LEMMA DatesType ==
    ASSUME NoticeTypeOK, Lapse \/ Postpone \/ FallBack
    PROVE  /\ row' \in Rows /\ row'.real = row.real
           /\ UNCHANGED <<history, ends, queue, reader, job>>
<1>1. \E d \in Dues : SetDue(d)
  BY DEF Lapse, Postpone, FallBack, Dues
<1>2. QED
  BY <1>1 DEF SetDue, NoticeTypeOK, Rows

LEMMA EndTaskType ==
    ASSUME NoticeTypeOK, NEW k \in TaskKinds, EndTask(k)
    PROVE  /\ queue' \in [TaskKinds -> 0 .. MaxQueued]
           /\ reader' = IF k = "expired" THEN "none" ELSE reader
           /\ k = "expired" => reader # "none"
  BY NoticeAssumption DEF EndTask, NoticeTypeOK

LEMMA InitType == Init => NoticeTypeOK
<1> SUFFICES ASSUME Init PROVE NoticeTypeOK
  OBVIOUS
<1>1. 0 \in 0 .. MaxEnds /\ 0 \in 0 .. MaxQueued /\ 1 \in 0 .. MaxQueued
  BY NoticeAssumption
<1>2. queue \in [TaskKinds -> 0 .. MaxQueued]
  BY <1>1 DEF Init
<1>3. row \in Rows /\ job \in [Commands -> SUBSET Rows]
  BY DEF Init, First, NoRows
<1>4. QED
  BY <1>1, <1>2, <1>3 DEF Init, NoticeTypeOK

(* The steps of the views.                                                 *)
LEMMA ViewType ==
    ASSUME NoticeTypeOK,
           \/ AllocateAgain \/ (\E b \in BOOLEAN : Allocate(b))
           \/ Cancel \/ Nudge \/ NudgeDaily \/ Redeem \/ Reverse \/ LearnUserId
           \/ Lapse \/ Postpone \/ FallBack
    PROVE  NoticeTypeOK'
<1>1. CASE AllocateAgain
  BY <1>1, QueueType DEF AllocateAgain, history, NoticeTypeOK
<1>2. ASSUME NEW b \in BOOLEAN, Allocate(b) PROVE NoticeTypeOK'
  <2>1. row' \in Rows
    <3> DEFINE known == row.known \/ b
               real == row.real \/ row.state = "expired"
    <3>1. known \in BOOLEAN /\ real \in BOOLEAN
      OBVIOUS
    <3>2. PICK d \in Dues : row' = [row EXCEPT !.state = "allocated", !.known = known,
                                     !.real = real, !.due = d]
      BY <1>2 DEF Allocate, Dues
    <3> HIDE DEF known, real
    <3>3. QED
      BY <3>1, <3>2 DEF NoticeTypeOK, Rows, States
  <2>2. QED
    BY <1>2, <2>1, QueueType DEF Allocate, history, NoticeTypeOK
<1>3. CASE Cancel
  <2>1. row' \in Rows
    BY <1>3, SetStateType DEF Cancel, States
  <2>2. ends' \in 0 .. MaxEnds
    BY <1>3, NoticeAssumption DEF Cancel, End, NoticeTypeOK
  <2>3. QED
    BY <1>3, <2>1, <2>2, QueueType DEF Cancel, history, NoticeTypeOK
<1>4. CASE Nudge \/ NudgeDaily
  BY <1>4, QueueType DEF Nudge, NudgeDaily, Nudged, history, NoticeTypeOK
<1>5. CASE Redeem
  <2>1. row' \in Rows
    BY <1>5, SetStateType DEF Redeem, States
  <2>2. QED
    BY <1>5, <2>1 DEF Redeem, history, NoticeTypeOK
<1>6. CASE Reverse
  <2>1. row' \in Rows
    BY <1>6, SetStateType DEF Reverse, States
  <2>2. QED
    BY <1>6, <2>1 DEF Reverse, history, NoticeTypeOK
<1>7. CASE LearnUserId
  <2>1. row' \in Rows
    BY <1>7 DEF LearnUserId, NoticeTypeOK, Rows
  <2>2. QED
    BY <1>7, <2>1 DEF LearnUserId, history, NoticeTypeOK
<1>8. CASE Lapse \/ Postpone \/ FallBack
  BY <1>8, DatesType DEF history, NoticeTypeOK
<1>9. QED
  BY <1>1, <1>2, <1>3, <1>4, <1>5, <1>6, <1>7, <1>8

(* A task that ends is sent or given up.                                   *)
LEMMA TaskSteps ==
    ASSUME TaskStep
    PROVE  Start \/ SendUnheard \/ \E k \in TaskKinds : Send(k) \/ GiveUp(k)
  BY DEF TaskStep, TaskKinds, LinkLearner, SendNew, SendWarmer, SendCancelled,
     SendExpired, SendRequestExpired

(* The tasks and the acknowledgements.                                     *)
LEMMA TaskType ==
    ASSUME NoticeTypeOK, TaskStep \/ (\E k \in Ends : Acknowledge(k))
    PROVE  NoticeTypeOK'
<1>1. CASE Start
  BY <1>1 DEF Start, history, NoticeTypeOK
<1>2. CASE SendUnheard
  <2>1. mailed' \in BOOLEAN
    BY <1>2 DEF SendUnheard, Deliver, NoticeTypeOK
  <2>2. QED
    BY <1>2, <2>1 DEF SendUnheard, NoticeTypeOK
<1>3. ASSUME NEW k \in TaskKinds, Send(k) PROVE NoticeTypeOK'
  <2>1. mailed' \in BOOLEAN
    BY <1>3 DEF Send, Deliver, NoticeTypeOK
  <2>2. /\ done' \subseteq Kept /\ recent' \subseteq acked \cap done'
        /\ told' \in [Ends -> 0 .. MaxEnds]
    BY <1>3 DEF Send, Succeed, NoticeTypeOK
  <2>3. queue' \in [TaskKinds -> 0 .. MaxQueued] /\ reader' \in {"none", "real", "retired"}
    BY <1>3, EndTaskType DEF Send, NoticeTypeOK
  <2>4. QED
    BY <1>3, <2>1, <2>2, <2>3 DEF Send, NoticeTypeOK
<1>4. ASSUME NEW k \in TaskKinds, GiveUp(k) PROVE NoticeTypeOK'
  <2>1. row' \in Rows
    BY <1>4, SetStateType DEF GiveUp, NoticeTypeOK, States
  <2>2. queue' \in [TaskKinds -> 0 .. MaxQueued] /\ reader' \in {"none", "real", "retired"}
    BY <1>4, EndTaskType DEF GiveUp, NoticeTypeOK
  <2>3. QED
    BY <1>4, <2>1, <2>2 DEF GiveUp, NoticeTypeOK
<1>5. ASSUME NEW k \in Ends, Acknowledge(k) PROVE NoticeTypeOK'
  BY <1>5 DEF Acknowledge, Acknowledged, NoticeTypeOK
<1>6. QED
  BY <1>1, <1>2, <1>3, <1>4, <1>5, TaskSteps

LEMMA CommandType ==
    ASSUME NoticeTypeOK, ReadForExpire \/ SaveExpired \/ ReadForClear \/ SaveCleared
    PROVE  NoticeTypeOK'
<1>1. CASE ReadForExpire \/ ReadForClear
  <2>1. \E c \in Commands : job' = [job EXCEPT ![c] = {row}]
    BY <1>1 DEF ReadForExpire, ReadForClear, Commands
  <2>2. job' \in [Commands -> SUBSET Rows]
    BY <2>1 DEF NoticeTypeOK
  <2>3. QED
    BY <1>1, <2>2 DEF ReadForExpire, ReadForClear, history, NoticeTypeOK
<1>2. CASE SaveExpired
  <2>1. job' \in [Commands -> SUBSET Rows]
    BY <1>2 DEF SaveExpired, NoRows, NoticeTypeOK
  <2>2. row' \in Rows
    <3>1. \A r \in Rows : [r EXCEPT !.state = "expired"] \in Rows
      BY DEF Rows, States
    <3>2. job["expire"] \subseteq Rows
      BY DEF NoticeTypeOK, Commands
    <3>3. QED
      BY <1>2, <3>1, <3>2 DEF SaveExpired, NoticeTypeOK
  <2>3. queue' \in [TaskKinds -> 0 .. MaxQueued] /\ ends' \in 0 .. MaxEnds
    BY <1>2, QueueType, NoticeAssumption DEF SaveExpired, End, NoticeTypeOK
  <2>4. QED
    BY <1>2, <2>1, <2>2, <2>3 DEF SaveExpired, history, NoticeTypeOK
<1>3. CASE SaveCleared
  <2>1. job' \in [Commands -> SUBSET Rows]
    BY <1>3 DEF SaveCleared, NoRows, NoticeTypeOK
  <2>2. row' \in Rows
    <3>1. \A r \in Rows : Retired(r) \in Rows
      BY DEF Rows, Retired
    <3>2. job["clear"] \subseteq Rows
      BY DEF NoticeTypeOK, Commands
    <3>3. QED
      BY <1>3, <3>1, <3>2 DEF SaveCleared, NoticeTypeOK
  <2>3. ends' \in 0 .. MaxEnds
    BY <1>3, NoticeAssumption DEF SaveCleared, End, NoticeTypeOK
  <2>4. QED
    BY <1>3, <2>1, <2>2, <2>3 DEF SaveCleared, history, NoticeTypeOK
<1>4. QED
  BY <1>1, <1>2, <1>3

LEMMA NextType == NoticeTypeOK /\ [Next]_vars => NoticeTypeOK'
<1> SUFFICES ASSUME NoticeTypeOK, [Next]_vars PROVE NoticeTypeOK'
  OBVIOUS
<1>1. CASE UNCHANGED vars
  BY <1>1 DEF vars, NoticeTypeOK
<1>2. QED
  BY <1>1, ViewType, TaskType, CommandType DEF Next

(* The assignment, its tasks and its actions keep their types.             *)
THEOREM NoticeType == Spec => []NoticeTypeOK
  BY InitType, NextType, PTL DEF Spec

-----------------------------------------------------------------------------
(* Why clearing is safe although whole rows that were read earlier are     *)
(* saved: each trace of a retired address, or of an announced expiration,  *)
(* in a row that a command holds, in a task, or among the actions, comes   *)
(* after an e-mail that reached the learner.                               *)
ClearedInv ==
    /\ ~row.real => mailed
    /\ \A c \in Commands : \A r \in job[c] : ~r.real => mailed
    /\ "expired" \in done => mailed
    /\ reader = "retired" => mailed

LEMMA ClearedNext ==
    ASSUME NoticeTypeOK, ClearedInv, [Next]_vars
    PROVE  ClearedInv'
<1>1. CASE \/ AllocateAgain \/ Cancel \/ Nudge \/ NudgeDaily \/ Redeem \/ Reverse
           \/ Lapse \/ Postpone \/ FallBack
  <2>1. row'.real = row.real
    BY <1>1, SetStateType, DatesType
       DEF AllocateAgain, Cancel, Nudge, NudgeDaily, Nudged, Redeem, Reverse, States
  <2>2. UNCHANGED <<done, mailed, job, reader>>
    BY <1>1, DatesType
       DEF AllocateAgain, Cancel, Nudge, NudgeDaily, Nudged, Redeem, Reverse, history
  <2>3. QED
    BY <2>1, <2>2 DEF ClearedInv
<1>2. ASSUME NEW b \in BOOLEAN, Allocate(b) PROVE ClearedInv'
  <2>1. row'.real = (row.real \/ row.state = "expired")
    BY <1>2 DEF Allocate, NoticeTypeOK, Rows
  <2>2. UNCHANGED <<done, mailed, job, reader>>
    BY <1>2 DEF Allocate, history
  <2>3. QED
    BY <2>1, <2>2 DEF ClearedInv
<1>3. CASE LearnUserId
  <2>1. row'.real = row.real
    BY <1>3 DEF LearnUserId, NoticeTypeOK, Rows
  <2>2. QED
    BY <1>3, <2>1 DEF LearnUserId, history, ClearedInv
<1>4. CASE Start
  BY <1>4 DEF Start, history, ClearedInv
<1>5. CASE SendUnheard
  <2>1. mailed => mailed'
    BY <1>5 DEF SendUnheard, Deliver
  <2>2. QED
    BY <1>5, <2>1 DEF SendUnheard, ClearedInv
<1>6. ASSUME NEW k \in TaskKinds, Send(k) PROVE ClearedInv'
  <2>1. mailed => mailed'
    BY <1>6 DEF Send, Deliver
  <2>2. reader' # "retired" \/ reader' = reader
    BY <1>6, EndTaskType DEF Send
  <2>3. "expired" \in done' => mailed'
    <3>1. CASE k = "expired"
      <4>1. reader = "real" \/ reader = "retired"
        BY <1>6, <3>1, EndTaskType DEF Send, NoticeTypeOK
      <4>2. reader = "real" => mailed'
        BY <1>6, <3>1 DEF Send, Deliver
      <4>3. QED
        BY <2>1, <4>1, <4>2 DEF ClearedInv
    <3>2. CASE k # "expired"
      <4>1. "expired" \in done' => "expired" \in done
        BY <1>6, <3>2 DEF Send, Succeed
      <4>2. QED
        BY <2>1, <4>1 DEF ClearedInv
    <3>3. QED
      BY <3>1, <3>2
  <2>4. UNCHANGED <<row, job>>
    BY <1>6 DEF Send
  <2>5. QED
    BY <2>1, <2>2, <2>3, <2>4 DEF ClearedInv
<1>7. ASSUME NEW k \in TaskKinds, GiveUp(k) PROVE ClearedInv'
  <2>1. row'.real = row.real
    BY <1>7, SetStateType DEF GiveUp, States
  <2>2. reader' # "retired" \/ reader' = reader
    BY <1>7, EndTaskType DEF GiveUp
  <2>3. UNCHANGED <<done, mailed, job>>
    BY <1>7 DEF GiveUp
  <2>4. QED
    BY <2>1, <2>2, <2>3 DEF ClearedInv
<1>8. ASSUME NEW k \in Ends, Acknowledge(k) PROVE ClearedInv'
  BY <1>8 DEF Acknowledge, Acknowledged, ClearedInv
<1>9. CASE ReadForExpire \/ ReadForClear
  <2>1. \E c \in Commands : job' = [job EXCEPT ![c] = {row}]
    BY <1>9 DEF ReadForExpire, ReadForClear, Commands
  <2>2. \A c \in Commands : \A r \in job'[c] : r = row \/ r \in job[c]
    BY <2>1 DEF NoticeTypeOK
  <2>3. UNCHANGED <<row, done, mailed, reader>>
    BY <1>9 DEF ReadForExpire, ReadForClear, history
  <2>4. QED
    BY <2>2, <2>3 DEF ClearedInv
<1>10. CASE SaveExpired
  <2>1. row' = row \/ \E r \in job["expire"] : row' = [r EXCEPT !.state = "expired"]
    BY <1>10 DEF SaveExpired
  <2>2. row'.real = row.real \/ \E r \in job["expire"] : row'.real = r.real
    <3>1. \A r \in job["expire"] : [r EXCEPT !.state = "expired"].real = r.real
      BY DEF NoticeTypeOK, Rows, Commands
    <3>2. QED
      BY <2>1, <3>1
  <2>3. \A c \in Commands : job'[c] \subseteq job[c]
    BY <1>10 DEF SaveExpired, NoRows, NoticeTypeOK
  <2>4. UNCHANGED <<done, mailed, reader>> /\ "expire" \in Commands
    BY <1>10 DEF SaveExpired, history, Commands
  <2>5. QED
    BY <2>2, <2>3, <2>4 DEF ClearedInv
<1>11. CASE SaveCleared
  <2>1. row' = row \/ "expired" \in done
    BY <1>11 DEF SaveCleared, ExpirationTold
  <2>2. \A c \in Commands : job'[c] \subseteq job[c]
    BY <1>11 DEF SaveCleared, NoRows, NoticeTypeOK
  <2>3. UNCHANGED <<done, mailed, reader>>
    BY <1>11 DEF SaveCleared, history
  <2>4. QED
    BY <2>1, <2>2, <2>3 DEF ClearedInv
<1>12. CASE UNCHANGED vars
  BY <1>12 DEF vars, ClearedInv
<1>13. QED
  BY <1>1, <1>2, <1>3, <1>4, <1>5, <1>6, <1>7, <1>8, <1>9, <1>10, <1>11, <1>12,
     TaskSteps DEF Next

(* No address is retired before an e-mail about an expiration has reached  *)
(* it, whatever is saved over a newer row.                                 *)
THEOREM ToldBeforeClearedTheorem == Spec => []ToldBeforeCleared
<1>1. Init => ClearedInv
  BY DEF Init, First, Rows, NoRows, ClearedInv
<1>2. ClearedInv => ToldBeforeCleared
  BY DEF ClearedInv, ToldBeforeCleared
<1>3. QED
  BY NoticeType, <1>1, <1>2, ClearedNext, PTL DEF Spec

-----------------------------------------------------------------------------
(* An acknowledgement that counts is not older than the action it follows. *)
HeardInv ==
    \A k \in Ends :
        /\ told[k] <= ends /\ heard[k] <= ends
        /\ k \in recent => told[k] <= heard[k]

LEMMA EndsGrow ==
    ASSUME NoticeTypeOK, NoticeTypeOK', HeardInv, UNCHANGED <<told, heard, recent>>,
           UNCHANGED ends \/ End
    PROVE  HeardInv'
<1>1. ends <= ends' /\ ends \in Nat /\ ends' \in Nat
  BY NoticeAssumption DEF End, NoticeTypeOK
<1>2. \A k \in Ends : told[k] \in Nat /\ heard[k] \in Nat
  BY NoticeAssumption DEF NoticeTypeOK
<1>3. QED
  BY <1>1, <1>2 DEF HeardInv

LEMMA HeardNext ==
    ASSUME NoticeTypeOK, NoticeTypeOK', HeardInv, [Next]_vars
    PROVE  HeardInv'
<1>1. ends \in Nat /\ \A k \in Ends : told[k] \in Nat /\ heard[k] \in Nat
  BY NoticeAssumption DEF NoticeTypeOK
<1>2. ASSUME NEW k \in Ends, Acknowledge(k) PROVE HeardInv'
  <2>1. /\ recent' \subseteq recent \cup {k}
        /\ heard' = [heard EXCEPT ![k] = ends]
        /\ UNCHANGED <<told, ends>>
    BY <1>2 DEF Acknowledge, Acknowledged
  <2>2. \A j \in Ends : heard'[j] = IF j = k THEN ends ELSE heard[j]
    BY <2>1 DEF NoticeTypeOK
  <2>3. QED
    BY <1>1, <2>1, <2>2 DEF HeardInv
<1>3. ASSUME NEW k \in TaskKinds, Send(k) PROVE HeardInv'
  <2>1. UNCHANGED <<heard, ends>>
    BY <1>3 DEF Send
  <2>2. CASE UNCHANGED <<recent, told>>
    BY <2>1, <2>2 DEF HeardInv
  <2>3. CASE Succeed(k)
    <3>1. \A j \in Ends : told'[j] = IF j = k THEN ends ELSE told[j]
      BY <2>3 DEF Succeed, NoticeTypeOK
    <3>2. recent' = recent \ {k}
      BY <2>3 DEF Succeed
    <3>3. QED
      BY <1>1, <2>1, <3>1, <3>2 DEF HeardInv
  <2>4. QED
    BY <1>3, <2>2, <2>3 DEF Send
<1>4. CASE \/ AllocateAgain \/ (\E b \in BOOLEAN : Allocate(b))
           \/ Nudge \/ NudgeDaily \/ Redeem \/ Reverse \/ LearnUserId
           \/ Lapse \/ Postpone \/ FallBack \/ Start \/ SendUnheard
           \/ \E k \in TaskKinds : GiveUp(k)
           \/ ReadForExpire \/ ReadForClear \/ UNCHANGED vars
  <2>1. UNCHANGED <<told, heard, recent, ends>>
    BY <1>4, DatesType
       DEF AllocateAgain, Allocate, Nudge, NudgeDaily, Nudged, Redeem, Reverse, LearnUserId,
       Start, SendUnheard, GiveUp, ReadForExpire, ReadForClear, vars, history
  <2>2. QED
    BY <2>1, EndsGrow
<1>5. CASE Cancel \/ SaveExpired \/ SaveCleared
  <2>1. UNCHANGED <<told, heard, recent>> /\ (UNCHANGED ends \/ End)
    BY <1>5 DEF Cancel, SaveExpired, SaveCleared, history
  <2>2. QED
    BY <2>1, EndsGrow
<1>6. QED
  BY <1>2, <1>3, <1>4, <1>5, TaskSteps DEF Next

(* What hides an assignment from the learner is an acknowledgement of its  *)
(* latest end, once the learner was told of that end.                      *)
THEOREM AcknowledgedAfreshTheorem == Spec => []AcknowledgedAfresh
<1>1. Init => HeardInv
  BY DEF Init, HeardInv, Ends
<1>2. NoticeTypeOK /\ HeardInv => AcknowledgedAfresh
  <2> SUFFICES ASSUME NoticeTypeOK, HeardInv, NEW k \in Ends, LearnerAcknowledged(k),
                      told[k] = ends
               PROVE  heard[k] = ends
    BY DEF AcknowledgedAfresh
  <2>1. told[k] <= heard[k] /\ heard[k] <= ends
    BY DEF LearnerAcknowledged, HeardInv
  <2>2. ends \in Nat /\ heard[k] \in Nat
    BY NoticeAssumption DEF NoticeTypeOK
  <2>3. QED
    BY <2>1, <2>2
<1>3. NoticeTypeOK /\ NoticeTypeOK' /\ HeardInv /\ [Next]_vars => HeardInv'
  BY HeardNext
<1>4. QED
  BY NoticeType, <1>1, <1>2, <1>3, PTL DEF Spec
=============================================================================
