--------------------------- MODULE AssignmentNotice ---------------------------
(***************************************************************************)
(* What a learner is told of an assignment: the Celery tasks that every    *)
(* change of its state queues, the LearnerContentAssignmentActions they    *)
(* leave behind, the acknowledgements of the learner, and the task that    *)
(* clears the personal data of expired assignments.                        *)
(*                                                                         *)
(* One assignment is enough: a task knows no other.  Tasks run long after  *)
(* the change that queued them, in any order, and may be run again or fail *)
(* for good; the daily commands read the assignment, ask the catalogue for *)
(* its course, and save the whole row they read.  The views are steps of   *)
(* their own: what happens within them is in AssignedLearnerCredit.        *)
(***************************************************************************)
EXTENDS Naturals, FiniteSets

CONSTANTS
    MaxEnds,        \* bound: how often the assignment is cancelled or expires
    MaxQueued       \* bound: tasks of one kind that wait or run

ASSUME NoticeAssumption == MaxEnds \in Nat /\ MaxQueued \in Nat \ {0}

VARIABLES
    row,            \* the LearnerContentAssignment
    done,           \* kinds of actions that were successful
    failed,         \* kinds of actions that were not
    acked,          \* kinds that the learner has acknowledged
    recent,         \* those acknowledged after the last successful action
    queue,          \* queue[k]: tasks of kind k that wait or run
    reader,         \* the address that the task of an expiration has read
    job,            \* job[c]: the row that command c has read, if any
    mailed,         \* has an e-mail about an expiration reached the learner?
    ends,           \* how often the assignment was cancelled or expired
    told, heard     \* that number at the last such action, acknowledgement

vars == <<row, done, failed, acked, recent, queue, reader, job, mailed, ends, told, heard>>

(* Reminders leave nothing behind that a step of the code reads, and are   *)
(* left out, like the other actions that are only shown.                   *)
TaskKinds == {"linked", "notified", "nudged", "cancelled", "expired", "request"}
Kept == {"notified", "cancelled", "expired"}
Ends == {"cancelled", "expired"}        \* kinds a learner acknowledges
Commands == {"expire", "clear"}
States == {"allocated", "accepted", "cancelled", "errored", "expired", "reversed"}
Reallocate == {"cancelled", "errored", "expired", "reversed"}
Cancelable == {"allocated", "errored"}

(* real: its address is not a retired one; known: it has the id of the     *)
(* learner, not only the address; request: it serves a request; due: which *)
(* of its dates came first, of those that have passed: 90 days after it was*)
(* allocated, or the end of enrolment or of the subsidy.                   *)
Dues == {"no", "age", "other"}
Rows == [state : States, real : BOOLEAN, known : BOOLEAN, request : BOOLEAN, due : Dues]
First == {r \in Rows : r.state = "allocated" /\ r.real /\ ~r.known /\ r.due = "no"}
NoRows == {}

(* The assignment has just been allocated.                                 *)
Init ==
    /\ row \in First
    /\ done = {} /\ failed = {} /\ acked = {} /\ recent = {}
    /\ queue = [k \in TaskKinds |-> IF k \in {"linked", "notified"} THEN 1 ELSE 0]
    /\ reader = "none"
    /\ job = [c \in Commands |-> NoRows]
    /\ mailed = FALSE /\ ends = 0
    /\ told = [k \in Ends |-> 0] /\ heard = [k \in Ends |-> 0]

history == <<done, failed, acked, recent, mailed, told, heard>>

-----------------------------------------------------------------------------
(* delay(): a task of each of the kinds K.                                 *)
Queue(K) ==
    /\ \A k \in K : queue[k] < MaxQueued
    /\ queue' = [k \in TaskKinds |-> IF k \in K THEN queue[k] + 1 ELSE queue[k]]

(* The dates do not matter any more.                                       *)
SetState(s) == row' = [row EXCEPT !.state = s, !.due = "no"]

(* The assignment ends (again) with this step.                             *)
End ==
    /\ ends < MaxEnds
    /\ ends' = ends + 1

(* An assignment is found by its address, or by the id of its learner.     *)
Found == row.real \/ row.known

(* allocate_assignments(): a fresh address only for an expired one.        *)
Allocate(known) ==
    /\ row.state \in Reallocate
    /\ Found
    /\ \E d \in {"no", "other"} :
        row' = [row EXCEPT !.state = "allocated", !.known = @ \/ known,
                           !.real = @ \/ row.state = "expired", !.due = d]
    /\ Queue({"linked", "notified"})
    /\ UNCHANGED <<history, ends, reader, job>>

(* An allocated one is saved and announced again when its run has changed. *)
AllocateAgain ==
    /\ row.state = "allocated" /\ row.real
    /\ Queue({"linked", "notified"})
    /\ UNCHANGED <<row, history, ends, reader, job>>

(* cancel_assignments() and nudge_assignments().                           *)
Cancel ==
    /\ row.state \in Cancelable
    /\ SetState("cancelled")
    /\ End
    /\ Queue({"cancelled"})
    /\ UNCHANGED <<history, reader, job>>

Nudged ==
    /\ row.state = "accepted"
    /\ Queue({"nudged"})
    /\ UNCHANGED <<row, history, ends, reader, job>>

(* An admin nudges the learner; the command automatically_nudge_assignments*)
(* does it a number of days before the course starts.                      *)
Nudge == Nudged
NudgeDaily == Nudged

(* The learner redeems it, or the call of the subsidy fails ...            *)
Redeem ==
    /\ row.state = "allocated"
    /\ SetState("accepted") \/ SetState("errored")
    /\ UNCHANGED <<history, ends, queue, reader, job>>

(* ... and the transaction may be reversed.                                *)
Reverse ==
    /\ row.state = "accepted"
    /\ SetState("reversed")
    /\ UNCHANGED <<history, ends, queue, reader, job>>

(* update_assignment_lms_user_id_from_user_email()                         *)
LearnUserId ==
    /\ row.real /\ ~row.known
    /\ row' = [row EXCEPT !.known = TRUE]
    /\ UNCHANGED <<history, ends, queue, reader, job>>

-----------------------------------------------------------------------------
(* Which date comes first changes with time; nothing asks for it but while *)
(* the assignment is allocated or expired ...                              *)
SetDue(d) ==
    /\ row.state \in {"allocated", "expired"}
    /\ row' = [row EXCEPT !.due = d]
    /\ UNCHANGED <<history, ends, queue, reader, job>>

Lapse == row.due = "no" /\ \E d \in {"age", "other"} : SetDue(d)

(* ... and when the catalogue does: the run may begin later than planned,  *)
(* and once the last run that a request could use is over, its deadline is *)
(* that of an earlier one.                                                 *)
Postpone == row.due = "other" /\ \E d \in {"no", "age"} : SetDue(d)
FallBack == row.request /\ row.due = "age" /\ SetDue("other")

-----------------------------------------------------------------------------
(* add_successful_..._action(): now the latest of its kind.                *)
(* Mutant: an earlier acknowledgement stays the latest.                    *)
SucceedMutant(k) ==
    /\ done' = done \cup {k}
    /\ told' = IF k \in Ends THEN [told EXCEPT ![k] = ends] ELSE told
    /\ UNCHANGED recent

Succeed(k) ==
    /\ done' = done \cup {k}
    /\ recent' = recent \ {k}
    /\ told' = IF k \in Ends THEN [told EXCEPT ![k] = ends] ELSE told

(* get_last_successful_..._action()                                        *)
(* Mutant: an action with an error reason counts.                          *)
ExpirationToldMutant == "expired" \in done \cup failed

ExpirationTold == "expired" \in done

(* The task of an expiration reads the assignment, and its address; what   *)
(* the other tasks read does not change.                                   *)
Start ==
    /\ queue["expired"] > 0 /\ reader = "none"
    /\ reader' = IF row.real THEN "real" ELSE "retired"
    /\ UNCHANGED <<row, history, ends, queue, job>>

Deliver(k) == mailed' = (mailed \/ (k = "expired" /\ reader = "real"))

EndTask(k) ==
    /\ queue[k] > 0
    /\ k = "expired" => reader # "none"
    /\ queue' = [queue EXCEPT ![k] = @ - 1]
    /\ reader' = IF k = "expired" THEN "none" ELSE reader

(* The e-mail is sent and recorded; that of a nudge or of an expired       *)
(* request is not recorded.                                                *)
Send(k) ==
    /\ EndTask(k)
    /\ Deliver(k)
    /\ IF k \in Kept THEN Succeed(k) ELSE UNCHANGED <<done, recent, told>>
    /\ UNCHANGED <<row, failed, acked, heard, ends, job>>

(* The e-mail is sent, but not heard of: the task is run again.            *)
SendUnheard ==
    /\ reader # "none"
    /\ Deliver("expired")
    /\ reader' = "none"
    /\ UNCHANGED <<row, done, failed, acked, recent, told, heard, ends, queue, job>>

(* on_failure(): the assignment is errored, whatever became of it, but not *)
(* for the first e-mail (or a reminder).  The task of an expired request   *)
(* looks for an assignment with the id of the request, and finds none.     *)
GiveUp(k) ==
    /\ EndTask(k)
    /\ IF k \in {"notified", "request"} THEN UNCHANGED row ELSE SetState("errored")
    /\ failed' = failed \cup ({k} \cap Kept)
    /\ UNCHANGED <<done, acked, recent, mailed, told, heard, ends, job>>

-----------------------------------------------------------------------------
(* acknowledge_assignments(): unless an acknowledgement is recent already. *)
ShouldAcknowledge(k) == row.state = k /\ k \notin recent

Acknowledged(k) ==
    /\ acked' = acked \cup {k}
    /\ recent' = IF k \in done THEN recent \cup {k} ELSE recent
    /\ heard' = [heard EXCEPT ![k] = ends]

Acknowledge(k) ==
    /\ row.known
    /\ ShouldAcknowledge(k)
    /\ Acknowledged(k)
    /\ UNCHANGED <<row, done, failed, queue, reader, job, mailed, ends, told>>

(* learner_acknowledged, which hides the assignment from the learner.      *)
LearnerAcknowledged(k) == row.state = k /\ k \in recent

(* learner_state, as the admin sees it.                                    *)
LearnerState ==
    CASE row.state = "allocated" /\ "notified" \in done -> "waiting"
      [] row.state = "allocated" /\ "notified" \in failed \ done -> "failed"
      [] row.state = "allocated" -> "notifying"
      [] row.state = "errored" -> "failed"
      [] row.state = "expired" -> "expired"
      [] OTHER -> "none"

-----------------------------------------------------------------------------
(* automatically_expire_assignments reads a page of allocated rows, and    *)
(* expires those that are due after it has the courses of all.             *)
ReadForExpire ==
    /\ job["expire"] = NoRows
    /\ row.state = "allocated" /\ row.due # "no"
    /\ job' = [job EXCEPT !["expire"] = {row}]
    /\ UNCHANGED <<row, history, ends, queue, reader>>

(* Mutant: no e-mail is queued.                                            *)
SaveExpiredMutant ==
    /\ job["expire"] # NoRows
    /\ End
    /\ \E r \in job["expire"] : row' = [r EXCEPT !.state = "expired"]
    /\ job' = [job EXCEPT !["expire"] = NoRows]
    /\ UNCHANGED <<history, queue, reader>>

SaveExpired ==
    /\ job["expire"] # NoRows
    /\ \E r \in job["expire"] : row' = [r EXCEPT !.state = "expired"]
    /\ Queue({IF row.request THEN "request" ELSE "expired"})
    /\ End
    /\ job' = [job EXCEPT !["expire"] = NoRows]
    /\ UNCHANGED <<history, reader>>

(* clear_pii_for_expired_assignments reads the expired rows ...            *)
ReadForClear ==
    /\ job["clear"] = NoRows
    /\ row.state = "expired" /\ row.real /\ row.due = "age"
    /\ job' = [job EXCEPT !["clear"] = {row}]
    /\ UNCHANGED <<row, history, ends, queue, reader>>

(* ... and retires the address of one whose learner was told.              *)
Retired(r) == [r EXCEPT !.real = FALSE]

SaveCleared ==
    /\ job["clear"] # NoRows
    /\ IF ExpirationTold
       THEN /\ \E r \in job["clear"] : row' = Retired(r)
            /\ IF row.state = "expired" THEN UNCHANGED ends ELSE End
       ELSE UNCHANGED <<row, ends>>
    /\ job' = [job EXCEPT !["clear"] = NoRows]
    /\ UNCHANGED <<history, queue, reader>>

-----------------------------------------------------------------------------
(* The tasks, each with what it sends.                                     *)
LinkLearner == Send("linked")
SendNew == Send("notified")
SendWarmer == Send("nudged")
SendCancelled == Send("cancelled")
SendExpired == Send("expired")
SendRequestExpired == Send("request")

TaskStep ==
    \/ Start \/ SendUnheard
    \/ LinkLearner \/ SendNew \/ SendWarmer
    \/ SendCancelled \/ SendExpired \/ SendRequestExpired
    \/ \E k \in TaskKinds : GiveUp(k)

Next ==
    \/ AllocateAgain \/ (\E b \in BOOLEAN : Allocate(b))
    \/ Cancel \/ Nudge \/ NudgeDaily \/ Redeem \/ Reverse \/ LearnUserId
    \/ Lapse \/ Postpone \/ FallBack
    \/ TaskStep
    \/ \E k \in Ends : Acknowledge(k)
    \/ ReadForExpire \/ SaveExpired \/ ReadForClear \/ SaveCleared

(* Workers run what is queued, and the retries of an e-mail come to an end.*)
Fairness ==
    /\ WF_vars(Start)
    /\ SF_vars(Send("expired") \/ GiveUp("expired"))
    /\ WF_vars(Send("notified") \/ GiveUp("notified"))

Spec == Init /\ [][Next]_vars
FairSpec == Spec /\ Fairness

-----------------------------------------------------------------------------
(* Type correctness of the assignment, its tasks and its actions.          *)
NoticeTypeOK ==
    /\ row \in Rows
    /\ done \subseteq Kept /\ failed \subseteq Kept
    /\ acked \subseteq Ends /\ recent \subseteq acked \cap done
    /\ queue \in [TaskKinds -> 0 .. MaxQueued]
    /\ reader \in {"none", "real", "retired"}
    /\ job \in [Commands -> SUBSET Rows]
    /\ mailed \in BOOLEAN
    /\ ends \in 0 .. MaxEnds
    /\ told \in [Ends -> 0 .. MaxEnds] /\ heard \in [Ends -> 0 .. MaxEnds]

(* Personal data is cleared "only after successful email notification": no *)
(* address is retired, and none that was read before is saved as retired,  *)
(* unless an e-mail about an expiration has reached it.                    *)
ToldBeforeCleared == ~row.real => mailed

(* An assignment that ended again is not hidden because the learner has    *)
(* acknowledged its earlier end, once the learner was told of this one.    *)
AcknowledgedAfresh ==
    \A k \in Ends :
        LearnerAcknowledged(k) /\ told[k] = ends => heard[k] = ends

(* With workers that run what is queued, an admin does not see "notifying" *)
(* for ever, and an assignment that expired is announced to the learner or *)
(* recorded as failed, whatever happens to it in between; unless it serves *)
(* a request, whose expiration is never recorded.                          *)
NoticesSettle ==
    /\ LearnerState = "notifying" ~> LearnerState # "notifying"
    /\ row.state = "expired" /\ ~row.request ~>
            row.state # "expired" \/ "expired" \in done \cup failed

(* A stronger reading: each expiration is told at an address that is real. *)
(* It fails for an assignment that expires again: the action of the first  *)
(* expiration clears the address before the second e-mail is sent.         *)
EveryExpirationTold ==
    [][SendUnheard \/ Send("expired") => reader = "real"]_vars
=============================================================================
