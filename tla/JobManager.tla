------------------------------ MODULE JobManager ------------------------------
(***************************************************************************)
(* Background jobs of the server: the JobManager, one asyncio task per     *)
(* scheduled job, the job rows of the store, and shutdown, crash, restart. *)
(*                                                                         *)
(* Every store call runs in a thread (asyncio.to_thread) as one            *)
(* transaction.  Cancelling a task that awaits a call either catches the   *)
(* call before a thread took it, and drops it, or leaves it behind: it     *)
(* commits later.  An action of a task is what it does between two awaits. *)
(***************************************************************************)
EXTENDS Integers, Sequences, FiniteSets

CONSTANTS
    Jobs,
    Downloads,      \* jobs of the resumable kinds
    MayLack,        \* jobs whose kind a process may have no handler for
    Lane,           \* [Jobs -> the semaphore that admits the job]
    MaxConcurrency,
    Cancellable,    \* jobs the user cancels
    Retriable,      \* jobs the user retries
    Slow,           \* jobs whose task may outlast the wait in close()
    MayDrop,        \* calls a cancellation may catch before they start
    MayOutlive,     \* calls that may commit after their task was cancelled
    MaxCancels, MaxRetries,   \* bounds: calls of the user for one job
    MaxStops        \* bound: shutdowns and crashes

Reads == {"get", "recheck", "reread"}
Writes == {"claim", "complete", "reject", "fail", "cancel", "interrupt", "requeue"}

ASSUME JobAssumption ==
    /\ IsFiniteSet(Jobs)
    /\ Downloads \subseteq Jobs /\ MayLack \subseteq Jobs /\ Slow \subseteq Jobs
    /\ Cancellable \subseteq Jobs /\ Retriable \subseteq Downloads
    /\ MaxConcurrency \in Nat \ {0}
    /\ MayDrop \subseteq Writes /\ MayOutlive \subseteq Writes
    /\ MayDrop \cup MayOutlive = Writes
    /\ MaxCancels \in Nat /\ MaxRetries \in Nat /\ MaxStops \in Nat

VARIABLES
    \* the store
    status,             \* [Jobs -> JobStatus, "none" before create_job()]
    cancel_requested,
    late,               \* set of <<job, call>>: calls left behind by a task
    \* the manager
    service,            \* where start() and close() are
    unwinding,          \* tasks close() waits for
    task,               \* [Jobs -> where the job's task is; "none": not in _tasks]
    reply,              \* [Jobs -> what the call the task awaits has returned]
    must,               \* tasks that will see CancelledError next
    event,              \* jobs whose cancel event is set
    \* calls of the user
    submitting, cancelling, retrying, cancels, retries,
    stops,
    \* history: what the code does not keep
    abandoned,          \* [Jobs -> why nobody may record the end of the job]
    overtaken           \* jobs that a call of an earlier task ended under a later one

storeVars == << status, cancel_requested, late >>
taskVars == << task, reply, must, event >>
userVars == << submitting, cancelling, retrying, cancels, retries >>
lifeVars == << service, unwinding, stops >>
histVars == << abandoned, overtaken >>
vars == << storeVars, taskVars, userVars, lifeVars, histVars >>

Terminal == {"succeeded", "failed", "cancelled", "interrupted"}
Statuses == {"none", "queued", "running", "cancelling"} \cup Terminal
Causes == {"none", "user", "close", "claim", "retry"}
Places == {"none", "created", "slot", "handler", "ended"} \cup Reads \cup Writes
Replies == Statuses \cup {"pending", "reading", "invalid", "requested"}

Init ==
    /\ status = [j \in Jobs |-> "none"] /\ cancel_requested = {} /\ late = {}
    /\ service = "down" /\ unwinding = {} /\ stops = 0
    /\ task = [j \in Jobs |-> "none"] /\ reply = [j \in Jobs |-> "pending"]
    /\ must = {} /\ event = {}
    /\ submitting = {} /\ cancelling = {}
    /\ retrying = [j \in Jobs |-> "none"]
    /\ cancels = [j \in Jobs |-> 0] /\ retries = [j \in Jobs |-> 0]
    /\ abandoned = [j \in Jobs |-> "none"] /\ overtaken = {}

(***************************************************************************)
(* The store.                                                              *)
(***************************************************************************)
\* The status a call leaves behind, from the status it finds.
After(s, call) ==
    CASE call = "claim" /\ s = "queued" -> "running"
      [] call = "complete" /\ s = "running" -> "succeeded"
      [] call \in {"reject", "fail"} /\ s \notin Terminal -> "failed"
      [] call = "cancel" /\ s \notin Terminal -> "cancelled"
      [] call = "interrupt" /\ s \notin Terminal -> "interrupted"
      [] call = "requeue" /\ s \in Terminal \ {"succeeded"} -> "queued"
      [] call = "request" /\ s = "queued" -> "cancelled"
      [] call = "request" /\ s \in {"running", "cancelling"} -> "cancelling"
      [] OTHER -> s

\* The call raises InvalidJobStateError.
Invalid(s, call) ==
    \/ call = "complete" /\ s \notin {"running", "succeeded"}
    \/ call = "requeue" /\ s \in {"cancelling", "succeeded"}

Store(j, call) ==
    /\ status' = [status EXCEPT ![j] = After(@, call)]
    /\ cancel_requested' =
          IF call = "request" /\ status[j] \notin Terminal THEN cancel_requested \cup {j}
          ELSE IF call = "requeue" /\ status[j] \in Terminal \ {"succeeded"}
          THEN cancel_requested \ {j} ELSE cancel_requested

\* History: a job that has ended needs nobody any more.
Ends(j, call) ==
    abandoned' = IF After(status[j], call) \in Terminal
                 THEN [abandoned EXCEPT ![j] = "none"] ELSE abandoned

\* A call that its task has given up on commits.
LateCommit(j, call) ==
    /\ <<j, call>> \in late
    /\ Store(j, call)
    /\ late' = late \ {<<j, call>>}
    /\ IF call = "claim" /\ status[j] = "queued"
       THEN abandoned' = [abandoned EXCEPT ![j] = "claim"] ELSE Ends(j, call)
    /\ overtaken' = IF /\ task[j] # "none" /\ status[j] \notin Terminal
                       /\ After(status[j], call) \in Terminal
                    THEN overtaken \cup {j} ELSE overtaken
    /\ UNCHANGED << taskVars, userVars, lifeVars >>

\* A call that a task awaits commits.  claim_job() reads the row once more.
Commit(j) ==
    /\ task[j] \in Writes /\ reply[j] = "pending"
    /\ Store(j, task[j])
    /\ reply' = [reply EXCEPT ![j] =
                    IF Invalid(status[j], task[j]) THEN "invalid"
                    ELSE IF task[j] = "claim" /\ status[j] = "queued" THEN "reading"
                    ELSE status'[j]]
    /\ Ends(j, task[j])
    /\ UNCHANGED << late, task, must, event, userVars, lifeVars, overtaken >>

Read(j) ==
    /\ (task[j] \in Reads /\ reply[j] = "pending") \/ reply[j] = "reading"
    /\ reply' = [reply EXCEPT ![j] =
                    IF task[j] = "reread" /\ j \in cancel_requested THEN "requested"
                    ELSE status[j]]
    /\ UNCHANGED << storeVars, task, must, event, userVars, lifeVars, histVars >>

(***************************************************************************)
(* _run(): the task of a job.                                              *)
(***************************************************************************)
Goes(j, place) ==
    /\ task' = [task EXCEPT ![j] = place]
    /\ reply' = [reply EXCEPT ![j] = "pending"]
    /\ UNCHANGED << must, userVars, lifeVars, histVars >>

Returned(j, call) ==
    /\ task[j] = call /\ j \notin must
    /\ reply[j] \notin {"pending", "reading"}

\* The tasks inside `async with semaphore`.
Holders(lane) ==
    { j \in Jobs : Lane[j] = lane /\ task[j] \in {"recheck", "reject", "claim", "handler", "complete"} }

\* Where the first except clause goes: it records how the job was stopped.
Stopped == IF service = "closing" THEN "interrupt" ELSE "cancel"

Starts(j) ==
    /\ task[j] = "created" /\ j \notin must /\ Goes(j, "get")
    /\ UNCHANGED << storeVars, event >>

GetReturns(j) ==
    /\ Returned(j, "get") /\ Goes(j, "slot")
    /\ UNCHANGED << storeVars, event >>

TakeSlot(j) ==
    /\ task[j] = "slot" /\ j \notin must
    /\ Cardinality(Holders(Lane[j])) < MaxConcurrency
    /\ Goes(j, "recheck")
    /\ UNCHANGED << storeVars, event >>

\* A queued job is claimed, or fails if its kind has no handler; a job that is
\* being cancelled raises.
RecheckReturns(j) ==
    /\ Returned(j, "recheck")
    /\ \/ /\ reply[j] = "cancelling"
          /\ Goes(j, Stopped) /\ event' = event \cup {j}
       \/ /\ reply[j] \notin {"cancelling", "queued"}
          /\ Goes(j, "ended") /\ UNCHANGED event
       \/ /\ reply[j] = "queued"
          /\ Goes(j, "claim") \/ (j \in MayLack /\ Goes(j, "reject"))
          /\ UNCHANGED event
    /\ UNCHANGED storeVars

\* Mutants: a job that is being cancelled is left as it is; any other status
\* is taken for a successful claim.
ClaimReturnsQuietly(j) ==
    /\ Returned(j, "claim")
    /\ Goes(j, IF reply[j] = "running" THEN "handler" ELSE "ended")
    /\ UNCHANGED << storeVars, event >>
ClaimReturnsAnyway(j) ==
    /\ Returned(j, "claim")
    /\ Goes(j, IF reply[j] = "cancelling" THEN Stopped ELSE "handler")
    /\ UNCHANGED << storeVars, event >>

ClaimReturns(j) ==
    /\ Returned(j, "claim")
    /\ \/ /\ reply[j] = "cancelling"
          /\ Goes(j, Stopped) /\ event' = event \cup {j}
       \/ /\ reply[j] \notin {"cancelling", "running"}
          /\ Goes(j, "ended") /\ UNCHANGED event
       \/ /\ reply[j] = "running"
          /\ Goes(j, "handler") /\ UNCHANGED event
    /\ UNCHANGED storeVars

\* A handler lets CancelledError pass; one that ends nevertheless is not complete.
HandlerReturns(j) ==
    /\ task[j] = "handler" /\ j \notin must
    /\ Goes(j, IF j \in event THEN Stopped ELSE "complete")
    /\ UNCHANGED << storeVars, event >>

HandlerRaises(j) ==
    /\ task[j] = "handler" /\ j \notin must
    /\ Goes(j, "fail")
    /\ UNCHANGED << storeVars, event >>

\* InvalidJobStateError of complete_job() is an error like any other.
CompleteReturns(j) ==
    /\ Returned(j, "complete")
    /\ Goes(j, IF reply[j] = "invalid" THEN "fail" ELSE "ended")
    /\ UNCHANGED << storeVars, event >>

InterruptReturns(j) ==
    /\ Returned(j, "interrupt")
    /\ Goes(j, "reread")
    /\ UNCHANGED << storeVars, event >>

\* An interrupted download goes back to the queue unless the user cancelled it.
RereadReturns(j) ==
    /\ Returned(j, "reread")
    /\ Goes(j, IF j \in Downloads /\ reply[j] # "requested" THEN "requeue" ELSE "ended")
    /\ UNCHANGED << storeVars, event >>

\* The last write of a task.
WriteReturns(j) ==
    /\ \E call \in {"reject", "fail", "cancel", "requeue"} : Returned(j, call)
    /\ Goes(j, "ended")
    /\ UNCHANGED << storeVars, event >>

\* CancelledError reaches the task.  The body of _run() goes on to record it;
\* in an except clause, and before the first step of _run(), it ends the task.
InBody(j) ==
    task[j] \in {"get", "slot", "recheck", "reject", "claim", "handler", "complete"}

Cancelled(j) ==
    /\ j \in must /\ task[j] \notin {"none", "ended"}
    /\ task' = [task EXCEPT ![j] = IF InBody(j) THEN Stopped ELSE "ended"]
    /\ reply' = [reply EXCEPT ![j] = "pending"]
    /\ must' = must \ {j}
    /\ event' = IF InBody(j) THEN event \cup {j} ELSE event
    /\ IF task[j] \in Writes /\ reply[j] = "pending"
       THEN \/ task[j] \in MayDrop /\ UNCHANGED late
            \/ task[j] \in MayOutlive /\ late' = late \cup {<<j, task[j]>>}
       ELSE UNCHANGED late
    /\ abandoned' =
          IF /\ status[j] \notin Terminal
             /\ \/ task[j] = "created"
                \/ ~InBody(j) /\ task[j] \in Writes /\ reply[j] = "pending" /\ late' = late
          THEN [abandoned EXCEPT ![j] = IF service = "closing" THEN "close" ELSE "user"]
          ELSE abandoned
    /\ UNCHANGED << status, cancel_requested, userVars, lifeVars, overtaken >>

\* The done callback.
Forget(j) ==
    /\ task[j] = "ended"
    /\ task' = [task EXCEPT ![j] = "none"]
    /\ must' = must \ {j} /\ event' = event \ {j} /\ overtaken' = overtaken \ {j}
    /\ UNCHANGED << reply, storeVars, userVars, lifeVars, abandoned >>

(***************************************************************************)
(* Calls of the user.                                                      *)
(***************************************************************************)
\* _schedule() of the jobs in S.  close() does not wait for tasks it has not seen.
Schedule(S) ==
    LET new == { j \in S : service # "closing" /\ task[j] = "none" } IN
    /\ task' = [j \in Jobs |-> IF j \in new THEN "created" ELSE task[j]]
    /\ reply' = [j \in Jobs |-> IF j \in new THEN "pending" ELSE reply[j]]
    /\ event' = event \ new
    /\ unwinding' = unwinding \ new
    /\ UNCHANGED must

Up == service \in {"up", "unwinding", "closing"}

SubmitCreates(j) ==
    /\ service = "up" /\ status[j] = "none"
    /\ status' = [status EXCEPT ![j] = "queued"]
    /\ submitting' = submitting \cup {j}
    /\ UNCHANGED << cancel_requested, late, taskVars, cancelling, retrying, cancels, retries,
                    lifeVars, histVars >>

SubmitSchedules(j) ==
    /\ Up /\ j \in submitting
    /\ Schedule({j})
    /\ submitting' = submitting \ {j}
    /\ UNCHANGED << storeVars, cancelling, retrying, cancels, retries, service, stops, histVars >>

CancelRequests(j) ==
    /\ Up /\ j \in Cancellable \ cancelling /\ status[j] # "none" /\ cancels[j] < MaxCancels
    /\ Store(j, "request") /\ Ends(j, "request")
    /\ cancelling' = cancelling \cup {j}
    /\ cancels' = [cancels EXCEPT ![j] = @ + 1]
    /\ UNCHANGED << late, taskVars, submitting, retrying, retries, lifeVars, overtaken >>

\* cancel() goes on: the event is set and the task cancelled.
CancelStops(j) ==
    /\ Up /\ j \in cancelling
    /\ cancelling' = cancelling \ {j}
    /\ event' = IF task[j] # "none" THEN event \cup {j} ELSE event
    /\ must' = IF task[j] \notin {"none", "ended"} THEN must \cup {j} ELSE must
    /\ UNCHANGED << storeVars, task, reply, submitting, retrying, cancels, retries, lifeVars,
                    histVars >>

\* retry() of a download finds it stopped.
RetryReads(j) ==
    /\ service = "up" /\ j \in Retriable /\ retrying[j] = "none" /\ retries[j] < MaxRetries
    /\ status[j] \in {"cancelling"} \cup Terminal
    /\ retrying' = [retrying EXCEPT ![j] = "wait"]
    /\ retries' = [retries EXCEPT ![j] = @ + 1]
    /\ UNCHANGED << storeVars, taskVars, submitting, cancelling, cancels, lifeVars, histVars >>

\* It has waited for the task, if there is one, and forgets it.
RetryWaits(j) ==
    /\ Up /\ retrying[j] = "wait" /\ task[j] \in {"none", "ended"}
    /\ retrying' = [retrying EXCEPT ![j] = "requeue"]
    /\ task' = [task EXCEPT ![j] = "none"]
    /\ must' = must \ {j} /\ event' = event \ {j} /\ overtaken' = overtaken \ {j}
    /\ UNCHANGED << storeVars, reply, submitting, cancelling, cancels, retries, lifeVars, abandoned >>

RetryRequeues(j) ==
    /\ Up /\ retrying[j] = "requeue"
    /\ Store(j, "requeue")
    /\ retrying' = [retrying EXCEPT ![j] =
                       IF Invalid(status[j], "requeue") THEN "none" ELSE "schedule"]
    /\ UNCHANGED << late, taskVars, submitting, cancelling, cancels, retries, lifeVars, histVars >>

\* A task that submit() started in the meantime is taken for the new one.
RetrySchedules(j) ==
    /\ Up /\ retrying[j] = "schedule"
    /\ Schedule({j})
    /\ retrying' = [retrying EXCEPT ![j] = "none"]
    /\ abandoned' = IF task[j] # "none" /\ status[j] \notin Terminal
                    THEN [abandoned EXCEPT ![j] = "retry"] ELSE abandoned
    /\ UNCHANGED << storeVars, submitting, cancelling, cancels, retries, service, stops,
                    overtaken >>

(***************************************************************************)
(* start(), close() and the end of the process.                            *)
(***************************************************************************)
\* Mutants: the reason is recorded as the status; a cancelled download resumes.
RecoveredAsReason(j) ==
    IF status[j] \in {"running", "cancelling"} THEN "service_restarted" ELSE status[j]
RecoveredAlways(j) ==
    IF status[j] \notin {"running", "cancelling"} THEN status[j]
    ELSE IF j \in Downloads THEN "queued" ELSE "interrupted"

\* recover_interrupted_jobs()
Recovered(j) ==
    IF status[j] \notin {"running", "cancelling"} THEN status[j]
    ELSE IF j \in Downloads \ cancel_requested THEN "queued" ELSE "interrupted"

StartRecovers ==
    /\ service = "down" /\ late = {}
    /\ service' = "starting"
    /\ status' = [j \in Jobs |-> Recovered(j)]
    /\ abandoned' = [j \in Jobs |-> "none"]
    /\ UNCHANGED << cancel_requested, late, taskVars, userVars, unwinding, stops, overtaken >>

\* Mutant: start() does not look for queued jobs.
StartSchedulesNothing ==
    /\ service = "starting"
    /\ service' = "up"
    /\ UNCHANGED << taskVars, storeVars, userVars, unwinding, stops, histVars >>

StartSchedules ==
    /\ service = "starting"
    /\ service' = "up"
    /\ Schedule({ j \in Jobs : status[j] = "queued" })
    /\ UNCHANGED << storeVars, userVars, stops, histVars >>

\* close() waits a while for the tasks a user's cancellation is stopping.
CloseWaits ==
    /\ service = "up" /\ stops < MaxStops
    /\ service' = "unwinding" /\ stops' = stops + 1
    /\ unwinding' = { j \in event : task[j] # "none" }
    /\ UNCHANGED << storeVars, taskVars, userVars, histVars >>

\* Mutant: close() does not wait.
CloseCancelsAtOnce ==
    /\ service = "unwinding"
    /\ service' = "closing"
    /\ must' = must \cup { j \in Jobs : task[j] \notin {"none", "ended"} }
    /\ UNCHANGED << storeVars, task, reply, event, userVars, unwinding, stops, histVars >>

CloseCancels ==
    /\ service = "unwinding"
    /\ \A j \in unwinding \ Slow : task[j] \in {"none", "ended"}
    /\ service' = "closing"
    /\ must' = must \cup { j \in Jobs : task[j] \notin {"none", "ended"} }
    /\ UNCHANGED << storeVars, task, reply, event, userVars, unwinding, stops, histVars >>

\* All tasks are done.  The process ends: calls that wait for it are gone.
Gone ==
    /\ task' = [j \in Jobs |-> "none"] /\ reply' = [j \in Jobs |-> "pending"]
    /\ must' = {} /\ event' = {} /\ unwinding' = {}
    /\ submitting' = {} /\ cancelling' = {}
    /\ retrying' = [j \in Jobs |-> "none"]
    /\ overtaken' = {}
    /\ UNCHANGED << cancels, retries, abandoned >>

CloseEnds ==
    /\ service = "closing"
    /\ \A j \in Jobs : task[j] \in {"none", "ended"}
    /\ service' = "down" /\ Gone
    /\ UNCHANGED << storeVars, stops >>

Crash ==
    /\ service # "down" /\ stops < MaxStops
    /\ service' = "down" /\ stops' = stops + 1 /\ Gone
    /\ late' = {}
    /\ UNCHANGED << status, cancel_requested >>

(***************************************************************************)
(* The specification.                                                      *)
(***************************************************************************)
Task(j) ==
    \/ Starts(j) \/ GetReturns(j) \/ TakeSlot(j) \/ RecheckReturns(j) \/ ClaimReturns(j)
    \/ HandlerReturns(j) \/ HandlerRaises(j) \/ CompleteReturns(j) \/ InterruptReturns(j)
    \/ RereadReturns(j) \/ WriteReturns(j) \/ Cancelled(j) \/ Forget(j)

Threads(j) == Commit(j) \/ Read(j) \/ \E call \in Writes : LateCommit(j, call)

\* The part of a user's call that needs no further input.
Continue(j) ==
    \/ SubmitSchedules(j) \/ CancelStops(j) \/ RetryWaits(j) \/ RetryRequeues(j)
    \/ RetrySchedules(j)

User(j) == SubmitCreates(j) \/ CancelRequests(j) \/ RetryReads(j)

Lifecycle == StartRecovers \/ StartSchedules \/ CloseCancels \/ CloseEnds

Next ==
    \/ \E j \in Jobs : Task(j) \/ Threads(j) \/ Continue(j) \/ User(j)
    \/ Lifecycle \/ CloseWaits \/ Crash

Spec == Init /\ [][Next]_vars

\* The loop runs what is ready, threads finish their calls, handlers end, and
\* the service is started again.
FairSpec ==
    /\ Spec
    /\ \A j \in Jobs : WF_vars(Task(j)) /\ WF_vars(Threads(j)) /\ WF_vars(Continue(j))
    /\ WF_vars(Lifecycle)

(***************************************************************************)
(* Properties.                                                             *)
(***************************************************************************)
TypeOK ==
    /\ status \in [Jobs -> Statuses] /\ cancel_requested \subseteq Jobs
    /\ late \subseteq Jobs \X Writes
    /\ service \in {"down", "starting", "up", "unwinding", "closing"}
    /\ unwinding \subseteq Jobs /\ stops \in 0..MaxStops
    /\ task \in [Jobs -> Places] /\ reply \in [Jobs -> Replies]
    /\ must \subseteq Jobs /\ event \subseteq Jobs
    /\ submitting \subseteq Jobs /\ cancelling \subseteq Jobs
    /\ retrying \in [Jobs -> {"none", "wait", "requeue", "schedule"}]
    /\ cancels \in [Jobs -> 0..MaxCancels] /\ retries \in [Jobs -> 0..MaxRetries]
    /\ abandoned \in [Jobs -> Causes] /\ overtaken \subseteq Jobs

Active(j) == status[j] \in {"running", "cancelling"}

\* Someone is going to end the job: its task, or a write that a task left behind.
Attended(j) ==
    \/ task[j] \notin {"none", "ended"}
    \/ \E call \in {"fail", "cancel"} : <<j, call>> \in late

\* jobs.py:270-271, "leave the job CANCELLING", and the test
\* test_cancel_during_claim_cannot_leave_a_job_cancelling (test_server_jobs.py:394): while
\* the service is up, someone is going to end every job that the store shows as running or
\* as being cancelled.
AlwaysAttended ==
    service \in {"up", "unwinding"} => \A j \in Jobs : Active(j) => Attended(j)

\* jobs.py:365-412, storage.py:2141-2174, 2319-2370: the jobs for which that fails are those
\* whose last write a cancellation dropped before a thread took it, and those that a claim
\* took up after its task was gone.  Whatever statuses the reads of a task return, and
\* whenever a cancellation reaches it, it ends for no other reason without an end recorded.
NotStranded ==
    service \in {"up", "unwinding"} =>
        \A j \in Jobs : Active(j) => Attended(j) \/ abandoned[j] # "none"

\* jobs.py:382-389: a handler works for a job that the store shows as running or as being
\* cancelled, through cancellations, restarts and late claims.  The exception takes a retry
\* of a cancelled job: a write that the cancelled task left behind ends the job under the
\* handler of the new one.
HandlerIsRecorded ==
    \A j \in Jobs : task[j] = "handler" =>
        Active(j) \/ (j \in overtaken /\ retries[j] > 0)

\* jobs.py:265-287, "Cancelling it again here could interrupt that write and leave the job
\* CANCELLING": if an orderly shutdown leaves a job in a state that only a restart can leave
\* and no write for it is on its way, then close() did not cut that write short, or the
\* cancellation began when close() was already waiting, or outlasted the wait.
CloseSettles ==
    [][service = "closing" /\ CloseEnds =>
          \A j \in Jobs : Active(j) =>
              \/ \E call \in Writes : <<j, call>> \in late
              \/ /\ abandoned[j] # "none"
                 /\ abandoned[j] = "close" => j \in Slow \/ j \notin unwinding]_vars

\* jobs.py:396-397, storage.py:2507: a job the user has cancelled runs again, across
\* restarts too, only if the user retries it.  A shutdown that is putting an interrupted
\* download back may still do so after a retry and a cancellation that came in between.
CancelSurvives ==
    [][\A j \in Jobs :
          j \in cancel_requested /\ status'[j] = "queued" /\ status[j] # "queued" =>
             \/ retrying[j] = "requeue"
             \/ retries[j] > 0 /\ (task[j] = "requeue" \/ <<j, "requeue">> \in late)]_vars

\* jobs.py:254-263, 307-322, 354-412: every job comes to an end, whatever the service went
\* through, unless it is abandoned for good: no restart finds it.
JobsEnd ==
    \A j \in Jobs :
        \/ <>[](abandoned[j] # "none")
        \/ (status[j] # "none") ~> (status[j] \in Terminal)
=============================================================================
