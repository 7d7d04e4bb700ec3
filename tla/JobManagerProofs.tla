--------------------------- MODULE JobManagerProofs ---------------------------
(***************************************************************************)
(* Safety of JobManager for every set of jobs, lane and bound.  The        *)
(* invariant is a conjunction over the jobs of what the store, the task    *)
(* and the calls of one job have to do with each other; a step for one job *)
(* leaves that of the others alone (Frame).                                *)
(***************************************************************************)
EXTENDS JobManager, TLAPS

Recording == {"fail", "cancel", "interrupt"}
Late(j, call) == <<j, call>> \in late
Ending == service \in {"closing", "down"}
Retried(j) == retries[j] > 0

\* A call outlives its task: until a retry starts another one, there is no task
\* for the job in its body.  The calls of a shutdown are late only during it.
LateIsPast(j) ==
    /\ \A call \in Writes : Late(j, call) =>
          Retried(j) \/ (~InBody(j) /\ task[j] # "created" /\ j \notin submitting)
    /\ Late(j, "interrupt") => Ending
    /\ Late(j, "requeue") => Ending
    /\ Late(j, "requeue") /\ ~Retried(j) =>
          /\ task[j] \in {"none", "ended"} /\ status[j] \in Terminal
          /\ j \notin cancel_requested

\* Which tasks and calls exist in each phase of the service.
TaskInPhase(j) ==
    /\ service = "starting" => \A call \in Writes : ~Late(j, call)
    /\ service \in {"down", "starting"} =>
          j \notin submitting /\ task[j] = "none" /\ retrying[j] = "none"
    /\ task[j] \in {"interrupt", "reread", "requeue"} => service = "closing"
    /\ retrying[j] # "none" => Retried(j)
    /\ j \in submitting /\ task[j] # "none" => Retried(j)
    /\ status[j] = "none" =>
          /\ task[j] = "none" /\ retrying[j] = "none" /\ j \notin submitting
          /\ j \notin cancel_requested /\ \A call \in Writes : ~Late(j, call)

\* A job is recorded as running from the claim of its task until someone has
\* recorded how it ended, or it is abandoned.
RunningIsHeld(j) ==
    service # "down" /\ Active(j) =>
        \/ task[j] = "claim" /\ reply[j] \in {"reading", "running", "cancelling"}
        \/ task[j] = "handler"
        \/ task[j] = "complete" /\ reply[j] \in {"pending", "invalid"}
        \/ task[j] \in Recording /\ reply[j] = "pending"
        \/ \E call \in Recording : Late(j, call)
        \/ abandoned[j] # "none"

\* What a task may conclude about its job from where it is.
Recorded(j) == Active(j) \/ (j \in overtaken /\ Retried(j))
TaskKnows(j) ==
    /\ task[j] = "handler" => Recorded(j)
    /\ task[j] = "claim" /\ reply[j] \in {"reading", "running"} => Recorded(j)
    /\ reply[j] = "reading" => task[j] = "claim"
    /\ ~Retried(j) =>
          /\ task[j] = "interrupt" /\ reply[j] # "pending" => status[j] \in Terminal
          /\ task[j] = "reread" => status[j] \in Terminal
          /\ task[j] = "reread" /\ reply[j] \notin {"pending", "requested"}
                => j \notin cancel_requested
          /\ task[j] = "requeue" /\ reply[j] = "pending"
                => status[j] \in Terminal /\ j \notin cancel_requested

\* close() cuts no task short that it has waited for.
CutShort(j) ==
    /\ service = "closing" /\ j \in unwinding \ Slow => task[j] \in {"none", "ended"}
    /\ abandoned[j] = "close" =>
          Ending /\ (service = "closing" => j \in Slow \/ j \notin unwinding)

JobSound(j) ==
    LateIsPast(j) /\ TaskInPhase(j) /\ RunningIsHeld(j) /\ TaskKnows(j) /\ CutShort(j)
JobInv == TypeOK /\ \A j \in Jobs : JobSound(j)

\* Nothing happens to j.
SameStore(j) ==
    /\ status'[j] = status[j] /\ (j \in cancel_requested' <=> j \in cancel_requested)
    /\ \A call \in Writes : Late(j, call)' <=> Late(j, call)
SameTask(j) ==
    /\ task'[j] = task[j] /\ reply'[j] = reply[j]
    /\ (j \in must' <=> j \in must)
SameUser(j) ==
    /\ (j \in submitting' <=> j \in submitting) /\ (j \in cancelling' <=> j \in cancelling)
    /\ retrying'[j] = retrying[j] /\ retries'[j] = retries[j]
SameHistory(j) ==
    /\ abandoned'[j] = abandoned[j] /\ (j \in overtaken' <=> j \in overtaken)
    /\ (j \in unwinding' <=> j \in unwinding)
Same(j) == SameStore(j) /\ SameTask(j) /\ SameUser(j) /\ SameHistory(j)

\* A step that does nothing to a job keeps the job sound.
LEMMA Frame ==
    ASSUME NEW j \in Jobs, JobSound(j), Same(j), service' = service
    PROVE  JobSound(j)'
BY DEF JobSound, LateIsPast, TaskInPhase, RunningIsHeld, TaskKnows, CutShort, Active,
   Recorded, Retried, SameHistory, Same, SameStore, SameTask, SameUser, InBody, Ending,
   Recording, Writes, Terminal

(***************************************************************************)
(* Steps of a task.                                                        *)
(***************************************************************************)
\* A task that goes on to its next await: only its own job is in question.
LEMMA GoesEffect ==
    ASSUME JobInv, NEW j \in Jobs, NEW place \in Places, Goes(j, place),
           UNCHANGED storeVars, event' \subseteq Jobs, JobSound(j)'
    PROVE  JobInv'
<1>1. TypeOK'
    BY DEF JobInv, TypeOK, Goes, storeVars, userVars, lifeVars, histVars, Replies
<1>2. ASSUME NEW k \in Jobs, k # j PROVE Same(k)
    BY <1>2 DEF JobInv, TypeOK, Goes, Same, SameStore, SameTask, SameUser, SameHistory, Late,
       storeVars, userVars, lifeVars, histVars
<1>3. service' = service
    BY DEF Goes, lifeVars, histVars
<1> QED BY <1>1, <1>2, <1>3, Frame DEF JobInv

\* What it changes for its own job.
LEMMA GoesLocal ==
    ASSUME JobInv, NEW j \in Jobs, NEW place, Goes(j, place), UNCHANGED storeVars
    PROVE  /\ task'[j] = place /\ reply'[j] = "pending" /\ (j \in must' <=> j \in must)
           /\ SameStore(j) /\ SameUser(j) /\ SameHistory(j) /\ service' = service
BY DEF JobInv, TypeOK, Goes, SameStore, SameUser, SameHistory, Late, storeVars, userVars,
   lifeVars, histVars

LEMMA StartsStep ==
    ASSUME JobInv, NEW j \in Jobs, Starts(j) PROVE JobInv'
<1>1. PICK place \in Places : Goes(j, place) /\ place = "get"
    BY DEF Starts, Places, Reads
<1>2. UNCHANGED storeVars /\ event' \subseteq Jobs
    BY DEF Starts, JobInv, TypeOK
<1>3. task[j] = "created"
    BY DEF Starts
<1>4. JobSound(j)'
    BY <1>1, <1>2, <1>3, GoesLocal DEF JobInv, JobSound, LateIsPast, TaskInPhase,
       RunningIsHeld, TaskKnows, CutShort, Active, Recorded, Retried, SameHistory, SameStore,
       SameUser, InBody, Ending, Recording, Writes, Terminal
<1> QED BY <1>1, <1>2, <1>4, GoesEffect

LEMMA GetReturnsStep ==
    ASSUME JobInv, NEW j \in Jobs, GetReturns(j) PROVE JobInv'
<1>1. PICK place \in Places : Goes(j, place) /\ place = "slot"
    BY DEF GetReturns, Places, Reads, Writes, Stopped
<1>2. UNCHANGED storeVars /\ event' \subseteq Jobs
    BY DEF GetReturns, JobInv, TypeOK
<1>3. task[j] = "get"
    BY DEF GetReturns, Returned
<1>4. JobSound(j)'
    BY <1>1, <1>2, <1>3, GoesLocal DEF JobInv, JobSound, LateIsPast, TaskInPhase,
       RunningIsHeld, TaskKnows, CutShort, Active, Recorded, Retried, SameHistory, SameStore,
       SameUser, InBody, Ending, Recording, Writes, Terminal
<1> QED BY <1>1, <1>2, <1>4, GoesEffect

LEMMA TakeSlotStep ==
    ASSUME JobInv, NEW j \in Jobs, TakeSlot(j) PROVE JobInv'
<1>1. PICK place \in Places : Goes(j, place) /\ place = "recheck"
    BY DEF TakeSlot, Places, Reads, Writes, Stopped
<1>2. UNCHANGED storeVars /\ event' \subseteq Jobs
    BY DEF TakeSlot, JobInv, TypeOK
<1>3. task[j] = "slot"
    BY DEF TakeSlot, Returned
<1>4. JobSound(j)'
    BY <1>1, <1>2, <1>3, GoesLocal DEF JobInv, JobSound, LateIsPast, TaskInPhase,
       RunningIsHeld, TaskKnows, CutShort, Active, Recorded, Retried, SameHistory, SameStore,
       SameUser, InBody, Ending, Recording, Writes, Terminal
<1> QED BY <1>1, <1>2, <1>4, GoesEffect

LEMMA HandlerReturnsStep ==
    ASSUME JobInv, NEW j \in Jobs, HandlerReturns(j) PROVE JobInv'
<1>1. PICK place \in Places :
        /\ Goes(j, place) /\ place \in {"complete", "cancel", "interrupt"}
        /\ place = "interrupt" => service = "closing"
    BY DEF HandlerReturns, Places, Reads, Writes, Stopped
<1>2. UNCHANGED storeVars /\ event' \subseteq Jobs
    BY DEF HandlerReturns, JobInv, TypeOK
<1>3. task[j] = "handler"
    BY DEF HandlerReturns, Returned
<1>4. JobSound(j)'
    BY <1>1, <1>2, <1>3, GoesLocal DEF JobInv, JobSound, LateIsPast, TaskInPhase,
       RunningIsHeld, TaskKnows, CutShort, Active, Recorded, Retried, SameHistory, SameStore,
       SameUser, InBody, Ending, Recording, Writes, Terminal
<1> QED BY <1>1, <1>2, <1>4, GoesEffect

LEMMA HandlerRaisesStep ==
    ASSUME JobInv, NEW j \in Jobs, HandlerRaises(j) PROVE JobInv'
<1>1. PICK place \in Places : Goes(j, place) /\ place = "fail"
    BY DEF HandlerRaises, Places, Reads, Writes, Stopped
<1>2. UNCHANGED storeVars /\ event' \subseteq Jobs
    BY DEF HandlerRaises, JobInv, TypeOK
<1>3. task[j] = "handler"
    BY DEF HandlerRaises, Returned
<1>4. JobSound(j)'
    BY <1>1, <1>2, <1>3, GoesLocal DEF JobInv, JobSound, LateIsPast, TaskInPhase,
       RunningIsHeld, TaskKnows, CutShort, Active, Recorded, Retried, SameHistory, SameStore,
       SameUser, InBody, Ending, Recording, Writes, Terminal
<1> QED BY <1>1, <1>2, <1>4, GoesEffect

LEMMA InterruptReturnsStep ==
    ASSUME JobInv, NEW j \in Jobs, InterruptReturns(j) PROVE JobInv'
<1>1. PICK place \in Places : Goes(j, place) /\ place = "reread"
    BY DEF InterruptReturns, Places, Reads, Writes, Stopped
<1>2. UNCHANGED storeVars /\ event' \subseteq Jobs
    BY DEF InterruptReturns, JobInv, TypeOK
<1>3. task[j] = "interrupt" /\ reply[j] # "pending"
    BY DEF InterruptReturns, Returned
<1>4. JobSound(j)'
    BY <1>1, <1>2, <1>3, GoesLocal DEF JobInv, JobSound, LateIsPast, TaskInPhase,
       RunningIsHeld, TaskKnows, CutShort, Active, Recorded, Retried, SameHistory, SameStore,
       SameUser, InBody, Ending, Recording, Writes, Terminal
<1> QED BY <1>1, <1>2, <1>4, GoesEffect

LEMMA WriteReturnsStep ==
    ASSUME JobInv, NEW j \in Jobs, WriteReturns(j) PROVE JobInv'
<1>1. PICK place \in Places : Goes(j, place) /\ place = "ended"
    BY DEF WriteReturns, Places, Reads, Writes, Stopped
<1>2. UNCHANGED storeVars /\ event' \subseteq Jobs
    BY DEF WriteReturns, JobInv, TypeOK
<1>3. task[j] \in {"reject", "fail", "cancel", "requeue"} /\ reply[j] # "pending"
    BY DEF WriteReturns, Returned
<1>4. JobSound(j)'
    BY <1>1, <1>2, <1>3, GoesLocal DEF JobInv, JobSound, LateIsPast, TaskInPhase,
       RunningIsHeld, TaskKnows, CutShort, Active, Recorded, Retried, SameHistory, SameStore,
       SameUser, InBody, Ending, Recording, Writes, Terminal
<1> QED BY <1>1, <1>2, <1>4, GoesEffect

LEMMA CompleteReturnsStep ==
    ASSUME JobInv, NEW j \in Jobs, CompleteReturns(j) PROVE JobInv'
<1>1. PICK place \in Places :
          Goes(j, place) /\ place = IF reply[j] = "invalid" THEN "fail" ELSE "ended"
    BY DEF CompleteReturns, Places, Reads, Writes, Stopped
<1>2. UNCHANGED storeVars /\ event' \subseteq Jobs
    BY DEF CompleteReturns, JobInv, TypeOK
<1>3. task[j] = "complete" /\ reply[j] # "pending"
    BY DEF CompleteReturns, Returned
<1>4. JobSound(j)'
    BY <1>1, <1>2, <1>3, GoesLocal DEF JobInv, JobSound, LateIsPast, TaskInPhase,
       RunningIsHeld, TaskKnows, CutShort, Active, Recorded, Retried, SameHistory, SameStore,
       SameUser, InBody, Ending, Recording, Writes, Terminal
<1> QED BY <1>1, <1>2, <1>4, GoesEffect

LEMMA RereadReturnsStep ==
    ASSUME JobInv, NEW j \in Jobs, RereadReturns(j) PROVE JobInv'
<1>1. PICK place \in Places :
          /\ Goes(j, place) /\ place \in {"requeue", "ended"}
          /\ place = "requeue" => reply[j] # "requested"
    BY DEF RereadReturns, Places, Reads, Writes, Stopped
<1>2. UNCHANGED storeVars /\ event' \subseteq Jobs
    BY DEF RereadReturns, JobInv, TypeOK
<1>3. task[j] = "reread" /\ reply[j] # "pending"
    BY DEF RereadReturns, Returned
<1>4. JobSound(j)'
    BY <1>1, <1>2, <1>3, GoesLocal DEF JobInv, JobSound, LateIsPast, TaskInPhase,
       RunningIsHeld, TaskKnows, CutShort, Active, Recorded, Retried, SameHistory, SameStore,
       SameUser, InBody, Ending, Recording, Writes, Terminal
<1> QED BY <1>1, <1>2, <1>4, GoesEffect

LEMMA RecheckReturnsStep ==
    ASSUME JobInv, NEW j \in Jobs, RecheckReturns(j) PROVE JobInv'
<1>1. PICK place \in {"cancel", "interrupt", "ended", "claim", "reject"} :
          Goes(j, place) /\ (place = "interrupt" => service = "closing")
    BY DEF RecheckReturns, Stopped
<1>2. UNCHANGED storeVars /\ event' \subseteq Jobs /\ task[j] = "recheck" /\ place \in Places
    BY DEF RecheckReturns, Returned, JobInv, TypeOK, Places, Writes
<1>3. JobSound(j)'
    BY <1>1, <1>2, GoesLocal DEF JobInv, JobSound, LateIsPast, TaskInPhase, RunningIsHeld,
       TaskKnows, CutShort, Active, Recorded, Retried, SameHistory, SameStore, SameUser,
       InBody, Ending, Recording, Writes, Terminal
<1> QED BY <1>1, <1>2, <1>3, GoesEffect

LEMMA ClaimReturnsStep ==
    ASSUME JobInv, NEW j \in Jobs, ClaimReturns(j) PROVE JobInv'
<1>1. PICK place \in {"cancel", "interrupt", "ended", "handler"} :
          /\ Goes(j, place) /\ (place = "interrupt" => service = "closing")
          /\ place = "handler" => reply[j] = "running"
          /\ place = "ended" => reply[j] \notin {"cancelling", "running"}
    BY DEF ClaimReturns, Stopped
<1>2. /\ UNCHANGED storeVars /\ event' \subseteq Jobs /\ task[j] = "claim"
      /\ reply[j] \notin {"pending", "reading"} /\ place \in Places
    BY DEF ClaimReturns, Returned, JobInv, TypeOK, Places, Writes
<1>3. JobSound(j)'
    BY <1>1, <1>2, GoesLocal DEF JobInv, JobSound, LateIsPast, TaskInPhase, RunningIsHeld,
       TaskKnows, CutShort, Active, Recorded, Retried, SameHistory, SameStore, SameUser,
       InBody, Ending, Recording, Writes, Terminal
<1> QED BY <1>1, <1>2, <1>3, GoesEffect

(***************************************************************************)
(* Steps of the store.                                                     *)
(***************************************************************************)
\* A transaction changes one row, to a status the protocol knows.
LEMMA StoreEffect ==
    ASSUME TypeOK, NEW j \in Jobs, NEW call, Store(j, call)
    PROVE  /\ status'[j] = After(status[j], call)
           /\ status' \in [Jobs -> Statuses] /\ cancel_requested' \subseteq Jobs
           /\ j \in cancel_requested' <=>
                 \/ /\ j \in cancel_requested
                    /\ ~(call = "requeue" /\ status[j] \in Terminal \ {"succeeded"})
                 \/ call = "request" /\ status[j] \notin Terminal
           /\ \A k \in Jobs \ {j} :
                 status'[k] = status[k] /\ (k \in cancel_requested' <=> k \in cancel_requested)
<1>1. After(status[j], call) \in Statuses
    BY DEF TypeOK, After, Statuses, Terminal
<1>2. status' \in [Jobs -> Statuses] /\ cancel_requested' \subseteq Jobs
    BY <1>1 DEF TypeOK, Store
<1>3. status'[j] = After(status[j], call) /\ \A k \in Jobs \ {j} : status'[k] = status[k]
    BY DEF TypeOK, Store
<1>4. j \in cancel_requested' <=>
                 \/ /\ j \in cancel_requested
                    /\ ~(call = "requeue" /\ status[j] \in Terminal \ {"succeeded"})
                 \/ call = "request" /\ status[j] \notin Terminal
    BY DEF Store
<1>5. \A k \in Jobs \ {j} : (k \in cancel_requested' <=> k \in cancel_requested)
    BY DEF Store
<1> QED BY <1>2, <1>3, <1>4, <1>5

\* The history of the row follows.
LEMMA EndsEffect ==
    ASSUME TypeOK, NEW j \in Jobs, NEW call, Ends(j, call)
    PROVE  /\ abandoned' \in [Jobs -> Causes]
           /\ abandoned'[j] = IF After(status[j], call) \in Terminal THEN "none" ELSE abandoned[j]
           /\ \A k \in Jobs \ {j} : abandoned'[k] = abandoned[k]
BY DEF TypeOK, Ends, Causes

LEMMA CommitStep ==
    ASSUME JobInv, NEW j \in Jobs, Commit(j) PROVE JobInv'
<1>1. /\ task[j] \in Writes /\ reply[j] = "pending" /\ status[j] \in Statuses
      /\ TypeOK /\ Store(j, task[j]) /\ Ends(j, task[j])
    BY DEF JobInv, TypeOK, Commit
<1>2. TypeOK'
    BY <1>1, StoreEffect, EndsEffect DEF TypeOK, Commit, userVars, lifeVars, Replies, Statuses
<1>3. /\ SameUser(j) /\ service' = service /\ task' = task /\ must' = must /\ late' = late
      /\ overtaken' = overtaken /\ unwinding' = unwinding
    BY DEF Commit, SameUser, userVars, lifeVars
<1>4. /\ status'[j] = After(status[j], task[j])
      /\ j \in cancel_requested' => j \in cancel_requested
      /\ abandoned'[j] =
            IF After(status[j], task[j]) \in Terminal THEN "none" ELSE abandoned[j]
    BY <1>1, StoreEffect, EndsEffect DEF Writes
<1>5. reply'[j] = IF Invalid(status[j], task[j]) THEN "invalid"
                    ELSE IF task[j] = "claim" /\ status[j] = "queued" THEN "reading"
                    ELSE status'[j]
    BY <1>1 DEF TypeOK, Commit
<1>6. JobSound(j)'
  <2>1. LateIsPast(j)'
    BY <1>1, <1>3, <1>4 DEF JobInv, JobSound, LateIsPast, Retried, Late, SameUser, InBody,
       Ending, Writes, Terminal, After
  <2>2. TaskInPhase(j)'
    BY <1>1, <1>3, <1>4 DEF JobInv, JobSound, TaskInPhase, Retried, Late, SameUser, Writes,
       Terminal, After, Statuses
  <2>3. RunningIsHeld(j)'
    BY <1>1, <1>3, <1>4, <1>5 DEF JobInv, JobSound, RunningIsHeld, Active, Late, TaskKnows,
       Recording, Writes, Terminal, After, Invalid, Statuses
  <2>4. TaskKnows(j)'
    BY <1>1, <1>3, <1>4, <1>5 DEF JobInv, JobSound, RunningIsHeld, LateIsPast, Late, TaskKnows,
       Active, Recorded, Retried, SameUser, Recording, Writes, Terminal, After, Invalid,
       Statuses, InBody
  <2>5. CutShort(j)'
    BY <1>3, <1>4 DEF JobInv, JobSound, CutShort, Ending
  <2> QED BY <2>1, <2>2, <2>3, <2>4, <2>5 DEF JobSound
<1>7. ASSUME NEW k \in Jobs, k # j PROVE Same(k)
    BY <1>7, <1>1, StoreEffect, EndsEffect DEF TypeOK, Commit, Same, SameStore, SameTask,
       SameUser, SameHistory, Late, userVars, lifeVars
<1> QED BY <1>2, <1>3, <1>6, <1>7, Frame DEF JobInv

LEMMA LateCommitStep ==
    ASSUME JobInv, NEW j \in Jobs, NEW call \in Writes, LateCommit(j, call)
    PROVE  JobInv'
<1>1. /\ TypeOK /\ Late(j, call) /\ Store(j, call) /\ late' = late \ {<<j, call>>}
      /\ UNCHANGED << taskVars, userVars, lifeVars >>
    BY DEF JobInv, LateCommit, Late
<1>2. /\ abandoned' \in [Jobs -> Causes]
      /\ abandoned'[j] = IF call = "claim" /\ status[j] = "queued" THEN "claim"
                         ELSE IF After(status[j], call) \in Terminal THEN "none"
                         ELSE abandoned[j]
      /\ \A k \in Jobs \ {j} : abandoned'[k] = abandoned[k]
  <2>1. CASE call = "claim" /\ status[j] = "queued"
    BY <1>1, <2>1 DEF LateCommit, TypeOK, Causes
  <2>2. CASE ~(call = "claim" /\ status[j] = "queued")
    BY <1>1, <2>2, EndsEffect DEF LateCommit
  <2> QED BY <2>1, <2>2
<1>3. /\ overtaken' \subseteq Jobs
      /\ j \in overtaken => j \in overtaken'
      /\ task[j] # "none" /\ status[j] \notin Terminal /\ After(status[j], call) \in Terminal
            => j \in overtaken'
      /\ \A k \in Jobs \ {j} : k \in overtaken' <=> k \in overtaken
    BY <1>1 DEF LateCommit, TypeOK
<1>4. TypeOK'
    BY <1>1, <1>2, <1>3, StoreEffect DEF TypeOK, taskVars, userVars, lifeVars
<1>5. /\ SameTask(j) /\ SameUser(j) /\ service' = service /\ unwinding' = unwinding
      /\ \A c \in Writes : Late(j, c)' <=> Late(j, c) /\ c # call
      /\ status[j] \in Statuses /\ status'[j] = After(status[j], call)
      /\ j \in cancel_requested' => j \in cancel_requested
    BY <1>1, StoreEffect DEF TypeOK, SameTask, SameUser, Late, taskVars, userVars, lifeVars,
       Writes
<1>6. JobSound(j)'
  <2>1. LateIsPast(j)' /\ TaskInPhase(j)'
    BY <1>1, <1>5 DEF JobInv, JobSound, LateIsPast, TaskInPhase, Retried, SameTask, SameUser,
       InBody, Ending, Writes, Terminal, After, Statuses
  <2>2. RunningIsHeld(j)'
    BY <1>1, <1>2, <1>5 DEF JobInv, JobSound, LateIsPast, RunningIsHeld, Active, SameTask,
       Recording, Writes, Terminal, After, Statuses
  <2>3. TaskKnows(j)'
    BY <1>1, <1>3, <1>5 DEF JobInv, JobSound, LateIsPast, TaskKnows, Active, Recorded, Retried,
       SameTask, SameUser, InBody, Writes, Terminal, After, Statuses
  <2>4. CutShort(j)'
    BY <1>2, <1>5 DEF JobInv, JobSound, CutShort, SameTask, Ending
  <2> QED BY <2>1, <2>2, <2>3, <2>4 DEF JobSound
<1>7. ASSUME NEW k \in Jobs, k # j PROVE Same(k)
    BY <1>1, <1>2, <1>3, <1>7, StoreEffect DEF Same, SameStore, SameTask, SameUser, SameHistory,
       Late, taskVars, userVars, lifeVars
<1> QED BY <1>4, <1>5, <1>6, <1>7, Frame DEF JobInv

LEMMA ReadStep ==
    ASSUME JobInv, NEW j \in Jobs, Read(j) PROVE JobInv'
<1>1. TypeOK'
    BY DEF JobInv, TypeOK, Read, Places, Reads, Replies, Statuses, Schedule, Causes,
       storeVars, taskVars, userVars, lifeVars, histVars
<1>2. /\ SameStore(j) /\ SameUser(j) /\ SameHistory(j)
      /\ service' = service /\ task' = task /\ must' = must
      /\ reply'[j] = IF task[j] = "reread" /\ j \in cancel_requested THEN "requested"
                     ELSE status[j]
      /\ status[j] \in Statuses
      /\ task[j] \in Reads \/ reply[j] = "reading"
    BY DEF JobInv, TypeOK, Read, Up, Schedule, SameStore, SameTask, SameUser, SameHistory,
       Late, storeVars, taskVars, userVars, lifeVars, histVars
<1>3. JobSound(j)'
    BY <1>2 DEF JobInv, JobSound, LateIsPast, TaskInPhase, RunningIsHeld, TaskKnows, CutShort,
       Active, Recorded, Retried, SameStore, SameTask, SameUser, SameHistory, InBody, Ending,
       Recording, Writes, Terminal, Late, Statuses, Reads
<1>4. ASSUME NEW k \in Jobs, k # j PROVE Same(k)
    BY <1>4 DEF JobInv, TypeOK, Read, Same, SameStore, SameTask, SameUser, SameHistory, Late,
       storeVars, taskVars, userVars, lifeVars, histVars
<1> QED BY <1>1, <1>2, <1>3, <1>4, Frame DEF JobInv

LEMMA CancelledStep ==
    ASSUME JobInv, NEW j \in Jobs, Cancelled(j) PROVE JobInv'
<1>1. TypeOK'
  <2>1. Stopped \in Places /\ "ended" \in Places
    BY DEF Stopped, Places, Writes
  <2>2. late' \subseteq Jobs \X Writes
    BY DEF JobInv, TypeOK, Cancelled
  <2>3. abandoned' \in [Jobs -> Causes]
    BY DEF JobInv, TypeOK, Cancelled, Causes
  <2> QED BY <2>1, <2>2, <2>3 DEF JobInv, TypeOK, Cancelled, Replies, userVars, lifeVars
<1>2. /\ SameUser(j) /\ service' = service /\ status' = status
      /\ cancel_requested' = cancel_requested
      /\ overtaken' = overtaken /\ unwinding' = unwinding
      /\ j \notin must' /\ task[j] \notin {"none", "ended"}
      /\ task'[j] = IF InBody(j) THEN Stopped ELSE "ended"
      /\ reply'[j] = "pending"
    BY DEF JobInv, TypeOK, Cancelled, SameUser, userVars, lifeVars
<1>3. /\ \A call \in Writes : Late(j, call) => Late(j, call)'
      /\ \A call \in Writes : Late(j, call)' =>
            Late(j, call) \/ (call = task[j] /\ reply[j] = "pending")
    BY DEF Cancelled, Late
<1>4. /\ abandoned[j] # "none" => abandoned'[j] # "none"
      /\ abandoned'[j] = abandoned[j] \/
            abandoned'[j] = IF service = "closing" THEN "close" ELSE "user"
    BY DEF JobInv, TypeOK, Cancelled
<1>5. task[j] \in Recording /\ reply[j] = "pending" /\ status[j] \notin Terminal =>
        <<j, task[j]>> \in late' \/ abandoned'[j] # "none"
  <2> SUFFICES ASSUME task[j] \in Recording, reply[j] = "pending", status[j] \notin Terminal
               PROVE  <<j, task[j]>> \in late' \/ abandoned'[j] # "none"
    OBVIOUS
  <2>1. task[j] \in Writes /\ ~InBody(j)
    BY DEF Recording, Writes, InBody
  <2>2. late' = late \/ late' = late \cup {<<j, task[j]>>}
    BY <2>1 DEF Cancelled
  <2>3. CASE late' = late
    BY <2>1, <2>3 DEF Cancelled, JobInv, TypeOK
  <2> QED BY <2>2, <2>3
<1>6. JobSound(j)'
  <2>1. LateIsPast(j)'
    <3>1. /\ ~InBody(j)' /\ task'[j] \in {"cancel", "interrupt", "ended"}
          /\ ~InBody(j) => task'[j] = "ended"
      BY <1>2 DEF InBody, Stopped
    <3>2. \A call \in Writes : Late(j, call)' =>
            Retried(j)' \/ (~InBody(j)' /\ task'[j] # "created" /\ j \notin submitting')
      BY <1>2, <1>3, <3>1 DEF JobInv, JobSound, LateIsPast, TaskInPhase, Retried, SameUser
    <3>3. (Late(j, "interrupt")' => Ending') /\ (Late(j, "requeue")' => Ending')
      BY <1>2, <1>3 DEF JobInv, JobSound, LateIsPast, TaskInPhase, Ending, Writes
    <3>4. Late(j, "requeue")' /\ ~Retried(j)' =>
            /\ task'[j] \in {"none", "ended"} /\ status'[j] \in Terminal
            /\ j \notin cancel_requested'
      BY <1>2, <1>3, <3>1 DEF JobInv, JobSound, LateIsPast, TaskKnows, Retried, SameUser,
         Writes, InBody
    <3> QED BY <3>2, <3>3, <3>4 DEF LateIsPast
  <2>2. TaskInPhase(j)'
    BY <1>2, <1>3 DEF JobInv, JobSound, TaskInPhase, Retried, SameUser, InBody, Stopped, Writes
  <2>3. RunningIsHeld(j)'
    BY <1>2, <1>3, <1>4, <1>5 DEF JobInv, JobSound, RunningIsHeld, Active, InBody, Stopped,
       Recording, Writes, Late, Terminal
  <2>4. TaskKnows(j)'
    BY <1>2, <1>3 DEF JobInv, JobSound, TaskKnows, InBody, Stopped
  <2>5. CutShort(j)'
    BY <1>2, <1>4 DEF JobInv, JobSound, CutShort, Ending
  <2> QED BY <2>1, <2>2, <2>3, <2>4, <2>5 DEF JobSound
<1>7. ASSUME NEW k \in Jobs, k # j PROVE Same(k)
    BY <1>7 DEF JobInv, TypeOK, Cancelled, Same, SameStore, SameTask, SameUser, SameHistory,
       Late, userVars, lifeVars
<1> QED BY <1>1, <1>2, <1>6, <1>7, Frame DEF JobInv

LEMMA ForgetStep ==
    ASSUME JobInv, NEW j \in Jobs, Forget(j) PROVE JobInv'
<1>1. TypeOK'
    BY DEF JobInv, TypeOK, Forget, Places, Reads, Replies, Statuses, Schedule, Causes,
       storeVars, taskVars, userVars, lifeVars, histVars
<1>2. /\ SameStore(j) /\ SameUser(j) /\ service' = service /\ reply' = reply
      /\ abandoned' = abandoned /\ unwinding' = unwinding
      /\ task[j] = "ended" /\ task'[j] = "none" /\ j \notin must'
    BY DEF JobInv, TypeOK, Forget, Up, Schedule, SameStore, SameTask, SameUser, SameHistory,
       Late, storeVars, taskVars, userVars, lifeVars, histVars
<1>3. JobSound(j)'
    BY <1>2 DEF JobInv, JobSound, LateIsPast, TaskInPhase, RunningIsHeld, TaskKnows, CutShort,
       Active, Recorded, Retried, SameStore, SameTask, SameUser, SameHistory, InBody, Ending,
       Recording, Writes, Terminal, Late
<1>4. ASSUME NEW k \in Jobs, k # j PROVE Same(k)
    BY <1>4 DEF JobInv, TypeOK, Forget, Same, SameStore, SameTask, SameUser, SameHistory,
       Late, storeVars, taskVars, userVars, lifeVars, histVars
<1> QED BY <1>1, <1>2, <1>3, <1>4, Frame DEF JobInv

LEMMA SubmitCreatesStep ==
    ASSUME JobInv, NEW j \in Jobs, SubmitCreates(j) PROVE JobInv'
<1>1. TypeOK'
    BY DEF JobInv, TypeOK, SubmitCreates, Places, Reads, Replies, Statuses, Schedule, Causes,
       storeVars, taskVars, userVars, lifeVars, histVars
<1>2. /\ SameTask(j) /\ SameHistory(j) /\ service' = service /\ service = "up"
      /\ cancel_requested' = cancel_requested
      /\ late' = late /\ retrying' = retrying /\ retries' = retries
      /\ status[j] = "none" /\ status'[j] = "queued" /\ j \in submitting'
    BY DEF JobInv, TypeOK, SubmitCreates, Up, Schedule, SameStore, SameTask, SameUser,
       SameHistory, Late, storeVars, taskVars, userVars, lifeVars, histVars
<1>3. JobSound(j)'
    BY <1>2 DEF JobInv, JobSound, LateIsPast, TaskInPhase, RunningIsHeld, TaskKnows, CutShort,
       Active, Recorded, Retried, SameStore, SameTask, SameUser, SameHistory, InBody, Ending,
       Recording, Writes, Terminal, Late
<1>4. ASSUME NEW k \in Jobs, k # j PROVE Same(k)
    BY <1>4 DEF JobInv, TypeOK, SubmitCreates, Same, SameStore, SameTask, SameUser,
       SameHistory, Late, storeVars, taskVars, userVars, lifeVars, histVars
<1> QED BY <1>1, <1>2, <1>3, <1>4, Frame DEF JobInv

LEMMA SubmitSchedulesStep ==
    ASSUME JobInv, NEW j \in Jobs, SubmitSchedules(j) PROVE JobInv'
<1>1. TypeOK'
    BY DEF JobInv, TypeOK, SubmitSchedules, Places, Reads, Replies, Statuses, Schedule,
       Causes, storeVars, taskVars, userVars, lifeVars, histVars
<1>2. /\ SameStore(j) /\ service' = service
      /\ abandoned' = abandoned /\ overtaken' = overtaken
      /\ service \in {"up", "unwinding", "closing"}
      /\ j \in submitting /\ j \notin submitting' /\ retrying' = retrying /\ retries' = retries
      /\ \/ task'[j] = task[j] /\ reply'[j] = reply[j] /\ unwinding' = unwinding
         \/ /\ service # "closing" /\ task[j] = "none"
            /\ task'[j] = "created" /\ reply'[j] = "pending" /\ j \notin unwinding'
    BY DEF JobInv, TypeOK, SubmitSchedules, Up, Schedule, SameStore, SameTask, SameUser,
       SameHistory, Late, storeVars, taskVars, userVars, lifeVars, histVars
<1>3. JobSound(j)'
    BY <1>2 DEF JobInv, JobSound, LateIsPast, TaskInPhase, RunningIsHeld, TaskKnows, CutShort,
       Active, Recorded, Retried, SameStore, SameTask, SameUser, SameHistory, InBody, Ending,
       Recording, Writes, Terminal, Late
<1>4. ASSUME NEW k \in Jobs, k # j PROVE Same(k)
    BY <1>4 DEF JobInv, TypeOK, SubmitSchedules, Same, SameStore, SameTask, SameUser,
       SameHistory, Late, Schedule, storeVars, taskVars, userVars, lifeVars, histVars
<1> QED BY <1>1, <1>2, <1>3, <1>4, Frame DEF JobInv

LEMMA RetrySchedulesStep ==
    ASSUME JobInv, NEW j \in Jobs, RetrySchedules(j) PROVE JobInv'
<1>1. TypeOK'
    BY DEF JobInv, TypeOK, RetrySchedules, Places, Reads, Replies, Statuses, Schedule, Causes,
       storeVars, taskVars, userVars, lifeVars, histVars
<1>2. /\ SameStore(j) /\ service' = service /\ overtaken' = overtaken
      /\ abandoned'[j] \in {abandoned[j], "retry"}
      /\ service \in {"up", "unwinding", "closing"}
      /\ retrying[j] = "schedule" /\ retrying'[j] = "none"
      /\ submitting' = submitting /\ retries' = retries
      /\ \/ task'[j] = task[j] /\ reply'[j] = reply[j] /\ unwinding' = unwinding
         \/ /\ service # "closing" /\ task[j] = "none"
            /\ task'[j] = "created" /\ reply'[j] = "pending" /\ j \notin unwinding'
    BY DEF JobInv, TypeOK, RetrySchedules, Up, Schedule, SameStore, SameTask, SameUser,
       SameHistory, Late, storeVars, taskVars, userVars, lifeVars, histVars
<1>3. JobSound(j)'
    BY <1>2 DEF JobInv, JobSound, LateIsPast, TaskInPhase, RunningIsHeld, TaskKnows, CutShort,
       Active, Recorded, Retried, SameStore, SameTask, SameUser, SameHistory, InBody, Ending,
       Recording, Writes, Terminal, Late
<1>4. ASSUME NEW k \in Jobs, k # j PROVE Same(k)
    BY <1>4 DEF JobInv, TypeOK, RetrySchedules, Same, SameStore, SameTask, SameUser,
       SameHistory, Late, Schedule, storeVars, taskVars, userVars, lifeVars, histVars
<1> QED BY <1>1, <1>2, <1>3, <1>4, Frame DEF JobInv

(***************************************************************************)
(* Steps of the user and of the service.                                   *)
(***************************************************************************)

LEMMA CancelRequestsStep ==
    ASSUME JobInv, NEW j \in Jobs, CancelRequests(j) PROVE JobInv'
<1>1. TypeOK /\ Store(j, "request") /\ Ends(j, "request")
    BY DEF JobInv, CancelRequests
<1>2. TypeOK'
  <2>1. cancels' \in [Jobs -> 0..MaxCancels]
    BY JobAssumption DEF JobInv, TypeOK, CancelRequests
  <2> QED BY <1>1, <2>1, StoreEffect, EndsEffect DEF TypeOK, CancelRequests, taskVars, lifeVars
<1>3. /\ SameTask(j) /\ service' = service /\ late' = late
      /\ overtaken' = overtaken /\ unwinding' = unwinding
      /\ submitting' = submitting /\ retrying' = retrying /\ retries' = retries
      /\ service \in {"up", "unwinding", "closing"}
      /\ status[j] \in Statuses /\ status[j] # "none" /\ status'[j] = After(status[j], "request")
      /\ j \in cancel_requested' => j \in cancel_requested \/ status[j] \notin Terminal
      /\ abandoned'[j] =
            IF After(status[j], "request") \in Terminal THEN "none" ELSE abandoned[j]
    BY <1>1, StoreEffect, EndsEffect DEF TypeOK, CancelRequests, Up, SameTask, taskVars, lifeVars
<1>4. JobSound(j)'
  <2>1. LateIsPast(j)'
    BY <1>3 DEF JobInv, JobSound, LateIsPast, Retried, SameTask, InBody, Ending, Late, Writes,
       After, Terminal
  <2>2. TaskInPhase(j)'
    BY <1>3 DEF JobInv, JobSound, TaskInPhase, Retried, SameTask, Late, Writes, After, Terminal,
       Statuses
  <2>3. RunningIsHeld(j)' /\ TaskKnows(j)' /\ CutShort(j)'
    BY <1>3 DEF JobInv, JobSound, RunningIsHeld, TaskKnows, CutShort, Active, Recorded, Retried,
       SameTask, Late, Recording, After, Terminal, Statuses, Ending
  <2> QED BY <2>1, <2>2, <2>3 DEF JobSound
<1>5. ASSUME NEW k \in Jobs, k # j PROVE Same(k)
    BY <1>1, <1>5, StoreEffect, EndsEffect DEF CancelRequests, Same, SameStore, SameTask,
       SameUser, SameHistory, Late, taskVars, lifeVars
<1> QED BY <1>2, <1>3, <1>4, <1>5, Frame DEF JobInv

LEMMA CancelStopsStep ==
    ASSUME JobInv, NEW j \in Jobs, CancelStops(j) PROVE JobInv'
<1>1. TypeOK'
    BY DEF JobInv, TypeOK, CancelStops, Places, Reads, Replies, Statuses, Schedule, Causes,
       storeVars, taskVars, userVars, lifeVars, histVars
<1>2. /\ SameStore(j) /\ SameHistory(j) /\ service' = service
      /\ task' = task /\ reply' = reply
      /\ submitting' = submitting /\ retrying' = retrying /\ retries' = retries
    BY DEF JobInv, TypeOK, CancelStops, Up, Schedule, SameStore, SameTask, SameUser,
       SameHistory, Late, storeVars, taskVars, userVars, lifeVars, histVars
<1>3. JobSound(j)'
    BY <1>2 DEF JobInv, JobSound, LateIsPast, TaskInPhase, RunningIsHeld, TaskKnows, CutShort,
       Active, Recorded, Retried, SameStore, SameTask, SameUser, SameHistory, InBody, Ending,
       Recording, Writes, Terminal, Late
<1>4. ASSUME NEW k \in Jobs, k # j PROVE Same(k)
    BY <1>4 DEF JobInv, TypeOK, CancelStops, Same, SameStore, SameTask, SameUser, SameHistory,
       Late, storeVars, taskVars, userVars, lifeVars, histVars
<1> QED BY <1>1, <1>2, <1>3, <1>4, Frame DEF JobInv

LEMMA RetryReadsStep ==
    ASSUME JobInv, NEW j \in Jobs, RetryReads(j) PROVE JobInv'
<1>1. TypeOK'
  <2>1. retries' \in [Jobs -> 0..MaxRetries]
    BY JobAssumption DEF JobInv, TypeOK, RetryReads
  <2>2. retrying' \in [Jobs -> {"none", "wait", "requeue", "schedule"}]
    BY DEF JobInv, TypeOK, RetryReads
  <2> QED BY <2>1, <2>2 DEF JobInv, TypeOK, RetryReads, storeVars, taskVars, lifeVars, histVars
<1>2. /\ SameStore(j) /\ SameTask(j) /\ SameHistory(j)
      /\ service' = service /\ service = "up" /\ submitting' = submitting
      /\ retries[j] \in Nat /\ retries'[j] = retries[j] + 1
      /\ retrying[j] = "none" /\ retrying'[j] = "wait"
      /\ status[j] \in {"cancelling"} \cup Terminal
    BY DEF JobInv, TypeOK, RetryReads, Up, Schedule, SameStore, SameTask, SameUser,
       SameHistory, Late, storeVars, taskVars, userVars, lifeVars, histVars
<1>3. JobSound(j)'
  <2>1. Retried(j)'
    BY <1>2 DEF Retried
  <2>2. LateIsPast(j)' /\ TaskInPhase(j)'
    BY <1>2, <2>1 DEF JobInv, JobSound, LateIsPast, TaskInPhase, SameStore, SameTask, Ending,
       Terminal, Writes
  <2>3. RunningIsHeld(j)' /\ TaskKnows(j)' /\ CutShort(j)'
    BY <1>2, <2>1 DEF JobInv, JobSound, RunningIsHeld, TaskKnows, CutShort, Active, Recorded,
       SameStore, SameTask, SameHistory, Ending, Recording, Writes
  <2> QED BY <2>2, <2>3 DEF JobSound
<1>4. ASSUME NEW k \in Jobs, k # j PROVE Same(k)
    BY <1>4 DEF JobInv, TypeOK, RetryReads, Same, SameStore, SameTask, SameUser, SameHistory,
       Late, storeVars, taskVars, userVars, lifeVars, histVars
<1> QED BY <1>1, <1>2, <1>3, <1>4, Frame DEF JobInv

LEMMA RetryWaitsStep ==
    ASSUME JobInv, NEW j \in Jobs, RetryWaits(j) PROVE JobInv'
<1>1. TypeOK'
    BY DEF JobInv, TypeOK, RetryWaits, Places, Reads, Replies, Statuses, Schedule, Causes,
       storeVars, taskVars, userVars, lifeVars, histVars
<1>2. /\ SameStore(j) /\ service' = service /\ reply' = reply
      /\ abandoned' = abandoned /\ unwinding' = unwinding
      /\ service \in {"up", "unwinding", "closing"}
      /\ submitting' = submitting /\ retries' = retries
      /\ retrying[j] = "wait" /\ retrying'[j] = "requeue"
      /\ task[j] \in {"none", "ended"} /\ task'[j] = "none"
    BY DEF JobInv, TypeOK, RetryWaits, Up, Schedule, SameStore, SameTask, SameUser,
       SameHistory, Late, storeVars, taskVars, userVars, lifeVars, histVars
<1>3. JobSound(j)'
    BY <1>2 DEF JobInv, JobSound, LateIsPast, TaskInPhase, RunningIsHeld, TaskKnows, CutShort,
       Active, Recorded, Retried, SameStore, SameTask, SameUser, SameHistory, InBody, Ending,
       Recording, Writes, Terminal, Late
<1>4. ASSUME NEW k \in Jobs, k # j PROVE Same(k)
    BY <1>4 DEF JobInv, TypeOK, RetryWaits, Same, SameStore, SameTask, SameUser, SameHistory,
       Late, storeVars, taskVars, userVars, lifeVars, histVars
<1> QED BY <1>1, <1>2, <1>3, <1>4, Frame DEF JobInv

LEMMA RetryRequeuesStep ==
    ASSUME JobInv, NEW j \in Jobs, RetryRequeues(j) PROVE JobInv'
<1>1. TypeOK /\ Store(j, "requeue")
    BY DEF JobInv, RetryRequeues
<1>2. TypeOK'
  <2>1. retrying' \in [Jobs -> {"none", "wait", "requeue", "schedule"}]
    BY DEF JobInv, TypeOK, RetryRequeues
  <2> QED BY <1>1, <2>1, StoreEffect DEF TypeOK, RetryRequeues, taskVars, lifeVars, histVars
<1>3. /\ SameTask(j) /\ SameHistory(j) /\ service' = service /\ late' = late
      /\ submitting' = submitting /\ retries' = retries
      /\ service \in {"up", "unwinding", "closing"}
      /\ retrying[j] = "requeue" /\ retrying'[j] \in {"none", "schedule"}
      /\ status[j] \in Statuses /\ status'[j] = After(status[j], "requeue")
      /\ j \in cancel_requested' => j \in cancel_requested
    BY <1>1, StoreEffect DEF TypeOK, RetryRequeues, Up, SameTask, SameHistory, taskVars, lifeVars,
       histVars
<1>4. JobSound(j)'
  <2>1. Retried(j) /\ Retried(j)'
    BY <1>3 DEF JobInv, JobSound, TaskInPhase, Retried
  <2>2. LateIsPast(j)' /\ CutShort(j)'
    BY <1>3, <2>1 DEF JobInv, JobSound, LateIsPast, CutShort, SameTask, SameHistory, Ending, Late
  <2>3. TaskInPhase(j)'
    BY <1>3, <2>1 DEF JobInv, JobSound, TaskInPhase, SameTask, Late, Writes, After, Terminal,
       Statuses
  <2>4. RunningIsHeld(j)' /\ TaskKnows(j)'
    BY <1>3, <2>1 DEF JobInv, JobSound, RunningIsHeld, TaskKnows, Active, Recorded, SameTask,
       SameHistory, Late, Recording, After, Terminal, Statuses
  <2> QED BY <2>2, <2>3, <2>4 DEF JobSound
<1>5. ASSUME NEW k \in Jobs, k # j PROVE Same(k)
    BY <1>1, <1>5, StoreEffect DEF TypeOK, RetryRequeues, Same, SameStore, SameTask, SameUser,
       SameHistory, Late, taskVars, lifeVars, histVars
<1> QED BY <1>2, <1>3, <1>4, <1>5, Frame DEF JobInv

LEMMA StartRecoversStep ==
    ASSUME JobInv, StartRecovers PROVE JobInv'
<1>1. TypeOK'
    BY JobAssumption DEF JobInv, TypeOK, StartRecovers, Gone, Places, Reads, Replies, Causes,
       storeVars, taskVars, userVars, lifeVars, histVars, Recovered, Statuses, Terminal
<1>2. ASSUME NEW j \in Jobs PROVE JobSound(j)'
  <2>1. /\ SameTask(j) /\ SameUser(j) /\ service = "down" /\ service' = "starting"
        /\ late = {} /\ late' = {} /\ cancel_requested' = cancel_requested
        /\ status'[j] = Recovered(j) /\ abandoned'[j] = "none"
    BY DEF StartRecovers, Gone, Same, SameStore, SameTask, SameUser, SameHistory, Late,
       storeVars, taskVars, userVars, lifeVars, histVars, JobInv, TypeOK
  <2> QED BY <2>1 DEF JobInv, JobSound, LateIsPast, TaskInPhase, RunningIsHeld, TaskKnows, CutShort,
             Active, Recorded, Retried, Same, SameStore, SameTask, SameUser, SameHistory, InBody,
             Ending, Recording, Writes, Terminal, Late, Recovered, Statuses, Terminal
<1> QED BY <1>1, <1>2 DEF JobInv

LEMMA StartSchedulesStep ==
    ASSUME JobInv, StartSchedules PROVE JobInv'
<1>1. TypeOK'
    BY JobAssumption DEF JobInv, TypeOK, StartSchedules, Gone, Places, Reads, Replies, Causes,
       Schedule, storeVars, taskVars, userVars, lifeVars, histVars
<1>2. ASSUME NEW j \in Jobs PROVE JobSound(j)'
  <2>1. /\ SameStore(j) /\ SameUser(j) /\ service = "starting" /\ service' = "up"
        /\ abandoned' = abandoned /\ overtaken' = overtaken
        /\ \/ task'[j] = task[j] /\ reply'[j] = reply[j]
           \/ /\ status[j] = "queued" /\ task[j] = "none"
              /\ task'[j] = "created" /\ reply'[j] = "pending"
    BY DEF StartSchedules, Gone, Schedule, Same, SameStore, SameTask, SameUser, SameHistory,
       Late, storeVars, taskVars, userVars, lifeVars, histVars, JobInv, TypeOK
  <2> QED BY <2>1 DEF JobInv, JobSound, LateIsPast, TaskInPhase, RunningIsHeld, TaskKnows, CutShort,
             Active, Recorded, Retried, Same, SameStore, SameTask, SameUser, SameHistory, InBody,
             Ending, Recording, Writes, Terminal, Late
<1> QED BY <1>1, <1>2 DEF JobInv

LEMMA CloseWaitsStep ==
    ASSUME JobInv, CloseWaits PROVE JobInv'
<1>1. TypeOK'
    BY JobAssumption DEF JobInv, TypeOK, CloseWaits, Gone, Places, Reads, Replies, Causes,
       storeVars, taskVars, userVars, lifeVars, histVars
<1>2. ASSUME NEW j \in Jobs PROVE JobSound(j)'
  <2>1. /\ SameStore(j) /\ SameTask(j) /\ SameUser(j)
        /\ abandoned' = abandoned /\ overtaken' = overtaken
        /\ service = "up" /\ service' = "unwinding"
    BY DEF CloseWaits, Gone, Same, SameStore, SameTask, SameUser, SameHistory, Late,
       storeVars, taskVars, userVars, lifeVars, histVars, JobInv, TypeOK
  <2> QED BY <2>1 DEF JobInv, JobSound, LateIsPast, TaskInPhase, RunningIsHeld, TaskKnows, CutShort,
             Active, Recorded, Retried, Same, SameStore, SameTask, SameUser, SameHistory, InBody,
             Ending, Recording, Writes, Terminal, Late
<1> QED BY <1>1, <1>2 DEF JobInv

LEMMA CloseCancelsStep ==
    ASSUME JobInv, CloseCancels PROVE JobInv'
<1>1. TypeOK'
    BY JobAssumption DEF JobInv, TypeOK, CloseCancels, Gone, Places, Reads, Replies, Causes,
       storeVars, taskVars, userVars, lifeVars, histVars
<1>2. ASSUME NEW j \in Jobs PROVE JobSound(j)'
  <2>1. /\ SameStore(j) /\ SameUser(j) /\ SameHistory(j)
        /\ service = "unwinding" /\ service' = "closing"
        /\ j \in unwinding \ Slow => task[j] \in {"none", "ended"}
        /\ task' = task /\ reply' = reply
    BY DEF CloseCancels, Gone, Same, SameStore, SameTask, SameUser, SameHistory, Late,
       storeVars, taskVars, userVars, lifeVars, histVars, JobInv, TypeOK
  <2> QED BY <2>1 DEF JobInv, JobSound, LateIsPast, TaskInPhase, RunningIsHeld, TaskKnows, CutShort,
             Active, Recorded, Retried, Same, SameStore, SameTask, SameUser, SameHistory, InBody,
             Ending, Recording, Writes, Terminal, Late
<1> QED BY <1>1, <1>2 DEF JobInv

LEMMA CloseEndsStep ==
    ASSUME JobInv, CloseEnds PROVE JobInv'
<1>1. TypeOK'
    BY JobAssumption DEF JobInv, TypeOK, CloseEnds, Gone, Places, Reads, Replies, Causes,
       storeVars, taskVars, userVars, lifeVars, histVars
<1>2. ASSUME NEW j \in Jobs PROVE JobSound(j)'
  <2>1. /\ SameStore(j) /\ service = "closing" /\ service' = "down"
        /\ task[j] \in {"none", "ended"} /\ abandoned' = abandoned /\ retries' = retries
        /\ task'[j] = "none" /\ reply'[j] = "pending" /\ submitting' = {}
        /\ retrying'[j] = "none"
    BY DEF CloseEnds, Gone, Same, SameStore, SameTask, SameUser, SameHistory, Late, storeVars,
       taskVars, userVars, lifeVars, histVars, JobInv, TypeOK
  <2> QED BY <2>1 DEF JobInv, JobSound, LateIsPast, TaskInPhase, RunningIsHeld, TaskKnows, CutShort,
             Active, Recorded, Retried, Same, SameStore, SameTask, SameUser, SameHistory, InBody,
             Ending, Recording, Writes, Terminal, Late
<1> QED BY <1>1, <1>2 DEF JobInv

LEMMA CrashStep ==
    ASSUME JobInv, Crash PROVE JobInv'
<1>1. TypeOK'
    BY JobAssumption DEF JobInv, TypeOK, Crash, Gone, Places, Reads, Replies, Causes,
       storeVars, taskVars, userVars, lifeVars, histVars
<1>2. ASSUME NEW j \in Jobs PROVE JobSound(j)'
  <2>1. /\ status' = status /\ cancel_requested' = cancel_requested /\ late' = {}
        /\ service' = "down" /\ abandoned' = abandoned /\ retries' = retries
        /\ task'[j] = "none" /\ reply'[j] = "pending" /\ submitting' = {}
        /\ retrying'[j] = "none"
    BY DEF Crash, Gone, Same, SameStore, SameTask, SameUser, SameHistory, Late, storeVars,
       taskVars, userVars, lifeVars, histVars, JobInv, TypeOK
  <2> QED BY <2>1 DEF JobInv, JobSound, LateIsPast, TaskInPhase, RunningIsHeld, TaskKnows, CutShort,
             Active, Recorded, Retried, Same, SameStore, SameTask, SameUser, SameHistory, InBody,
             Ending, Recording, Writes, Terminal, Late
<1> QED BY <1>1, <1>2 DEF JobInv

(***************************************************************************)
(* The theorems.                                                           *)
(***************************************************************************)
LEMMA InitSound == Init => JobInv
<1> SUFFICES ASSUME Init PROVE JobInv
    OBVIOUS
<1>1. TypeOK
    BY JobAssumption DEF Init, TypeOK, Statuses, Places, Replies, Causes
<1>2. ASSUME NEW j \in Jobs PROVE JobSound(j)
    BY DEF Init, JobSound, LateIsPast, TaskInPhase, RunningIsHeld, TaskKnows, CutShort,
       Active, Recorded, Retried, SameHistory, Late, InBody, Ending, Recording
<1> QED BY <1>1, <1>2 DEF JobInv

LEMMA NextSound == ASSUME JobInv, [Next]_vars PROVE JobInv'
<1>1. CASE \E j \in Jobs : Task(j)
    BY <1>1, StartsStep, GetReturnsStep, TakeSlotStep, RecheckReturnsStep, ClaimReturnsStep,
       HandlerReturnsStep, HandlerRaisesStep, CompleteReturnsStep, InterruptReturnsStep,
       RereadReturnsStep, WriteReturnsStep, CancelledStep, ForgetStep DEF Task
<1>2. CASE \E j \in Jobs : Threads(j)
    BY <1>2, CommitStep, ReadStep, LateCommitStep DEF Threads
<1>3. CASE \E j \in Jobs : Continue(j)
    BY <1>3, SubmitSchedulesStep, CancelStopsStep, RetryWaitsStep, RetryRequeuesStep,
       RetrySchedulesStep DEF Continue
<1>4. CASE \E j \in Jobs : User(j)
    BY <1>4, SubmitCreatesStep, CancelRequestsStep, RetryReadsStep DEF User
<1>5. CASE Lifecycle
    BY <1>5, StartRecoversStep, StartSchedulesStep, CloseCancelsStep, CloseEndsStep DEF
       Lifecycle
<1>6. CASE UNCHANGED vars
  <2>1. TypeOK'
    BY <1>6 DEF JobInv, TypeOK, vars, storeVars, taskVars, userVars, lifeVars, histVars
  <2>2. ASSUME NEW j \in Jobs PROVE Same(j) /\ service' = service
    BY <1>6 DEF Same, SameStore, SameTask, SameUser, SameHistory, Late, vars, storeVars,
       taskVars, userVars, lifeVars, histVars
  <2> QED BY <2>1, <2>2, Frame DEF JobInv
<1> QED BY <1>1, <1>2, <1>3, <1>4, <1>5, <1>6, CloseWaitsStep, CrashStep DEF Next

\* jobs.py:254-410, storage.py:2102-2545: the inductive invariant.
THEOREM JobsSound == Spec => []JobInv
<1>1. Init => JobInv
    BY InitSound
<1>2. JobInv /\ [Next]_vars => JobInv'
    BY NextSound
<1> QED BY <1>1, <1>2, PTL DEF Spec

\* Statuses, tasks and calls stay within what the code names.
THEOREM JobTypes == Spec => []TypeOK
<1>1. JobInv => TypeOK
    BY DEF JobInv
<1> QED BY <1>1, JobsSound, PTL

\* jobs.py:365-412: while the service is up somebody will end every job that the store
\* shows as running or as being cancelled, save the ones whose last write a cancellation
\* dropped and the ones that a claim without a task took up.
THEOREM NeverStranded == Spec => []NotStranded
<1>1. ASSUME JobInv PROVE NotStranded
  <2> SUFFICES ASSUME service \in {"up", "unwinding"}, NEW j \in Jobs, Active(j)
               PROVE  Attended(j) \/ abandoned[j] # "none"
    BY DEF NotStranded
  <2> QED BY <1>1 DEF JobInv, JobSound, RunningIsHeld, LateIsPast, Attended, Late, Ending,
             Recording
<1> QED BY <1>1, JobsSound, PTL

\* jobs.py:365-389: a handler only ever works for a job that the store has as its own, until
\* a write of a cancelled predecessor ends the job under a retry.
THEOREM HandlersRecorded == Spec => []HandlerIsRecorded
<1>1. JobInv => HandlerIsRecorded
    BY DEF JobInv, JobSound, TaskKnows, Recorded, Retried, HandlerIsRecorded
<1> QED BY <1>1, JobsSound, PTL

\* jobs.py:265-287, 390-398: close() cuts no write short of a task whose cancellation it
\* found under way and that did not outlast its wait; for no other reason of its own does
\* it leave a job running or cancelling.
THEOREM ShutdownSettles == Spec => CloseSettles
<1>1. ASSUME JobInv, service = "closing", CloseEnds, NEW j \in Jobs, Active(j)
      PROVE  \/ \E call \in Writes : <<j, call>> \in late
             \/ /\ abandoned[j] # "none"
                /\ abandoned[j] = "close" => j \in Slow \/ j \notin unwinding
    BY <1>1 DEF JobInv, JobSound, RunningIsHeld, CutShort, Late, Recording, Writes, CloseEnds
<1>2. JobInv /\ [Next]_vars =>
        [service = "closing" /\ CloseEnds =>
           \A j \in Jobs : Active(j) =>
              \/ \E call \in Writes : <<j, call>> \in late
              \/ /\ abandoned[j] # "none"
                 /\ abandoned[j] = "close" => j \in Slow \/ j \notin unwinding]_vars
    BY <1>1
<1> QED BY <1>2, JobsSound, PTL DEF Spec, CloseSettles

\* The steps that put a job back into the queue.
LEMMA QueuedAgain ==
    ASSUME JobInv, Next, NEW j \in Jobs, j \in cancel_requested,
           status'[j] = "queued", status[j] # "queued"
    PROVE  \/ retrying[j] = "requeue"
           \/ retries[j] > 0 /\ (task[j] = "requeue" \/ <<j, "requeue">> \in late)
<1>1. ASSUME NEW k \in Jobs, NEW call, Store(k, call)
      PROVE  k = j /\ call = "requeue"
  <2>1. status'[k] = After(status[k], call) /\ (k # j => status'[j] = status[j])
    BY <1>1, StoreEffect DEF JobInv
  <2> QED BY <2>1 DEF After
<1>2. CASE \E k \in Jobs, call \in Writes : LateCommit(k, call)
    BY <1>1, <1>2 DEF LateCommit, JobInv, JobSound, LateIsPast, Retried, Late
<1>3. CASE \E k \in Jobs : Commit(k)
    BY <1>1, <1>3 DEF Commit, JobInv, JobSound, TaskKnows, CutShort, Active, Recorded,
       Retried, SameHistory
<1>4. CASE \E k \in Jobs : CancelRequests(k)
    BY <1>1, <1>4 DEF CancelRequests
<1>5. CASE \E k \in Jobs : RetryRequeues(k)
    BY <1>1, <1>5 DEF RetryRequeues
<1>6. CASE \E k \in Jobs : SubmitCreates(k)
    BY <1>6 DEF SubmitCreates, JobInv, TypeOK, JobSound, TaskInPhase
<1>7. CASE StartRecovers
    BY <1>7 DEF StartRecovers, Recovered
<1>8. ASSUME status' = status PROVE FALSE
    BY <1>8
<1> QED
    BY <1>2, <1>3, <1>4, <1>5, <1>6, <1>7, <1>8 DEF Next, Task, Threads, Continue, User,
       Lifecycle, Starts, GetReturns, TakeSlot, RecheckReturns, ClaimReturns, HandlerReturns,
       HandlerRaises, CompleteReturns, InterruptReturns, RereadReturns, WriteReturns,
       Cancelled, Forget, Read, SubmitSchedules, CancelStops, RetryWaits, RetrySchedules,
       RetryReads, StartSchedules, CloseCancels, CloseEnds, CloseWaits, Crash, storeVars

\* jobs.py:394-396, storage.py:2118-2139, 2497-2545: a cancelled job gets back into the
\* queue by retry() only, whatever crashes and restarts, or by a shutdown's own requeue
\* that a retry overlapped with.
THEOREM CancelPersists == Spec => CancelSurvives
<1>1. JobInv /\ [Next]_vars =>
        [\A j \in Jobs :
           j \in cancel_requested /\ status'[j] = "queued" /\ status[j] # "queued" =>
              \/ retrying[j] = "requeue"
              \/ retries[j] > 0 /\ (task[j] = "requeue" \/ <<j, "requeue">> \in late)]_vars
    BY QueuedAgain
<1> QED BY <1>1, JobsSound, PTL DEF Spec, CancelSurvives
=============================================================================
