--------------------------- MODULE RequestSlotGate ---------------------------
(***************************************************************************)
(* The admission of server requests to one runtime: _RequestSlotGate,      *)
(* _acquire_request_slot() and the part of stream() around it.             *)
(*                                                                         *)
(* Two asyncio tasks serve a request: its own, and one that runs           *)
(* gate.acquire().  An action is what a task does between two awaits that  *)
(* suspend it; the order in which ready tasks run is left open.  cancel()  *)
(* of a suspended task takes effect when it resumes.  A gather() resumes   *)
(* its task only when its children are done, cancelled or not.             *)
(***************************************************************************)
EXTENDS Lists, FiniteSets

CONSTANTS
    Requests,
    Priority,       \* [Requests -> Int]
    Capacity,       \* request_capacity the runtime was loaded with
    QueueLimits,    \* the values of max_queued_requests
    Timed,          \* requests with a client deadline or a queue timeout
    Cancellable,    \* requests whose client may disconnect
    MaxCancels,     \* bound: cancellations delivered to one request
    MaxEdits        \* bound: update_concurrency() calls

ASSUME GateAssumption ==
    /\ IsFiniteSet(Requests)
    /\ Priority \in [Requests -> Int]
    /\ Capacity \in Nat \ {0} /\ QueueLimits \subseteq Nat
    /\ Timed \subseteq Requests /\ Cancellable \subseteq Requests
    /\ MaxCancels \in Nat /\ MaxEdits \in Nat

VARIABLES
    \* _RequestSlotGate
    capacity, granted, waiters, closed,
    future,      \* [Requests -> state of _SlotWaiter.granted]
    \* the task that runs acquire()
    acquire,     \* [Requests -> its state]
    must,        \* tasks of acquire() that will see CancelledError next
    \* the task of the request
    task,        \* [Requests -> where it is suspended]
    seen,        \* [Requests -> what asyncio.wait() returned with]
    acquired,    \* requests whose local `acquired` is true
    active,      \* requests whose local `active` is true
    cancelled,   \* requests that will see CancelledError next
    cancels,     \* [Requests -> number of cancellations delivered]
    \* _Runtime
    queued_requests, active_requests,
    expired,     \* requests that have no time left
    changed,     \* requests whose concurrency_changed event has been set
    max_queued_requests, edits,
    raised,      \* release() found no slot to give back
    arrived      \* history: the requests that had to queue, in this order

gateVars == << capacity, granted, waiters, closed, future >>
taskVars == << task, seen, acquired, active, cancelled, cancels >>
runtimeVars == << queued_requests, active_requests >>
settings == << max_queued_requests, edits >>
vars == << gateVars, acquire, must, taskVars, runtimeVars, expired, changed,
           settings, raised, arrived >>

FutureStates == {"none", "pending", "granted", "cancelled", "error"}
AcquireStates == {"none", "new", "waiting", "ok", "cancelled", "error", "spent"}
TaskStates == {"idle", "wait", "settle", "reap", "held", "active", "finish", "ended"}
Done(r) == acquire[r] \in {"ok", "cancelled", "error"}

Init ==
    /\ capacity = Capacity /\ granted = 0 /\ waiters = <<>> /\ closed = FALSE
    /\ future = [r \in Requests |-> "none"]
    /\ acquire = [r \in Requests |-> "none"] /\ must = {}
    /\ task = [r \in Requests |-> "idle"]
    /\ seen = [r \in Requests |-> "nothing"]
    /\ acquired = {} /\ active = {} /\ cancelled = {}
    /\ cancels = [r \in Requests |-> 0]
    /\ queued_requests = 0 /\ active_requests = 0
    /\ expired = {} /\ changed = {} /\ max_queued_requests \in QueueLimits /\ edits = 0
    /\ raised = FALSE /\ arrived = <<>>

(***************************************************************************)
(* The gate.                                                               *)
(***************************************************************************)
IsPending(r) == future[r] = "pending"

\* Mutant: a newcomer goes behind everybody.
IsPositionLast(i, r) == i = Len(waiters)

\* acquire() inserts r behind the first i waiters: from the end it passes
\* those of lower priority.
IsPosition(i, r) ==
    /\ \A k \in (i + 1)..Len(waiters) : Priority[waiters[k]] < Priority[r]
    /\ i > 0 => Priority[waiters[i]] >= Priority[r]

InsertAt(s, i, r) == SubSeq(s, 1, i) \o <<r>> \o SubSeq(s, i + 1, Len(s))
Remove(s, r) ==
    IF \E i \in DOMAIN s : s[i] = r
    THEN LET i == CHOOSE i \in DOMAIN s : s[i] = r
         IN  SubSeq(s, 1, i - 1) \o SubSeq(s, i + 1, Len(s))
    ELSE s

\* How many waiters release() pops with room free slots: it goes on as long as
\* fewer than room of those before were granted one, and skips the others.
PendingIn(k) == Cardinality({ i \in 1..k : IsPending(waiters[i]) })
Popped(room) == Cardinality({ k \in 1..Len(waiters) : PendingIn(k - 1) < room })

\* Mutants: nobody is told of the free slot; a missing slot is not noticed.
ReleaseSilently ==
    IF granted <= 0
    THEN raised' = TRUE /\ UNCHANGED gateVars
    ELSE granted' = granted - 1 /\ UNCHANGED << capacity, waiters, closed, future, raised >>
ReleaseUnchecked ==
    IF granted <= 0 \/ waiters = <<>>
    THEN granted' = granted - 1 /\ UNCHANGED << capacity, waiters, closed, future, raised >>
    ELSE /\ waiters' = Tail(waiters)
         /\ future' = [future EXCEPT ![Head(waiters)] = "granted"]
         /\ UNCHANGED << capacity, granted, closed, raised >>

Release ==
    IF granted <= 0
    THEN raised' = TRUE /\ UNCHANGED gateVars
    ELSE LET n == Popped(capacity - (granted - 1))
             lucky == { r \in Requests : \E i \in 1..n : waiters[i] = r /\ IsPending(r) }
         IN  /\ granted' = granted - 1 + Cardinality(lucky)
             /\ waiters' = SubSeq(waiters, n + 1, Len(waiters))
             /\ future' = [r \in Requests |->
                              IF r \in lucky THEN "granted" ELSE future[r]]
             /\ UNCHANGED << capacity, closed, raised >>

\* Mutant: one slot too many.
HasFreeSlotTooMany == granted <= capacity /\ waiters = <<>>

HasFreeSlot == granted < capacity /\ waiters = <<>>

\* acquire() up to its await, when its task runs for the first time.
AcquireStart(r) ==
    /\ acquire[r] = "new"
    /\ \/ /\ r \in must
          /\ acquire' = [acquire EXCEPT ![r] = "cancelled"]
          /\ UNCHANGED << gateVars, arrived >>
       \/ /\ r \notin must /\ closed
          /\ acquire' = [acquire EXCEPT ![r] = "error"]
          /\ UNCHANGED << gateVars, arrived >>
       \/ /\ r \notin must /\ ~closed
          /\ HasFreeSlot
          /\ granted' = granted + 1
          /\ acquire' = [acquire EXCEPT ![r] = "ok"]
          /\ UNCHANGED << capacity, waiters, closed, future, arrived >>
       \/ /\ r \notin must /\ ~closed
          /\ ~HasFreeSlot
          /\ \E i \in 0..Len(waiters) :
                IsPosition(i, r) /\ waiters' = InsertAt(waiters, i, r)
          /\ future' = [future EXCEPT ![r] = "pending"]
          /\ acquire' = [acquire EXCEPT ![r] = "waiting"]
          /\ arrived' = Append(arrived, r)
          /\ UNCHANGED << capacity, granted, closed >>
    /\ must' = must \ {r}
    /\ UNCHANGED << taskVars, runtimeVars, expired, changed, settings, raised >>

\* Mutant: the slot granted just before the cancellation is forgotten.
HandsOnNever(r) == FALSE

\* The cancelled acquire() finds its future done: it takes it that a slot was granted.
HandsOn(r) == future[r] # "cancelled"

\* acquire() after its await: the future is done.
AcquireWake(r) ==
    /\ acquire[r] = "waiting" /\ ~IsPending(r)
    /\ IF r \notin must /\ future[r] # "cancelled"
       THEN /\ acquire' = [acquire EXCEPT ![r] = IF future[r] = "granted" THEN "ok"
                                                  ELSE "error"]
            /\ UNCHANGED << gateVars, raised >>
       ELSE /\ acquire' = [acquire EXCEPT ![r] = IF HandsOn(r) /\ granted <= 0 THEN "error"
                                                  ELSE "cancelled"]
            /\ IF HandsOn(r)
               THEN Release
               ELSE /\ waiters' = Remove(waiters, r)
                    /\ UNCHANGED << capacity, granted, closed, future, raised >>
    /\ must' = must \ {r}
    /\ UNCHANGED << taskVars, runtimeVars, expired, changed, settings, arrived >>

\* close(): the runtime is unhealthy and will be retired.
Close ==
    /\ ~closed
    /\ closed' = TRUE
    /\ future' = [r \in Requests |->
                     IF (\E i \in DOMAIN waiters : waiters[i] = r) /\ IsPending(r)
                     THEN "error" ELSE future[r]]
    /\ waiters' = <<>>
    /\ UNCHANGED << capacity, granted, acquire, must, taskVars, runtimeVars, expired,
                    changed, settings, raised, arrived >>

\* Mutant: waiting requests are not looked at.
InFlightActive == active_requests > 0

InFlight == active_requests > 0 \/ queued_requests > 0

\* _apply_batch_capacity(): the worker reports fewer slots; a fresh gate.  A slot
\* that an ended request never gave back goes with the old one.
ApplyBatchCapacity(reported) ==
    /\ reported < capacity /\ ~InFlight
    /\ capacity' = reported /\ granted' = 0 /\ waiters' = <<>> /\ closed' = FALSE
    /\ acquire' = [r \in Requests |-> IF acquire[r] = "ok" THEN "spent" ELSE acquire[r]]
    /\ UNCHANGED << future, must, taskVars, runtimeVars, expired, changed, settings,
                    raised, arrived >>

(***************************************************************************)
(* The task of a request.                                                  *)
(***************************************************************************)

\* The finally of _acquire_request_slot() up to its await: acquire.cancel().
CancelAcquire(r) ==
    /\ task' = [task EXCEPT ![r] = "reap"]
    /\ IF acquire[r] = "waiting" /\ IsPending(r)
       THEN future' = [future EXCEPT ![r] = "cancelled"] /\ UNCHANGED must
       ELSE /\ must' = IF Done(r) THEN must ELSE must \cup {r}
            /\ UNCHANGED future

\* stream(): the runtime failed or its queue is full, or the request is counted and acquire() started.
Enter(r) ==
    /\ task[r] = "idle"
    /\ \/ /\ closed \/ active_requests + queued_requests >= capacity + max_queued_requests
          /\ task' = [task EXCEPT ![r] = "ended"]
          /\ UNCHANGED << queued_requests, acquire, must >>
       \/ /\ ~closed /\ active_requests + queued_requests < capacity + max_queued_requests
          /\ queued_requests' = queued_requests + 1
          /\ acquire' = [acquire EXCEPT ![r] = "new"]
          /\ IF r \in expired
             THEN task' = [task EXCEPT ![r] = "reap"] /\ must' = must \cup {r}
             ELSE task' = [task EXCEPT ![r] = "wait"] /\ UNCHANGED must
    /\ UNCHANGED << gateVars, seen, acquired, active, cancelled, cancels, active_requests,
                    expired, changed, settings, raised, arrived >>

\* asyncio.wait() returns or raises; the task goes on to reap `changed`.
WaitReturns(r) ==
    /\ task[r] = "wait"
    /\ r \in cancelled \/ Done(r) \/ r \in changed \/ r \in expired
    /\ seen' = [seen EXCEPT ![r] = IF r \in cancelled THEN "cancelled"
                                   ELSE IF Done(r) THEN "acquire"
                                   ELSE "other"]
    /\ task' = [task EXCEPT ![r] = "settle"]
    /\ cancelled' = cancelled \ {r} /\ changed' = changed \ {r}
    /\ UNCHANGED << gateVars, acquire, must, acquired, active, cancels, runtimeVars, expired,
                    settings, raised, arrived >>

\* `changed` is reaped: take the slot, wait again, or give up.
Settle(r) ==
    /\ task[r] = "settle"
    /\ LET interrupted == r \in cancelled \/ seen[r] = "cancelled"
           failed == seen[r] = "acquire" /\ acquire[r] = "error"
       IN  \/ /\ interrupted \/ failed \/ r \in expired
              /\ CancelAcquire(r)
              /\ UNCHANGED << acquire, acquired >>
           \/ /\ ~interrupted /\ ~failed /\ r \notin expired
              /\ seen[r] = "acquire"
              /\ task' = [task EXCEPT ![r] = "held"]
              /\ acquire' = [acquire EXCEPT ![r] = "spent"]
              /\ acquired' = acquired \cup {r}
              /\ UNCHANGED << future, must >>
           \/ /\ ~interrupted /\ ~failed /\ r \notin expired
              /\ seen[r] = "other"
              /\ task' = [task EXCEPT ![r] = "wait"]
              /\ UNCHANGED << future, must, acquire, acquired >>
    /\ cancelled' = cancelled \ {r}
    /\ UNCHANGED << capacity, granted, waiters, closed, seen, active, cancels, runtimeVars,
                    expired, changed, settings, raised, arrived >>

\* Mutant: a slot that came too late is kept.
GivesBackNever(r) == FALSE

GivesBack(r) == r \notin cancelled /\ acquire[r] = "ok"

\* acquire() is reaped: a slot it got after all is given back, unless the
\* task was cancelled while it waited.
Reap(r) ==
    /\ task[r] = "reap" /\ Done(r)
    /\ IF GivesBack(r)
       THEN Release /\ acquire' = [acquire EXCEPT ![r] = "spent"]
       ELSE UNCHANGED << gateVars, raised, acquire >>
    /\ task' = [task EXCEPT ![r] = "finish"]
    /\ cancelled' = cancelled \ {r}
    /\ UNCHANGED << must, seen, acquired, active, cancels, runtimeVars, expired, changed, settings,
                    arrived >>

OneLess(n) == IF n > 0 THEN n - 1 ELSE 0

\* stream() has its slot and waits for the lock and for maintenance to end: it
\* becomes active, or fails (cancelled, runtime not ready, maintenance too long).
Activate(r) ==
    /\ task[r] = "held"
    /\ \/ /\ r \notin cancelled /\ ~closed
          /\ task' = [task EXCEPT ![r] = "active"]
          /\ queued_requests' = OneLess(queued_requests)
          /\ active_requests' = active_requests + 1
          /\ active' = active \cup {r}
       \/ /\ task' = [task EXCEPT ![r] = "finish"]
          /\ UNCHANGED << runtimeVars, active >>
    /\ cancelled' = cancelled \ {r}
    /\ UNCHANGED << gateVars, acquire, must, seen, acquired, cancels, expired, changed,
                    settings, raised, arrived >>

\* The stream ends, fails, or is cancelled.
EndStream(r) ==
    /\ task[r] = "active"
    /\ task' = [task EXCEPT ![r] = "finish"]
    /\ cancelled' = cancelled \ {r}
    /\ UNCHANGED << gateVars, acquire, must, seen, acquired, active, cancels, runtimeVars,
                    expired, changed, settings, raised, arrived >>

\* _finish_request(), in a task of its own that nobody cancels.
FinishRequest(r) ==
    /\ task[r] = "finish"
    /\ active' = active \ {r}
    /\ IF r \in active
       THEN active_requests' = OneLess(active_requests) /\ UNCHANGED queued_requests
       ELSE queued_requests' = OneLess(queued_requests) /\ UNCHANGED active_requests
    /\ IF r \in acquired
       THEN Release /\ acquired' = acquired \ {r}
       ELSE UNCHANGED << gateVars, raised, acquired >>
    /\ task' = [task EXCEPT ![r] = "ended"]
    /\ UNCHANGED << acquire, must, seen, cancelled, cancels, expired, changed, settings,
                    arrived >>

(***************************************************************************)
(* The outside world.                                                      *)
(***************************************************************************)
Suspended == {"wait", "settle", "reap", "held", "active"}

CancelTask(r) ==
    /\ r \in Cancellable /\ task[r] \in Suspended
    /\ r \notin cancelled /\ cancels[r] < MaxCancels
    /\ cancelled' = cancelled \cup {r}
    /\ cancels' = [cancels EXCEPT ![r] = @ + 1]
    /\ UNCHANGED << gateVars, acquire, must, task, seen, acquired, active, runtimeVars, expired,
                    changed, settings, raised, arrived >>

\* r runs out of time, as long as anybody asks.
Elapse(r) ==
    /\ r \in Timed \ expired /\ task[r] \in {"idle", "wait", "settle"}
    /\ expired' = expired \cup {r}
    /\ UNCHANGED << gateVars, acquire, must, taskVars, runtimeVars, changed, settings,
                    raised, arrived >>

\* update_concurrency(): another length of the queue; waiting requests look at the
\* new timeout.
UpdateConcurrency ==
    /\ edits < MaxEdits /\ ~closed
    /\ edits' = edits + 1 /\ max_queued_requests' \in QueueLimits
    /\ expired' \in SUBSET expired
    /\ changed' = changed \cup { r \in Requests : task[r] = "wait" }
    /\ UNCHANGED << gateVars, acquire, must, taskVars, runtimeVars, raised, arrived >>

RunTask(r) ==
    \/ AcquireStart(r) \/ AcquireWake(r)
    \/ WaitReturns(r) \/ Settle(r) \/ Reap(r) \/ Activate(r) \/ EndStream(r)
    \/ FinishRequest(r)

\* Every request has ended.
AllEnded == (\A r \in Requests : task[r] = "ended") /\ UNCHANGED vars

Next ==
    \/ \E r \in Requests : RunTask(r)
    \/ \E r \in Requests : Enter(r) \/ CancelTask(r) \/ Elapse(r)
    \/ Close
    \/ \E n \in 1..Capacity : ApplyBatchCapacity(n)
    \/ UpdateConcurrency
    \/ AllEnded

Spec == Init /\ [][Next]_vars

(***************************************************************************)
(* The event loop runs every ready task, and every stream ends: its worker *)
(* finishes, fails or times out.                                           *)
(***************************************************************************)
FairSpec == Spec /\ \A r \in Requests : WF_vars(RunTask(r))

(***************************************************************************)
(* Properties                                                              *)
(***************************************************************************)
TypeOK ==
    /\ capacity \in 1..Capacity /\ granted \in Nat /\ waiters \in Seq(Requests)
    /\ closed \in BOOLEAN /\ raised \in BOOLEAN
    /\ future \in [Requests -> FutureStates]
    /\ acquire \in [Requests -> AcquireStates] /\ must \subseteq Requests
    /\ task \in [Requests -> TaskStates]
    /\ seen \in [Requests -> {"nothing", "cancelled", "acquire", "other"}]
    /\ acquired \subseteq Requests /\ active \subseteq Requests /\ cancelled \subseteq Requests
    /\ cancels \in [Requests -> 0..MaxCancels]
    /\ queued_requests \in Nat /\ active_requests \in Nat
    /\ expired \subseteq Timed /\ changed \subseteq Requests /\ edits \in 0..MaxEdits
    /\ max_queued_requests \in QueueLimits
    /\ arrived \in Seq(Requests)

\* The requests a slot of the gate has been given to and not taken back from.
Owns(r) ==
    \/ acquire[r] = "waiting" /\ future[r] = "granted"
    \/ acquire[r] = "ok"
    \/ r \in acquired
Owners == { r \in Requests : Owns(r) }

\* runtime_pool.py:254-299, 2084-2089, 2515-2522, 2251-2258: through grants that race
\* cancellations and timeouts, hand-overs and new gates, the gate counts exactly
\* the slots that requests have.
GrantsAccounted == ~closed => granted = Cardinality(Owners)

\* runtime_pool.py:234, "Admission gate for one runtime's concurrent request slots":
\* never do more requests have a slot than the gate has, not even when it is
\* closed or replaced.
CapacityRespected == Cardinality(Owners) <= capacity

\* r was cancelled and had a second reason to give up: another cancellation, or a
\* time limit.
TwoReasons(r) == cancels[r] > 1 \/ (cancels[r] > 0 /\ r \in Timed)

\* runtime_pool.py:273-275, 2086-2089, "hand it to the next waiter instead of losing
\* it": a request that ends leaves no slot behind, unless it was cancelled while it
\* was giving up for another reason.
NoSlotLost == \A r \in Owners : task[r] = "ended" => TwoReasons(r)

\* runtime_pool.py:273-275, "hand it to the next waiter instead of losing it": the
\* same without an exception.
SlotsComeBack == \A r \in Owners : task[r] # "ended"

\* runtime_pool.py:280-299: a free slot and a waiting request do not coexist.
NoIdleSlot == (\E r \in Requests : IsPending(r)) => ~closed /\ granted >= capacity

\* runtime_pool.py:289-290: release() is never called without a matching acquire().
ReleaseMatched == ~raised

\* The requests that wait for a slot, in the order in which they came.
StillWaiting == Filter(arrived, { r \in Requests : IsPending(r) })

\* runtime_pool.py:236-237, "Waiters leave in descending priority order and FIFO inside
\* one priority": sorted insertion, lazy removal of cancelled waiters and the
\* hand-over of slots that were granted too late implement the pool of slots
\* in which each one goes at once to the best of those who still wait.
Pool == INSTANCE SlotPool WITH
            Clients <- Requests, MaxSize <- Capacity,
            size <- capacity, owners <- Owners, queue <- StillWaiting, open <- ~closed
ImplementsPool == Pool!PoolSpec

\* runtime_pool.py:2041-2089, 2515-2529: every request that asks for a slot leaves the
\* server again, whoever cancels, times out or fails before it, unless requests
\* that ended have taken every slot with them (a request enters once, so this is
\* the same as that each one that waits ends).
Gone == { r \in Owners : task[r] = "ended" }
RequestsLeave ==
    <>[](\/ \A r \in Requests : task[r] \in {"idle", "ended"}
         \/ Cardinality(Gone) >= capacity)
==============================================================================
