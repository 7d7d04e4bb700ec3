------------------------------ MODULE Scheduler ------------------------------
(***************************************************************************)
(* MfqScheduler: client threads put commands into a mailbox and block on   *)
(* the reply; one loop thread owns the requests and the engine; each       *)
(* request has a bounded outbox that its consumer drains with wait().      *)
(*                                                                         *)
(* The loop thread is a sequence of atomic steps, cut wherever another     *)
(* thread can get in between: at the mailbox mutex, and at each outbox     *)
(* mutex.  The bounded sleep at the end of an iteration is a stuttering    *)
(* step.  Times are abstracted to the set of deadlines that have passed.   *)
(* snapshot_, which the loop only writes, is in SchedulerSnapshot.         *)
(***************************************************************************)
EXTENDS RequestExecutor, Lists

CONSTANTS
    SessionOf,       \* [Streams -> sessions]; "" is a request without session
    Priority,        \* [Streams -> Int]
    Deadlined,       \* the streams submitted with a deadline
    EventLimit,      \* limits_.events
    ByteLimit,       \* limits_.bytes
    TerminalReserve, \* terminal_reserve
    Calls,           \* the calls clients may make, each at most once
    Alternatives     \* bound: calls of which clients make only one

Budget == ByteLimit - TerminalReserve

ControlKinds == { "plain", "score", "duplex_start", "duplex_step", "duplex_stop" }
SessionKinds == { "fork", "close", "clear", "trim", "budget", "refresh",
                  "memory_budget", "metrics" }

CallType ==
    [op : {"submit"}, stream : Streams]
    \cup [op : {"cancel"}, by : {"id", "session", "all"}, key : STRING]
    \cup [op : {"control"}, kind : ControlKinds]
    \cup [op : {"session"}, kind : SessionKinds, source : STRING, target : STRING]
    \cup [op : {"status", "reload"}]

ASSUME SchedulerAssumption ==
    /\ SessionOf \in [Streams -> STRING]
    /\ Priority \in [Streams -> Int]
    /\ Deadlined \subseteq Streams
    /\ EventLimit \in Nat /\ EventLimit >= 4
    /\ TerminalReserve \in Nat /\ TerminalBytes <= TerminalReserve
    /\ ByteLimit \in Nat /\ UsageBytes <= Budget
    /\ Calls \subseteq CallType

VARIABLES
    \* under the scheduler's mutex
    mailbox,    \* mailbox_
    stopping,   \* stopping_
    call,       \* [Calls -> CallState]: what the client of each call knows
    \* owned by the loop thread
    pc, commands, stop, healthy, duplex,
    reload,     \* {} or the set of the one reload that is pending
    live,       \* the keys of requests_
    order,      \* order_
    todo,       \* requests the scan has not reached yet
    blocked,    \* admission_blocked
    eligible,
    fault,      \* the exception that ended the iteration's try block
    \* requests and outboxes
    req,        \* [Streams -> Request]
    got,        \* [Streams -> what the consumer has read]
    expired     \* the deadlines that have passed

loopVars == << pc, commands, stop, reload, healthy, duplex, live, order, todo,
               blocked, eligible, fault >>
clientVars == << mailbox, stopping, call >>
vars == << clientVars, loopVars, executorVars, req, got, expired >>

CallState == {"idle", "sent", "ok", "error", "refused"}
None == "none"
Failures == {None, "deadline_exceeded", "output_limit"}

\* MfqScheduler::Request with its MfqScheduledRequest.  interrupted is history:
\* cancel() has been called on this request, whatever it then did.
Request ==
    [admitted : BOOLEAN, cancelling : BOOLEAN, finished : BOOLEAN,
     failure : Failures, pending : Seq(Event),
     events : Seq(Event), bytes : Nat, terminal : BOOLEAN,
     interrupted : BOOLEAN]

NewRequest ==
    [admitted |-> FALSE, cancelling |-> FALSE, finished |-> FALSE,
     failure |-> None, pending |-> <<>>,
     events |-> <<>>, bytes |-> 0, terminal |-> FALSE, interrupted |-> FALSE]

Init ==
    /\ ExecutorInit
    /\ mailbox = <<>> /\ stopping = FALSE
    /\ call = [c \in Calls |-> "idle"]
    /\ pc = "swap" /\ commands = <<>> /\ stop = FALSE
    /\ reload = {} /\ healthy = TRUE /\ duplex = FALSE
    /\ live = {} /\ order = <<>>
    /\ todo = {} /\ blocked = FALSE /\ eligible = {} /\ fault = None
    /\ req = [r \in Streams |-> NewRequest]
    /\ got = [r \in Streams |-> [seq |-> 0, end |-> None]]
    /\ expired = {}

(***************************************************************************)
(* The outbox: publish(), flush(), cancel() and expire() on one request q. *)
(* A terminal event fits whatever the outbox holds: one event slot and     *)
(* TerminalReserve bytes are kept free for it.                             *)
(***************************************************************************)
\* Mutant: values may take the bytes the terminal needs.
FitsUnreserved(q, e) ==
    \/ IsEnd(e)
    \/ Len(q.events) < EventLimit - 1 /\ q.bytes + e.bytes <= ByteLimit

Fits(q, e) ==
    \/ IsEnd(e)
    \/ Len(q.events) < EventLimit - 1 /\ q.bytes + e.bytes <= Budget

Deliver(q, e) ==
    [q EXCEPT !.events = Append(@, e), !.bytes = @ + e.bytes, !.terminal = IsEnd(e)]

Withhold(q, e) == [q EXCEPT !.pending = Append(@, e)]

PublishEnd(q, e) ==
    LET end == IF q.failure = None THEN e ELSE [e EXCEPT !.kind = q.failure]
        f == [q EXCEPT !.finished = TRUE]
    IN  IF q.terminal THEN q
        ELSE IF q.pending = <<>> THEN Deliver(f, end) ELSE Withhold(f, end)

\* Mutant: a request that has finished is left to its consumer.
CancelUnlessFinished(q, r) ==
    LET i == [q EXCEPT !.interrupted = TRUE]
        c == [i EXCEPT !.cancelling = TRUE, !.pending = <<>>]
    IN  IF q.finished \/ q.cancelling THEN i
        ELSE IF q.admitted THEN c
        ELSE PublishEnd(c, End(r, "cancelled"))

Cancel(q, r) ==
    LET i == [q EXCEPT !.interrupted = TRUE]
        c == [i EXCEPT !.cancelling = TRUE, !.pending = <<>>]
    IN  IF q.finished
        THEN IF q.pending = <<>> THEN i
             ELSE PublishEnd([i EXCEPT !.pending = <<>>], q.pending[Len(q.pending)])
        ELSE IF q.cancelling THEN i
        ELSE IF q.admitted THEN c
        ELSE PublishEnd(c, End(r, "cancelled"))

\* cancel() tells the engine only about an admitted request it has not yet
\* told it about.
TellsEngine(q) == ~q.finished /\ ~q.cancelling /\ q.admitted

\* Mutant: a client's cancellation does not come first.
ExpireAnyway(q, r) ==
    IF q.finished THEN q ELSE Cancel([q EXCEPT !.failure = "deadline_exceeded"], r)

Expire(q, r) ==
    IF q.cancelling \/ q.finished THEN q
    ELSE Cancel([q EXCEPT !.failure = "deadline_exceeded"], r)

\* Mutant: a value that fits overtakes the ones that wait.
PublishValueOvertaking(q, e, r) ==
    IF q.terminal \/ q.failure # None THEN q
    ELSE IF e.bytes > Budget THEN Cancel([q EXCEPT !.failure = "output_limit"], r)
    ELSE IF Fits(q, e) THEN Deliver(q, e)
    ELSE Withhold(q, e)

PublishValue(q, e, r) ==
    IF q.terminal \/ q.failure # None THEN q
    ELSE IF e.bytes > Budget THEN Cancel([q EXCEPT !.failure = "output_limit"], r)
    ELSE IF q.pending = <<>> /\ Fits(q, e) THEN Deliver(q, e)
    ELSE Withhold(q, e)

\* publish() of a value that outgrows the whole outbox cancels the request.
Overflows(q, e) ==
    ~IsEnd(e) /\ ~q.terminal /\ q.failure = None /\ e.bytes > Budget

Publish(q, e, r) == IF IsEnd(e) THEN PublishEnd(q, e) ELSE PublishValue(q, e, r)

\* The engine is told to cancel the admitted ones of S that are not yet
\* cancelling; every request of S is cancelled.
CancelAll(S) ==
    /\ req' = [r \in Streams |-> IF r \in S THEN Cancel(req[r], r) ELSE req[r]]
    /\ aborted' = CancelledWith({ r \in S : TellsEngine(req[r]) })

(***************************************************************************)
(* Client threads.  A call is put into the mailbox, or throws when the     *)
(* scheduler is stopping; its thread then blocks until the loop replies.   *)
(***************************************************************************)

\* Mutant: stopping_ is not looked at.
EnqueueAlways(c) ==
    /\ call[c] = "idle"
    /\ call' = [call EXCEPT ![c] = "sent"] /\ mailbox' = Append(mailbox, c)
    /\ UNCHANGED << stopping, loopVars, executorVars, req, got, expired >>

Enqueue(c) ==
    /\ call[c] = "idle"
    /\ c \in Alternatives => \A d \in Calls \cap Alternatives : call[d] = "idle"
    /\ IF stopping
       THEN call' = [call EXCEPT ![c] = "refused"] /\ UNCHANGED mailbox
       ELSE call' = [call EXCEPT ![c] = "sent"] /\ mailbox' = Append(mailbox, c)
    /\ UNCHANGED << stopping, loopVars, executorVars, req, got, expired >>

\* shutdown(): the destructor of the scheduler, which then joins the loop.
Shutdown ==
    /\ ~stopping
    /\ stopping' = TRUE
    /\ UNCHANGED << mailbox, call, loopVars, executorVars, req, got, expired >>

\* A deadline passes.
Elapse(r) ==
    /\ r \in Deadlined \ expired
    /\ expired' = expired \cup {r}
    /\ UNCHANGED << clientVars, loopVars, executorVars, req, got >>

\* The next request in the scan: stable_sort of order_ by descending priority.
Position(r) == CHOOSE i \in DOMAIN order : order[i] = r

\* Mutant: the requests are not sorted by priority.
PrecedesUnsorted(r, t) == Position(r) < Position(t)

Precedes(r, t) ==
    \/ Priority[r] > Priority[t]
    \/ Priority[r] = Priority[t] /\ Position(r) < Position(t)
IsCurrent(r) == r \in todo /\ \A t \in todo \ {r} : Precedes(r, t)

\* Flush() below keeps the outbox mutex of its request while it runs.
Locked(r) == pc = "flush" /\ IsCurrent(r)

\* MfqScheduledRequest::wait() by the thread submit() returned the outbox to.
Wait(r) ==
    LET q == req[r]
        values == { i \in DOMAIN q.events : ~IsEnd(q.events[i]) }
    IN  /\ \E c \in Calls : c.op = "submit" /\ c.stream = r /\ call[c] = "ok"
        /\ q.events # <<>>
        /\ ~Locked(r)
        /\ got' = [got EXCEPT ![r] =
              [seq |-> IF values = {} THEN @.seq
                       ELSE q.events[CHOOSE i \in values : \A j \in values : j <= i].seq,
               end |-> IF q.terminal THEN q.events[Len(q.events)].kind ELSE @.end]]
        /\ req' = [req EXCEPT ![r].events = <<>>, ![r].bytes = 0]
        /\ UNCHANGED << clientVars, loopVars, executorVars, expired >>

(***************************************************************************)
(* The loop thread, part one: the mailbox.  Exactly one critical section   *)
(* takes the commands and reads stopping_.                                 *)
(***************************************************************************)
Swap ==
    /\ pc = "swap"
    /\ commands' = mailbox /\ mailbox' = <<>>
    /\ stop' = stopping
    /\ pc' = "command"
    /\ UNCHANGED << stopping, call, reload, healthy, duplex, live, order, todo,
                    blocked, eligible, fault, executorVars, req, got, expired >>

Take(op) ==
    /\ pc = "command" /\ commands # <<>> /\ Head(commands).op = op
    /\ commands' = Tail(commands)
    /\ UNCHANGED << mailbox, stopping, pc, stop, todo, blocked, eligible, fault,
                    got, expired >>

\* Mutant: an exception is logged and the promise is left unset.
ReplyOnSuccess(answer) ==
    IF answer = "ok" THEN call' = [call EXCEPT ![Head(commands)] = "ok"]
    ELSE UNCHANGED call

Reply(answer) == call' = [call EXCEPT ![Head(commands)] = answer]

\* Mutants: the ID, the session or the duplex session is not checked.
AcceptsAnyId(r) ==
    /\ ~stop /\ healthy /\ reload = {} /\ ~duplex
    /\ SessionOf[r] # "" => \A t \in live : SessionOf[t] # SessionOf[r]
AcceptsAnySession(r) ==
    /\ ~stop /\ healthy /\ reload = {} /\ ~duplex
    /\ \A t \in live : IdOf[t] # IdOf[r]
AcceptsInDuplex(r) ==
    /\ ~stop /\ healthy /\ reload = {}
    /\ \A t \in live : IdOf[t] # IdOf[r]
    /\ SessionOf[r] # "" => \A t \in live : SessionOf[t] # SessionOf[r]

Accepts(r) ==
    /\ ~stop /\ healthy /\ reload = {} /\ ~duplex
    /\ \A t \in live : IdOf[t] # IdOf[r]
    /\ SessionOf[r] # "" => \A t \in live : SessionOf[t] # SessionOf[r]

Submit ==
    /\ Take("submit")
    /\ LET r == Head(commands).stream
       IN  IF Accepts(r)
           THEN live' = live \cup {r} /\ order' = Append(order, r) /\ Reply("ok")
           ELSE Reply("error") /\ UNCHANGED << live, order >>
    /\ UNCHANGED << reload, healthy, duplex, executorVars, req >>

Matches(c, r) ==
    \/ c.by = "all"
    \/ c.by = "session" /\ SessionOf[r] = c.key
    \/ c.by = "id" /\ IdOf[r] = c.key

CancelCommand ==
    /\ Take("cancel")
    /\ CancelAll({ r \in live : Matches(Head(commands), r) })
    /\ Reply("ok")
    /\ UNCHANGED << reload, healthy, duplex, live, order,
                    running, flushed, quanta, produced, emitted, engine >>

\* What a call into the engine from a command may do: succeed, throw, or throw
\* MfqBackendFailure, which marks the scheduler unhealthy.
EngineCall(loaded) ==
    \/ loaded /\ Reply("ok") /\ UNCHANGED healthy
    \/ /\ ~loaded \/ "control" \in Faults
       /\ Reply("error") /\ UNCHANGED healthy
    \/ "control_backend" \in Faults /\ Reply("error") /\ healthy' = FALSE

ControlConflict(kind) ==
    \/ kind = "score" /\ (duplex \/ live # {})
    \/ reload # {}
    \/ kind \in {"duplex_start", "duplex_step", "duplex_stop"} /\ live # {}

Control ==
    /\ Take("control")
    /\ LET kind == Head(commands).kind
       IN  \/ /\ ControlConflict(kind)
              /\ Reply("error") /\ UNCHANGED << healthy, duplex >>
           \/ /\ ~ControlConflict(kind)
              /\ EngineCall(engine # "unloaded")
              /\ duplex' = IF call'[Head(commands)] # "ok" THEN duplex
                           ELSE IF kind = "duplex_start" THEN TRUE
                           ELSE IF kind = "duplex_stop" THEN FALSE
                           ELSE duplex
    /\ UNCHANGED << reload, live, order, executorVars, req >>

\* A close names no target, so its target is the empty session.
SessionConflict(c) ==
    /\ c.kind # "metrics"
    /\ \/ duplex
       \/ reload # {}
       \/ c.kind \in {"clear", "memory_budget", "refresh"} /\ live # {}
       \/ /\ c.kind \in {"fork", "close"}
          /\ \E r \in live : SessionOf[r] \in {c.source, c.target}

Session ==
    /\ Take("session")
    /\ \/ /\ SessionConflict(Head(commands))
          /\ Reply("error") /\ UNCHANGED healthy
       \/ /\ ~SessionConflict(Head(commands))
          /\ EngineCall(/\ engine # "unloaded"
                        /\ Head(commands).kind = "memory_budget" => running = {})
    /\ UNCHANGED << reload, duplex, live, order, executorVars, req >>

Status ==
    /\ Take("status")
    /\ Reply("ok")
    /\ UNCHANGED << reload, healthy, duplex, live, order, executorVars, req >>

\* A reload first stops a duplex session, then cancels every request, and is
\* carried out at the end of the first iteration that leaves no request.
ReloadCommand ==
    /\ Take("reload")
    /\ \/ /\ reload # {}
          /\ Reply("error") /\ UNCHANGED << reload, healthy, duplex, req, aborted >>
       \/ /\ reload = {}
          /\ ~duplex \/ engine # "unloaded"
          /\ duplex' = FALSE
          /\ reload' = {Head(commands)}
          /\ CancelAll(live)
          /\ UNCHANGED << call, healthy >>
       \/ /\ reload = {} /\ duplex
          /\ \/ (engine = "unloaded" \/ "control" \in Faults) /\ UNCHANGED healthy
             \/ "control_backend" \in Faults /\ healthy' = FALSE
          /\ Reply("error")
          /\ UNCHANGED << reload, duplex, req, aborted >>
    /\ UNCHANGED << live, order, running, flushed, quanta, produced, emitted, engine >>

(***************************************************************************)
(* Part two: the scan.  For each request in order: flush its outbox, then  *)
(* cancel or expire it, or admit it, or see whether it may run.            *)
(***************************************************************************)
BeginScan ==
    /\ pc = "command" /\ commands = <<>>
    /\ pc' = "flush" /\ todo' = live /\ blocked' = FALSE /\ eligible' = {}
    /\ UNCHANGED << clientVars, commands, stop, reload, healthy, duplex, live,
                    order, fault, executorVars, req, got, expired >>

Flush(r) ==
    /\ Locked(r)
    /\ LET q == req[r]
       IN  IF q.pending # <<>> /\ Fits(q, q.pending[1])
           THEN /\ req' = [req EXCEPT ![r] =
                     Deliver([q EXCEPT !.pending = Tail(@)], q.pending[1])]
                /\ UNCHANGED pc
           ELSE pc' = "examine" /\ UNCHANGED req
    /\ UNCHANGED << clientVars, commands, stop, reload, healthy, duplex, live, order,
                    todo, blocked, eligible, fault, executorVars, got, expired >>

Examining(r) == pc = "examine" /\ IsCurrent(r)
Interrupted == stop \/ ~healthy

Swept(r) ==
    IF Interrupted THEN Cancel(req[r], r)
    ELSE IF r \in expired THEN Expire(req[r], r)
    ELSE req[r]
Ending(r) == Swept(r).finished \/ Swept(r).cancelling

\* Mutant: one slot too many is reserved.
HasRoomForFour(q) ==
    /\ q.pending = <<>> /\ ~q.terminal
    /\ Len(q.events) + 4 < EventLimit
    /\ q.bytes < Budget \div 2

\* Reserve one quantum and the terminal's slot.
HasRoom(q) ==
    /\ q.pending = <<>> /\ ~q.terminal
    /\ Len(q.events) + 3 < EventLimit
    /\ q.bytes < Budget \div 2

Scanned(r) ==
    /\ todo' = todo \ {r}
    /\ UNCHANGED << clientVars, commands, stop, reload, healthy, duplex, live, order,
                    got, expired >>

ExamineEnding(r) ==
    /\ Examining(r) /\ Ending(r)
    /\ req' = [req EXCEPT ![r] = Swept(r)]
    /\ aborted' = CancelledWith(IF Swept(r) # req[r] /\ TellsEngine(req[r])
                                THEN {r} ELSE {})
    /\ pc' = "flush"
    /\ Scanned(r)
    /\ UNCHANGED << blocked, eligible, fault, running, flushed, quanta, produced,
                    emitted, engine >>

AttemptsAdmission(r) ==
    ~req[r].admitted /\ reload = {} /\ ~blocked /\ Available > 0

ExamineOngoing(r) ==
    /\ Examining(r) /\ ~Ending(r) /\ ~AttemptsAdmission(r)
    /\ eligible' = IF req[r].admitted /\ HasRoom(req[r])
                   THEN eligible \cup {r} ELSE eligible
    /\ pc' = "flush"
    /\ Scanned(r)
    /\ UNCHANGED << blocked, fault, executorVars, req >>

AdmitAccepted(r) ==
    /\ Examining(r) /\ ~Ending(r) /\ AttemptsAdmission(r)
    /\ Admit(r)
    /\ req' = [req EXCEPT ![r].admitted = TRUE]
    /\ eligible' = IF HasRoom(req[r]) THEN eligible \cup {r} ELSE eligible
    /\ pc' = "flush"
    /\ Scanned(r)
    /\ UNCHANGED << blocked, fault >>

AdmitDeferred(r) ==
    /\ Examining(r) /\ ~Ending(r) /\ AttemptsAdmission(r)
    /\ ~Duplicate(r) /\ Defers(r)
    /\ blocked' = TRUE
    /\ pc' = "flush"
    /\ Scanned(r)
    /\ UNCHANGED << eligible, fault, executorVars, req >>

\* The input is invalid, or preparing it failed: the request ends.
AdmitRejected(r) ==
    /\ Examining(r) /\ ~Ending(r) /\ AttemptsAdmission(r)
    /\ Duplicate(r) \/ (~Defers(r) /\ "admit" \in Faults)
    /\ req' = [req EXCEPT ![r] = PublishEnd(@, End(r, "failed"))]
    /\ pc' = "flush"
    /\ Scanned(r)
    /\ UNCHANGED << blocked, eligible, fault, executorVars >>

\* A backend failure, or an exception that is not a std::exception, leaves the
\* scan for the handlers at the end of the iteration.
AdmitThrows(r) ==
    /\ Examining(r) /\ ~Ending(r) /\ AttemptsAdmission(r)
    /\ ~Duplicate(r) /\ ~Defers(r)
    /\ fault' \in { k \in {"admit_backend", "admit_unknown"} : k \in Faults }
    /\ pc' = "recover"
    /\ Scanned(r)
    /\ UNCHANGED << blocked, eligible, executorVars, req >>

EndScan ==
    /\ pc = "flush" /\ todo = {}
    /\ pc' = "step"
    /\ UNCHANGED << clientVars, commands, stop, reload, healthy, duplex, live, order,
                    todo, blocked, eligible, fault, executorVars, req, got, expired >>

(***************************************************************************)
(* Part three: one engine step, its events published one at a time, and    *)
(* the exception handlers.                                                 *)
(***************************************************************************)
\* Mutant: a cancelled request is not run to its end.
WindingNone == {}

Winding == { r \in live : req[r].cancelling /\ req[r].admitted /\ ~req[r].finished }
Executable == eligible # {} \/ Winding # {}

StepFaults == {"step", "step_backend"} \cap Faults

EngineStep ==
    /\ pc = "step"
    /\ \/ Executable /\ Step(eligible, aborted, TRUE) /\ pc' = "publish" /\ UNCHANGED fault
       \/ ~Executable /\ pc' = "erase" /\ UNCHANGED << fault, executorVars >>
       \/ Executable /\ fault' \in StepFaults /\ pc' = "recover" /\ UNCHANGED executorVars
    /\ UNCHANGED << clientVars, commands, stop, reload, healthy, duplex, live, order,
                    todo, blocked, eligible, req, got, expired >>

\* An event goes to the request that is active under its ID, if there is one.
PublishNext(s) ==
    /\ pc = "publish" /\ emitted[s] # <<>>
    /\ LET e == emitted[s][1]
           target == { r \in live : IdOf[r] = IdOf[s] }
       IN  /\ req' = [r \in Streams |-> IF r \in target THEN Publish(req[r], e, r)
                                        ELSE req[r]]
           /\ aborted' = CancelledWith({ r \in target :
                             Overflows(req[r], e) /\ TellsEngine(req[r]) })
    /\ emitted' = [emitted EXCEPT ![s] = Tail(@)]
    /\ UNCHANGED << clientVars, loopVars, running, flushed, quanta, produced, engine,
                    got, expired >>

EndPublish ==
    /\ pc = "publish" /\ emitted = NoEvents
    /\ IF engine = "healthy" THEN pc' = "erase" /\ UNCHANGED fault
       ELSE pc' = "recover" /\ fault' = "unhealthy"
    /\ UNCHANGED << clientVars, commands, stop, reload, healthy, duplex, live, order,
                    todo, blocked, eligible, executorVars, req, got, expired >>

\* Mutant: a finished request whose terminal still waits is failed as well.
FailAll ==
    req' = [r \in Streams |-> IF r \in live
                              THEN PublishEnd(req[r], End(r, "failed")) ELSE req[r]]

FailUnfinished ==
    req' = [r \in Streams |-> IF r \in live /\ ~req[r].finished
                              THEN PublishEnd(req[r], End(r, "failed")) ELSE req[r]]

\* catch (const std::exception&): cancel whatever was admitted, give the engine
\* one step to tear it down (its events are dropped), then fail the requests.
Recover ==
    /\ pc = "recover" /\ fault # "admit_unknown"
    /\ LET ab == CancelledWith({ r \in live : req[r].admitted })
       IN  \/ /\ Step({}, ab, FALSE)
              /\ healthy' = (/\ healthy
                             /\ fault \notin {"admit_backend", "step_backend"}
                             /\ engine = "healthy" /\ engine' = "healthy")
           \/ /\ StepFaults # {}
              /\ aborted' = ab /\ healthy' = FALSE
              /\ UNCHANGED << running, flushed, quanta, produced, emitted, engine >>
    /\ FailUnfinished
    /\ fault' = None /\ pc' = "erase"
    /\ UNCHANGED << clientVars, commands, stop, reload, duplex, live, order, todo,
                    blocked, eligible, got, expired >>

\* catch (...): the engine is not run again.
RecoverUnknown ==
    /\ pc = "recover" /\ fault = "admit_unknown"
    /\ healthy' = FALSE
    /\ FailUnfinished
    /\ fault' = None /\ pc' = "erase"
    /\ UNCHANGED << clientVars, commands, stop, reload, duplex, live, order, todo,
                    blocked, eligible, executorVars, got, expired >>

(***************************************************************************)
(* Part four: drop the requests whose terminal event is in the outbox,     *)
(* carry out a pending reload, rotate the order, leave when stopping.      *)
(***************************************************************************)

Remaining == { r \in live : ~req[r].terminal }

\* Mutant: the first request is not taken off.
RotateCopy(s) == IF s = <<>> THEN s ELSE Append(s, Head(s))

Rotate(s) == IF s = <<>> THEN s ELSE Append(Tail(s), Head(s))

FinishReload ==
    IF reload = {} \/ Remaining # {}
    THEN UNCHANGED << call, reload, healthy, executorVars >>
    ELSE /\ reload' = {}
         /\ \/ ReloadSucceeds /\ healthy' = TRUE
               /\ call' = [c \in Calls |-> IF c \in reload THEN "ok" ELSE call[c]]
            \/ ReloadFails /\ healthy' = FALSE
               /\ call' = [c \in Calls |-> IF c \in reload THEN "error" ELSE call[c]]

Erase ==
    /\ pc = "erase"
    /\ live' = Remaining
    /\ order' = Rotate(Filter(order, Remaining))
    /\ FinishReload
    /\ pc' = IF stop /\ Remaining = {} THEN "exit" ELSE "swap"
    /\ todo' = {} /\ eligible' = {} /\ blocked' = FALSE
    /\ UNCHANGED << mailbox, stopping, commands, stop, duplex, fault, req, got,
                    expired >>

Exit ==
    /\ pc = "exit"
    /\ EngineShutdown
    /\ pc' = "done"
    /\ UNCHANGED << clientVars, commands, stop, reload, healthy, duplex, live, order,
                    todo, blocked, eligible, fault, req, got, expired >>

Scan(r) ==
    \/ Flush(r) \/ ExamineEnding(r) \/ ExamineOngoing(r)
    \/ AdmitAccepted(r) \/ AdmitDeferred(r) \/ AdmitRejected(r) \/ AdmitThrows(r)

Loop ==
    \/ Swap
    \/ Submit \/ CancelCommand \/ Control \/ Session \/ Status \/ ReloadCommand
    \/ BeginScan \/ (\E r \in Streams : Scan(r)) \/ EndScan
    \/ EngineStep \/ (\E s \in Streams : PublishNext(s)) \/ EndPublish
    \/ Recover \/ RecoverUnknown
    \/ Erase \/ Exit

\* The scheduler has stopped: nothing is left to do.
Stopped == pc = "done" /\ UNCHANGED vars

Next ==
    \/ Loop
    \/ \E c \in Calls : Enqueue(c)
    \/ \E r \in Streams : Wait(r) \/ Elapse(r)
    \/ Shutdown
    \/ Stopped

Spec == Init /\ [][Next]_vars

(***************************************************************************)
(* Fairness.  The loop thread always runs on: its only wait is bounded to  *)
(* 10 ms.  A consumer may stop reading at any time, so that it drains its  *)
(* outbox is an assumption only some properties make; it is strong because *)
(* the loop takes the outbox mutex again and again.                        *)
(***************************************************************************)
LoopFairness == WF_vars(Loop)
ConsumerFairness == \A r \in Streams : SF_vars(Wait(r))

LoopSpec == Spec /\ LoopFairness
FairSpec == Spec /\ LoopFairness /\ ConsumerFairness

(***************************************************************************)
(* Properties                                                              *)
(***************************************************************************)
PcValues == { "swap", "command", "flush", "examine", "step", "publish", "recover",
              "erase", "exit", "done" }

\* Type correctness of the loop's state, the requests and the executor
\* (OrderMatchesRequests types order).
TypeOK ==
    /\ running \subseteq Streams /\ aborted \subseteq running /\ flushed \subseteq running
    /\ quanta \in [Streams -> Nat] /\ produced \in [Streams -> Nat]
    /\ emitted \in [Streams -> Seq(Event)]
    /\ engine \in {"healthy", "failed", "unloaded"}
    /\ mailbox \in Seq(Calls) /\ commands \in Seq(Calls)
    /\ stopping \in BOOLEAN /\ stop \in BOOLEAN
    /\ call \in [Calls -> CallState]
    /\ pc \in PcValues /\ healthy \in BOOLEAN /\ duplex \in BOOLEAN
    /\ reload \subseteq Calls
    /\ live \subseteq Streams
    /\ todo \subseteq live /\ eligible \subseteq live /\ blocked \in BOOLEAN
    /\ fault \in FaultKinds \cup {None, "unhealthy"}
    /\ req \in [Streams -> Request]
    /\ got \in [Streams -> [seq : Nat, end : EndKinds \cup {None}]]
    /\ expired \subseteq Deadlined

\* scheduler.cpp:180-193, 203-207: whatever mix of values, terminals, flushes
\* and late drains reaches an outbox, it never holds more events or more bytes
\* than limits_, although a terminal is delivered without looking at the room.
OutboxBounded ==
    \A r \in Streams : Len(req[r].events) <= EventLimit /\ req[r].bytes <= ByteLimit

Unread(r) == req[r].events \o req[r].pending

\* scheduler.cpp:166-194, 213-218: a request ends once.  Nothing follows its
\* terminal event in the outbox, in pending, or after the consumer has read it,
\* and the events a stream receives are its own, even under a reused ID.
EndsOnce ==
    \A r \in Streams : LET q == req[r] IN
        /\ \A i \in DOMAIN q.events :
              q.events[i].of = r /\ (IsEnd(q.events[i]) => i = Len(q.events) /\ q.terminal)
        /\ \A i \in DOMAIN q.pending :
              q.pending[i].of = r /\ (IsEnd(q.pending[i]) => i = Len(q.pending))
        /\ q.terminal => q.pending = <<>>
        /\ got[r].end # None => q.terminal /\ q.events = <<>>

\* scheduler.cpp:186-210: back-pressure reorders nothing and, unless cancel() was
\* called on the request, loses nothing: the consumer reads the values 1, 2, 3...
\* without a gap, and a request that completes has handed over all of them.
NothingLost ==
    \A r \in Streams : LET u == Unread(r)
                          values == { i \in DOMAIN u : ~IsEnd(u[i]) } IN
        /\ \A i \in values : /\ u[i].seq > got[r].seq
                              /\ \A j \in values : j < i => u[j].seq < u[i].seq
        /\ ~req[r].interrupted =>
              /\ \A i \in values : u[i].seq = got[r].seq + i
              /\ (u # <<>> /\ u[Len(u)].kind = "completed")
                    => got[r].seq + Len(u) - 1 = produced[r]
              /\ got[r].end = "completed" => got[r].seq = produced[r]

\* scheduler.cpp:212-227, 340: once cancel() took hold of an unfinished request it
\* never reports success: its terminal is a cancellation or a failure, although
\* the engine runs it on and may be about to complete it.
CancelSticks ==
    \A r \in Streams : req[r].cancelling =>
        /\ got[r].end # "completed"
        /\ \A i \in DOMAIN Unread(r) : Unread(r)[i].kind # "completed"

ReportsDeadline(r) ==
    \/ got[r].end = "deadline_exceeded"
    \/ \E i \in DOMAIN Unread(r) : Unread(r)[i].kind = "deadline_exceeded"

\* scheduler.cpp:228-235, "A cancel that already owns the request keeps its own
\* terminal event": however long the engine takes to wind the request down, and
\* whatever deadline passes meanwhile, the client is not told of a timeout.
CancelOwnsEnd ==
    \A r \in Streams : [](req[r].cancelling /\ req[r].failure # "deadline_exceeded"
                          => []~ReportsDeadline(r))

\* docs/runtime/transport.md:42-43, request_executor.h:170-176: a request is
\* finished for the scheduler only after the executor destroyed its coroutine.
\* The recovery step gives each cancelled coroutine only one quantum; that is
\* enough because a request that could need two never shares the executor.
TeardownFirst == \A r \in Streams : req[r].finished => r \notin running

\* scheduler.cpp:253-257: the executor never runs two requests of one session or
\* of one ID at once, although both are released when the terminal is published
\* and not when the coroutine is destroyed.
RunningDistinct ==
    \A r, t \in running : r # t =>
        IdOf[r] # IdOf[t] /\ (SessionOf[r] = SessionOf[t] => SessionOf[r] = "")

\* request_executor.h:69-72, 81: a request that cannot be batched runs alone.
RunsAlone == \A s \in running : s \in Batchable \/ running = {s}

\* scheduler.cpp:251, 275-281: a duplex session has the engine for itself.
DuplexExclusive == duplex => live = {} /\ running = {}

\* scheduler.cpp:328-334, 411-425: order_ lists the active requests, each once, so
\* requests_.at(id) finds its request (it would throw inside a noexcept loop).
OrderMatchesRequests ==
    /\ order \in Seq(Streams)
    /\ { order[i] : i \in DOMAIN order } = live
    /\ \A i, j \in DOMAIN order : order[i] = order[j] => i = j

\* scheduler.cpp:417-419, request_executor.h:244: when the scheduler carries out a
\* reload the engine is quiescent, so a reload is not refused for being busy.
ReloadQuiescent == pc = "erase" /\ reload # {} /\ Remaining = {} => running = {}

\* scheduler.cpp:71-76, 244, 426: when the loop has left, every caller has its
\* answer: no command was put into the mailbox after it was emptied for good.
NoCallerAbandoned ==
    pc = "done" => mailbox = <<>> /\ \A c \in Calls : call[c] # "sent"

Waiting(r) == r \in live /\ ~req[r].admitted /\ ~req[r].cancelling /\ ~req[r].finished

\* scheduler.cpp:329-345: no request is admitted over a waiting one of higher
\* priority, whichever order they were submitted and rotated in.
PriorityRespected ==
    [][\A r \in Streams : ~req[r].admitted /\ req'[r].admitted =>
          \A t \in Streams : Waiting(t) => Priority[t] <= Priority[r]]_vars

\* mfq_runtime_transport_test.cpp:432-439, "shutdown must not wait for the consumer to
\* drain": the loop ends after shutdown() even if nobody reads an outbox again, and also
\* when a terminal waits in pending behind values that do not fit.
ShutdownCompletes == stopping ~> pc = "done"

\* docs/runtime/transport.md:34-35: a paused consumer does not block the health and
\* cancellation controls: every call but a reload is answered by the loop alone.
CallsAnswered ==
    \A c \in Calls : c.op # "reload" => (call[c] = "sent" ~> call[c] # "sent")

\* scheduler.cpp:312, 417-424: a reload is answered.
ReloadAnswered ==
    \A c \in Calls : c.op = "reload" => (call[c] = "sent" ~> call[c] # "sent")

\* scheduler.cpp:163-235: every accepted request ends, and its consumer learns how.
RequestsEnd == \A r \in Streams : r \in live ~> got[r].end # None

\* scheduler.cpp:367-368, "Reserve one quantum and a separate terminal slot. No wait or
\* consumer acknowledgement occurs on the execution thread", and transport.md:34-35, "a
\* paused consumer bounds native work without blocking health or cancellation controls": a
\* cancelled request ends even if its consumer reads nothing more.
CancelCompletes == \A r \in Streams : req[r].cancelling ~> req[r].terminal

(***************************************************************************)
(* The inductive invariant behind the safety properties.  It holds when no *)
(* exception leaves a coroutine behind in the executor: Engine::step()     *)
(* itself does not throw, and nothing but std::exceptions leaves admit().  *)
(***************************************************************************)
NoOrphans == Faults \cap {"step", "step_backend", "admit_unknown"} = {}

\* One request and its outbox: what is in it is its own, a terminal comes last,
\* and until it is there an event slot and TerminalReserve bytes are free.
OutboxInv(q, r) ==
    /\ \A i \in DOMAIN q.events :
          q.events[i].of = r /\ (IsEnd(q.events[i]) => i = Len(q.events) /\ q.terminal)
    /\ \A i \in DOMAIN q.pending :
          q.pending[i].of = r /\ (IsEnd(q.pending[i]) => i = Len(q.pending) /\ q.finished)
    /\ Len(q.events) <= IF q.terminal THEN EventLimit ELSE EventLimit - 1
    /\ q.bytes <= IF q.terminal THEN ByteLimit ELSE Budget
    /\ q.terminal => /\ q.pending = <<>> /\ q.finished
                     /\ q.events # <<>> => IsEnd(q.events[Len(q.events)])
    /\ q.finished /\ ~q.terminal =>
          q.pending # <<>> /\ IsEnd(q.pending[Len(q.pending)])

\* What the executor holds, the scheduler still waits for; the events of a step
\* belong to requests that have not finished, and their terminal comes last.
ExecutorInv ==
    /\ \A s \in running : s \in live /\ req[s].admitted /\ ~req[s].finished
    /\ \A s \in Streams : emitted[s] # <<>> =>
          pc = "publish" /\ s \in live /\ req[s].admitted /\ ~req[s].finished
    /\ \A s \in Streams : \A i \in DOMAIN emitted[s] :
          /\ emitted[s][i].of = s
          /\ IsEnd(emitted[s][i]) => i = Len(emitted[s]) /\ s \notin running

LiveDistinct ==
    \A r, t \in live : r # t =>
        IdOf[r] # IdOf[t] /\ (SessionOf[r] = SessionOf[t] => SessionOf[r] = "")

\* When the recovery step runs, or is about to, only batched requests are left.
RecoveryInv ==
    /\ pc = "recover" => fault # "admit_unknown"
    /\ pc = "recover" \/ (pc = "publish" /\ engine # "healthy") => running \subseteq Batchable
    /\ engine # "healthy" /\ pc \notin {"publish", "recover"} => running = {}

ReadInv == \A r \in Streams : got[r].end # None => req[r].terminal /\ req[r].events = <<>>

\* The inductive invariant of the scheduler and its executor.
IInv ==
    /\ TypeOK
    /\ \A r \in Streams : OutboxInv(req[r], r)
    /\ ExecutorInv /\ RunsAlone /\ LiveDistinct /\ RecoveryInv /\ ReadInv
    /\ duplex => live = {}

(***************************************************************************)
(* What a consumer gets: the values of a request on their way through the  *)
(* step's result, pending and the outbox to its consumer, and how it ends. *)
(***************************************************************************)
Rising(s) ==
    \A i, j \in DOMAIN s : i < j /\ ~IsEnd(s[i]) /\ ~IsEnd(s[j]) => s[i].seq < s[j].seq
Below(s, t) ==
    \A i \in DOMAIN s, j \in DOMAIN t : ~IsEnd(s[i]) /\ ~IsEnd(t[j]) => s[i].seq < t[j].seq
Within(s, low, high) ==
    \A i \in DOMAIN s : ~IsEnd(s[i]) => low < s[i].seq /\ s[i].seq <= high
Consecutive(s, n) == \A i \in DOMAIN s : ~IsEnd(s[i]) => s[i].seq = n + i
ValueCount(s) == IF s # <<>> /\ IsEnd(s[Len(s)]) THEN Len(s) - 1 ELSE Len(s)
Kinds(s) == { s[i].kind : i \in DOMAIN s }

\* The values are in the order in which the n there are were produced, g of them
\* read and the ones in em not yet published.
InOrder(q, g, n, em) ==
    /\ g.seq <= n
    /\ Within(q.events, g.seq, n) /\ Within(q.pending, g.seq, n) /\ Within(em, g.seq, n)
    /\ Rising(q.events) /\ Rising(q.pending) /\ Rising(em)
    /\ Below(q.events, q.pending) /\ Below(q.events, em) /\ Below(q.pending, em)

\* Without a cancel() none is missing, and one that completes has handed over all.
Gapless(q, g, n, em) ==
    /\ ~q.cancelling /\ q.failure = None
    /\ Consecutive(q.events, g.seq) /\ Consecutive(q.pending, g.seq + Len(q.events))
    /\ ~q.finished =>
          /\ Consecutive(em, g.seq + Len(q.events) + Len(q.pending))
          /\ n = g.seq + Len(q.events) + Len(q.pending) + ValueCount(em)
    /\ "completed" \in Kinds(q.pending) => n = g.seq + Len(q.events) + Len(q.pending) - 1
    /\ "completed" \in Kinds(q.events) => n = g.seq + Len(q.events) - 1
    /\ g.end = "completed" => n = g.seq

\* A request that is being cancelled does not complete, and only a deadline that
\* owns the request is reported.
EndInv(q, g, em) ==
    /\ "deadline_exceeded" \in Kinds(q.events) \cup Kinds(q.pending) \cup {g.end}
          => q.failure = "deadline_exceeded"
    /\ Kinds(em) \subseteq {"value", "completed", "cancelled", "failed"}
    /\ q.cancelling =>
          /\ "completed" \notin Kinds(q.events) \cup Kinds(q.pending) \cup {g.end}
          /\ "completed" \in Kinds(em) => q.failure # None

DeliveryInv ==
    \A r \in Streams :
        /\ InOrder(req[r], got[r], produced[r], emitted[r])
        /\ ~req[r].interrupted => Gapless(req[r], got[r], produced[r], emitted[r])
        /\ EndInv(req[r], got[r], emitted[r])
        /\ req[r].cancelling /\ r \in running => r \in aborted

\* A request that the scan has passed over still waits only because nothing more
\* is admitted in this scan.
ScanInv ==
    pc \in {"flush", "examine"} =>
        \A t \in live \ todo : Waiting(t) => blocked \/ reload # {} \/ ~(Available > 0)

\* A call that has no answer yet is on its way to the loop, or is the reload that
\* is pending; once the loop has seen stopping_ nothing more comes.
CallInv ==
    /\ \A c \in Calls : call[c] = "sent" =>
          \/ \E i \in DOMAIN mailbox : mailbox[i] = c
          \/ \E i \in DOMAIN commands : commands[i] = c
          \/ c \in reload
    /\ stop => stopping /\ mailbox = <<>>
    /\ pc # "command" => commands = <<>>
    /\ pc \in {"exit", "done"} => stop /\ reload = {}
==============================================================================
