--------------------------- MODULE RequestExecutor ---------------------------
(***************************************************************************)
(* RequestExecutor and the EngineInstance around it: the requests that     *)
(* run on the device, one coroutine each.  Only the scheduler's loop       *)
(* thread calls it (engine.h:136), so every method is one atomic step.     *)
(*                                                                         *)
(* A stream is one submitted request together with its outbox.  Streams    *)
(* may share a request ID (a client may reuse the ID of a finished         *)
(* request), and the executor only knows IDs.  What a quantum computes is  *)
(* left open: a coroutine may wait, yield one value, finish or fail.       *)
(***************************************************************************)
EXTENDS Integers, Sequences, FiniteSets

CONSTANTS
    Streams,        \* submitted requests, each with an outbox of its own
    IdOf,           \* [Streams -> request IDs]
    Batchable,      \* the streams ops.can_batch() accepts
    Capacity,       \* capacity_ (EngineInfo::max_requests)
    Weights,        \* sizes a value event may have, in bytes
    UsageBytes,     \* size of a UsageUpdate
    TerminalBytes,  \* size of a terminal event after publish() truncated it
    MaxQuanta,      \* bound: quanta a request runs before it must finish
    Faults          \* the failures this instance may meet

FaultKinds == { "request", "backend", "device", "step", "step_backend",
                "admit", "admit_backend", "admit_unknown",
                "control", "control_backend", "reload" }

ASSUME ExecutorAssumption ==
    /\ IdOf \in [Streams -> STRING]
    /\ Batchable \subseteq Streams
    /\ Capacity \in Nat \ {0}
    /\ Weights \subseteq Nat \ {0}
    /\ UsageBytes \in Nat \ {0}
    /\ TerminalBytes \in Nat \ {0}
    /\ MaxQuanta \in Nat
    /\ Faults \subseteq FaultKinds

VARIABLES
    running,    \* requests_: the streams the executor holds
    aborted,    \* of those, the ones with output.result.cancelled
    flushed,    \* of those, the ones whose output.finish() has already run
    quanta,     \* [Streams -> Nat]: coroutine steps taken without finishing
    produced,   \* [Streams -> Nat]: value events emitted so far
    emitted,    \* [Streams -> Seq(Event)]: EngineStepResult::events
    engine      \* "healthy", "failed" (healthy_ = false) or "unloaded"

executorVars == << running, aborted, flushed, quanta, produced, emitted, engine >>

EndKinds == { "completed", "cancelled", "failed", "deadline_exceeded",
              "output_limit" }
ValueEvent == [of : Streams, kind : {"value"}, seq : Nat, bytes : Nat]
EndEvent == [of : Streams, kind : EndKinds, seq : {0}, bytes : {TerminalBytes}]
Event == ValueEvent \cup EndEvent

Value(s, n, b) == [of |-> s, kind |-> "value", seq |-> n, bytes |-> b]
End(s, k) == [of |-> s, kind |-> k, seq |-> 0, bytes |-> TerminalBytes]
IsEnd(e) == e.kind # "value"
NoEvents == [s \in Streams |-> <<>>]

ExecutorInit ==
    /\ running = {}
    /\ aborted = {}
    /\ flushed = {}
    /\ quanta = [s \in Streams |-> 0]
    /\ produced = [s \in Streams |-> 0]
    /\ emitted = NoEvents
    /\ engine = "healthy"

(***************************************************************************)
(* status() and admit()                                                    *)
(***************************************************************************)
Available ==
    IF engine # "healthy" \/ \E s \in running : s \notin Batchable
    THEN 0
    ELSE Capacity - Cardinality(running)

Duplicate(s) == \E t \in running : IdOf[t] = IdOf[s]
\* Mutant: exclusivity is not checked.
DefersWhenFull(s) == Available = 0

Defers(s) == Available = 0 \/ (s \notin Batchable /\ running # {})

Admit(s) ==
    /\ ~Duplicate(s)
    /\ ~Defers(s)
    /\ running' = running \cup {s}
    /\ UNCHANGED << aborted, flushed, quanta, produced, emitted, engine >>

(***************************************************************************)
(* cancel(id): flags the request; its coroutine notices at its next step.  *)
(***************************************************************************)
Holding(S) == { s \in running : \E t \in S : IdOf[t] = IdOf[s] }

\* Mutants: an unknown ID is flagged as well; nothing is flagged.
CancelledWithUnknown(S) == aborted \cup S
CancelledWithNone(S) == aborted

CancelledWith(S) == aborted \cup Holding(S)

(***************************************************************************)
(* One coroutine step of s.  ab is the set of cancelled requests.          *)
(*   - A live request waits or yields a value.                             *)
(*   - output.finish() runs once: either as the last value of a request    *)
(*     that updates its session cache (such a request is never batched),   *)
(*     or in the executor's finish().  Only that value can still come out  *)
(*     of a cancelled request, whose stopped() ends every other loop.      *)
(*   - finish() emits the unflushed tail, the usage and the terminal.      *)
(*   - A failure emits its terminal alone and may mark the engine failed.  *)
(***************************************************************************)
Outcome(events, done, flush, sick) ==
    [events |-> events, done |-> done, flush |-> flush, sick |-> sick]

Tails(s) == IF s \in flushed \/ quanta[s] = 0 THEN {} ELSE Weights

Yields(s, ab) ==
    LET Next(b) == Value(s, produced[s] + 1, b)
    IN  IF s \in flushed THEN {}
        ELSE {Outcome(<<Next(b)>>, FALSE, TRUE, FALSE) :
                 b \in IF s \in Batchable THEN {} ELSE Tails(s)}
             \cup (IF s \in ab \/ quanta[s] >= MaxQuanta THEN {}
                   ELSE {Outcome(<<Next(b)>>, FALSE, FALSE, FALSE) : b \in Weights}
                        \cup {Outcome(<<>>, FALSE, FALSE, FALSE)})

\* Mutant: the cancellation flag is not read.
EndKindCompleted(s, ab) == "completed"

EndKind(s, ab) == IF s \in ab THEN "cancelled" ELSE "completed"

Finishes(s, ab) ==
    LET end == End(s, EndKind(s, ab))
        n == produced[s]
    IN  {Outcome(<<Value(s, n + 1, UsageBytes), end>>, TRUE, FALSE, FALSE)}
        \cup {Outcome(<<Value(s, n + 1, b), Value(s, n + 2, UsageBytes), end>>,
                      TRUE, FALSE, FALSE) : b \in Tails(s)}

Fails(s) ==
    {Outcome(<<End(s, "failed")>>, TRUE, FALSE, sick) :
        sick \in (IF "request" \in Faults THEN {FALSE} ELSE {})
                 \cup (IF "backend" \in Faults THEN {TRUE} ELSE {})}

Quantum(s, ab) == Yields(s, ab) \cup Finishes(s, ab) \cup Fails(s)

(***************************************************************************)
(* step(eligible): every cancelled or eligible request takes one step.     *)
(* When ops.execute() reports a backend failure every request fails.       *)
(* keep is FALSE where the caller discards the result's events.            *)
(***************************************************************************)
Values(out) == { i \in DOMAIN out : ~IsEnd(out[i]) }

Conclude(o, ab, keep) ==
    LET T == DOMAIN o
        gone == { s \in T : o[s].done }
    IN  /\ running' = running \ gone
        /\ aborted' = ab \ gone
        /\ flushed' = (flushed \cup { s \in T : o[s].flush }) \ gone
        /\ quanta' = [s \in Streams |-> IF s \in T /\ ~o[s].done
                                        THEN quanta[s] + 1 ELSE quanta[s]]
        /\ produced' = [s \in Streams |-> IF s \in T
                          THEN produced[s] + Cardinality(Values(o[s].events))
                          ELSE produced[s]]
        /\ emitted' = [s \in Streams |-> IF keep /\ s \in T
                                         THEN o[s].events ELSE <<>>]
        /\ engine' = IF \E s \in T : o[s].sick THEN "failed" ELSE engine

Stepping(E, ab) == ab \cup Holding(E)
StepOutcomes(E, ab) ==
    LET T == Stepping(E, ab)
    IN  { o \in [T -> UNION { Quantum(s, ab) : s \in T }] :
             \A s \in T : o[s] \in Quantum(s, ab) }

Step(E, ab, keep) ==
    \/ \E o \in StepOutcomes(E, ab) : Conclude(o, ab, keep)
    \/ /\ "device" \in Faults /\ running # {}
       /\ Conclude([s \in running |-> Outcome(<<End(s, "failed")>>, TRUE, FALSE, TRUE)],
                   ab, keep)

(***************************************************************************)
(* EngineInstance::reload() insists on an empty executor; a failed load    *)
(* leaves the engine unloaded, a refused one leaves it as it was.          *)
(***************************************************************************)
ReloadSucceeds ==
    /\ running = {}
    /\ engine' = "healthy"
    /\ UNCHANGED << running, aborted, flushed, quanta, produced, emitted >>

ReloadFails ==
    /\ \/ running # {} /\ engine' = engine
       \/ running = {} /\ "reload" \in Faults /\ engine' \in {engine, "unloaded"}
    /\ UNCHANGED << running, aborted, flushed, quanta, produced, emitted >>

\* shutdown() destroys every coroutine and unloads the model.
EngineShutdown ==
    /\ running' = {}
    /\ aborted' = {}
    /\ flushed' = {}
    /\ engine' = "unloaded"
    /\ UNCHANGED << quanta, produced, emitted >>
==============================================================================
