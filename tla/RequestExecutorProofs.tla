------------------------ MODULE RequestExecutorProofs ------------------------
(***************************************************************************)
(* What RequestExecutor promises the scheduler about one step(): whatever  *)
(* the coroutines did, the events of a request are its own and its terminal *)
(* comes last and only when its coroutine is gone.                         *)
(***************************************************************************)
EXTENDS RequestExecutor, FiniteSetTheorems, TLAPS

\* The executor's part of the type invariant.
ExecutorTypeOK ==
    /\ running \subseteq Streams /\ aborted \subseteq running /\ flushed \subseteq running
    /\ quanta \in [Streams -> Nat] /\ produced \in [Streams -> Nat]
    /\ emitted \in [Streams -> Seq(Event)]
    /\ engine \in {"healthy", "failed", "unloaded"}

\* The events the scheduler and the executor build are events.
LEMMA EventFacts ==
    /\ \A s \in Streams, n \in Nat, b \in Nat :
          Value(s, n, b) \in Event /\ ~IsEnd(Value(s, n, b)) /\ Value(s, n, b).of = s
    /\ \A s \in Streams, k \in EndKinds :
          End(s, k) \in Event /\ IsEnd(End(s, k)) /\ End(s, k).of = s
    /\ \A e \in Event : IsEnd(e) => e \in EndEvent /\ e.bytes = TerminalBytes
    /\ \A e \in Event : e.bytes \in Nat
BY ExecutorAssumption DEF Value, End, IsEnd, Event, ValueEvent, EndEvent, EndKinds

\* What one coroutine step may hand out.
Shape(o, s) ==
    /\ o.events \in Seq(Event)
    /\ o.done \in BOOLEAN /\ o.flush \in BOOLEAN /\ o.sick \in BOOLEAN
    /\ \A i \in DOMAIN o.events :
          o.events[i].of = s /\ (IsEnd(o.events[i]) => i = Len(o.events) /\ o.done)
    /\ o.sick => o.done

\* Outcome builds a well-shaped outcome from up to two values and a terminal.
LEMMA OutcomeShape ==
    ASSUME NEW s \in Streams, NEW d \in BOOLEAN, NEW f \in BOOLEAN, NEW k \in BOOLEAN,
           NEW v \in Event, v.of = s, ~IsEnd(v),
           NEW w \in Event, w.of = s, ~IsEnd(w),
           NEW e \in Event, e.of = s
    PROVE  /\ Shape(Outcome(<<>>, FALSE, f, FALSE), s)
           /\ Shape(Outcome(<<v>>, FALSE, f, FALSE), s)
           /\ Shape(Outcome(<<e>>, TRUE, f, k), s)
           /\ Shape(Outcome(<<v, e>>, TRUE, f, FALSE), s)
           /\ Shape(Outcome(<<v, w, e>>, TRUE, f, FALSE), s)
<1>1. /\ <<>> \in Seq(Event) /\ <<v>> \in Seq(Event) /\ <<e>> \in Seq(Event)
      /\ <<v, e>> \in Seq(Event) /\ <<v, w, e>> \in Seq(Event)
  OBVIOUS
<1>2. Shape(Outcome(<<>>, FALSE, f, FALSE), s)
  BY <1>1 DEF Shape, Outcome
<1>3. Shape(Outcome(<<v>>, FALSE, f, FALSE), s)
  BY <1>1 DEF Shape, Outcome
<1>4. Shape(Outcome(<<e>>, TRUE, f, k), s)
  BY <1>1 DEF Shape, Outcome
<1>5. Shape(Outcome(<<v, e>>, TRUE, f, FALSE), s)
  BY <1>1 DEF Shape, Outcome
<1>6. Shape(Outcome(<<v, w, e>>, TRUE, f, FALSE), s)
  BY <1>1 DEF Shape, Outcome
<1> QED BY <1>2, <1>3, <1>4, <1>5, <1>6

\* Every outcome of a coroutine step has that shape, and a cancelled request
\* that may be batched finishes in one step: only the last value of a request
\* that updates its session cache can still come between.
LEMMA QuantumShape ==
    ASSUME ExecutorTypeOK, NEW s \in Streams, NEW ab, NEW o \in Quantum(s, ab)
    PROVE  Shape(o, s) /\ (s \in Batchable /\ s \in ab => o.done)
<1> DEFINE end == End(s, EndKind(s, ab))
           fail == End(s, "failed")
           n == produced[s]
           V(m, b) == Value(s, m, b)
<1>1. n \in Nat /\ n + 1 \in Nat /\ n + 2 \in Nat
  BY DEF ExecutorTypeOK
<1>2. Weights \subseteq Nat /\ Tails(s) \subseteq Nat /\ UsageBytes \in Nat
  BY ExecutorAssumption DEF Tails
<1>3. /\ end \in Event /\ end.of = s
      /\ fail \in Event /\ fail.of = s
  BY EventFacts DEF EndKinds, EndKind
<1>4. \A m \in Nat, b \in Nat : V(m, b) \in Event /\ V(m, b).of = s /\ ~IsEnd(V(m, b))
  BY EventFacts
<1>5. CASE o \in Yields(s, ab)
  <2>1. \/ \E b \in Nat : o = Outcome(<<V(n + 1, b)>>, FALSE, TRUE, FALSE) /\ s \notin Batchable
        \/ \E b \in Nat : o = Outcome(<<V(n + 1, b)>>, FALSE, FALSE, FALSE) /\ s \notin ab
        \/ o = Outcome(<<>>, FALSE, FALSE, FALSE) /\ s \notin ab
    BY <1>2, <1>5 DEF Yields
  <2> HIDE DEF V, n
  <2>2. ASSUME NEW b \in Nat, NEW f \in BOOLEAN
        PROVE  Shape(Outcome(<<V(n + 1, b)>>, FALSE, f, FALSE), s)
    BY <1>1, <1>3, <1>4, OutcomeShape
  <2>3. Shape(Outcome(<<>>, FALSE, FALSE, FALSE), s)
    BY <1>1, <1>3, <1>4, OutcomeShape
  <2> QED BY <2>1, <2>2, <2>3
<1>6. CASE o \in Finishes(s, ab)
  <2>1. \/ o = Outcome(<<V(n + 1, UsageBytes), end>>, TRUE, FALSE, FALSE)
        \/ \E b \in Nat : o = Outcome(<<V(n + 1, b), V(n + 2, UsageBytes), end>>,
                                      TRUE, FALSE, FALSE)
    BY <1>2, <1>6 DEF Finishes
  <2> HIDE DEF V, n, end
  <2>2. Shape(Outcome(<<V(n + 1, UsageBytes), end>>, TRUE, FALSE, FALSE), s)
    BY <1>1, <1>2, <1>3, <1>4, OutcomeShape
  <2>3. ASSUME NEW b \in Nat
        PROVE  Shape(Outcome(<<V(n + 1, b), V(n + 2, UsageBytes), end>>, TRUE, FALSE, FALSE), s)
    BY <1>1, <1>2, <1>3, <1>4, OutcomeShape
  <2>4. o.done
    BY <2>1 DEF Outcome
  <2> QED BY <2>1, <2>2, <2>3, <2>4
<1>7. CASE o \in Fails(s)
  <2>1. \E k \in BOOLEAN : o = Outcome(<<fail>>, TRUE, FALSE, k)
    BY <1>7 DEF Fails
  <2> HIDE DEF V, n, fail
  <2>2. PICK k \in BOOLEAN : o = Outcome(<<fail>>, TRUE, FALSE, k)
    BY <2>1
  <2>3. Shape(o, s)
    BY <1>1, <1>3, <1>4, <2>2, OutcomeShape
  <2>4. o.done
    BY <2>2 DEF Outcome
  <2> QED BY <2>3, <2>4
<1> QED BY <1>5, <1>6, <1>7 DEF Quantum

\* The values among the events of a step can be counted.
LEMMA ValuesCounted ==
    ASSUME NEW out \in Seq(Event)
    PROVE  Cardinality(Values(out)) \in Nat
<1>1. IsFiniteSet(1 .. Len(out))
  BY FS_Interval
<1>2. Values(out) \subseteq 1 .. Len(out)
  BY DEF Values
<1> QED BY <1>1, <1>2, FS_Subset, FS_CardinalityType

\* What step() leaves behind, in terms of what it found.
StepResult(ab, keep) ==
    /\ ExecutorTypeOK' /\ running' \subseteq running
    /\ \A s \in Streams : emitted'[s] # <<>> => keep /\ s \in running
    /\ \A s \in Streams : \A i \in DOMAIN emitted'[s] :
          /\ emitted'[s][i].of = s
          /\ IsEnd(emitted'[s][i]) => i = Len(emitted'[s]) /\ s \notin running'
    /\ engine' # engine =>
          engine' = "failed" /\ (running' \subseteq Batchable \/ running' = {})
    /\ running \subseteq ab /\ running \subseteq Batchable => running' = {}

\* The effect of the outcomes o of the requests that took a step.
LEMMA ConcludeResult ==
    ASSUME ExecutorTypeOK, \A s \in running : s \in Batchable \/ running = {s},
           NEW ab, ab \subseteq running, NEW keep \in BOOLEAN,
           NEW o, DOMAIN o \subseteq running, ab \subseteq DOMAIN o,
           \A s \in DOMAIN o : Shape(o[s], s) /\ (s \in Batchable /\ s \in ab => o[s].done),
           Conclude(o, ab, keep)
    PROVE  StepResult(ab, keep)
<1> DEFINE T == DOMAIN o
           gone == { s \in T : o[s].done }
<1>1. /\ running' = running \ gone
      /\ aborted' = ab \ gone
      /\ flushed' = (flushed \cup { s \in T : o[s].flush }) \ gone
      /\ quanta' = [s \in Streams |-> IF s \in T /\ ~o[s].done
                                      THEN quanta[s] + 1 ELSE quanta[s]]
      /\ produced' = [s \in Streams |-> IF s \in T
                        THEN produced[s] + Cardinality(Values(o[s].events))
                        ELSE produced[s]]
      /\ emitted' = [s \in Streams |-> IF keep /\ s \in T THEN o[s].events ELSE <<>>]
      /\ engine' = IF \E s \in T : o[s].sick THEN "failed" ELSE engine
  BY DEF Conclude
<1>2. \A s \in T : o[s].events \in Seq(Event) /\ Cardinality(Values(o[s].events)) \in Nat
  BY ValuesCounted DEF Shape
<1>3. running' \subseteq running /\ running' \subseteq Streams /\ gone \subseteq T
  BY <1>1 DEF ExecutorTypeOK
<1>4. ExecutorTypeOK'
  <2>1. aborted' \subseteq running' /\ flushed' \subseteq running'
    BY <1>1 DEF ExecutorTypeOK
  <2>2. quanta' \in [Streams -> Nat]
    BY <1>1 DEF ExecutorTypeOK
  <2>3. produced' \in [Streams -> Nat]
    <3>1. \A s \in Streams : (IF s \in T
                        THEN produced[s] + Cardinality(Values(o[s].events))
                        ELSE produced[s]) \in Nat
      BY <1>2 DEF ExecutorTypeOK
    <3> QED BY <1>1, <3>1
  <2>4. emitted' \in [Streams -> Seq(Event)]
    <3>1. <<>> \in Seq(Event)
      OBVIOUS
    <3> QED BY <1>1, <1>2, <3>1
  <2>5. engine' \in {"healthy", "failed", "unloaded"}
    BY <1>1 DEF ExecutorTypeOK
  <2> QED BY <1>3, <2>1, <2>2, <2>3, <2>4, <2>5 DEF ExecutorTypeOK
<1>5. \A s \in Streams : emitted'[s] # <<>> => keep /\ s \in T /\ emitted'[s] = o[s].events
  BY <1>1
<1>6. ASSUME NEW s \in Streams, NEW i \in DOMAIN emitted'[s]
      PROVE  /\ emitted'[s][i].of = s
             /\ IsEnd(emitted'[s][i]) => i = Len(emitted'[s]) /\ s \notin running'
  <2>1. emitted'[s] # <<>>
    OBVIOUS
  <2>2. s \in T /\ emitted'[s] = o[s].events
    BY <1>5, <2>1
  <2> QED BY <1>1, <2>2 DEF Shape
<1>7. ASSUME engine' # engine
      PROVE  engine' = "failed" /\ (running' \subseteq Batchable \/ running' = {})
  <2>1. engine' = "failed" /\ \E s \in T : o[s].sick
    BY <1>1, <1>7
  <2>2. PICK s \in T : o[s].sick
    BY <2>1
  <2>3. o[s].done /\ s \in running
    BY <2>2 DEF Shape
  <2>4. s \notin running'
    BY <1>1, <2>3
  <2>5. CASE s \in Batchable
    BY <1>3, <2>1, <2>3, <2>5
  <2>6. CASE s \notin Batchable
    BY <1>3, <2>1, <2>3, <2>4, <2>6
  <2> QED BY <2>5, <2>6
<1>8. ASSUME running \subseteq ab, running \subseteq Batchable
      PROVE  running' = {}
  BY <1>1, <1>8
<1> QED BY <1>3, <1>4, <1>5, <1>6, <1>7, <1>8 DEF StepResult

\* step(eligible) with the set ab of cancelled requests.
LEMMA StepKeeps ==
    ASSUME ExecutorTypeOK, \A s \in running : s \in Batchable \/ running = {s},
           NEW E, NEW ab, ab \subseteq running, NEW keep \in BOOLEAN, Step(E, ab, keep)
    PROVE  StepResult(ab, keep)
<1>1. ASSUME NEW o \in StepOutcomes(E, ab), Conclude(o, ab, keep)
      PROVE  StepResult(ab, keep)
  <2>1. /\ DOMAIN o = Stepping(E, ab)
        /\ \A s \in DOMAIN o : o[s] \in Quantum(s, ab)
    BY <1>1 DEF StepOutcomes
  <2>2. Stepping(E, ab) \subseteq running /\ ab \subseteq Stepping(E, ab)
    BY DEF Stepping, Holding
  <2>3. running \subseteq Streams
    BY DEF ExecutorTypeOK
  <2>4. \A s \in DOMAIN o : Shape(o[s], s) /\ (s \in Batchable /\ s \in ab => o[s].done)
    BY <2>1, <2>2, <2>3, QuantumShape
  <2> QED BY <1>1, <2>1, <2>2, <2>4, ConcludeResult
<1>2. ASSUME Conclude([s \in running |-> Outcome(<<End(s, "failed")>>, TRUE, FALSE, TRUE)],
                      ab, keep)
      PROVE  StepResult(ab, keep)
  <2> DEFINE o == [s \in running |-> Outcome(<<End(s, "failed")>>, TRUE, FALSE, TRUE)]
  <2>1. DOMAIN o = running
    OBVIOUS
  <2>2. ASSUME NEW s \in running
        PROVE  Shape(o[s], s) /\ o[s].done
    <3>1. s \in Streams
      BY DEF ExecutorTypeOK
    <3>2. End(s, "failed") \in Event /\ End(s, "failed").of = s
      BY <3>1, EventFacts DEF EndKinds
    <3>3. /\ Value(s, 0, 0) \in Event /\ Value(s, 0, 0).of = s /\ ~IsEnd(Value(s, 0, 0))
      BY <3>1, EventFacts
    <3>4. Shape(Outcome(<<End(s, "failed")>>, TRUE, FALSE, TRUE), s)
      BY <3>1, <3>2, <3>3, OutcomeShape
    <3> QED BY <3>4 DEF Outcome
  <2> HIDE DEF o
  <2> QED BY <1>2, <2>1, <2>2, ConcludeResult DEF o
<1> QED BY <1>1, <1>2 DEF Step
==============================================================================
