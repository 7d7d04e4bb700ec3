--------------------------- MODULE SchedulerProofs ---------------------------
(***************************************************************************)
(* The safety theorems of Scheduler, for every number of streams, every    *)
(* capacity and every outbox limit the constructor accepts.  IInv is the   *)
(* inductive invariant; each operation on one request gets a lemma that    *)
(* says what it does to OutboxInv, each action a step lemma for IInv.      *)
(***************************************************************************)
EXTENDS Scheduler, RequestExecutorProofs, WellFoundedInduction

\* A terminal event is bounded by the reserve, whatever truncated it.
LEMMA LimitFacts ==
    /\ EventLimit \in Nat /\ EventLimit >= 4
    /\ ByteLimit \in Nat /\ Budget \in Int /\ Budget >= 0
    /\ Budget + TerminalBytes <= ByteLimit
    /\ TerminalBytes \in Nat
BY ExecutorAssumption, SchedulerAssumption DEF Budget

\* The two halves of OutboxInv: the outbox, and what waits to get into it.
BoxPart(q, r) ==
    /\ \A i \in DOMAIN q.events :
          q.events[i].of = r /\ (IsEnd(q.events[i]) => i = Len(q.events) /\ q.terminal)
    /\ Len(q.events) <= IF q.terminal THEN EventLimit ELSE EventLimit - 1
    /\ q.bytes <= IF q.terminal THEN ByteLimit ELSE Budget
    /\ q.terminal /\ q.events # <<>> => IsEnd(q.events[Len(q.events)])

PendingPart(q, r) ==
    /\ \A i \in DOMAIN q.pending :
          q.pending[i].of = r /\ (IsEnd(q.pending[i]) => i = Len(q.pending) /\ q.finished)
    /\ q.terminal => q.pending = <<>> /\ q.finished
    /\ q.finished /\ ~q.terminal =>
          q.pending # <<>> /\ IsEnd(q.pending[Len(q.pending)])

\* OutboxInv is the conjunction of its two halves.
LEMMA OutboxParts ==
    \A q, r : OutboxInv(q, r) <=> BoxPart(q, r) /\ PendingPart(q, r)
BY DEF OutboxInv, BoxPart, PendingPart

\* deliver: an event that fits keeps the outbox within its bounds, a terminal
\* event because the slot and the bytes it takes were kept free.
LEMMA DeliverBox ==
    ASSUME NEW r \in Streams, NEW q \in Request, BoxPart(q, r), ~q.terminal,
           NEW e \in Event, e.of = r, Fits(q, e)
    PROVE  LET p == Deliver(q, e)
           IN  /\ p \in Request /\ BoxPart(p, r)
               /\ p.terminal = IsEnd(e) /\ p.pending = q.pending
               /\ p.finished = q.finished /\ p.admitted = q.admitted
<1> DEFINE p == Deliver(q, e)
<1>1. p \in Request
  <2>1. q.events \in Seq(Event) /\ q.bytes \in Nat /\ e.bytes \in Nat
    BY EventFacts DEF Request
  <2>2. Append(q.events, e) \in Seq(Event) /\ q.bytes + e.bytes \in Nat
    BY <2>1
  <2>3. IsEnd(e) \in BOOLEAN
    BY DEF IsEnd
  <2> QED BY <2>2, <2>3 DEF Deliver, Request
<1>2. /\ p.events = Append(q.events, e) /\ p.bytes = q.bytes + e.bytes
      /\ p.terminal = IsEnd(e) /\ p.pending = q.pending
      /\ p.finished = q.finished /\ p.admitted = q.admitted
  BY DEF Deliver, Request
<1>3. \A i \in DOMAIN p.events :
        p.events[i].of = r /\ (IsEnd(p.events[i]) => i = Len(p.events) /\ p.terminal)
  BY <1>2 DEF BoxPart, Request
<1>4. /\ Len(p.events) <= IF p.terminal THEN EventLimit ELSE EventLimit - 1
      /\ p.bytes <= IF p.terminal THEN ByteLimit ELSE Budget
  BY <1>2, LimitFacts, EventFacts DEF BoxPart, Request, Fits
<1>5. p.events[Len(p.events)] = e
  BY <1>2 DEF Request
<1> QED BY <1>1, <1>2, <1>3, <1>4, <1>5 DEF BoxPart

\* publish() of a terminal event to an unfinished request: it ends the request,
\* at once or behind the values that still wait.
LEMMA PublishEndKeeps ==
    ASSUME NEW r \in Streams, NEW q \in Request, BoxPart(q, r), ~q.terminal,
           \A i \in DOMAIN q.pending : q.pending[i].of = r /\ ~IsEnd(q.pending[i]),
           NEW e \in Event, e.of = r, IsEnd(e)
    PROVE  LET p == PublishEnd(q, e)
           IN  /\ p \in Request /\ OutboxInv(p, r)
               /\ p.finished /\ p.admitted = q.admitted
<1> DEFINE end == IF q.failure = None THEN e ELSE [e EXCEPT !.kind = q.failure]
           f == [q EXCEPT !.finished = TRUE]
           p == PublishEnd(q, e)
<1>1. end \in Event /\ IsEnd(end) /\ end.of = r
  <2>1. e \in EndEvent
    BY EventFacts
  <2>2. q.failure # None => q.failure \in EndKinds
    BY DEF Request, Failures, EndKinds
  <2> QED BY <2>1, <2>2 DEF EndEvent, Event, IsEnd, EndKinds
<1>2. /\ f \in Request /\ f.finished /\ f.admitted = q.admitted /\ ~f.terminal
      /\ f.events = q.events /\ f.bytes = q.bytes /\ f.pending = q.pending
  BY DEF Request
<1>3. BoxPart(f, r)
  BY <1>2 DEF BoxPart
<1>p. p = IF q.pending = <<>> THEN Deliver(f, end) ELSE Withhold(f, end)
  BY DEF PublishEnd
<1> HIDE DEF end, f, p
<1>4. CASE q.pending = <<>>
  <2>1. p = Deliver(f, end)
    BY <1>4, <1>p
  <2>2. Fits(f, end)
    BY <1>1 DEF Fits
  <2>3. /\ p \in Request /\ BoxPart(p, r) /\ p.terminal /\ p.pending = <<>>
        /\ p.finished /\ p.admitted = q.admitted
    BY <1>1, <1>2, <1>3, <1>4, <2>1, <2>2, DeliverBox
  <2>4. PendingPart(p, r)
    BY <2>3 DEF PendingPart
  <2> QED BY <2>3, <2>4, OutboxParts DEF p
<1>5. CASE q.pending # <<>>
  <2>1. p = Withhold(f, end)
    BY <1>5, <1>p
  <2>2. q.pending \in Seq(Event) /\ Append(q.pending, end) \in Seq(Event)
    BY <1>1 DEF Request
  <2>3. /\ p \in Request /\ p.finished /\ p.admitted = q.admitted /\ ~p.terminal
        /\ p.events = f.events /\ p.bytes = f.bytes /\ p.pending = Append(q.pending, end)
    BY <1>2, <2>1, <2>2 DEF Withhold, Request
  <2>4. BoxPart(p, r)
    BY <1>2, <1>3, <2>3 DEF BoxPart
  <2>5. PendingPart(p, r)
    BY <1>1, <2>2, <2>3 DEF PendingPart
  <2> QED BY <2>3, <2>4, <2>5, OutboxParts DEF p
<1> QED BY <1>4, <1>5

\* cancel(): it ends a request that was never admitted, cuts a finished one short
\* to its terminal event, and leaves an admitted one to the engine.
LEMMA CancelKeeps ==
    ASSUME NEW r \in Streams, NEW q \in Request, OutboxInv(q, r)
    PROVE  LET p == Cancel(q, r)
           IN  /\ p \in Request /\ OutboxInv(p, r) /\ p.admitted = q.admitted
               /\ q.finished => p.finished
               /\ p.finished => q.finished \/ ~q.admitted
               /\ q.terminal => p.terminal /\ p.events = q.events
<1> DEFINE i == [q EXCEPT !.interrupted = TRUE]
           c == [i EXCEPT !.cancelling = TRUE, !.pending = <<>>]
           d == [i EXCEPT !.pending = <<>>]
           last == q.pending[Len(q.pending)]
           end == End(r, "cancelled")
           p == Cancel(q, r)
<1>0. BoxPart(q, r) /\ PendingPart(q, r) /\ <<>> \in Seq(Event)
  BY OutboxParts
<1>1. /\ i \in Request /\ i.events = q.events /\ i.bytes = q.bytes
      /\ i.terminal = q.terminal /\ i.pending = q.pending
      /\ i.finished = q.finished /\ i.admitted = q.admitted
  BY DEF Request
<1>2. OutboxInv(i, r)
  BY <1>0, <1>1, OutboxParts DEF BoxPart, PendingPart
<1>3. /\ d \in Request /\ d.events = q.events /\ d.bytes = q.bytes
      /\ d.terminal = q.terminal /\ d.pending = <<>> /\ d.admitted = q.admitted
  BY <1>0 DEF Request
<1>4. /\ c \in Request /\ c.events = q.events /\ c.bytes = q.bytes
      /\ c.terminal = q.terminal /\ c.pending = <<>> /\ c.admitted = q.admitted
      /\ c.finished = q.finished
  BY <1>0 DEF Request
<1>5. BoxPart(d, r) /\ BoxPart(c, r)
  BY <1>0, <1>3, <1>4 DEF BoxPart
<1>6. end \in Event /\ IsEnd(end) /\ end.of = r
  BY EventFacts DEF EndKinds
<1>7. q.finished \in BOOLEAN /\ q.cancelling \in BOOLEAN /\ q.admitted \in BOOLEAN
      /\ q.pending \in Seq(Event)
  BY DEF Request
<1>p. p = IF q.finished
          THEN IF q.pending = <<>> THEN i ELSE PublishEnd(d, last)
          ELSE IF q.cancelling THEN i
          ELSE IF q.admitted THEN c
          ELSE PublishEnd(c, end)
  BY DEF Cancel
<1> HIDE DEF i, c, d, end, p
<1>8. CASE (q.finished /\ q.pending = <<>>) \/ (~q.finished /\ q.cancelling)
  BY <1>1, <1>2, <1>8, <1>p DEF p
<1>9. CASE q.finished /\ q.pending # <<>>
  <2>1. ~q.terminal
    BY <1>0, <1>9 DEF PendingPart
  <2>2. Len(q.pending) \in DOMAIN q.pending /\ last \in Event
    BY <1>7, <1>9
  <2>3. IsEnd(last) /\ last.of = r
    BY <1>0, <1>9, <2>1, <2>2 DEF PendingPart
  <2> HIDE DEF last
  <2>4. p = PublishEnd(d, last)
    BY <1>9, <1>p
  <2>5. p \in Request /\ OutboxInv(p, r) /\ p.finished /\ p.admitted = d.admitted
    BY <1>3, <1>5, <2>1, <2>2, <2>3, <2>4, PublishEndKeeps
  <2> QED BY <1>3, <1>9, <2>1, <2>5 DEF p
<1>10. CASE ~q.finished /\ ~q.cancelling
  <2>1. ~q.terminal
    BY <1>0, <1>10 DEF PendingPart
  <2>2. CASE q.admitted
    <3>1. p = c
      BY <1>10, <1>p, <2>2
    <3>2. PendingPart(c, r)
      BY <1>4, <1>10, <2>1 DEF PendingPart
    <3> QED BY <1>4, <1>5, <1>10, <2>1, <3>1, <3>2, OutboxParts DEF p
  <2>3. CASE ~q.admitted
    <3>1. p = PublishEnd(c, end)
      BY <1>10, <1>p, <2>3
    <3>2. p \in Request /\ OutboxInv(p, r) /\ p.finished /\ p.admitted = c.admitted
      BY <1>4, <1>5, <1>6, <2>1, <3>1, PublishEndKeeps
    <3> QED BY <1>4, <1>10, <2>1, <2>3, <3>2 DEF p
  <2> QED BY <2>2, <2>3
<1>11. \/ (q.finished /\ q.pending = <<>>) \/ (~q.finished /\ q.cancelling)
       \/ q.finished /\ q.pending # <<>>
       \/ ~q.finished /\ ~q.cancelling
  OBVIOUS
<1> QED BY ONLY <1>8, <1>9, <1>10, <1>11

\* expire() is a cancel() with its own terminal event.
LEMMA ExpireKeeps ==
    ASSUME NEW r \in Streams, NEW q \in Request, OutboxInv(q, r)
    PROVE  LET p == Expire(q, r)
           IN  /\ p \in Request /\ OutboxInv(p, r) /\ p.admitted = q.admitted
               /\ q.finished => p.finished
               /\ p.finished => q.finished \/ ~q.admitted
               /\ q.terminal => p.terminal /\ p.events = q.events
<1> DEFINE f == [q EXCEPT !.failure = "deadline_exceeded"]
           p == Expire(q, r)
<1>1. /\ f \in Request /\ f.events = q.events /\ f.bytes = q.bytes
      /\ f.terminal = q.terminal /\ f.pending = q.pending
      /\ f.finished = q.finished /\ f.admitted = q.admitted
  BY DEF Request, Failures
<1>2. OutboxInv(f, r)
  BY <1>1 DEF OutboxInv
<1>p. p = IF q.cancelling \/ q.finished THEN q ELSE Cancel(f, r)
  BY DEF Expire
<1> HIDE DEF f, p
<1>3. CASE q.cancelling \/ q.finished
  BY <1>3, <1>p DEF p
<1>4. CASE ~(q.cancelling \/ q.finished)
  <2>1. p = Cancel(f, r)
    BY <1>4, <1>p
  <2>2. /\ p \in Request /\ OutboxInv(p, r) /\ p.admitted = f.admitted
        /\ f.finished => p.finished
        /\ p.finished => f.finished \/ ~f.admitted
        /\ f.terminal => p.terminal /\ p.events = f.events
    BY <1>1, <1>2, <2>1, CancelKeeps
  <2> QED BY <1>1, <2>2 DEF p
<1> QED BY <1>3, <1>4

\* publish() of an engine event to the unfinished, admitted request it belongs to.
LEMMA PublishKeeps ==
    ASSUME NEW r \in Streams, NEW q \in Request, OutboxInv(q, r),
           q.admitted, ~q.finished, NEW e \in Event, e.of = r
    PROVE  LET p == Publish(q, e, r)
           IN  /\ p \in Request /\ OutboxInv(p, r) /\ p.admitted
               /\ p.finished => IsEnd(e)
<1> DEFINE f == [q EXCEPT !.failure = "output_limit"]
           p == Publish(q, e, r)
<1>0. BoxPart(q, r) /\ PendingPart(q, r) /\ ~q.terminal
  BY OutboxParts DEF PendingPart
<1>1. \A i \in DOMAIN q.pending : q.pending[i].of = r /\ ~IsEnd(q.pending[i])
  BY <1>0 DEF PendingPart
<1>2. CASE IsEnd(e)
  <2>1. p = PublishEnd(q, e)
    BY <1>2 DEF Publish
  <2> HIDE DEF p
  <2>2. p \in Request /\ OutboxInv(p, r) /\ p.finished /\ p.admitted = q.admitted
    BY <1>0, <1>1, <1>2, <2>1, PublishEndKeeps
  <2> QED BY <1>2, <2>2 DEF p
<1>3. CASE ~IsEnd(e)
  <2>p. p = IF q.failure # None THEN q
            ELSE IF e.bytes > Budget THEN Cancel(f, r)
            ELSE IF q.pending = <<>> /\ Fits(q, e) THEN Deliver(q, e)
            ELSE Withhold(q, e)
    BY <1>0, <1>3 DEF Publish, PublishValue
  <2>1. CASE p = q
    BY <2>1 DEF p
  <2>2. CASE p = Cancel(f, r)
    <3>1. /\ f \in Request /\ f.events = q.events /\ f.bytes = q.bytes
          /\ f.terminal = q.terminal /\ f.pending = q.pending
          /\ f.finished = q.finished /\ f.admitted = q.admitted
      BY DEF Request, Failures
    <3>2. OutboxInv(f, r)
      BY <3>1 DEF OutboxInv
    <3> HIDE DEF f, p
    <3>3. /\ p \in Request /\ OutboxInv(p, r) /\ p.admitted = f.admitted
          /\ p.finished => f.finished \/ ~f.admitted
      BY <2>2, <3>1, <3>2, CancelKeeps
    <3> QED BY <3>1, <3>3 DEF p
  <2>3. CASE p = Deliver(q, e) /\ q.pending = <<>> /\ Fits(q, e)
    <3> HIDE DEF p
    <3>1. /\ p \in Request /\ BoxPart(p, r) /\ p.terminal = IsEnd(e)
          /\ p.pending = q.pending /\ p.finished = q.finished /\ p.admitted = q.admitted
      BY <1>0, <2>3, DeliverBox
    <3>2. PendingPart(p, r)
      BY <1>0, <1>3, <3>1 DEF PendingPart
    <3> QED BY <3>1, <3>2, OutboxParts DEF p
  <2>4. CASE p = Withhold(q, e)
    <3>1. q.pending \in Seq(Event) /\ Append(q.pending, e) \in Seq(Event)
      BY DEF Request
    <3>2. /\ p \in Request /\ p.finished = q.finished /\ p.admitted = q.admitted
          /\ p.terminal = q.terminal /\ p.events = q.events /\ p.bytes = q.bytes
          /\ p.pending = Append(q.pending, e)
      BY <2>4, <3>1 DEF Withhold, Request
    <3> HIDE DEF p
    <3>3. BoxPart(p, r)
      BY <1>0, <3>2 DEF BoxPart
    <3>4. PendingPart(p, r)
      BY <1>0, <1>1, <1>3, <3>1, <3>2 DEF PendingPart
    <3> QED BY <3>2, <3>3, <3>4, OutboxParts DEF p
  <2> HIDE DEF p, f
  <2> QED BY <2>p, <2>1, <2>2, <2>3, <2>4
<1> QED BY <1>2, <1>3

\* One turn of flush()'s loop: the first waiting event moves into the outbox.
LEMMA FlushKeeps ==
    ASSUME NEW r \in Streams, NEW q \in Request, OutboxInv(q, r),
           q.pending # <<>>, Fits(q, q.pending[1])
    PROVE  LET p == Deliver([q EXCEPT !.pending = Tail(@)], q.pending[1])
           IN  /\ p \in Request /\ OutboxInv(p, r) /\ ~q.terminal
               /\ p.admitted = q.admitted /\ p.finished = q.finished
<1> DEFINE t == [q EXCEPT !.pending = Tail(@)]
           e == q.pending[1]
           p == Deliver(t, e)
<1>0. BoxPart(q, r) /\ PendingPart(q, r) /\ ~q.terminal
  BY OutboxParts DEF PendingPart
<1>1. /\ q.pending \in Seq(Event) /\ Tail(q.pending) \in Seq(Event)
      /\ e \in Event /\ 1 \in DOMAIN q.pending /\ Len(q.pending) >= 1
      /\ Len(Tail(q.pending)) = Len(q.pending) - 1
      /\ \A i \in DOMAIN Tail(q.pending) : Tail(q.pending)[i] = q.pending[i + 1]
                                           /\ i + 1 \in DOMAIN q.pending
  BY DEF Request
<1>2. /\ t \in Request /\ t.events = q.events /\ t.bytes = q.bytes
      /\ t.terminal = q.terminal /\ t.pending = Tail(q.pending)
      /\ t.finished = q.finished /\ t.admitted = q.admitted
  BY <1>1 DEF Request
<1>3. BoxPart(t, r) /\ Fits(t, e) /\ e.of = r
  BY <1>0, <1>1, <1>2 DEF BoxPart, Fits, PendingPart
<1> HIDE DEF t, e, p
<1>4. /\ p \in Request /\ BoxPart(p, r) /\ p.terminal = IsEnd(e)
      /\ p.pending = Tail(q.pending) /\ p.finished = q.finished
      /\ p.admitted = q.admitted
  BY <1>0, <1>1, <1>2, <1>3, DeliverBox DEF p
<1>5. PendingPart(p, r)
  <2>1. IsEnd(e) => Len(q.pending) = 1 /\ q.finished
    BY <1>0, <1>1 DEF PendingPart, e
  <2>2. Len(q.pending) = 1 => Tail(q.pending) = <<>>
    BY <1>1
  <2>3. q.finished /\ ~IsEnd(e) => Len(q.pending) > 1
    BY <1>0, <1>1 DEF PendingPart, e
  <2>4. \A i \in DOMAIN Tail(q.pending) :
          /\ Tail(q.pending)[i].of = r
          /\ IsEnd(Tail(q.pending)[i]) => i = Len(Tail(q.pending)) /\ q.finished
    BY <1>0, <1>1 DEF PendingPart
  <2>5. q.finished /\ ~IsEnd(e) =>
          Tail(q.pending) # <<>> /\ IsEnd(Tail(q.pending)[Len(Tail(q.pending))])
    <3> SUFFICES ASSUME q.finished, ~IsEnd(e)
                 PROVE  Tail(q.pending) # <<>> /\ IsEnd(Tail(q.pending)[Len(Tail(q.pending))])
      OBVIOUS
    <3>1. IsEnd(q.pending[Len(q.pending)])
      BY <1>0 DEF PendingPart
    <3>2. Len(Tail(q.pending)) \in DOMAIN Tail(q.pending) /\ Len(q.pending) - 1 + 1 = Len(q.pending)
      BY <1>1, <2>3
    <3>3. Tail(q.pending)[Len(Tail(q.pending))] = q.pending[Len(q.pending)]
      BY <1>1, <3>2
    <3>4. Tail(q.pending) # <<>>
      <4>1. \A i : i \notin DOMAIN <<>>
        OBVIOUS
      <4> QED BY <3>2, <4>1, Zenon
    <3> QED BY <3>1, <3>3, <3>4
  <2> QED BY <1>4, <2>1, <2>2, <2>4, <2>5 DEF PendingPart
<1> QED BY <1>0, <1>4, <1>5, OutboxParts DEF p, e, t

(***************************************************************************)
(* The type invariant in four parts, and the part of IInv above it.        *)
(***************************************************************************)
MailTypeOK ==
    /\ mailbox \in Seq(Calls) /\ commands \in Seq(Calls)
    /\ stopping \in BOOLEAN /\ stop \in BOOLEAN
    /\ call \in [Calls -> CallState] /\ reload \subseteq Calls

LoopTypeOK ==
    /\ pc \in PcValues /\ healthy \in BOOLEAN /\ duplex \in BOOLEAN
    /\ live \subseteq Streams
    /\ todo \subseteq live /\ eligible \subseteq live /\ blocked \in BOOLEAN
    /\ fault \in FaultKinds \cup {None, "unhealthy"}

BoxTypeOK ==
    /\ req \in [Streams -> Request]
    /\ got \in [Streams -> [seq : Nat, end : EndKinds \cup {None}]]
    /\ expired \subseteq Deadlined

\* TypeOK is the conjunction of its parts.
LEMMA TypeParts ==
    TypeOK <=> ExecutorTypeOK /\ MailTypeOK /\ LoopTypeOK /\ BoxTypeOK
BY DEF TypeOK, ExecutorTypeOK, MailTypeOK, LoopTypeOK, BoxTypeOK

\* The same in the next state.
LEMMA TypePartsNext ==
    TypeOK' <=> ExecutorTypeOK' /\ MailTypeOK' /\ LoopTypeOK' /\ BoxTypeOK'
BY DEF TypeOK, ExecutorTypeOK, MailTypeOK, LoopTypeOK, BoxTypeOK

\* A step that changes no more than the requests, in ways that undo nothing:
\* most of the loop's steps are of this kind.
LEMMA RequestStep ==
    ASSUME IInv, TypeOK',
           UNCHANGED << running, engine, emitted, live, got >>,
           pc \notin {"publish", "recover"}, pc' \notin {"publish", "recover"},
           duplex' => live = {},
           \A r \in Streams :
              /\ OutboxInv(req'[r], r)
              /\ req[r].terminal => req'[r].terminal /\ req'[r].events = req[r].events
              /\ req[r].admitted /\ ~req[r].finished =>
                    req'[r].admitted /\ ~req'[r].finished
    PROVE  IInv'
<1>0. running \subseteq Streams
  BY DEF IInv, TypeOK
<1>1. \A s \in Streams : emitted[s] = <<>>
  BY DEF IInv, ExecutorInv
<1>2. ExecutorInv'
  BY <1>0, <1>1 DEF IInv, ExecutorInv
<1>3. RunsAlone' /\ LiveDistinct' /\ RecoveryInv'
  BY DEF IInv, RunsAlone, LiveDistinct, RecoveryInv
<1>4. ReadInv'
  BY DEF IInv, ReadInv
<1> QED BY <1>2, <1>3, <1>4 DEF IInv

\* Such a step that leaves the requests alone.
LEMMA QuietStep ==
    ASSUME IInv, TypeOK',
           UNCHANGED << running, engine, emitted, live, got, req >>,
           pc \notin {"publish", "recover"}, pc' \notin {"publish", "recover"},
           duplex' => live = {}
    PROVE  IInv'
BY RequestStep DEF IInv

(***************************************************************************)
(* Client threads.                                                         *)
(***************************************************************************)

\* A step that touches only the clients' state or the deadlines.
LEMMA ClientStep ==
    ASSUME IInv, TypeOK', UNCHANGED << loopVars, executorVars, req, got >>
    PROVE  IInv'
BY DEF IInv, loopVars, executorVars, ExecutorInv, RunsAlone, LiveDistinct, RecoveryInv,
       ReadInv, IsEnd

\* enqueue()
LEMMA EnqueueKeeps ==
    ASSUME IInv, NEW c \in Calls, Enqueue(c)
    PROVE  IInv'
<1>1. TypeOK
  BY DEF IInv
<1>2. MailTypeOK'
  <2>1. Append(mailbox, c) \in Seq(Calls)
    BY <1>1 DEF TypeOK
  <2>2. mailbox' \in Seq(Calls) /\ call' \in [Calls -> CallState]
    BY <1>1, <2>1 DEF TypeOK, Enqueue, CallState
  <2> QED BY <1>1, <2>2 DEF TypeOK, MailTypeOK, Enqueue, loopVars
<1>3. ExecutorTypeOK' /\ LoopTypeOK' /\ BoxTypeOK'
  BY <1>1 DEF TypeOK, ExecutorTypeOK, LoopTypeOK, BoxTypeOK, Enqueue, loopVars, executorVars
<1>4. TypeOK'
  BY <1>2, <1>3, TypePartsNext
<1> QED BY <1>4, ClientStep DEF Enqueue

\* shutdown()
LEMMA ShutdownKeeps ==
    ASSUME IInv, Shutdown
    PROVE  IInv'
<1>1. TypeOK'
  BY DEF IInv, TypeOK, Shutdown, loopVars, executorVars
<1> QED BY <1>1, ClientStep DEF Shutdown

\* A deadline passes.
LEMMA ElapseKeeps ==
    ASSUME IInv, NEW r \in Streams, Elapse(r)
    PROVE  IInv'
<1>1. TypeOK'
  BY DEF IInv, TypeOK, Elapse, clientVars, loopVars, executorVars
<1> QED BY <1>1, ClientStep DEF Elapse

\* A set of positions in a sequence has a greatest one, unless it is empty.
LEMMA GreatestPosition ==
    ASSUME NEW n \in Nat, NEW S, S \subseteq 1 .. n, S # {}
    PROVE  \E i \in S : \A j \in S : j <= i
<1> DEFINE R == OpToRel(<, Nat)
           T == { n - i : i \in S }
<1>1. T \subseteq Nat /\ T # {}
  <2>1. \A i \in S : n - i \in Nat
    OBVIOUS
  <2>2. PICK i \in S : TRUE
    OBVIOUS
  <2>3. n - i \in T
    OBVIOUS
  <2> QED BY <2>1, <2>3
<1>2. \E x \in T : \A y \in T : ~(<<y, x>> \in R)
  <2>1. IsWellFoundedOn(R, Nat)
    BY NatLessThanWellFounded
  <2> HIDE DEF R, T
  <2> QED BY <1>1, <2>1, WFMin
<1>3. PICK x \in T : \A y \in T : ~(<<y, x>> \in R)
  BY <1>2
<1>4. \A y \in T : ~(y < x)
  BY <1>1, <1>3 DEF OpToRel
<1>5. PICK i \in S : x = n - i
  OBVIOUS
<1>6. \A j \in S : n - j \in T
  OBVIOUS
<1>7. \A j \in S : ~(n - j < n - i)
  BY <1>4, <1>5, <1>6
<1>8. \A j \in S : j <= i
  BY <1>7
<1> QED BY <1>8

\* wait()
LEMMA WaitKeeps ==
    ASSUME IInv, NEW r \in Streams, Wait(r)
    PROVE  IInv'
<1> DEFINE q == req[r]
           p == [q EXCEPT !.events = <<>>, !.bytes = 0]
           values == { i \in DOMAIN q.events : ~IsEnd(q.events[i]) }
           last == CHOOSE i \in values : \A j \in values : j <= i
<1>0. TypeOK /\ q \in Request /\ OutboxInv(q, r) /\ got[r] \in [seq : Nat, end : EndKinds \cup {None}]
  BY DEF IInv, TypeOK
<1>1. /\ got' = [got EXCEPT ![r] =
              [seq |-> IF values = {} THEN @.seq ELSE q.events[last].seq,
               end |-> IF q.terminal THEN q.events[Len(q.events)].kind ELSE @.end]]
      /\ req' = [req EXCEPT ![r] = p] /\ q.events # <<>>
      /\ UNCHANGED << clientVars, loopVars, executorVars, expired >>
  <2>1. req' = [req EXCEPT ![r].events = <<>>, ![r].bytes = 0]
    BY DEF Wait
  <2>2. req' = [req EXCEPT ![r] = p]
    BY <1>0, <2>1 DEF TypeOK, Request
  <2> QED BY <2>2 DEF Wait
<1>2. /\ p \in Request /\ p.events = <<>> /\ p.bytes = 0 /\ p.pending = q.pending
      /\ p.terminal = q.terminal /\ p.finished = q.finished /\ p.admitted = q.admitted
  <2>1. <<>> \in Seq(Event)
    OBVIOUS
  <2> QED BY <1>0, <2>1 DEF Request
<1>3. OutboxInv(p, r)
  BY <1>0, <1>2, LimitFacts DEF OutboxInv
<1>4. q.events \in Seq(Event) /\ Len(q.events) \in Nat /\ DOMAIN q.events = 1 .. Len(q.events)
  BY <1>0 DEF Request
<1>5. values # {} => q.events[last].seq \in Nat
  <2> SUFFICES ASSUME values # {} PROVE q.events[last].seq \in Nat
    OBVIOUS
  <2>1. \E i \in values : \A j \in values : j <= i
    <3>1. values \subseteq 1 .. Len(q.events)
      BY <1>4
    <3> HIDE DEF values
    <3> QED BY <1>4, <3>1, GreatestPosition
  <2>2. last \in values
    <3> HIDE DEF values
    <3> QED BY <2>1
  <2> HIDE DEF last
  <2>3. q.events[last] \in Event
    BY <1>4, <2>2
  <2> QED BY <2>3 DEF Event, ValueEvent, EndEvent
<1>6. q.terminal => q.events[Len(q.events)].kind \in EndKinds
  <2>1. Len(q.events) \in DOMAIN q.events
    BY <1>1, <1>4
  <2>2. q.events[Len(q.events)] \in Event
    BY <1>4, <2>1
  <2>3. q.terminal => IsEnd(q.events[Len(q.events)])
    BY <1>0, <1>1 DEF OutboxInv
  <2> QED BY <2>2, <2>3 DEF Event, ValueEvent, EndEvent, IsEnd
<1> HIDE DEF last, values
<1>7. /\ got'[r] \in [seq : Nat, end : EndKinds \cup {None}]
      /\ got'[r].end # None => q.terminal \/ got[r].end # None
      /\ \A s \in Streams \ {r} : got'[s] = got[s]
      /\ got' \in [Streams -> [seq : Nat, end : EndKinds \cup {None}]]
  BY <1>0, <1>1, <1>5, <1>6 DEF TypeOK
<1>8. /\ req' \in [Streams -> Request] /\ req'[r] = p
      /\ \A s \in Streams \ {r} : req'[s] = req[s]
  BY <1>0, <1>1, <1>2 DEF TypeOK
<1> HIDE DEF p
<1>9. TypeOK'
  BY <1>0, <1>1, <1>7, <1>8 DEF TypeOK, clientVars, loopVars, executorVars
<1>10. \A s \in Streams : OutboxInv(req'[s], s)
  BY <1>3, <1>8 DEF IInv
<1>11. ReadInv'
  BY <1>2, <1>7, <1>8 DEF IInv, ReadInv
<1>12. \A s \in Streams : req'[s].admitted = req[s].admitted /\ req'[s].finished = req[s].finished
  BY <1>2, <1>8
<1>13. ExecutorInv'
  BY <1>1, <1>12, <1>0 DEF IInv, ExecutorInv, TypeOK, loopVars, executorVars
<1>14. RunsAlone' /\ LiveDistinct' /\ RecoveryInv' /\ (duplex' => live' = {})
  BY <1>1 DEF IInv, RunsAlone, LiveDistinct, RecoveryInv, loopVars, executorVars
<1> QED BY <1>9, <1>10, <1>11, <1>13, <1>14 DEF IInv

(***************************************************************************)
(* The mailbox and the commands.                                           *)
(***************************************************************************)

\* The loop takes the mailbox.
LEMMA SwapKeeps ==
    ASSUME IInv, Swap
    PROVE  IInv'
<1>1. TypeOK'
  <2>1. <<>> \in Seq(Calls)
    OBVIOUS
  <2> QED BY <2>1 DEF IInv, TypeOK, Swap, PcValues, executorVars
<1>2. duplex' => live = {}
  BY DEF IInv, Swap
<1> QED BY <1>1, <1>2, QuietStep DEF Swap, executorVars

\* What every command does: it takes the head of the queue and answers it.
LEMMA TakeFacts ==
    ASSUME IInv, NEW op, Take(op)
    PROVE  /\ Head(commands) \in Calls /\ Head(commands).op = op
           /\ commands' \in Seq(Calls)
           /\ pc = "command" /\ pc' = "command" /\ pc' \in PcValues
           /\ \A answer \in CallState :
                 Reply(answer) => call' \in [Calls -> CallState]
           /\ UNCHANGED << mailbox, stopping, pc, stop, todo, blocked, eligible, fault,
                           got, expired >>
<1>1. commands \in Seq(Calls) /\ commands # <<>> /\ call \in [Calls -> CallState]
  BY DEF IInv, TypeOK, Take
<1>2. Head(commands) \in Calls /\ Tail(commands) \in Seq(Calls)
  BY <1>1
<1>3. \A answer \in CallState : Reply(answer) => call' \in [Calls -> CallState]
  BY <1>1, <1>2 DEF Reply
<1> QED BY <1>2, <1>3 DEF Take, PcValues

\* A command that leaves requests and executor alone.
LEMMA CommandStep ==
    ASSUME IInv, NEW op, Take(op),
           UNCHANGED << reload, live, order, executorVars, req >>,
           call' \in [Calls -> CallState], healthy' \in BOOLEAN, duplex' \in BOOLEAN,
           duplex' => live = {}
    PROVE  IInv'
<1>1. /\ commands' \in Seq(Calls) /\ pc = "command" /\ pc' = "command"
      /\ UNCHANGED << mailbox, stopping, pc, stop, todo, blocked, eligible, fault,
                      got, expired >>
  BY TakeFacts
<1>2. TypeOK'
  BY <1>1 DEF IInv, TypeOK, executorVars
<1> QED BY <1>1, <1>2, QuietStep DEF executorVars

\* Submit
LEMMA SubmitKeeps ==
    ASSUME IInv, Submit
    PROVE  IInv'
<1> DEFINE r == Head(commands).stream
<1>1. /\ Head(commands) \in Calls /\ Head(commands).op = "submit"
      /\ commands' \in Seq(Calls) /\ pc = "command" /\ pc' = "command"
      /\ call' \in [Calls -> CallState]
      /\ UNCHANGED << mailbox, stopping, pc, stop, todo, blocked, eligible, fault,
                      got, expired >>
  BY TakeFacts DEF Submit, CallState
<1>2. r \in Streams
  BY <1>1, SchedulerAssumption DEF CallType
<1>3. UNCHANGED << reload, healthy, duplex, executorVars, req >>
  BY DEF Submit
<1>4. CASE Accepts(r)
  <2>1. live' = live \cup {r}
    BY <1>4 DEF Submit
  <2>2. TypeOK'
    BY <1>1, <1>2, <1>3, <2>1 DEF IInv, TypeOK, executorVars
  <2>3. LiveDistinct'
    BY <1>4, <2>1 DEF IInv, LiveDistinct, Accepts
  <2>4. \A s \in Streams : emitted[s] = <<>>
    BY <1>1 DEF IInv, ExecutorInv
  <2>5. ExecutorInv'
    BY <1>3, <2>1, <2>4 DEF IInv, ExecutorInv, executorVars
  <2>6. RunsAlone' /\ RecoveryInv' /\ ReadInv'
    BY <1>1, <1>3 DEF IInv, RunsAlone, RecoveryInv, ReadInv, executorVars
  <2>7. ~duplex'
    BY <1>3, <1>4 DEF Accepts
  <2>8. \A s \in Streams : OutboxInv(req'[s], s)
    BY <1>3 DEF IInv
  <2> QED BY <2>2, <2>3, <2>5, <2>6, <2>7, <2>8 DEF IInv
<1>5. CASE ~Accepts(r)
  <2>1. UNCHANGED << live, order >>
    BY <1>5 DEF Submit
  <2>2. duplex' \in BOOLEAN /\ healthy' \in BOOLEAN /\ (duplex' => live = {})
    BY <1>3 DEF IInv, TypeOK
  <2> QED BY <1>1, <1>3, <2>1, <2>2, CommandStep DEF Submit
<1> QED BY <1>4, <1>5

\* cancel() on a set of requests.
LEMMA CancelAllKeeps ==
    ASSUME IInv, NEW S, CancelAll(S)
    PROVE  /\ req' \in [Streams -> Request]
           /\ aborted' \subseteq running
           /\ \A r \in Streams :
                 /\ OutboxInv(req'[r], r)
                 /\ req[r].terminal => req'[r].terminal /\ req'[r].events = req[r].events
                 /\ req[r].admitted /\ ~req[r].finished =>
                       req'[r].admitted /\ ~req'[r].finished
<1>1. ASSUME NEW r \in Streams
      PROVE  /\ req[r] \in Request /\ OutboxInv(req[r], r)
             /\ Cancel(req[r], r) \in Request /\ OutboxInv(Cancel(req[r], r), r)
             /\ Cancel(req[r], r).admitted = req[r].admitted
             /\ Cancel(req[r], r).finished => req[r].finished \/ ~req[r].admitted
             /\ req[r].terminal => /\ Cancel(req[r], r).terminal
                                   /\ Cancel(req[r], r).events = req[r].events
  <2>1. req[r] \in Request /\ OutboxInv(req[r], r)
    BY DEF IInv, TypeOK
  <2> QED BY <2>1, CancelKeeps
<1>2. req' = [r \in Streams |-> IF r \in S THEN Cancel(req[r], r) ELSE req[r]]
  BY DEF CancelAll
<1>3. aborted' \subseteq running
  BY DEF CancelAll, CancelledWith, Holding, IInv, TypeOK
<1>4. req' \in [Streams -> Request]
  BY <1>1, <1>2
<1>5. ASSUME NEW r \in Streams
      PROVE  /\ OutboxInv(req'[r], r)
             /\ req[r].terminal => req'[r].terminal /\ req'[r].events = req[r].events
             /\ req[r].admitted /\ ~req[r].finished =>
                   req'[r].admitted /\ ~req'[r].finished
  <2>1. CASE r \in S
    <3>1. req'[r] = Cancel(req[r], r)
      BY <1>2, <2>1
    <3> QED BY <1>1, <3>1
  <2>2. CASE r \notin S
    <3>1. req'[r] = req[r]
      BY <1>2, <2>2
    <3> QED BY <1>1, <3>1
  <2> QED BY <2>1, <2>2
<1> QED BY <1>3, <1>4, <1>5

\* Cancel
LEMMA CancelCommandKeeps ==
    ASSUME IInv, CancelCommand
    PROVE  IInv'
<1>1. /\ commands' \in Seq(Calls) /\ pc = "command" /\ pc' = "command"
      /\ call' \in [Calls -> CallState]
      /\ UNCHANGED << mailbox, stopping, pc, stop, todo, blocked, eligible, fault,
                      got, expired >>
  BY TakeFacts DEF CancelCommand, CallState
<1>2. UNCHANGED << reload, healthy, duplex, live, order,
                   running, flushed, quanta, produced, emitted, engine >>
  BY DEF CancelCommand
<1>3. /\ req' \in [Streams -> Request] /\ aborted' \subseteq running
      /\ \A r \in Streams :
            /\ OutboxInv(req'[r], r)
            /\ req[r].terminal => req'[r].terminal /\ req'[r].events = req[r].events
            /\ req[r].admitted /\ ~req[r].finished => req'[r].admitted /\ ~req'[r].finished
  BY CancelAllKeeps DEF CancelCommand
<1>4. TypeOK'
  BY <1>1, <1>2, <1>3 DEF IInv, TypeOK
<1>5. duplex' => live = {}
  BY <1>2 DEF IInv
<1> QED BY <1>1, <1>2, <1>3, <1>4, <1>5, RequestStep

\* Control
LEMMA ControlKeeps ==
    ASSUME IInv, Control
    PROVE  IInv'
<1> DEFINE c == Head(commands)
<1>1. /\ c \in Calls /\ c.op = "control" /\ pc = "command"
      /\ \A answer \in CallState : Reply(answer) => call' \in [Calls -> CallState]
  BY TakeFacts DEF Control
<1>2. healthy \in BOOLEAN /\ duplex \in BOOLEAN /\ (duplex => live = {})
  BY DEF IInv, TypeOK
<1>3. UNCHANGED << reload, live, order, executorVars, req >>
  BY DEF Control
<1>4. CASE Reply("error") /\ UNCHANGED << healthy, duplex >>
  BY <1>1, <1>2, <1>3, <1>4, CommandStep DEF Control, CallState
<1>5. CASE /\ ~ControlConflict(c.kind) /\ EngineCall(engine # "unloaded")
           /\ duplex' = IF call'[c] # "ok" THEN duplex
                        ELSE IF c.kind = "duplex_start" THEN TRUE
                        ELSE IF c.kind = "duplex_stop" THEN FALSE
                        ELSE duplex
  <2>1. call' \in [Calls -> CallState] /\ healthy' \in BOOLEAN
    BY <1>1, <1>2, <1>5 DEF EngineCall, CallState
  <2>2. duplex' \in BOOLEAN /\ (duplex' => live = {})
    BY <1>2, <1>5 DEF ControlConflict
  <2> QED BY <1>3, <2>1, <2>2, CommandStep DEF Control
<1> QED BY <1>4, <1>5 DEF Control

\* Session
LEMMA SessionKeeps ==
    ASSUME IInv, Session
    PROVE  IInv'
<1>1. \A answer \in CallState : Reply(answer) => call' \in [Calls -> CallState]
  BY TakeFacts DEF Session
<1>2. healthy \in BOOLEAN /\ duplex \in BOOLEAN /\ (duplex => live = {})
  BY DEF IInv, TypeOK
<1>3. call' \in [Calls -> CallState] /\ healthy' \in BOOLEAN
  BY <1>1, <1>2 DEF Session, EngineCall, CallState
<1> QED BY <1>2, <1>3, CommandStep DEF Session

\* Status
LEMMA StatusKeeps ==
    ASSUME IInv, Status
    PROVE  IInv'
<1>1. call' \in [Calls -> CallState]
  BY TakeFacts DEF Status, CallState
<1>2. healthy \in BOOLEAN /\ duplex \in BOOLEAN /\ (duplex => live = {})
  BY DEF IInv, TypeOK
<1> QED BY <1>1, <1>2, CommandStep DEF Status

\* Reload
LEMMA ReloadCommandKeeps ==
    ASSUME IInv, ReloadCommand
    PROVE  IInv'
<1>1. /\ Head(commands) \in Calls /\ commands' \in Seq(Calls)
      /\ pc = "command" /\ pc' = "command"
      /\ \A answer \in CallState : Reply(answer) => call' \in [Calls -> CallState]
      /\ UNCHANGED << mailbox, stopping, pc, stop, todo, blocked, eligible, fault,
                      got, expired >>
  BY TakeFacts DEF ReloadCommand
<1>2. UNCHANGED << live, order, running, flushed, quanta, produced, emitted, engine >>
  BY DEF ReloadCommand
<1>3. healthy \in BOOLEAN /\ duplex \in BOOLEAN /\ (duplex => live = {})
  BY DEF IInv, TypeOK
<1>4. CASE /\ Reply("error") /\ healthy' \in BOOLEAN
           /\ UNCHANGED << reload, duplex, req, aborted >>
  BY <1>1, <1>2, <1>3, <1>4, CommandStep DEF ReloadCommand, executorVars, CallState
<1>5. CASE /\ reload' = {Head(commands)} /\ ~duplex' /\ duplex' \in BOOLEAN
           /\ CancelAll(live) /\ UNCHANGED << call, healthy >>
  <2>1. /\ req' \in [Streams -> Request] /\ aborted' \subseteq running
        /\ \A r \in Streams :
              /\ OutboxInv(req'[r], r)
              /\ req[r].terminal => req'[r].terminal /\ req'[r].events = req[r].events
              /\ req[r].admitted /\ ~req[r].finished => req'[r].admitted /\ ~req'[r].finished
    BY <1>5, CancelAllKeeps
  <2>2. TypeOK'
    BY <1>1, <1>2, <1>5, <2>1 DEF IInv, TypeOK
  <2> QED BY <1>1, <1>2, <1>5, <2>1, <2>2, RequestStep
<1> QED BY <1>3, <1>4, <1>5 DEF ReloadCommand

(***************************************************************************)
(* The scan.                                                               *)
(***************************************************************************)

\* The scan starts with every active request.
LEMMA BeginScanKeeps ==
    ASSUME IInv, BeginScan
    PROVE  IInv'
<1>1. TypeOK'
  BY DEF IInv, TypeOK, BeginScan, PcValues, clientVars, executorVars
<1>2. duplex' => live = {}
  BY DEF IInv, BeginScan
<1> QED BY <1>1, <1>2, QuietStep DEF BeginScan, executorVars

\* flush()
LEMMA FlushStepKeeps ==
    ASSUME IInv, NEW r \in Streams, Flush(r)
    PROVE  IInv'
<1> DEFINE q == req[r]
           p == Deliver([q EXCEPT !.pending = Tail(@)], q.pending[1])
<1>0. q \in Request /\ OutboxInv(q, r)
  BY DEF IInv, TypeOK
<1>1. /\ pc = "flush"
      /\ UNCHANGED << clientVars, commands, stop, reload, healthy, duplex, live, order,
                      todo, blocked, eligible, fault, executorVars, got, expired >>
  BY DEF Flush, Locked
<1>2. duplex' => live = {}
  BY <1>1 DEF IInv
<1>3. CASE q.pending # <<>> /\ Fits(q, q.pending[1])
  <2>1. req' = [req EXCEPT ![r] = p] /\ pc' = pc
    BY <1>3 DEF Flush
  <2>2. /\ p \in Request /\ OutboxInv(p, r) /\ ~q.terminal
        /\ p.admitted = q.admitted /\ p.finished = q.finished
    BY <1>0, <1>3, FlushKeeps
  <2> HIDE DEF p
  <2>3. /\ req' \in [Streams -> Request] /\ req'[r] = p
        /\ \A s \in Streams \ {r} : req'[s] = req[s]
    BY <2>1, <2>2 DEF IInv, TypeOK
  <2>4. TypeOK'
    BY <1>1, <2>1, <2>3 DEF IInv, TypeOK, clientVars, executorVars
  <2>5. ASSUME NEW s \in Streams
        PROVE  /\ OutboxInv(req'[s], s)
               /\ req[s].terminal => req'[s].terminal /\ req'[s].events = req[s].events
               /\ req[s].admitted /\ ~req[s].finished => req'[s].admitted /\ ~req'[s].finished
    BY <2>2, <2>3 DEF IInv
  <2> QED BY <1>1, <1>2, <2>1, <2>4, <2>5, RequestStep DEF executorVars
<1>4. CASE ~(q.pending # <<>> /\ Fits(q, q.pending[1]))
  <2>1. pc' = "examine" /\ UNCHANGED req
    BY <1>4 DEF Flush
  <2>2. TypeOK'
    BY <1>1, <2>1 DEF IInv, TypeOK, PcValues, clientVars, executorVars
  <2> QED BY <1>1, <1>2, <2>1, <2>2, QuietStep DEF executorVars
<1> QED BY <1>3, <1>4

\* What cancel() and expire() in the scan do to a request.
LEMMA SweptKeeps ==
    ASSUME IInv, NEW r \in Streams
    PROVE  LET p == Swept(r)
           IN  /\ p \in Request /\ OutboxInv(p, r) /\ p.admitted = req[r].admitted
               /\ p.finished => req[r].finished \/ ~req[r].admitted
               /\ req[r].terminal => p.terminal /\ p.events = req[r].events
<1>0. req[r] \in Request /\ OutboxInv(req[r], r)
  BY DEF IInv, TypeOK
<1>1. CASE Interrupted
  BY <1>0, <1>1, CancelKeeps DEF Swept
<1>2. CASE ~Interrupted /\ r \in expired
  BY <1>0, <1>2, ExpireKeeps DEF Swept
<1>3. CASE ~Interrupted /\ r \notin expired
  BY <1>0, <1>3 DEF Swept
<1> QED BY <1>1, <1>2, <1>3

\* A cancelled or finished request is passed over.
LEMMA ExamineEndingKeeps ==
    ASSUME IInv, NEW r \in Streams, ExamineEnding(r)
    PROVE  IInv'
<1> DEFINE p == Swept(r)
<1>1. /\ pc = "examine" /\ pc' = "flush" /\ req' = [req EXCEPT ![r] = p]
      /\ todo' = todo \ {r}
      /\ UNCHANGED << clientVars, commands, stop, reload, healthy, duplex, live, order,
                      got, expired, blocked, eligible, fault, running, flushed, quanta,
                      produced, emitted, engine >>
  BY DEF ExamineEnding, Examining, Scanned
<1>2. aborted' \subseteq running
  BY DEF ExamineEnding, CancelledWith, Holding, IInv, TypeOK
<1>3. /\ p \in Request /\ OutboxInv(p, r) /\ p.admitted = req[r].admitted
      /\ p.finished => req[r].finished \/ ~req[r].admitted
      /\ req[r].terminal => p.terminal /\ p.events = req[r].events
  BY SweptKeeps
<1> HIDE DEF p
<1>4. /\ req' \in [Streams -> Request] /\ req'[r] = p
      /\ \A s \in Streams \ {r} : req'[s] = req[s]
  BY <1>1, <1>3 DEF IInv, TypeOK
<1>5. TypeOK'
  BY <1>1, <1>2, <1>4 DEF IInv, TypeOK, PcValues, clientVars
<1>6. ASSUME NEW s \in Streams
      PROVE  /\ OutboxInv(req'[s], s)
             /\ req[s].terminal => req'[s].terminal /\ req'[s].events = req[s].events
             /\ req[s].admitted /\ ~req[s].finished => req'[s].admitted /\ ~req'[s].finished
  BY <1>3, <1>4 DEF IInv
<1>7. duplex' => live = {}
  BY <1>1 DEF IInv
<1> QED BY <1>1, <1>5, <1>6, <1>7, RequestStep

\* An ongoing request is found eligible or not.
LEMMA ExamineOngoingKeeps ==
    ASSUME IInv, NEW r \in Streams, ExamineOngoing(r)
    PROVE  IInv'
<1>1. /\ pc = "examine" /\ pc' = "flush" /\ r \in todo
      /\ todo' = todo \ {r} /\ eligible' \subseteq eligible \cup {r}
      /\ UNCHANGED << clientVars, commands, stop, reload, healthy, duplex, live, order,
                      got, expired, blocked, fault, executorVars, req >>
  BY DEF ExamineOngoing, Examining, IsCurrent, Scanned
<1>2. TypeOK'
  BY <1>1 DEF IInv, TypeOK, PcValues, clientVars, executorVars
<1>3. duplex' => live = {}
  BY <1>1 DEF IInv
<1> QED BY <1>1, <1>2, <1>3, QuietStep DEF executorVars

\* admit() puts the request off.
LEMMA AdmitDeferredKeeps ==
    ASSUME IInv, NEW r \in Streams, AdmitDeferred(r)
    PROVE  IInv'
<1>1. /\ pc = "examine" /\ pc' = "flush" /\ todo' = todo \ {r} /\ blocked' = TRUE
      /\ UNCHANGED << clientVars, commands, stop, reload, healthy, duplex, live, order,
                      got, expired, eligible, fault, executorVars, req >>
  BY DEF AdmitDeferred, Examining, Scanned
<1>2. TypeOK'
  BY <1>1 DEF IInv, TypeOK, PcValues, clientVars, executorVars
<1>3. duplex' => live = {}
  BY <1>1 DEF IInv
<1> QED BY <1>1, <1>2, <1>3, QuietStep DEF executorVars

\* A request the scan tries to admit is active, not admitted and not over.
LEMMA AdmissionFacts ==
    ASSUME IInv, NEW r \in Streams, Examining(r), ~Ending(r), AttemptsAdmission(r)
    PROVE  /\ r \in live /\ ~req[r].admitted /\ ~req[r].finished /\ ~req[r].terminal
           /\ pc = "examine" /\ engine = "healthy" /\ running \subseteq Batchable
<1>1. r \in live /\ pc = "examine" /\ ~req[r].admitted
  BY DEF Examining, IsCurrent, AttemptsAdmission, IInv, TypeOK
<1>2. engine = "healthy" /\ running \subseteq Batchable
  BY DEF AttemptsAdmission, Available
<1>3. req[r] \in Request /\ OutboxInv(req[r], r)
  BY DEF IInv, TypeOK
<1>4. ~req[r].finished
  <2>1. CASE Interrupted
    <3>1. req[r].finished => Cancel(req[r], r).finished
      BY <1>3, CancelKeeps
    <3> QED BY <2>1, <3>1 DEF Ending, Swept
  <2>2. CASE ~Interrupted /\ r \in expired
    <3>1. req[r].finished => Expire(req[r], r).finished
      BY <1>3, ExpireKeeps
    <3> QED BY <2>2, <3>1 DEF Ending, Swept
  <2>3. CASE ~Interrupted /\ r \notin expired
    BY <2>3 DEF Ending, Swept
  <2> QED BY <2>1, <2>2, <2>3
<1>5. ~req[r].terminal
  BY <1>3, <1>4 DEF OutboxInv
<1> QED BY <1>1, <1>2, <1>4, <1>5

\* admit() takes the request: a request that cannot be batched found the executor
\* empty, and a batched one found no other kind there.
LEMMA AdmitAcceptedKeeps ==
    ASSUME IInv, NEW r \in Streams, AdmitAccepted(r)
    PROVE  IInv'
<1> DEFINE p == [req[r] EXCEPT !.admitted = TRUE]
<1>0. /\ r \in live /\ ~req[r].admitted /\ ~req[r].finished /\ ~req[r].terminal
      /\ pc = "examine" /\ engine = "healthy" /\ running \subseteq Batchable
  BY AdmissionFacts DEF AdmitAccepted
<1>1. /\ pc' = "flush" /\ running' = running \cup {r}
      /\ todo' = todo \ {r} /\ eligible' \subseteq eligible \cup {r}
      /\ UNCHANGED << clientVars, commands, stop, reload, healthy, duplex, live, order,
                      got, expired, blocked, fault, aborted, flushed, quanta, produced,
                      emitted, engine >>
  BY DEF AdmitAccepted, Scanned, Admit
<1>2. req' = [req EXCEPT ![r] = p]
  BY DEF AdmitAccepted, IInv, TypeOK, Request
<1>3. req[r] \in Request /\ OutboxInv(req[r], r)
  BY DEF IInv, TypeOK
<1>4. /\ p \in Request /\ p.events = req[r].events /\ p.bytes = req[r].bytes
      /\ p.terminal = req[r].terminal /\ p.pending = req[r].pending
      /\ p.finished = req[r].finished /\ p.admitted
  BY <1>3 DEF Request
<1>5. OutboxInv(p, r)
  BY <1>3, <1>4 DEF OutboxInv
<1> HIDE DEF p
<1>6. /\ req' \in [Streams -> Request] /\ req'[r] = p
      /\ \A s \in Streams \ {r} : req'[s] = req[s]
  BY <1>2, <1>4 DEF IInv, TypeOK
<1>7. TypeOK'
  BY <1>0, <1>1, <1>6 DEF IInv, TypeOK, PcValues, clientVars
<1>8. \A s \in Streams : OutboxInv(req'[s], s)
  BY <1>5, <1>6 DEF IInv
<1>9. ExecutorInv'
  <2>1. running \subseteq Streams /\ \A s \in Streams : emitted[s] = <<>>
    BY <1>0 DEF IInv, ExecutorInv, TypeOK
  <2>2. \A s \in running' : s \in live' /\ req'[s].admitted /\ ~req'[s].finished
    BY <1>0, <1>1, <1>4, <1>6, <2>1 DEF IInv, ExecutorInv
  <2> QED BY <1>1, <2>1, <2>2 DEF ExecutorInv
<1>10. RunsAlone'
  <2>1. r \in Batchable \/ running = {}
    BY DEF AdmitAccepted, Admit, Defers
  <2> QED BY <1>0, <1>1, <2>1 DEF RunsAlone
<1>11. LiveDistinct' /\ RecoveryInv' /\ (duplex' => live' = {})
  BY <1>0, <1>1 DEF IInv, LiveDistinct, RecoveryInv
<1>12. ReadInv'
  BY <1>1, <1>4, <1>6 DEF IInv, ReadInv
<1> QED BY <1>7, <1>8, <1>9, <1>10, <1>11, <1>12 DEF IInv

\* A terminal event for a request that has not finished.
LEMMA EndUnfinished ==
    ASSUME IInv, NEW r \in Streams, ~req[r].finished
    PROVE  LET p == PublishEnd(req[r], End(r, "failed"))
           IN  p \in Request /\ OutboxInv(p, r) /\ p.finished /\ ~req[r].terminal
<1>1. req[r] \in Request /\ BoxPart(req[r], r) /\ PendingPart(req[r], r)
  BY OutboxParts DEF IInv, TypeOK
<1>2. /\ ~req[r].terminal
      /\ \A i \in DOMAIN req[r].pending :
            req[r].pending[i].of = r /\ ~IsEnd(req[r].pending[i])
  BY <1>1 DEF PendingPart
<1>3. End(r, "failed") \in Event /\ IsEnd(End(r, "failed")) /\ End(r, "failed").of = r
  BY EventFacts DEF EndKinds
<1> QED BY <1>1, <1>2, <1>3, PublishEndKeeps

\* admit() refuses the request.
LEMMA AdmitRejectedKeeps ==
    ASSUME IInv, NEW r \in Streams, AdmitRejected(r)
    PROVE  IInv'
<1> DEFINE p == PublishEnd(req[r], End(r, "failed"))
<1>0. /\ r \in live /\ ~req[r].admitted /\ ~req[r].finished /\ ~req[r].terminal
      /\ pc = "examine"
  BY AdmissionFacts DEF AdmitRejected
<1>1. /\ pc' = "flush" /\ req' = [req EXCEPT ![r] = p] /\ todo' = todo \ {r}
      /\ UNCHANGED << clientVars, commands, stop, reload, healthy, duplex, live, order,
                      got, expired, blocked, eligible, fault, executorVars >>
  BY DEF AdmitRejected, Scanned
<1>2. p \in Request /\ OutboxInv(p, r)
  BY <1>0, EndUnfinished
<1> HIDE DEF p
<1>3. /\ req' \in [Streams -> Request] /\ req'[r] = p
      /\ \A s \in Streams \ {r} : req'[s] = req[s]
  BY <1>1, <1>2 DEF IInv, TypeOK
<1>4. TypeOK'
  BY <1>1, <1>3 DEF IInv, TypeOK, PcValues, clientVars, executorVars
<1>5. ASSUME NEW s \in Streams
      PROVE  /\ OutboxInv(req'[s], s)
             /\ req[s].terminal => req'[s].terminal /\ req'[s].events = req[s].events
             /\ req[s].admitted /\ ~req[s].finished => req'[s].admitted /\ ~req'[s].finished
  BY <1>0, <1>2, <1>3 DEF IInv
<1>6. duplex' => live = {}
  BY <1>1 DEF IInv
<1> QED BY <1>0, <1>1, <1>4, <1>5, <1>6, RequestStep DEF executorVars

\* admit() throws a backend failure: the recovery finds only batched requests.
LEMMA AdmitThrowsKeeps ==
    ASSUME IInv, NoOrphans, NEW r \in Streams, AdmitThrows(r)
    PROVE  IInv'
<1>0. pc = "examine" /\ engine = "healthy" /\ running \subseteq Batchable
  BY AdmissionFacts DEF AdmitThrows
<1>1. /\ pc' = "recover" /\ todo' = todo \ {r}
      /\ UNCHANGED << clientVars, commands, stop, reload, healthy, duplex, live, order,
                      got, expired, blocked, eligible, executorVars, req >>
  BY DEF AdmitThrows, Scanned
<1>2. fault' = "admit_backend"
  BY DEF AdmitThrows, NoOrphans
<1>3. TypeOK'
  BY <1>1, <1>2 DEF IInv, TypeOK, PcValues, FaultKinds, clientVars, executorVars
<1>4. \A s \in Streams : emitted[s] = <<>>
  BY <1>0 DEF IInv, ExecutorInv
<1>5. ExecutorInv'
  BY <1>1, <1>4 DEF IInv, ExecutorInv, executorVars
<1>6. RunsAlone' /\ LiveDistinct' /\ RecoveryInv' /\ ReadInv' /\ (duplex' => live' = {})
  BY <1>0, <1>1, <1>2 DEF IInv, RunsAlone, LiveDistinct, RecoveryInv, ReadInv, executorVars
<1>7. \A s \in Streams : OutboxInv(req'[s], s)
  BY <1>1 DEF IInv
<1> QED BY <1>3, <1>5, <1>6, <1>7 DEF IInv

\* The scan is over.
LEMMA EndScanKeeps ==
    ASSUME IInv, EndScan
    PROVE  IInv'
<1>1. TypeOK'
  BY DEF IInv, TypeOK, EndScan, PcValues, clientVars, executorVars
<1>2. duplex' => live = {}
  BY DEF IInv, EndScan
<1> QED BY <1>1, <1>2, QuietStep DEF EndScan, executorVars

(***************************************************************************)
(* The engine step, its events and the recovery.                           *)
(***************************************************************************)

\* Engine::step()
LEMMA EngineStepKeeps ==
    ASSUME IInv, NoOrphans, EngineStep
    PROVE  IInv'
<1>0. /\ pc = "step"
      /\ UNCHANGED << clientVars, commands, stop, reload, healthy, duplex, live, order,
                      todo, blocked, eligible, req, got, expired >>
  BY DEF EngineStep
<1>1. duplex' => live = {}
  BY <1>0 DEF IInv
<1>2. CASE ~Executable /\ pc' = "erase" /\ UNCHANGED << fault, executorVars >>
  <2>1. TypeOK'
    BY <1>0, <1>2 DEF IInv, TypeOK, PcValues, clientVars, executorVars
  <2> QED BY <1>0, <1>1, <1>2, <2>1, QuietStep DEF executorVars
<1>3. CASE Step(eligible, aborted, TRUE) /\ pc' = "publish" /\ UNCHANGED fault
  <2>1. ExecutorTypeOK /\ \A s \in running : s \in Batchable \/ running = {s}
    BY TypeParts DEF IInv, RunsAlone
  <2>2. StepResult(aborted, TRUE)
    <3>1. aborted \subseteq running /\ TRUE \in BOOLEAN
      BY <2>1 DEF ExecutorTypeOK
    <3> QED BY <1>3, <2>1, <3>1, StepKeeps
  <2>3. TypeOK'
    <3>1. ExecutorTypeOK'
      BY <2>2 DEF StepResult
    <3>2. MailTypeOK' /\ LoopTypeOK' /\ BoxTypeOK'
      BY <1>0, <1>3 DEF IInv, TypeOK, MailTypeOK, LoopTypeOK, BoxTypeOK, PcValues, clientVars
    <3> QED BY <3>1, <3>2, TypePartsNext
  <2>4. ExecutorInv'
    BY <1>0, <1>3, <2>2 DEF IInv, ExecutorInv, StepResult
  <2>5. RunsAlone'
    BY <2>2 DEF IInv, RunsAlone, StepResult
  <2>6. RecoveryInv'
    <3>1. engine # "healthy" => running = {}
      BY <1>0 DEF IInv, RecoveryInv
    <3>2. engine' # "healthy" => running' \subseteq Batchable
      BY <2>2, <3>1 DEF StepResult
    <3> QED BY <1>3, <3>2 DEF RecoveryInv
  <2>7. LiveDistinct' /\ ReadInv'
    BY <1>0 DEF IInv, LiveDistinct, ReadInv
  <2>8. \A s \in Streams : OutboxInv(req'[s], s)
    BY <1>0 DEF IInv
  <2>9. duplex' => live' = {}
    BY <1>0, <1>1
  <2> QED BY <2>3, <2>4, <2>5, <2>6, <2>7, <2>8, <2>9 DEF IInv
<1>4. StepFaults = {}
  BY DEF StepFaults, NoOrphans
<1> QED BY <1>2, <1>3, <1>4 DEF EngineStep

\* One event of the step is published.  Active requests have different IDs, so it
\* reaches the request that emitted it, and a terminal event is its last.
LEMMA PublishNextKeeps ==
    ASSUME IInv, NEW s \in Streams, PublishNext(s)
    PROVE  IInv'
<1> DEFINE e == emitted[s][1]
           target == { r \in live : IdOf[r] = IdOf[s] }
           p == Publish(req[s], e, s)
<1>0. /\ pc = "publish" /\ emitted[s] # <<>>
      /\ req' = [r \in Streams |-> IF r \in target THEN Publish(req[r], e, r) ELSE req[r]]
      /\ aborted' \subseteq aborted \cup running
      /\ emitted' = [emitted EXCEPT ![s] = Tail(@)]
      /\ UNCHANGED << clientVars, loopVars, running, flushed, quanta, produced, engine,
                      got, expired >>
  BY DEF PublishNext, CancelledWith, Holding
<1>1. s \in live /\ req[s].admitted /\ ~req[s].finished
  BY <1>0 DEF IInv, ExecutorInv
<1>2. target = {s}
  BY <1>1 DEF IInv, LiveDistinct
<1>3. /\ emitted[s] \in Seq(Event) /\ Tail(emitted[s]) \in Seq(Event)
      /\ e \in Event /\ 1 \in DOMAIN emitted[s] /\ Len(emitted[s]) >= 1
      /\ Len(Tail(emitted[s])) = Len(emitted[s]) - 1
      /\ \A i \in DOMAIN Tail(emitted[s]) :
            Tail(emitted[s])[i] = emitted[s][i + 1] /\ i + 1 \in DOMAIN emitted[s]
  BY <1>0 DEF IInv, TypeOK
<1>4. e.of = s /\ (IsEnd(e) => Len(emitted[s]) = 1 /\ s \notin running)
  BY <1>3 DEF IInv, ExecutorInv
<1>5. req[s] \in Request /\ OutboxInv(req[s], s) /\ ~req[s].terminal
  BY <1>1 DEF IInv, TypeOK, OutboxInv
<1>6. /\ p \in Request /\ OutboxInv(p, s) /\ p.admitted
      /\ p.finished => IsEnd(e)
  <2> HIDE DEF e
  <2> QED BY <1>1, <1>3, <1>4, <1>5, PublishKeeps
<1>7. req'[s] = p /\ \A r \in Streams \ {s} : req'[r] = req[r]
  BY <1>0, <1>2
<1>8. req' \in [Streams -> Request]
  <2> HIDE DEF p, target
  <2>1. DOMAIN req' = Streams /\ req' = [r \in Streams |-> req'[r]]
    BY <1>0
  <2>2. \A r \in Streams : req'[r] \in Request
    BY <1>6, <1>7 DEF IInv, TypeOK
  <2> QED BY <2>1, <2>2
<1> HIDE DEF p, target, e
<1>9. /\ emitted' \in [Streams -> Seq(Event)] /\ emitted'[s] = Tail(emitted[s])
      /\ \A r \in Streams \ {s} : emitted'[r] = emitted[r]
  BY <1>0, <1>3 DEF IInv, TypeOK
<1>10. TypeOK'
  BY <1>0, <1>8, <1>9 DEF IInv, TypeOK, clientVars, loopVars
<1>11. \A r \in Streams : OutboxInv(req'[r], r)
  BY <1>6, <1>7 DEF IInv
<1>12. ExecutorInv'
  <2>1. \A r \in running' : r \in live' /\ req'[r].admitted /\ ~req'[r].finished
    <3>1. \A r \in running : r \in Streams
      BY DEF IInv, TypeOK
    <3> QED BY <1>0, <1>4, <1>6, <1>7, <3>1 DEF IInv, ExecutorInv, loopVars
  <2>2. Tail(emitted[s]) # <<>> => ~IsEnd(e)
    BY <1>3, <1>4
  <2>3. \A r \in Streams : emitted'[r] # <<>> =>
          pc' = "publish" /\ r \in live' /\ req'[r].admitted /\ ~req'[r].finished
    BY <1>0, <1>1, <1>6, <1>7, <1>9, <2>2 DEF IInv, ExecutorInv, loopVars
  <2>4. ASSUME NEW r \in Streams, NEW i \in DOMAIN emitted'[r]
        PROVE  /\ emitted'[r][i].of = r
               /\ IsEnd(emitted'[r][i]) => i = Len(emitted'[r]) /\ r \notin running'
    <3>1. CASE r = s
      <4>1. emitted'[r] = Tail(emitted[s]) /\ i \in DOMAIN Tail(emitted[s])
        BY <1>9, <3>1
      <4>2. /\ emitted[s][i + 1].of = s
            /\ IsEnd(emitted[s][i + 1]) => i + 1 = Len(emitted[s]) /\ s \notin running
        BY <1>3, <4>1 DEF IInv, ExecutorInv
      <4>3. emitted'[r][i] = emitted[s][i + 1]
        BY <1>3, <4>1
      <4>4. i + 1 = Len(emitted[s]) => i = Len(Tail(emitted[s]))
        BY <1>3, <4>1
      <4>5. running' = running
        BY <1>0
      <4> QED BY <3>1, <4>1, <4>2, <4>3, <4>4, <4>5, Zenon
    <3>2. CASE r # s
      BY <1>0, <1>9, <3>2 DEF IInv, ExecutorInv
    <3> QED BY <3>1, <3>2
  <2> QED BY <2>1, <2>3, <2>4 DEF ExecutorInv
<1>13. ReadInv'
  BY <1>0, <1>5, <1>7 DEF IInv, ReadInv
<1>14. RunsAlone' /\ LiveDistinct' /\ RecoveryInv' /\ (duplex' => live' = {})
  BY <1>0 DEF IInv, RunsAlone, LiveDistinct, RecoveryInv, loopVars
<1> QED BY <1>10, <1>11, <1>12, <1>13, <1>14 DEF IInv

\* Every event has been published.
LEMMA EndPublishKeeps ==
    ASSUME IInv, EndPublish
    PROVE  IInv'
<1>0. /\ pc = "publish" /\ emitted = NoEvents
      /\ UNCHANGED << clientVars, commands, stop, reload, healthy, duplex, live, order,
                      todo, blocked, eligible, executorVars, req, got, expired >>
  BY DEF EndPublish
<1>1. \/ engine = "healthy" /\ pc' = "erase" /\ fault' = fault
      \/ engine # "healthy" /\ pc' = "recover" /\ fault' = "unhealthy"
  BY DEF EndPublish
<1>2. TypeOK'
  BY <1>0, <1>1 DEF IInv, TypeOK, PcValues, clientVars, executorVars
<1>3. \A s \in Streams : emitted[s] = <<>>
  BY <1>0 DEF NoEvents
<1>4. ExecutorInv'
  BY <1>0, <1>3 DEF IInv, ExecutorInv, executorVars
<1>5. RecoveryInv'
  BY <1>0, <1>1 DEF IInv, RecoveryInv, executorVars
<1>6. RunsAlone' /\ LiveDistinct' /\ ReadInv' /\ (duplex' => live' = {})
  BY <1>0 DEF IInv, RunsAlone, LiveDistinct, ReadInv, executorVars
<1>7. \A s \in Streams : OutboxInv(req'[s], s)
  BY <1>0 DEF IInv
<1> QED BY <1>2, <1>4, <1>5, <1>6, <1>7 DEF IInv

\* The recovery empties the executor before it fails the requests: only batched
\* requests are left, and each of them finishes in the one step it is given.
LEMMA RecoverKeeps ==
    ASSUME IInv, NoOrphans, Recover
    PROVE  IInv'
<1> DEFINE ab == CancelledWith({ r \in live : req[r].admitted })
<1>0. /\ pc = "recover" /\ pc' = "erase" /\ fault' = None
      /\ req' = [r \in Streams |-> IF r \in live /\ ~req[r].finished
                                   THEN PublishEnd(req[r], End(r, "failed")) ELSE req[r]]
      /\ UNCHANGED << clientVars, commands, stop, reload, duplex, live, order, todo,
                      blocked, eligible, got, expired >>
  BY DEF Recover, FailUnfinished
<1>1. ab = running
  BY DEF CancelledWith, Holding, IInv, TypeOK, ExecutorInv
<1>2. Step({}, running, FALSE) /\ healthy' \in BOOLEAN
  <2>1. StepFaults = {}
    BY DEF StepFaults, NoOrphans
  <2>2. Step({}, ab, FALSE) /\ healthy' \in BOOLEAN
    BY <2>1 DEF Recover, IInv, TypeOK
  <2> QED BY <1>1, <2>2
<1>3. StepResult(running, FALSE)
  <2>1. ExecutorTypeOK /\ \A s \in running : s \in Batchable \/ running = {s}
    BY TypeParts DEF IInv, RunsAlone
  <2>2. FALSE \in BOOLEAN /\ running \subseteq running
    OBVIOUS
  <2> QED BY <1>2, <2>1, <2>2, StepKeeps
<1>4. running' = {} /\ \A s \in Streams : emitted'[s] = <<>>
  <2>1. running \subseteq Batchable
    BY <1>0 DEF IInv, RecoveryInv
  <2> QED BY <1>3, <2>1 DEF StepResult
<1>5. ASSUME NEW r \in Streams
      PROVE  /\ req'[r] \in Request /\ OutboxInv(req'[r], r)
             /\ req[r].terminal => req'[r] = req[r]
  <2>1. CASE r \in live /\ ~req[r].finished
    <3>1. req'[r] = PublishEnd(req[r], End(r, "failed"))
      BY <1>0, <2>1
    <3> QED BY <2>1, <3>1, EndUnfinished
  <2>2. CASE ~(r \in live /\ ~req[r].finished)
    <3>1. req'[r] = req[r]
      BY <1>0, <2>2
    <3> QED BY <3>1 DEF IInv, TypeOK
  <2> QED BY <2>1, <2>2
<1>6. TypeOK'
  <2>1. ExecutorTypeOK'
    BY <1>3 DEF StepResult
  <2>2. req' \in [Streams -> Request]
    <3>1. req' = [r \in Streams |-> req'[r]]
      BY <1>0
    <3> QED BY <1>5, <3>1
  <2>3. MailTypeOK' /\ LoopTypeOK' /\ BoxTypeOK'
    BY <1>0, <1>2, <2>2 DEF IInv, TypeOK, MailTypeOK, LoopTypeOK, BoxTypeOK, PcValues,
                            FaultKinds, clientVars
  <2> QED BY <2>1, <2>3, TypePartsNext
<1>7. ExecutorInv' /\ RunsAlone'
  BY <1>4 DEF ExecutorInv, RunsAlone
<1>8. RecoveryInv'
  BY <1>0, <1>4 DEF RecoveryInv
<1>9. LiveDistinct' /\ ReadInv' /\ (duplex' => live' = {})
  BY <1>0, <1>5 DEF IInv, LiveDistinct, ReadInv
<1> QED BY <1>5, <1>6, <1>7, <1>8, <1>9 DEF IInv

(***************************************************************************)
(* The end of an iteration.                                                *)
(***************************************************************************)

\* A request the executor still runs has no terminal event, so it stays; a reload
\* cannot unload an engine that runs something.
LEMMA EraseKeeps ==
    ASSUME IInv, Erase
    PROVE  IInv'
<1>0. /\ pc = "erase" /\ live' = Remaining /\ pc' \in {"exit", "swap"}
      /\ todo' = {} /\ eligible' = {} /\ blocked' = FALSE
      /\ UNCHANGED << mailbox, stopping, commands, stop, duplex, fault, req, got, expired >>
  BY DEF Erase
<1>1. /\ UNCHANGED << running, aborted, flushed, quanta, produced, emitted >>
      /\ engine' # "healthy" => engine # "healthy" \/ running = {}
      /\ engine' \in {"healthy", "failed", "unloaded"}
      /\ reload' \subseteq Calls /\ healthy' \in BOOLEAN /\ call' \in [Calls -> CallState]
  <2>1. CASE UNCHANGED << call, reload, healthy, executorVars >>
    BY <2>1 DEF IInv, TypeOK, executorVars
  <2>2. CASE /\ reload' = {} /\ ReloadSucceeds /\ healthy' = TRUE
             /\ call' = [c \in Calls |-> IF c \in reload THEN "ok" ELSE call[c]]
    BY <2>2 DEF IInv, TypeOK, ReloadSucceeds, CallState
  <2>3. CASE /\ reload' = {} /\ ReloadFails /\ healthy' = FALSE
             /\ call' = [c \in Calls |-> IF c \in reload THEN "error" ELSE call[c]]
    BY <2>3 DEF IInv, TypeOK, ReloadFails, CallState
  <2> QED BY <2>1, <2>2, <2>3 DEF Erase, FinishReload
<1>2. live' \subseteq live
  BY <1>0 DEF Remaining
<1>3. TypeOK'
  BY <1>0, <1>1, <1>2 DEF IInv, TypeOK, PcValues
<1>4. \A s \in Streams : emitted[s] = <<>>
  BY <1>0 DEF IInv, ExecutorInv
<1>5. \A s \in running : ~req[s].terminal
  BY DEF IInv, TypeOK, ExecutorInv, OutboxInv
<1>6. ExecutorInv'
  BY <1>0, <1>1, <1>4, <1>5 DEF IInv, ExecutorInv, Remaining
<1>7. RecoveryInv'
  BY <1>0, <1>1 DEF IInv, RecoveryInv
<1>8. RunsAlone' /\ LiveDistinct' /\ ReadInv' /\ (duplex' => live' = {})
  BY <1>0, <1>1, <1>2 DEF IInv, RunsAlone, LiveDistinct, ReadInv
<1>9. \A s \in Streams : OutboxInv(req'[s], s)
  BY <1>0 DEF IInv
<1> QED BY <1>3, <1>6, <1>7, <1>8, <1>9 DEF IInv

\* Engine::shutdown()
LEMMA ExitKeeps ==
    ASSUME IInv, Exit
    PROVE  IInv'
<1>0. /\ pc = "exit" /\ pc' = "done" /\ running' = {} /\ aborted' = {} /\ flushed' = {}
      /\ engine' = "unloaded"
      /\ UNCHANGED << quanta, produced, emitted, clientVars, commands, stop, reload,
                      healthy, duplex, live, order, todo, blocked, eligible, fault, req,
                      got, expired >>
  BY DEF Exit, EngineShutdown
<1>1. TypeOK'
  BY <1>0 DEF IInv, TypeOK, PcValues, clientVars
<1>2. \A s \in Streams : emitted[s] = <<>>
  BY <1>0 DEF IInv, ExecutorInv
<1>3. ExecutorInv' /\ RunsAlone' /\ RecoveryInv'
  BY <1>0, <1>2 DEF ExecutorInv, RunsAlone, RecoveryInv
<1>4. LiveDistinct' /\ ReadInv' /\ (duplex' => live' = {})
  BY <1>0 DEF IInv, LiveDistinct, ReadInv
<1>5. \A s \in Streams : OutboxInv(req'[s], s)
  BY <1>0 DEF IInv
<1> QED BY <1>1, <1>3, <1>4, <1>5 DEF IInv

(***************************************************************************)
(* The theorems.                                                           *)
(***************************************************************************)

\* The scheduler starts in IInv.
LEMMA InitIInv == Init => IInv
<1> SUFFICES ASSUME Init PROVE IInv
  OBVIOUS
<1>0. <<>> \in Seq(Event) /\ <<>> \in Seq(Calls)
  OBVIOUS
<1>1. NewRequest \in Request
  BY <1>0 DEF NewRequest, Request, Failures, None
<1>2. \A r \in Streams : req[r] = NewRequest /\ emitted[r] = <<>>
  BY DEF Init, ExecutorInit, NoEvents
<1>3. TypeOK
  <2>1. ExecutorTypeOK
    BY <1>0 DEF Init, ExecutorInit, NoEvents, ExecutorTypeOK
  <2>2. MailTypeOK /\ LoopTypeOK
    BY <1>0 DEF Init, MailTypeOK, LoopTypeOK, CallState, PcValues
  <2>3. BoxTypeOK
    BY <1>1 DEF Init, BoxTypeOK
  <2> QED BY <2>1, <2>2, <2>3, TypeParts
<1>4. \A r \in Streams : OutboxInv(req[r], r)
  BY <1>2, LimitFacts DEF NewRequest, OutboxInv
<1>5. ExecutorInv
  BY <1>2 DEF Init, ExecutorInit, ExecutorInv
<1>6. RunsAlone /\ LiveDistinct /\ RecoveryInv /\ (duplex => live = {})
  BY DEF Init, ExecutorInit, RunsAlone, LiveDistinct, RecoveryInv
<1>7. ReadInv
  BY DEF Init, ReadInv
<1> QED BY <1>3, <1>4, <1>5, <1>6, <1>7 DEF IInv

\* Every step of the system keeps IInv.
LEMMA NextIInv ==
    ASSUME IInv, NoOrphans, [Next]_vars
    PROVE  IInv'
<1>1. ASSUME NEW r \in Streams, Scan(r)
      PROVE  IInv'
  BY <1>1, FlushStepKeeps, ExamineEndingKeeps, ExamineOngoingKeeps, AdmitAcceptedKeeps,
     AdmitDeferredKeeps, AdmitRejectedKeeps, AdmitThrowsKeeps DEF Scan
<1>2. ~RecoverUnknown
  BY DEF IInv, RecoveryInv, RecoverUnknown
<1>3. CASE Loop
  BY <1>1, <1>2, <1>3, SwapKeeps, SubmitKeeps, CancelCommandKeeps, ControlKeeps,
     SessionKeeps, StatusKeeps, ReloadCommandKeeps, BeginScanKeeps, EndScanKeeps,
     EngineStepKeeps, PublishNextKeeps, EndPublishKeeps, RecoverKeeps, EraseKeeps,
     ExitKeeps DEF Loop
<1>4. CASE \E c \in Calls : Enqueue(c)
  BY <1>4, EnqueueKeeps
<1>5. CASE \E r \in Streams : Wait(r) \/ Elapse(r)
  BY <1>5, WaitKeeps, ElapseKeeps
<1>6. CASE Shutdown
  BY <1>6, ShutdownKeeps
<1>7. CASE Stopped \/ UNCHANGED vars
  <2>1. UNCHANGED vars
    BY <1>7 DEF Stopped
  <2>2. TypeOK'
    BY <2>1 DEF IInv, TypeOK, vars, clientVars, loopVars, executorVars
  <2> QED BY <2>1, <2>2, ClientStep DEF vars
<1> QED BY <1>3, <1>4, <1>5, <1>6, <1>7 DEF Next

\* IInv holds throughout, for every number of streams and every limit, unless an
\* exception may leave a coroutine behind in the executor.
THEOREM Safety == NoOrphans /\ Spec => []IInv
<1>1. NoOrphans /\ IInv /\ [Next]_vars => IInv'
  BY NextIInv
<1> SUFFICES ASSUME NoOrphans PROVE Spec => []IInv
  OBVIOUS
<1>2. IInv /\ [Next]_vars => IInv'
  BY <1>1
<1> QED BY InitIInv, <1>2, PTL DEF Spec

\* What IInv says about the properties the runs check.
LEMMA Consequences ==
    IInv => /\ TypeOK /\ OutboxBounded /\ EndsOnce /\ TeardownFirst
            /\ RunningDistinct /\ DuplexExclusive /\ ReloadQuiescent
<1> SUFFICES ASSUME IInv
             PROVE  /\ TypeOK /\ OutboxBounded /\ EndsOnce /\ TeardownFirst
                    /\ RunningDistinct /\ DuplexExclusive /\ ReloadQuiescent
  OBVIOUS
<1>1. TypeOK /\ \A r \in Streams : req[r] \in Request /\ OutboxInv(req[r], r)
  BY DEF IInv, TypeOK
<1>2. OutboxBounded
  <2>1. ASSUME NEW r \in Streams
        PROVE  Len(req[r].events) <= EventLimit /\ req[r].bytes <= ByteLimit
    BY <1>1, LimitFacts DEF OutboxInv, Request
  <2> QED BY <2>1 DEF OutboxBounded
<1>3. EndsOnce
  BY <1>1 DEF EndsOnce, OutboxInv, IInv, ReadInv
<1>4. \A s \in running : s \in live /\ ~req[s].finished /\ s \in Remaining
  BY <1>1 DEF IInv, ExecutorInv, TypeOK, OutboxInv, Remaining
<1>5. TeardownFirst /\ DuplexExclusive /\ ReloadQuiescent
  BY <1>4 DEF TeardownFirst, DuplexExclusive, ReloadQuiescent, IInv
<1>6. RunningDistinct
  BY <1>4 DEF RunningDistinct, LiveDistinct, IInv
<1> QED BY <1>1, <1>2, <1>3, <1>5, <1>6

\* Type correctness of the scheduler, the executor and every outbox.
THEOREM TypeCorrect == NoOrphans /\ Spec => []TypeOK
<1> SUFFICES ASSUME NoOrphans PROVE Spec => []TypeOK
  OBVIOUS
<1> QED BY Safety, Consequences, PTL

\* No outbox outgrows limits_, although a terminal event is delivered without
\* looking at the room: the slot and the bytes it needs are always free.
THEOREM OutboxStaysBounded == NoOrphans /\ Spec => []OutboxBounded
<1> SUFFICES ASSUME NoOrphans PROVE Spec => []OutboxBounded
  OBVIOUS
<1> QED BY Safety, Consequences, PTL

\* A request ends once, and its consumer gets its own events only, even when a
\* client reuses an ID or a cancellation races the engine's own end.
THEOREM RequestEndsOnce == NoOrphans /\ Spec => []EndsOnce
<1> SUFFICES ASSUME NoOrphans PROVE Spec => []EndsOnce
  OBVIOUS
<1> QED BY Safety, Consequences, PTL

\* A request is reported finished only after its coroutine was destroyed, in the
\* recovery from a backend failure too.
THEOREM TeardownComesFirst == NoOrphans /\ Spec => []TeardownFirst
<1> SUFFICES ASSUME NoOrphans PROVE Spec => []TeardownFirst
  OBVIOUS
<1> QED BY Safety, Consequences, PTL

\* The executor never holds two requests of one ID or of one session.
THEOREM RunningStaysDistinct == NoOrphans /\ Spec => []RunningDistinct
<1> SUFFICES ASSUME NoOrphans PROVE Spec => []RunningDistinct
  OBVIOUS
<1> QED BY Safety, Consequences, PTL

\* A duplex session has the engine for itself.
THEOREM DuplexIsExclusive == NoOrphans /\ Spec => []DuplexExclusive
<1> SUFFICES ASSUME NoOrphans PROVE Spec => []DuplexExclusive
  OBVIOUS
<1> QED BY Safety, Consequences, PTL

\* A reload the scheduler carries out meets an executor without requests.
THEOREM ReloadMeetsQuiescence == NoOrphans /\ Spec => []ReloadQuiescent
<1> SUFFICES ASSUME NoOrphans PROVE Spec => []ReloadQuiescent
  OBVIOUS
<1> QED BY Safety, Consequences, PTL

\* A request that cannot be batched runs alone, whatever exceptions the engine
\* throws: only admit() adds to the executor.
THEOREM RunsAloneAlways == Spec => []RunsAlone
<1>1. Init => RunsAlone
  BY DEF Init, ExecutorInit, RunsAlone
<1>2. ASSUME RunsAlone, [Next]_vars
      PROVE  RunsAlone'
  <2>1. CASE running' \subseteq running
    BY <1>2, <2>1 DEF RunsAlone
  <2>2. ASSUME NEW r \in Streams, AdmitAccepted(r)
        PROVE  RunsAlone'
    <3>1. /\ running' = running \cup {r} /\ running \subseteq Batchable
          /\ r \in Batchable \/ running = {}
      BY <2>2 DEF AdmitAccepted, AttemptsAdmission, Admit, Defers, Available
    <3> QED BY <3>1 DEF RunsAlone
  <2>3. ASSUME NEW E, NEW ab, NEW keep, Step(E, ab, keep)
        PROVE  running' \subseteq running
    BY <2>3 DEF Step, Conclude
  <2>4. ASSUME EngineStep \/ Recover
        PROVE  running' \subseteq running
    BY <2>3, <2>4 DEF EngineStep, Recover, executorVars
  <2>5. ASSUME NEW r \in Streams, Scan(r), ~AdmitAccepted(r)
        PROVE  running' \subseteq running
    BY <2>5 DEF Scan, Flush, ExamineEnding, ExamineOngoing, AdmitDeferred, AdmitRejected,
                AdmitThrows, executorVars
  <2>6. ASSUME Submit \/ CancelCommand \/ Control \/ Session \/ Status \/ ReloadCommand
        PROVE  running' \subseteq running
    BY <2>6 DEF Submit, CancelCommand, Control, Session, Status, ReloadCommand, executorVars
  <2>7. ASSUME \/ Swap \/ BeginScan \/ EndScan \/ EndPublish \/ RecoverUnknown
               \/ (\E s \in Streams : PublishNext(s)) \/ Exit
        PROVE  running' \subseteq running
    BY <2>7 DEF Swap, BeginScan, EndScan, EndPublish, RecoverUnknown, PublishNext, Exit,
                EngineShutdown, executorVars
  <2>8. ASSUME Erase
        PROVE  running' \subseteq running
    BY <2>8 DEF Erase, FinishReload, ReloadSucceeds, ReloadFails, executorVars
  <2>9. ASSUME \/ \E c \in Calls : Enqueue(c)
               \/ \E r \in Streams : Wait(r) \/ Elapse(r)
               \/ Shutdown \/ Stopped \/ UNCHANGED vars
        PROVE  running' \subseteq running
    BY <2>9 DEF Enqueue, Wait, Elapse, Shutdown, Stopped, vars, executorVars
  <2> QED BY <1>2, <2>1, <2>2, <2>4, <2>5, <2>6, <2>7, <2>8, <2>9 DEF Next, Loop
<1> QED BY <1>1, <1>2, PTL DEF Spec
==============================================================================
