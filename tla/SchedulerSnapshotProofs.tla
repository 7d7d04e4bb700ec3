----------------------- MODULE SchedulerSnapshotProofs -----------------------
(***************************************************************************)
(* While the engine is idle the snapshot does not show the resources of a  *)
(* request that ended, whatever fails, unless the metrics were refused or  *)
(* a recovery tore requests down since they were last captured.            *)
(***************************************************************************)
EXTENDS SchedulerSnapshot, TLAPS

\* The executor flags only requests it holds, and an unloaded engine holds none.
HoldInv ==
    /\ running \subseteq Streams /\ aborted \subseteq running
    /\ engine = "unloaded" => running = {}

\* An idle engine has been seen idle, or could not be.
SnapInv ==
    /\ HoldInv /\ blind \in BOOLEAN
    /\ running = {} => blind \/ snapshot.shows = {}

(***************************************************************************)
(* Steps of the executor.                                                  *)
(***************************************************************************)
\* A coroutine that is done hands out a terminal event.
LEMMA DoneEnds ==
    ASSUME NEW s \in Streams, NEW ab, NEW o \in Quantum(s, ab)
    PROVE  o.done => \E i \in DOMAIN o.events : IsEnd(o.events[i])
<1> DEFINE end == End(s, EndKind(s, ab))
           n == produced[s]
<1>1. IsEnd(end) /\ IsEnd(End(s, "failed"))
  BY DEF IsEnd, End, EndKind
<1>2. CASE o \in Yields(s, ab)
  BY <1>2 DEF Yields, Outcome
<1>3. CASE o \in Finishes(s, ab)
  <2>1. CASE o = Outcome(<<Value(s, n + 1, UsageBytes), end>>, TRUE, FALSE, FALSE)
    <3>1. o.events = <<Value(s, n + 1, UsageBytes), end>>
      BY <2>1 DEF Outcome
    <3> HIDE DEF end, n
    <3>2. 2 \in DOMAIN o.events /\ o.events[2] = end
      BY <3>1
    <3> QED BY <1>1, <3>1, <3>2
  <2>2. ASSUME NEW b \in Tails(s),
               o = Outcome(<<Value(s, n + 1, b), Value(s, n + 2, UsageBytes), end>>,
                           TRUE, FALSE, FALSE)
        PROVE  \E i \in DOMAIN o.events : IsEnd(o.events[i])
    <3>1. o.events = <<Value(s, n + 1, b), Value(s, n + 2, UsageBytes), end>>
      BY <2>2 DEF Outcome
    <3> HIDE DEF end, n
    <3>2. 3 \in DOMAIN o.events /\ o.events[3] = end
      BY <3>1
    <3> QED BY <1>1, <3>1, <3>2
  <2> QED BY <1>3, <2>1, <2>2 DEF Finishes
<1>4. CASE o \in Fails(s)
  <2>0. PICK sick : o = Outcome(<<End(s, "failed")>>, TRUE, FALSE, sick)
    BY <1>4, Zenon DEF Fails
  <2>1. o.events = <<End(s, "failed")>>
    BY <2>0 DEF Outcome
  <2>2. 1 \in DOMAIN o.events /\ o.events[1] = End(s, "failed")
    BY <2>1
  <2> QED BY <1>1, <2>2
<1> QED BY <1>2, <1>3, <1>4 DEF Quantum

\* What a step tears down it held, and unless it throws all of it away it hands
\* out a terminal event for each.
LEMMA StepHolds ==
    ASSUME HoldInv, NEW E, NEW ab, ab \subseteq running, NEW keep \in BOOLEAN,
           Step(E, ab, keep)
    PROVE  /\ HoldInv' /\ engine' \in {engine, "failed"}
           /\ keep /\ running # {} /\ running' = {} =>
                 \E s \in Streams : \E i \in DOMAIN emitted'[s] : IsEnd(emitted'[s][i])
<1>1. ASSUME NEW o, DOMAIN o \subseteq running, Conclude(o, ab, keep),
             \A s \in DOMAIN o :
                o[s].done => \E i \in DOMAIN o[s].events : IsEnd(o[s].events[i])
      PROVE  /\ HoldInv' /\ engine' \in {engine, "failed"}
             /\ keep /\ running # {} /\ running' = {} =>
                   \E s \in Streams : \E i \in DOMAIN emitted'[s] : IsEnd(emitted'[s][i])
  <2> DEFINE T == DOMAIN o
             gone == { s \in T : o[s].done }
  <2>1. /\ running' = running \ gone /\ aborted' = ab \ gone
        /\ emitted' = [s \in Streams |-> IF keep /\ s \in T THEN o[s].events ELSE <<>>]
        /\ engine' = IF \E s \in T : o[s].sick THEN "failed" ELSE engine
    BY <1>1 DEF Conclude
  <2>2. engine' \in {engine, "failed"}
    BY <2>1
  <2>3. HoldInv'
    BY <2>1, <2>2 DEF HoldInv
  <2>4. ASSUME keep, running # {}, running' = {}
        PROVE  \E s \in Streams : \E i \in DOMAIN emitted'[s] : IsEnd(emitted'[s][i])
    <3>1. PICK s \in running : s \in T /\ o[s].done
      BY <2>1, <2>4
    <3>2. s \in Streams /\ emitted'[s] = o[s].events
      BY <2>1, <2>4, <3>1 DEF HoldInv
    <3> QED BY <1>1, <3>1, <3>2
  <2> QED BY <2>2, <2>3, <2>4
<1>2. ASSUME NEW o \in StepOutcomes(E, ab), Conclude(o, ab, keep)
      PROVE  /\ DOMAIN o \subseteq running
             /\ \A s \in DOMAIN o :
                   o[s].done => \E i \in DOMAIN o[s].events : IsEnd(o[s].events[i])
  <2>1. DOMAIN o = Stepping(E, ab) /\ \A s \in DOMAIN o : o[s] \in Quantum(s, ab)
    BY <1>2 DEF StepOutcomes
  <2>2. DOMAIN o \subseteq running
    BY <2>1 DEF Stepping, Holding
  <2> QED BY <2>1, <2>2, DoneEnds DEF HoldInv
<1>3. ASSUME NEW o, o = [s \in running |-> Outcome(<<End(s, "failed")>>, TRUE, FALSE, TRUE)]
      PROVE  /\ DOMAIN o \subseteq running
             /\ \A s \in DOMAIN o : \E i \in DOMAIN o[s].events : IsEnd(o[s].events[i])
  <2>1. /\ DOMAIN o = running
        /\ \A s \in running : o[s].events = <<End(s, "failed")>>
    BY <1>3 DEF Outcome
  <2>2. ASSUME NEW s \in running
        PROVE  1 \in DOMAIN o[s].events /\ IsEnd(o[s].events[1])
    <3>1. o[s].events = <<End(s, "failed")>> /\ IsEnd(End(s, "failed"))
      BY <2>1 DEF IsEnd, End
    <3>2. 1 \in DOMAIN o[s].events /\ o[s].events[1] = End(s, "failed")
      BY <3>1
    <3> QED BY <3>1, <3>2
  <2> QED BY <2>1, <2>2
<1>4. CASE \E o \in StepOutcomes(E, ab) : Conclude(o, ab, keep)
  BY <1>1, <1>2, <1>4
<1>5. CASE Conclude([s \in running |-> Outcome(<<End(s, "failed")>>, TRUE, FALSE, TRUE)],
                    ab, keep)
  <2> DEFINE o == [s \in running |-> Outcome(<<End(s, "failed")>>, TRUE, FALSE, TRUE)]
  <2>1. /\ DOMAIN o \subseteq running
        /\ \A s \in DOMAIN o : \E i \in DOMAIN o[s].events : IsEnd(o[s].events[i])
    BY <1>3
  <2>2. Conclude(o, ab, keep)
    BY <1>5
  <2> HIDE DEF o
  <2> QED BY <1>1, <2>1, <2>2
<1> QED BY <1>4, <1>5 DEF Step

(***************************************************************************)
(* Every step of the loop, the clients and the refreshes.                  *)
(***************************************************************************)

\* The executor becomes idle in a step whose events are published, and then the
\* snapshot is refreshed before they are, or it is torn down.
LEMMA IdleBySettling ==
    ASSUME HoldInv, [Next]_vars
    PROVE  /\ HoldInv'
           /\ running # {} /\ running' = {} =>
                 (Settles /\ engine' # "unloaded") \/ (TornDown /\ pc \notin {"step", "command"})
<1> DEFINE Goal ==
           /\ HoldInv'
           /\ running # {} /\ running' = {} =>
                 (Settles /\ engine' # "unloaded") \/ (TornDown /\ pc \notin {"step", "command"})
<1> SUFFICES Goal
  OBVIOUS
<1>1. ASSUME UNCHANGED << running, engine >>,
             aborted' = aborted \/ \E S : aborted' = CancelledWith(S)
      PROVE  Goal
  BY <1>1 DEF HoldInv, CancelledWith, Holding
<1>2. ASSUME HoldInv', pc \notin {"step", "command"}
      PROVE  Goal
  BY <1>2 DEF TornDown
<1> HIDE DEF Goal
<1>3. ASSUME NEW r \in Streams, Scan(r)
      PROVE  Goal
  <2>1. CASE AdmitAccepted(r)
    <3>1. /\ engine = "healthy" /\ engine' = engine /\ aborted' = aborted
          /\ running' = running \cup {r} /\ pc \notin {"step", "command"}
      BY <2>1 DEF AdmitAccepted, Admit, Defers, Available, Examining
    <3>2. HoldInv'
      BY <3>1 DEF HoldInv
    <3> QED BY <1>2, <3>1, <3>2
  <2>2. CASE ExamineEnding(r)
    <3>1. UNCHANGED << running, engine >> /\ \E S : aborted' = CancelledWith(S)
      BY <2>2 DEF ExamineEnding
    <3> QED BY <1>1, <3>1
  <2>3. CASE \/ Flush(r) \/ ExamineOngoing(r)
             \/ AdmitDeferred(r) \/ AdmitRejected(r) \/ AdmitThrows(r)
    <3>1. UNCHANGED << running, engine, aborted >>
      BY <2>3 DEF Flush, ExamineOngoing, AdmitDeferred, AdmitRejected, AdmitThrows,
                  executorVars
    <3> QED BY <1>1, <3>1
  <2> QED BY <1>3, <2>1, <2>2, <2>3 DEF Scan
<1>4. CASE Swap \/ BeginScan \/ EndScan \/ EndPublish \/ RecoverUnknown
  <2>1. UNCHANGED << running, engine, aborted >>
    BY <1>4 DEF Swap, BeginScan, EndScan, EndPublish, RecoverUnknown, executorVars
  <2> QED BY <1>1, <2>1
<1>5. CASE Submit \/ CancelCommand \/ Control \/ Session \/ Status \/ ReloadCommand
  <2>1. /\ UNCHANGED << running, engine >>
        /\ aborted' = aborted \/ \E S : aborted' = CancelledWith(S)
    BY <1>5 DEF Submit, CancelCommand, Control, Session, Status, ReloadCommand, Take,
                CancelAll, executorVars
  <2> QED BY <1>1, <2>1
<1>6. CASE EngineStep
  <2>1. CASE Step(eligible, aborted, TRUE) /\ pc = "step" /\ pc' = "publish"
    <3>1. aborted \subseteq running
      BY DEF HoldInv
    <3>2. /\ HoldInv' /\ engine' \in {engine, "failed"}
          /\ running # {} /\ running' = {} =>
                \E s \in Streams : \E i \in DOMAIN emitted'[s] : IsEnd(emitted'[s][i])
      BY <2>1, <3>1, StepHolds
    <3> QED BY <2>1, <3>2 DEF Goal, Settles, HoldInv
  <2>2. CASE UNCHANGED executorVars
    BY <1>1, <2>2 DEF executorVars
  <2> QED BY <1>6, <2>1, <2>2 DEF EngineStep
<1>7. CASE \E s \in Streams : PublishNext(s)
  <2>1. UNCHANGED << running, engine >> /\ \E S : aborted' = CancelledWith(S)
    BY <1>7 DEF PublishNext
  <2> QED BY <1>1, <2>1
<1>8. CASE Recover
  <2>1. PICK S : \/ Step({}, CancelledWith(S), FALSE)
                 \/ aborted' = CancelledWith(S) /\ UNCHANGED << running, engine >>
    BY <1>8 DEF Recover
  <2>2. CancelledWith(S) \subseteq running
    BY DEF CancelledWith, Holding, HoldInv
  <2>3. CASE Step({}, CancelledWith(S), FALSE)
    BY <1>2, <1>8, <2>2, <2>3, StepHolds DEF Recover
  <2> QED BY <1>1, <2>1, <2>3
<1>9. CASE Erase
  <2>1. /\ pc \notin {"step", "command"} /\ UNCHANGED << running, aborted >>
        /\ engine' = "unloaded" => engine = "unloaded" \/ running = {}
    BY <1>9 DEF Erase, FinishReload, ReloadSucceeds, ReloadFails, executorVars
  <2>2. HoldInv'
    BY <2>1 DEF HoldInv
  <2> QED BY <1>2, <2>1, <2>2
<1>10. CASE Exit
  <2>1. HoldInv' /\ pc \notin {"step", "command"}
    BY <1>10 DEF Exit, EngineShutdown, HoldInv
  <2> QED BY <1>2, <2>1
<1>11. CASE \/ \E c \in Calls : Enqueue(c)
            \/ \E r \in Streams : Wait(r) \/ Elapse(r)
            \/ Shutdown \/ Stopped \/ UNCHANGED vars
  <2>1. UNCHANGED << running, engine, aborted >>
    BY <1>11 DEF Enqueue, Wait, Elapse, Shutdown, Stopped, vars, loopVars, executorVars
  <2> QED BY <1>1, <2>1
<1>12. CASE Loop
  BY <1>3, <1>4, <1>5, <1>6, <1>7, <1>8, <1>9, <1>10, <1>12 DEF Loop
<1> QED BY <1>11, <1>12 DEF Next

\* What a refresh_snapshot() may show of an idle engine.
LEMMA RefreshShows ==
    ASSUME blind \in BOOLEAN, NEW ok, NEW unavailable, NEW metrics \in BOOLEAN,
           RefreshSnapshot(ok, unavailable, metrics), running' = {},
           \/ blind \/ snapshot.shows = {}
           \/ metrics /\ engine' # "unloaded"
    PROVE  blind' \in BOOLEAN /\ (blind' \/ snapshot'.shows = {})
<1>1. PICK refused \in BOOLEAN :
         LET well == ok /\ engine' = "healthy"
             captured == metrics /\ engine' # "unloaded" /\ ~refused
         IN  /\ snapshot' = [available |-> IF unavailable \/ ~well THEN 0 ELSE Available',
                             healthy |-> well,
                             shows |-> IF captured THEN running' ELSE snapshot.shows]
             /\ blind' = (~captured /\ (blind \/ refused))
  <2>1. (IF "control" \in Faults THEN BOOLEAN ELSE {FALSE}) \subseteq BOOLEAN
    OBVIOUS
  <2> QED BY <2>1, Zenon DEF RefreshSnapshot
<1> DEFINE captured == metrics /\ engine' # "unloaded" /\ ~refused
<1>2. /\ snapshot'.shows = IF captured THEN running' ELSE snapshot.shows
      /\ blind' = (~captured /\ (blind \/ refused))
  BY <1>1
<1>3. blind' \in BOOLEAN /\ captured \in BOOLEAN
  BY <1>2
<1>4. CASE captured
  BY <1>2, <1>4
<1>5. CASE ~captured
  <2>1. blind' = (blind \/ refused) /\ snapshot'.shows = snapshot.shows
    BY <1>2, <1>5
  <2>2. blind \/ refused \/ snapshot.shows = {}
    BY <1>5
  <2> QED BY <1>3, <2>1, <2>2
<1> QED BY <1>3, <1>4, <1>5

\* SnapInv is kept.
LEMMA SnapshotStep ==
    ASSUME SnapInv, [SnapshotNext]_allVars
    PROVE  SnapInv'
<1>0. [Next]_vars
  BY DEF SnapshotNext, Refresh, RequestSnapshot, allVars
<1>1. /\ HoldInv'
      /\ running # {} /\ running' = {} =>
            (Settles /\ engine' # "unloaded") \/ (TornDown /\ pc \notin {"step", "command"})
  BY <1>0, IdleBySettling DEF SnapInv
<1>2. blind' \in BOOLEAN
  <2>1. blind \in BOOLEAN
    BY DEF SnapInv
  <2>2. ASSUME NEW ok, NEW unavailable, NEW metrics, RefreshSnapshot(ok, unavailable, metrics)
        PROVE  blind' \in BOOLEAN
    BY <2>2 DEF RefreshSnapshot
  <2>3. CASE Observe
    BY <2>1, <2>2, <2>3 DEF Observe
  <2>4. CASE Refresh
    BY <2>2, <2>4 DEF Refresh
  <2>5. CASE RequestSnapshot \/ UNCHANGED allVars
    BY <2>1, <2>5 DEF RequestSnapshot, allVars, snapshotVars
  <2> QED BY <2>3, <2>4, <2>5 DEF SnapshotNext
<1>3. ASSUME running' = {}
      PROVE  blind' \/ snapshot'.shows = {}
  <2>1. CASE Next /\ Observe
    <3>1. CASE Replied \/ Settles
      <4>1. RefreshSnapshot(healthy, reload # {} \/ duplex' \/ stop, TRUE)
        BY <2>1, <3>1 DEF Observe
      <4>2. running = {} \/ engine' # "unloaded"
        BY <1>1, <1>3, <3>1 DEF Replied, Settles
      <4> QED BY <1>3, <4>1, <4>2, RefreshShows DEF SnapInv
    <3>2. CASE ~(Replied \/ Settles)
      <4>1. snapshot' = snapshot /\ blind' = (blind \/ TornDown)
        BY <2>1, <3>2 DEF Observe
      <4> QED BY <1>1, <1>3, <3>2, <4>1 DEF SnapInv
    <3> QED BY <3>1, <3>2
  <2>2. CASE Refresh
    <3>1. RefreshSnapshot(healthy, reload # {} \/ duplex \/ stop, served \/ requested)
      BY <2>2 DEF Refresh
    <3>2. running = {}
      BY <1>3, <2>2 DEF Refresh, vars, executorVars
    <3> QED BY <1>3, <3>1, <3>2, RefreshShows DEF SnapInv
  <2>3. CASE RequestSnapshot \/ UNCHANGED allVars
    <3>1. running = {} /\ snapshot' = snapshot /\ blind' = blind
      BY <1>3, <2>3 DEF RequestSnapshot, allVars, snapshotVars, vars, executorVars
    <3> QED BY <3>1 DEF SnapInv
  <2> QED BY <2>1, <2>2, <2>3 DEF SnapshotNext
<1> QED BY <1>1, <1>2, <1>3 DEF SnapInv

\* When the engine is idle, a client that has read how its request ended does not
\* find the request's resources in the snapshot, in whatever order the refreshes,
\* the steps of the loop and the reads come and whatever failed, unless no metrics
\* were captured since the engine refused them or a recovery tore requests down
\* (scheduler.cpp:376-382, 391-410, 432).
THEOREM SnapshotIsSettled == SnapshotSpec => []SnapshotSettled
<1>1. SnapshotInit => SnapInv
  <2> SUFFICES ASSUME SnapshotInit PROVE SnapInv
    OBVIOUS
  <2>1. running = {} /\ aborted = {}
    BY DEF SnapshotInit, Init, ExecutorInit
  <2>2. snapshot.shows = {}
    BY DEF SnapshotInit
  <2>3. blind \in BOOLEAN
    BY DEF SnapshotInit
  <2> QED BY <2>1, <2>2, <2>3 DEF SnapInv, HoldInv
<1>2. SnapInv /\ [SnapshotNext]_allVars => SnapInv'
  BY SnapshotStep
<1>3. SnapInv => SnapshotSettled
  BY DEF SnapInv, SnapshotSettled
<1> QED BY <1>1, <1>2, <1>3, PTL DEF SnapshotSpec
==============================================================================
