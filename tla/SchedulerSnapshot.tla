-------------------------- MODULE SchedulerSnapshot --------------------------
(***************************************************************************)
(* Scheduler together with snapshot_, the status and metrics that health   *)
(* and metrics calls read without going through the mailbox.  The loop     *)
(* only ever writes it, so it is a layer over Scheduler: each step of the  *)
(* loop also does the refresh_snapshot() that its code contains.           *)
(*                                                                         *)
(* Of the metrics the model keeps what a reader can misjudge: the requests *)
(* whose resources were in use when they were captured.                    *)
(***************************************************************************)
EXTENDS Scheduler

VARIABLES
    snapshot,   \* snapshot_: status, and the requests its metrics show
    requested,  \* snapshot_requested_
    served,     \* !commands.empty(): this iteration took commands
    ending,     \* the iteration is over but for its refresh_snapshot()
    blind       \* history: since the metrics were last captured the engine refused
                \* to show them, or tore requests down without publishing their end

snapshotVars == << snapshot, requested, served, ending, blind >>
allVars == << vars, snapshotVars >>

SnapshotInit ==
    /\ Init
    /\ snapshot = [available |-> Capacity, healthy |-> TRUE, shows |-> {}]
    /\ requested = FALSE /\ served = FALSE /\ ending = FALSE /\ blind = FALSE

\* refresh_snapshot() after a step: the status always, the metrics when asked
\* for and unless the engine throws.
RefreshSnapshot(ok, unavailable, metrics) ==
    \E refused \in IF "control" \in Faults THEN BOOLEAN ELSE {FALSE} :
        LET well == ok /\ engine' = "healthy"
            captured == metrics /\ engine' # "unloaded" /\ ~refused
        IN  /\ snapshot' = [available |-> IF unavailable \/ ~well THEN 0 ELSE Available',
                            healthy |-> well,
                            shows |-> IF captured THEN running' ELSE snapshot.shows]
            /\ blind' = (~captured /\ (blind \/ refused))

\* A control or session call that succeeded, before its reply.
Replied == /\ pc = "command" /\ commands # <<>> /\ commands' # commands
           /\ Head(commands).op \in {"control", "session"}
           /\ call'[Head(commands)] = "ok"

\* Mutant: the terminal events go out first.
SettlesNever == FALSE

\* The step tore the last request down: refresh before its terminal goes out.
Settles == /\ pc = "step" /\ pc' = "publish" /\ running' = {}
           /\ \E s \in Streams : \E i \in DOMAIN emitted'[s] : IsEnd(emitted'[s][i])

\* A recovery or the end of the loop destroyed coroutines; no client hears from the step.
TornDown == ~(running \subseteq running') /\ ~(pc = "step" /\ pc' = "publish")

\* What a step of Scheduler does to the snapshot.
Observe ==
    /\ IF Replied \/ Settles
       THEN RefreshSnapshot(healthy, reload # {} \/ duplex' \/ stop, TRUE)
       ELSE UNCHANGED snapshot /\ blind' = (blind \/ TornDown)
    /\ served' = IF pc = "swap" /\ pc' = "command" THEN mailbox # <<>> ELSE served
    /\ ending' = (ending \/ (pc = "erase" /\ pc' = "swap"))
    /\ UNCHANGED requested

\* The end of an iteration that does not leave the loop.
Refresh ==
    /\ ending
    /\ UNCHANGED vars
    /\ RefreshSnapshot(healthy, reload # {} \/ duplex \/ stop, served \/ requested)
    /\ requested' = FALSE /\ served' = FALSE /\ ending' = FALSE

\* snapshot() of one that is 250 ms old.
RequestSnapshot ==
    /\ ~stopping /\ ~requested
    /\ requested' = TRUE
    /\ UNCHANGED << vars, snapshot, served, ending, blind >>

SnapshotNext ==
    \/ Next /\ (ending => pc' = pc) /\ Observe
    \/ Refresh
    \/ RequestSnapshot

SnapshotSpec == SnapshotInit /\ [][SnapshotNext]_allVars

\* scheduler.cpp:376-382, "Publish its final resource snapshot before the terminal
\* response; otherwise a short request can leave prefill usage visible": when the
\* engine is idle, a client that has read how its request ended does not find the
\* request's resources in the snapshot, however the refreshes and reads interleave,
\* unless the metrics were refused or a recovery tore requests down (no refresh of
\* the metrics belongs to it) since they were last captured.
SnapshotSettled ==
    running = {} /\ ~blind =>
        \A r \in Streams : got[r].end # None => r \notin snapshot.shows
==============================================================================
