---------------------------- MODULE SchedulerFifo ----------------------------
(***************************************************************************)
(* Scheduler with the order in which requests were accepted as history.    *)
(***************************************************************************)
EXTENDS MCScheduler

VARIABLE arrival    \* Seq(Streams): the accepted requests, oldest first

fifoVars == << vars, arrival >>

FifoInit == Init /\ arrival = <<>>
FifoNext ==
    /\ Next
    /\ arrival' = IF Len(order') > Len(order) THEN Append(arrival, order'[Len(order')])
                  ELSE arrival
FifoSpec == FifoInit /\ [][FifoNext]_fifoVars

Before(t, r) == \E i, j \in DOMAIN arrival : i < j /\ arrival[i] = t /\ arrival[j] = r

\* docs/runtime/concurrency.md:64, "without them admission stays plain FIFO": no
\* request is admitted over a waiting one of its priority that arrived before it.
FifoAdmission ==
    [][\A r \in Streams : ~req[r].admitted /\ req'[r].admitted =>
          \A t \in Streams : Waiting(t) /\ Priority[t] = Priority[r] => ~Before(t, r)]_fifoVars
==============================================================================
