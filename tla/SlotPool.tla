------------------------------- MODULE SlotPool -------------------------------
(***************************************************************************)
(* What the request gate of a runtime promises: size slots, each with at   *)
(* most one owner.  Whoever finds no free slot queues at the end; a slot   *)
(* that comes back goes at once to the queued request of the highest       *)
(* priority, the one that has queued longest among equals.                 *)
(***************************************************************************)
EXTENDS Lists, FiniteSets

CONSTANTS Clients, Priority, MaxSize

VARIABLES
    size,
    owners,     \* clients that have a slot
    queue,      \* clients that wait, in the order of their arrival
    open        \* clients are admitted

poolVars == << size, owners, queue, open >>

Queued == { queue[i] : i \in DOMAIN queue }
Without(r) == Filter(queue, Clients \ {r})

\* The position of the client that gets the next free slot.
IsNext(i) ==
    \A k \in DOMAIN queue :
        \/ Priority[queue[k]] < Priority[queue[i]]
        \/ Priority[queue[k]] = Priority[queue[i]] /\ k >= i

PoolInit == size = MaxSize /\ owners = {} /\ queue = <<>> /\ open = TRUE

Take(r) ==
    /\ open /\ r \notin owners /\ queue = <<>> /\ Cardinality(owners) < size
    /\ owners' = owners \cup {r}
    /\ UNCHANGED << size, queue, open >>

Wait(r) ==
    /\ open /\ r \notin owners \cup Queued /\ Cardinality(owners) >= size
    /\ queue' = Append(queue, r)
    /\ UNCHANGED << size, owners, open >>

GiveUp(r) ==
    /\ r \in Queued
    /\ queue' = Without(r)
    /\ UNCHANGED << size, owners, open >>

GiveBack(r) ==
    /\ r \in owners
    /\ IF queue = <<>>
       THEN owners' = owners \ {r} /\ UNCHANGED queue
       ELSE \E i \in DOMAIN queue :
               /\ IsNext(i)
               /\ owners' = (owners \ {r}) \cup {queue[i]}
               /\ queue' = Without(queue[i])
    /\ UNCHANGED << size, open >>

\* The pool fails: nobody gets a slot any more.
Shut == open /\ open' = FALSE /\ queue' = <<>> /\ UNCHANGED << size, owners >>

\* A smaller pool, with no owners, takes its place when nobody waits: slots that were
\* never given back are gone with the old one.
Replace ==
    /\ queue = <<>>
    /\ size' \in 1..(size - 1) /\ open' = TRUE /\ owners' = {}
    /\ UNCHANGED queue

PoolNext ==
    \/ \E r \in Clients : Take(r) \/ Wait(r) \/ GiveUp(r) \/ GiveBack(r)
    \/ Shut \/ Replace

PoolSpec == PoolInit /\ [][PoolNext]_poolVars
=============================================================================
