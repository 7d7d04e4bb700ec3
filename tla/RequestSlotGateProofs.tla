------------------------ MODULE RequestSlotGateProofs ------------------------
(***************************************************************************)
(* Safety of RequestSlotGate for every set of requests, capacity and       *)
(* bound.                                                                  *)
(***************************************************************************)
EXTENDS RequestSlotGate, DataLemmas

InLine(r) == \E i \in DOMAIN waiters : waiters[i] = r

\* How the two tasks of a request go together.
TasksAgree(r) ==
    /\ task[r] = "idle" => acquire[r] = "none" /\ r \notin cancelled
    /\ task[r] \in {"wait", "settle"} =>
          acquire[r] \in {"new", "waiting", "ok", "error"} /\ future[r] # "cancelled"
    /\ task[r] = "reap" => acquire[r] \in {"new", "waiting", "ok", "cancelled", "error"}
    /\ task[r] \in {"held", "active"} => acquire[r] = "spent"
    /\ task[r] \in {"finish", "ended"} =>
          \/ acquire[r] \in {"none", "spent", "cancelled", "error"}
          \/ acquire[r] = "ok" /\ TwoReasons(r)
    /\ task[r] = "settle" /\ seen[r] = "acquire" => acquire[r] \in {"ok", "error"}
    /\ r \in must => task[r] = "reap" /\ acquire[r] \in {"new", "waiting"}
    /\ r \in acquired => acquire[r] = "spent" /\ task[r] \in {"held", "active", "finish"}
    /\ r \in active => task[r] \in {"active", "finish"}
    /\ task[r] = "active" => r \in active

\* Whoever interrupts the reaping of an acquire() that got a slot is the second one.
NotTorn(r) ==
    /\ r \in cancelled => cancels[r] > 0
    /\ seen[r] = "cancelled" => cancels[r] > 0
    /\ task[r] = "reap" => r \in Timed \/ cancels[r] > 0 \/ acquire[r] = "error"
    /\ task[r] = "reap" /\ r \in cancelled => acquire[r] = "error" \/ TwoReasons(r)

\* Who stands in line, and what his future tells.
LineAgrees(r) ==
    /\ future[r] = "pending" => acquire[r] = "waiting" /\ InLine(r)
    /\ InLine(r) => acquire[r] = "waiting" /\ future[r] \in {"pending", "cancelled"}
    /\ acquire[r] \in {"none", "new"} => future[r] = "none"
    /\ acquire[r] = "waiting" => future[r] # "none"
    /\ acquire[r] = "waiting" /\ future[r] = "error" => closed

ReqSound(r) == TasksAgree(r) /\ NotTorn(r) /\ LineAgrees(r)

LineSound ==
    /\ \A i, j \in DOMAIN waiters : waiters[i] = waiters[j] => i = j
    /\ waiters # <<>> => ~closed /\ granted >= capacity
    /\ granted <= capacity

\* The requests that the runtime counts as queued.
InQueue(r) ==
    task[r] \in {"wait", "settle", "reap", "held"} \/ (task[r] = "finish" /\ r \notin active)
QueuedSet == { r \in Requests : InQueue(r) }
CountsSound ==
    queued_requests = Cardinality(QueuedSet) /\ active_requests = Cardinality(active)

GateInv ==
    /\ TypeOK /\ (\A r \in Requests : ReqSound(r)) /\ LineSound /\ CountsSound
    /\ GrantsAccounted /\ CapacityRespected

(***************************************************************************)
(* The line.                                                               *)
(***************************************************************************)
\* t is s with r behind its first i elements; t is s, or s without r at some i.
IsInsertion(t, s, i, r, S) ==
    /\ t \in Seq(S) /\ Len(t) = Len(s) + 1
    /\ \A k \in 1..Len(t) :
          t[k] = IF k <= i THEN s[k] ELSE IF k = i + 1 THEN r ELSE s[k - 1]
IsRemoval(t, s, r, S) ==
    /\ t \in Seq(S)
    /\ \/ t = s /\ \A k \in DOMAIN s : s[k] # r
       \/ \E i \in DOMAIN s :
             /\ s[i] = r /\ Len(t) = Len(s) - 1
             /\ \A k \in 1..Len(t) : t[k] = IF k < i THEN s[k] ELSE s[k + 1]

\* insert() puts one element in and keeps the others.
LEMMA Inserted ==
    ASSUME NEW S, NEW s \in Seq(S), NEW i \in 0..Len(s), NEW r \in S
    PROVE  IsInsertion(InsertAt(s, i, r), s, i, r, S)
<1> DEFINE a == SubSeq(s, 1, i)
           b == SubSeq(s, i + 1, Len(s))
           c == a \o <<r>>
<1>1. a \in Seq(S) /\ Len(a) = i /\ \A k \in 1..i : a[k] = s[k]
    OBVIOUS
<1>2. b \in Seq(S) /\ Len(b) = Len(s) - i /\ \A k \in 1..(Len(s) - i) : b[k] = s[k + i]
    OBVIOUS
<1>3. InsertAt(s, i, r) = c \o b
    BY DEF InsertAt
<1> HIDE DEF a, b
<1>4. c \in Seq(S) /\ Len(c) = i + 1 /\ c[i + 1] = r /\ \A k \in 1..i : c[k] = s[k]
    BY <1>1
<1> HIDE DEF c
<1>5. /\ c \o b \in Seq(S) /\ Len(c \o b) = Len(s) + 1
      /\ \A k \in 1..(Len(s) + 1) :
            (c \o b)[k] = IF k <= i + 1 THEN c[k] ELSE b[k - (i + 1)]
  <2>1. Len(c) + Len(b) = Len(s) + 1
    BY <1>2, <1>4
  <2> QED BY <1>2, <1>4, <2>1, ConcatProperties
<1>6. ASSUME NEW k \in 1..(Len(s) + 1)
      PROVE  (c \o b)[k] = IF k <= i THEN s[k] ELSE IF k = i + 1 THEN r ELSE s[k - 1]
  <2>1. CASE k <= i + 1
    BY <1>4, <1>5, <2>1
  <2>2. CASE k > i + 1
    <3>1. k - (i + 1) \in 1..(Len(s) - i) /\ (k - (i + 1)) + i = k - 1
      BY <2>2
    <3>2. (c \o b)[k] = b[k - (i + 1)]
      BY <1>5, <2>2
    <3>3. b[k - (i + 1)] = s[k - 1]
      BY <1>2, <3>1
    <3>4. ~(k <= i) /\ k # i + 1
      BY <2>2
    <3> QED BY <3>2, <3>3, <3>4
  <2>3. k <= i + 1 \/ k > i + 1
    OBVIOUS
  <2> QED BY <2>1, <2>2, <2>3
<1> QED BY <1>3, <1>5, <1>6 DEF IsInsertion

\* remove() takes one element out and keeps the others.
LEMMA Removed ==
    ASSUME NEW S, NEW s \in Seq(S), NEW r
    PROVE  IsRemoval(Remove(s, r), s, r, S)
<1>1. CASE \E i \in DOMAIN s : s[i] = r
  <2> DEFINE i == CHOOSE i \in DOMAIN s : s[i] = r
  <2>1. i \in DOMAIN s /\ s[i] = r
    BY <1>1
  <2>2. Remove(s, r) = SubSeq(s, 1, i - 1) \o SubSeq(s, i + 1, Len(s))
    BY <1>1 DEF Remove
  <2> HIDE DEF i
  <2> DEFINE a == SubSeq(s, 1, i - 1)
             b == SubSeq(s, i + 1, Len(s))
  <2>3. a \in Seq(S) /\ Len(a) = i - 1 /\ \A k \in 1..(i - 1) : a[k] = s[k]
    BY <2>1
  <2>4. b \in Seq(S) /\ Len(b) = Len(s) - i /\ \A k \in 1..(Len(s) - i) : b[k] = s[k + i]
    BY <2>1
  <2> HIDE DEF a, b
  <2>5. /\ a \o b \in Seq(S) /\ Len(a \o b) = Len(s) - 1
        /\ \A k \in 1..(Len(s) - 1) : (a \o b)[k] = IF k < i THEN a[k] ELSE b[k - i + 1]
    BY <2>1, <2>3, <2>4
  <2>6. ASSUME NEW k \in 1..(Len(s) - 1)
        PROVE  (a \o b)[k] = IF k < i THEN s[k] ELSE s[k + 1]
    <3>1. CASE k < i
      BY <2>1, <2>3, <2>5, <3>1
    <3>2. CASE k >= i
      <4>1. k - i + 1 \in 1..(Len(s) - i) /\ (k - i + 1) + i = k + 1
        BY <2>1, <3>2
      <4>2. (a \o b)[k] = b[k - i + 1]
        BY <2>1, <2>5, <3>2
      <4>3. b[k - i + 1] = s[k + 1]
        BY <2>4, <4>1
      <4>4. ~(k < i)
        BY <2>1, <3>2
      <4> QED BY <4>2, <4>3, <4>4
    <3>3. k < i \/ k >= i
      BY <2>1
    <3> QED BY <3>1, <3>2, <3>3
  <2>7. Remove(s, r) = a \o b
    BY <2>2 DEF a, b
  <2> QED BY <2>1, <2>5, <2>6, <2>7 DEF IsRemoval
<1>2. CASE ~ \E i \in DOMAIN s : s[i] = r
    BY <1>2 DEF Remove, IsRemoval
<1> QED BY <1>1, <1>2

LEMMA PendingCount ==
    ASSUME NEW k \in Nat
    PROVE  /\ PendingIn(k) \in Nat /\ PendingIn(0) = 0
           /\ PendingIn(k + 1) <= PendingIn(k) + 1
           /\ \A l \in Nat : l <= k => PendingIn(l) <= PendingIn(k)
<1> DEFINE P(n) == { i \in 1..n : IsPending(waiters[i]) }
<1>1. ASSUME NEW n \in Nat PROVE IsFiniteSet(P(n)) /\ Cardinality(P(n)) \in Nat
  <2>1. IsFiniteSet(1..n) /\ P(n) \in SUBSET (1..n)
    BY FS_Interval
  <2> HIDE DEF P
  <2>2. IsFiniteSet(P(n))
    BY <2>1, FS_Subset
  <2> QED BY <2>2, FS_CardinalityType
<1>2. P(0) = {}
    OBVIOUS
<1>3. PendingIn(0) = 0
    BY <1>2, FS_EmptySet DEF PendingIn
<1>4. P(k + 1) \subseteq P(k) \cup {k + 1}
    OBVIOUS
<1>5. Cardinality(P(k + 1)) <= Cardinality(P(k)) + 1
  <2>1. Cardinality(P(k) \cup {k + 1}) <= Cardinality(P(k)) + 1 /\ IsFiniteSet(P(k) \cup {k + 1})
    BY <1>1, FS_AddElement
  <2> QED BY <1>1, <1>4, <2>1, FS_Subset
<1>6. ASSUME NEW l \in Nat, l <= k PROVE Cardinality(P(l)) <= Cardinality(P(k))
    BY <1>1, <1>6, FS_Subset, P(l) \in SUBSET P(k)
<1> QED BY <1>1, <1>3, <1>5, <1>6 DEF PendingIn

\* release() goes through the line up to the last free slot or to its end.
LEMMA PoppedBound ==
    ASSUME NEW S, waiters \in Seq(S), NEW room \in Nat
    PROVE  /\ Popped(room) \in 0..Len(waiters)
           /\ PendingIn(Popped(room)) <= room
           /\ Popped(room) < Len(waiters) => PendingIn(Popped(room)) >= room
<1> DEFINE K == { k \in 1..Len(waiters) : PendingIn(k - 1) < room }
           n == Cardinality(K)
<1>1. Len(waiters) \in Nat
    OBVIOUS
<1>2. IsFiniteSet(K) /\ n \in 0..Len(waiters)
  <2>1. IsFiniteSet(1..Len(waiters)) /\ Cardinality(1..Len(waiters)) <= Len(waiters)
    BY <1>1, FS_Interval
  <2>2. K \in SUBSET (1..Len(waiters))
    OBVIOUS
  <2> QED BY <1>1, <2>1, <2>2, FS_Subset, FS_CardinalityType
<1> HIDE DEF n
<1>3. \A k, l \in Nat : PendingIn(k) \in Nat /\ (l <= k => PendingIn(l) <= PendingIn(k))
    BY PendingCount
<1>4. ASSUME n >= 1, PendingIn(n - 1) >= room PROVE FALSE
  <2>1. ASSUME NEW k \in K PROVE k \in 1..(n - 1)
    <3>1. k - 1 \in Nat /\ n - 1 \in Nat /\ PendingIn(k - 1) < room
      BY <1>1, <1>2, <1>4
    <3>2. ~(n - 1 <= k - 1)
      BY <1>3, <1>4, <3>1
    <3> QED BY <1>1, <1>2, <3>1, <3>2
  <2>2. Cardinality(1..(n - 1)) = n - 1 /\ IsFiniteSet(1..(n - 1))
    BY <1>2, <1>4, FS_Interval
  <2>3. K \in SUBSET (1..(n - 1))
    BY <2>1
  <2> HIDE DEF K
  <2>4. Cardinality(K) <= n - 1
    BY <2>2, <2>3, FS_Subset
  <2> QED BY <1>2, <2>4 DEF n
<1>5. PendingIn(n) <= room
  <2>1. CASE n = 0
    BY <2>1, PendingCount
  <2>2. CASE n >= 1
    <3>1. n - 1 \in Nat /\ (n - 1) + 1 = n
      BY <1>2, <2>2
    <3>2. PendingIn(n - 1) < room
      BY <1>3, <1>4, <2>2, <3>1
    <3>3. PendingIn(n) <= PendingIn(n - 1) + 1
      BY <3>1, PendingCount
    <3> QED BY <1>2, <1>3, <3>1, <3>2, <3>3
  <2> QED BY <1>2, <2>1, <2>2
<1>6. ASSUME n < Len(waiters), PendingIn(n) < room PROVE FALSE
  <2>1. ASSUME NEW k \in 1..(n + 1) PROVE k \in K
    <3>1. k - 1 \in Nat /\ k - 1 <= n /\ k \in 1..Len(waiters) /\ n \in Nat
      BY <1>1, <1>2, <1>6
    <3> QED BY <1>3, <1>6, <3>1
  <2>2. Cardinality(1..(n + 1)) = n + 1
    BY <1>2, FS_Interval
  <2> HIDE DEF K
  <2>3. 1..(n + 1) \in SUBSET K
    BY <2>1
  <2>4. Cardinality(1..(n + 1)) <= Cardinality(K)
    BY <1>2, <2>3, FS_Subset
  <2> QED BY <1>2, <2>2, <2>4 DEF n
<1>7. n = Popped(room) /\ PendingIn(n) \in Nat
    BY <1>2, <1>3 DEF Popped, n
<1> QED BY <1>2, <1>5, <1>6, <1>7

\* release() pops the first n waiters and grants the pending ones a slot: as many
\* as there are slots, unless the line ends before.
HandsOut(n, lucky) ==
    /\ n \in 0..Len(waiters)
    /\ lucky = { s \in Requests : \E i \in 1..n : waiters[i] = s /\ IsPending(s) }
    /\ Cardinality(lucky) \in Nat /\ Cardinality(lucky) <= capacity - (granted - 1)
    /\ n < Len(waiters) => Cardinality(lucky) >= capacity - (granted - 1)
    /\ \A k \in DOMAIN waiters' : n + k \in DOMAIN waiters /\ waiters'[k] = waiters[n + k]

\* What release() does with the slot that r gave back.
LEMMA ReleaseEffect ==
    ASSUME TypeOK, LineSound, Release, granted > 0
    PROVE  \E lucky \in SUBSET Requests :
              /\ IsFiniteSet(lucky)
              /\ \A s \in lucky : IsPending(s) /\ InLine(s)
              /\ granted' = granted - 1 + Cardinality(lucky)
              /\ granted' \in Nat /\ granted' <= capacity
              /\ future' = [s \in Requests |-> IF s \in lucky THEN "granted" ELSE future[s]]
              /\ waiters' \in Seq(Requests)
              /\ \A s \in Requests : InLine(s)' => InLine(s) /\ s \notin lucky
              /\ \A s \in Requests : IsPending(s) /\ InLine(s) /\ s \notin lucky => InLine(s)'
              /\ LineSound'
              /\ waiters = <<>> => lucky = {}
              /\ \E m : HandsOut(m, lucky)
              /\ UNCHANGED << capacity, closed, raised >>
<1> DEFINE room == capacity - (granted - 1)
           n == Popped(room)
           P == { i \in 1..n : IsPending(waiters[i]) }
           lucky == { s \in Requests : \E i \in 1..n : waiters[i] = s /\ IsPending(s) }
<1>1. room \in Nat /\ room >= 1 /\ granted \in Nat /\ capacity \in Nat
    BY GateAssumption DEF TypeOK, LineSound
<1>2. /\ waiters \in Seq(Requests) /\ Len(waiters) \in Nat /\ DOMAIN waiters = 1..Len(waiters)
      /\ \A i \in 1..Len(waiters) : waiters[i] \in Requests
    BY DEF TypeOK
<1>3. /\ n \in 0..Len(waiters) /\ PendingIn(n) <= room
      /\ n < Len(waiters) => PendingIn(n) >= room
  <2> HIDE DEF room
  <2> QED BY <1>1, <1>2, PoppedBound
<1>4. /\ granted' = granted - 1 + Cardinality(lucky)
      /\ waiters' = SubSeq(waiters, n + 1, Len(waiters))
      /\ future' = [s \in Requests |-> IF s \in lucky THEN "granted" ELSE future[s]]
      /\ UNCHANGED << capacity, closed, raised >>
  <2>1. ~(granted <= 0)
    BY <1>1
  <2> QED BY <2>1, Zenon DEF Release
<1> HIDE DEF n, room
<1>5. IsFiniteSet(lucky) /\ Cardinality(lucky) = PendingIn(n)
  <2> DEFINE f == [i \in P |-> waiters[i]]
  <2>1. IsFiniteSet(P) /\ Cardinality(P) = PendingIn(n)
    <3>1. IsFiniteSet(1..n) /\ P \in SUBSET (1..n)
      BY <1>3, FS_Interval
    <3> HIDE DEF P
    <3> QED BY <3>1, FS_Subset DEF PendingIn, P
  <2>2. f \in [P -> lucky] /\ \A s \in lucky : \E i \in P : f[i] = s
    BY <1>2, <1>3
  <2>3. \A i, j \in P : f[i] = f[j] => i = j
    BY <1>2, <1>3 DEF LineSound
  <2> HIDE DEF f, P, lucky
  <2>4. f \in Surjection(P, lucky) /\ f \in Injection(P, lucky)
    BY <2>2, <2>3 DEF Surjection, Injection, IsInjective
  <2> QED BY <2>1, <2>4, FS_Surjection
<1>6. PendingIn(n) \in Nat
    BY <1>3, PendingCount
<1>7. granted' \in Nat /\ granted' <= capacity
    BY <1>1, <1>3, <1>4, <1>5, <1>6 DEF room
<1>8. /\ waiters' \in Seq(Requests) /\ Len(waiters') = Len(waiters) - n
      /\ \A k \in 1..(Len(waiters) - n) : waiters'[k] = waiters[n + k]
  <2> DEFINE m == Len(waiters)
             t == SubSeq(waiters, n + 1, m)
  <2>1. \A i \in (n + 1)..m : waiters[i] \in Requests
    BY <1>2, <1>3
  <2>2. n + 1 \in Int /\ m \in Int /\ n \in Nat /\ n <= m
    BY <1>2, <1>3
  <2> HIDE DEF m
  <2>3. /\ t \in Seq(Requests) /\ Len(t) = IF n + 1 <= m THEN m - (n + 1) + 1 ELSE 0
        /\ \A k \in 1..(m - (n + 1) + 1) : t[k] = waiters[(n + 1) + k - 1]
    BY <2>1, <2>2, SubSeqProperties
  <2>4. Len(t) = m - n /\ m - (n + 1) + 1 = m - n
    BY <2>2, <2>3
  <2>5. ASSUME NEW k \in 1..(m - n) PROVE t[k] = waiters[n + k]
    <3>1. (n + 1) + k - 1 = n + k
      BY <2>2
    <3> QED BY <2>3, <2>4, <3>1
  <2> QED BY <1>4, <2>3, <2>4, <2>5 DEF m
<1>9. DOMAIN waiters' = 1..(Len(waiters) - n)
    BY <1>8
<1>10. ASSUME NEW s \in Requests, InLine(s)' PROVE InLine(s) /\ s \notin lucky
  <2>1. PICK k \in 1..(Len(waiters) - n) : waiters[n + k] = s
    BY <1>8, <1>9, <1>10 DEF InLine
  <2>2. n + k \in DOMAIN waiters /\ n + k \notin 1..n
    BY <1>2, <1>3
  <2> QED BY <1>2, <1>3, <2>1, <2>2 DEF InLine, LineSound
<1>11. ASSUME NEW s \in Requests, IsPending(s), InLine(s), s \notin lucky PROVE InLine(s)'
  <2>1. PICK i \in 1..Len(waiters) : waiters[i] = s
    BY <1>2, <1>11 DEF InLine
  <2>2. i \notin 1..n
    BY <1>11, <2>1
  <2>3. i - n \in 1..(Len(waiters) - n) /\ n + (i - n) = i
    BY <1>2, <1>3, <2>2
  <2>4. waiters'[i - n] = s
    BY <1>8, <2>1, <2>3
  <2> QED BY <1>9, <2>3, <2>4 DEF InLine
<1>12. LineSound'
  <2>1. ASSUME NEW i \in DOMAIN waiters', NEW j \in DOMAIN waiters', waiters'[i] = waiters'[j]
        PROVE  i = j
    <3>1. n + i \in DOMAIN waiters /\ n + j \in DOMAIN waiters
      BY <1>2, <1>3, <1>9
    <3>2. waiters[n + i] = waiters[n + j]
      BY <1>8, <1>9, <2>1
    <3>3. n + i = n + j
      BY <3>1, <3>2 DEF LineSound
    <3> QED BY <1>3, <1>9, <3>3
  <2>2. ASSUME waiters' # <<>> PROVE ~closed' /\ granted' >= capacity'
    <3>1. n < Len(waiters) /\ waiters # <<>>
      BY <1>2, <1>3, <1>8, <2>2
    <3>2. ~closed
      BY <3>1 DEF LineSound
    <3>3. granted' >= capacity
      BY <1>1, <1>3, <1>4, <1>5, <1>6, <3>1 DEF room
    <3> QED BY <1>4, <3>2, <3>3
  <2> QED BY <1>4, <1>7, <2>1, <2>2 DEF LineSound
<1>13. waiters = <<>> => lucky = {}
    BY <1>2, <1>3
<1>14. \A s \in lucky : IsPending(s) /\ InLine(s)
    BY <1>2, <1>3 DEF InLine
<1>15. lucky \in SUBSET Requests
    OBVIOUS
<1>16. HandsOut(n, lucky)
  <2>1. ASSUME NEW k \in DOMAIN waiters'
        PROVE  n + k \in DOMAIN waiters /\ waiters'[k] = waiters[n + k]
    BY <1>2, <1>3, <1>8, <1>9
  <2> QED BY <1>3, <1>5, <1>6, <2>1 DEF HandsOut, room
<1> HIDE DEF lucky
<1> QED BY <1>4, <1>5, <1>7, <1>8, <1>10, <1>11, <1>12, <1>13, <1>14, <1>15, <1>16

(***************************************************************************)
(* Frames.                                                                 *)
(***************************************************************************)
\* Nothing happens to s.
SameReq(s) ==
    /\ task'[s] = task[s] /\ acquire'[s] = acquire[s] /\ future'[s] = future[s]
    /\ seen'[s] = seen[s] /\ cancels'[s] = cancels[s]
    /\ (s \in must' <=> s \in must) /\ (s \in acquired' <=> s \in acquired)
    /\ (s \in active' <=> s \in active) /\ (s \in cancelled' <=> s \in cancelled)
SameLine(s) == InLine(s)' <=> InLine(s)

LEMMA Frame ==
    ASSUME NEW s \in Requests, ReqSound(s), SameReq(s), SameLine(s), closed => closed'
    PROVE  ReqSound(s)'
BY DEF ReqSound, TasksAgree, NotTorn, LineAgrees, SameReq, SameLine, TwoReasons

LineGate == LineSound /\ GrantsAccounted /\ CapacityRespected

\* The gate does not move and nobody gets or loses a slot.
LEMMA QuietGate ==
    ASSUME LineGate, UNCHANGED << capacity, granted, waiters, closed >>,
           \A s \in Requests : Owns(s)' <=> Owns(s)
    PROVE  LineGate' /\ \A s \in Requests : SameLine(s)
<1>1. Owners' = Owners
    BY DEF Owners
<1>2. LineSound' /\ \A s \in Requests : SameLine(s)
    BY DEF LineGate, LineSound, SameLine, InLine
<1> QED BY <1>1, <1>2 DEF LineGate, GrantsAccounted, CapacityRespected

\* Nobody enters or leaves the counts.
LEMMA QuietCounts ==
    ASSUME CountsSound, UNCHANGED << active, runtimeVars >>,
           \A s \in Requests : InQueue(s)' <=> InQueue(s)
    PROVE  CountsSound'
<1>1. QueuedSet' = QueuedSet
    BY DEF QueuedSet
<1> QED BY <1>1 DEF CountsSound, runtimeVars

LEMMA FiniteOwners ==
    ASSUME TypeOK
    PROVE  /\ IsFiniteSet(Owners) /\ Cardinality(Owners) \in Nat
           /\ IsFiniteSet(QueuedSet) /\ Cardinality(QueuedSet) \in Nat
           /\ IsFiniteSet(active) /\ Cardinality(active) \in Nat
<1>1. Owners \in SUBSET Requests /\ QueuedSet \in SUBSET Requests /\ active \in SUBSET Requests
    BY DEF TypeOK, Owners, QueuedSet
<1>2. IsFiniteSet(Owners) /\ IsFiniteSet(QueuedSet) /\ IsFiniteSet(active)
    BY <1>1, GateAssumption, FS_Subset
<1> QED BY <1>2, FS_CardinalityType

\* release() on behalf of r, who had a slot unless the gate is closed.
LEMMA ReleaseStep ==
    ASSUME TypeOK, LineGate, \A s \in Requests : ReqSound(s), Release,
           NEW r \in Requests, Owns(r) \/ closed, ~IsPending(r), ~Owns(r)',
           \A s \in Requests \ {r} :
              acquire'[s] = acquire[s] /\ (s \in acquired' <=> s \in acquired)
    PROVE  /\ LineGate'
           /\ capacity' \in 1..Capacity /\ granted' \in Nat /\ waiters' \in Seq(Requests)
           /\ closed' = closed /\ future' \in [Requests -> FutureStates] /\ raised' \in BOOLEAN
           /\ \A s \in Requests :
                 \/ future'[s] = future[s] /\ SameLine(s)
                 \/ s # r /\ IsPending(s) /\ future'[s] = "granted" /\ ~InLine(s)'
                 \/ ~IsPending(s) /\ future'[s] = future[s] /\ ~InLine(s)'
<1>1. capacity \in Nat /\ granted \in Nat
    BY GateAssumption DEF TypeOK
<1>2. IsFiniteSet(Owners) /\ Cardinality(Owners) \in Nat
    BY FiniteOwners
<1>3. /\ IsFiniteSet(Owners \ {r})
      /\ Cardinality(Owners \ {r}) =
            IF r \in Owners THEN Cardinality(Owners) - 1 ELSE Cardinality(Owners)
    BY <1>2, FS_RemoveElement
<1>4. CASE granted <= 0
  <2>1. raised' = TRUE /\ UNCHANGED << capacity, granted, waiters, closed, future >>
    BY <1>4 DEF Release, gateVars
  <2>2. Owners' = Owners \ {r}
    BY <2>1 DEF Owners, Owns
  <2>3. closed
    <3>1. CASE r \in Owners
      <4>1. Cardinality(Owners) >= 1
        BY <1>2, <3>1, FS_EmptySet
      <4> QED BY <1>1, <1>4, <4>1 DEF LineGate, GrantsAccounted
    <3> QED BY <3>1 DEF Owners
  <2>4. LineSound' /\ \A s \in Requests : SameLine(s)
    BY <2>1 DEF LineGate, LineSound, SameLine, InLine
  <2>5. CapacityRespected' /\ GrantsAccounted'
    BY <1>1, <1>2, <1>3, <2>1, <2>2, <2>3 DEF LineGate, CapacityRespected, GrantsAccounted
  <2> QED BY <2>1, <2>4, <2>5 DEF LineGate, TypeOK
<1>5. CASE granted > 0
  <2>1. PICK lucky \in SUBSET Requests :
              /\ IsFiniteSet(lucky)
              /\ \A s \in lucky : IsPending(s) /\ InLine(s)
              /\ granted' = granted - 1 + Cardinality(lucky)
              /\ granted' \in Nat /\ granted' <= capacity
              /\ future' = [s \in Requests |-> IF s \in lucky THEN "granted" ELSE future[s]]
              /\ waiters' \in Seq(Requests)
              /\ \A s \in Requests : InLine(s)' => InLine(s) /\ s \notin lucky
              /\ \A s \in Requests : IsPending(s) /\ InLine(s) /\ s \notin lucky => InLine(s)'
              /\ LineSound'
              /\ waiters = <<>> => lucky = {}
              /\ UNCHANGED << capacity, closed, raised >>
    BY <1>5, ReleaseEffect DEF LineGate
  <2>2. Owners' = (Owners \ {r}) \cup lucky
    <3>1. ASSUME NEW s \in lucky PROVE Owns(s)'
      BY <2>1, <3>1 DEF Owns, ReqSound, LineAgrees, IsPending
    <3>2. ASSUME NEW s \in Requests \ lucky, s # r PROVE Owns(s)' <=> Owns(s)
      BY <2>1, <3>2 DEF Owns
    <3>3. r \notin lucky
      BY <2>1
    <3> QED BY <3>1, <3>2, <3>3 DEF Owners
  <2>3. (Owners \ {r}) \cap lucky = {}
    BY <2>1 DEF Owners, Owns, ReqSound, TasksAgree, LineAgrees, IsPending
  <2>4. Cardinality(lucky) \in Nat
    BY <2>1, FS_CardinalityType
  <2>5. Cardinality(Owners') = Cardinality(Owners \ {r}) + Cardinality(lucky)
    <3>1. Cardinality((Owners \ {r}) \cup lucky) =
             Cardinality(Owners \ {r}) + Cardinality(lucky) - Cardinality({})
      BY <1>3, <2>1, <2>3, FS_Union
    <3>2. Cardinality({}) = 0 /\ Cardinality(Owners \ {r}) \in Nat
      BY <1>3, FS_EmptySet, FS_CardinalityType
    <3> QED BY <2>2, <2>4, <3>1, <3>2
  <2>6. CASE closed
    <3>1. lucky = {}
      BY <2>1, <2>6 DEF LineGate, LineSound
    <3>2. Cardinality(Owners') <= Cardinality(Owners)
      BY <1>2, <1>3, <2>5, <3>1, FS_EmptySet
    <3>3. Cardinality(Owners') \in Nat
      BY <1>3, <2>4, <2>5, FS_CardinalityType
    <3>4. GrantsAccounted' /\ CapacityRespected'
      BY <1>1, <1>2, <2>1, <2>6, <3>2, <3>3 DEF LineGate, GrantsAccounted, CapacityRespected
    <3> QED BY <2>1, <3>4 DEF LineGate, TypeOK, FutureStates, SameLine
  <2>7. CASE ~closed
    <3>1. granted = Cardinality(Owners) /\ r \in Owners
      BY <2>7 DEF LineGate, GrantsAccounted, Owners
    <3>2. granted' = Cardinality(Owners')
      BY <1>1, <1>3, <2>1, <2>4, <2>5, <3>1
    <3>3. GrantsAccounted' /\ CapacityRespected'
      BY <1>1, <2>1, <3>2 DEF GrantsAccounted, CapacityRespected
    <3> QED BY <2>1, <3>3 DEF LineGate, TypeOK, FutureStates, SameLine
  <2> QED BY <2>6, <2>7
<1> QED BY <1>1, <1>4, <1>5

(***************************************************************************)
(* One lemma per action.                                                   *)
(***************************************************************************)
USE DEF gateVars, taskVars, runtimeVars, settings, TwoReasons

\* A step of r leaves the other requests alone.
LEMMA Combine ==
    ASSUME GateInv, NEW r \in Requests, TypeOK', ReqSound(r)', LineGate', CountsSound',
           \A s \in Requests \ {r} : SameReq(s) /\ SameLine(s), closed => closed'
    PROVE  GateInv'
<1>1. ASSUME NEW s \in Requests \ {r} PROVE ReqSound(s)'
    BY Frame DEF GateInv
<1> QED BY <1>1 DEF GateInv, LineGate

LEMMA WaitReturnsStep ==
    ASSUME GateInv, NEW r \in Requests, WaitReturns(r)
    PROVE  GateInv'
<1>1. TypeOK'
    BY DEF GateInv, TypeOK, WaitReturns, TaskStates
<1>2. /\ task[r] = "wait" /\ task'[r] = "settle" /\ r \notin cancelled'
      /\ acquire'[r] = acquire[r] /\ future'[r] = future[r] /\ cancels'[r] = cancels[r]
      /\ must' = must /\ acquired' = acquired /\ active' = active
      /\ \/ seen'[r] = "cancelled" /\ r \in cancelled
         \/ seen'[r] = "acquire" /\ Done(r)
         \/ seen'[r] = "other"
    BY DEF GateInv, TypeOK, WaitReturns
<1>3. ASSUME NEW s \in Requests \ {r} PROVE SameReq(s)
    BY DEF GateInv, TypeOK, WaitReturns, SameReq
<1>4. LineGate' /\ \A s \in Requests : SameLine(s)
    BY QuietGate DEF WaitReturns, Owns, GateInv, LineGate
<1>5. CountsSound'
  <2>1. ASSUME NEW s \in Requests PROVE InQueue(s)' <=> InQueue(s)
    BY <1>2, <1>3 DEF InQueue, SameReq
  <2> QED BY <2>1, QuietCounts DEF GateInv, WaitReturns
<1>6. ReqSound(r) /\ SameLine(r) /\ closed' = closed
    BY <1>4 DEF GateInv, WaitReturns
<1>7. ReqSound(r)'
    BY <1>2, <1>6 DEF ReqSound, TasksAgree, NotTorn, LineAgrees, SameLine, Done
<1> QED BY <1>1, <1>3, <1>4, <1>5, <1>6, <1>7, Combine

LEMMA EndStreamStep ==
    ASSUME GateInv, NEW r \in Requests, EndStream(r)
    PROVE  GateInv'
<1>1. TypeOK'
    BY DEF GateInv, TypeOK, EndStream, TaskStates
<1>2. /\ task[r] = "active" /\ task'[r] = "finish" /\ r \notin cancelled'
      /\ acquire'[r] = acquire[r] /\ future'[r] = future[r] /\ cancels'[r] = cancels[r]
      /\ must' = must /\ acquired' = acquired /\ active' = active /\ seen' = seen
    BY DEF GateInv, TypeOK, EndStream
<1>3. ASSUME NEW s \in Requests \ {r} PROVE SameReq(s)
    BY DEF GateInv, TypeOK, EndStream, SameReq
<1>4. LineGate' /\ \A s \in Requests : SameLine(s)
    BY QuietGate DEF EndStream, Owns, GateInv, LineGate
<1>5. ReqSound(r) /\ SameLine(r) /\ closed' = closed
    BY <1>4 DEF GateInv, EndStream
<1>6. CountsSound'
  <2>1. ASSUME NEW s \in Requests PROVE InQueue(s)' <=> InQueue(s)
    BY <1>2, <1>3, <1>5 DEF InQueue, SameReq, ReqSound, TasksAgree
  <2> QED BY <2>1, QuietCounts DEF GateInv, EndStream
<1>7. ReqSound(r)'
    BY <1>2, <1>5 DEF ReqSound, TasksAgree, NotTorn, LineAgrees, SameLine
<1> QED BY <1>1, <1>3, <1>4, <1>5, <1>6, <1>7, Combine

LEMMA CancelTaskStep ==
    ASSUME GateInv, NEW r \in Requests, CancelTask(r)
    PROVE  GateInv'
<1>1. TypeOK'
    BY GateAssumption DEF GateInv, TypeOK, CancelTask
<1>2. /\ task[r] \in Suspended /\ cancels[r] \in Nat /\ cancels'[r] = cancels[r] + 1
      /\ task' = task /\ acquire' = acquire /\ future' = future /\ seen' = seen
      /\ must' = must /\ acquired' = acquired /\ active' = active
    BY GateAssumption DEF GateInv, TypeOK, CancelTask
<1>3. ASSUME NEW s \in Requests \ {r} PROVE SameReq(s)
    BY DEF GateInv, TypeOK, CancelTask, SameReq
<1>4. LineGate' /\ \A s \in Requests : SameLine(s)
    BY QuietGate DEF CancelTask, Owns, GateInv, LineGate
<1>5. ReqSound(r) /\ SameLine(r) /\ closed' = closed
    BY <1>4 DEF GateInv, CancelTask
<1>6. CountsSound'
  <2>1. ASSUME NEW s \in Requests PROVE InQueue(s)' <=> InQueue(s)
    BY <1>2 DEF InQueue
  <2> QED BY <2>1, QuietCounts DEF GateInv, CancelTask
<1>7. ReqSound(r)'
  <2>1. TasksAgree(r)' /\ LineAgrees(r)'
    BY <1>2, <1>5 DEF ReqSound, TasksAgree, LineAgrees, SameLine, Suspended
  <2>2. task[r] = "reap" => acquire[r] = "error" \/ TwoReasons(r)'
    BY <1>2, <1>5 DEF ReqSound, NotTorn
  <2>3. NotTorn(r)'
    BY <1>2, <1>5, <2>2 DEF ReqSound, NotTorn
  <2> QED BY <2>1, <2>3 DEF ReqSound
<1> QED BY <1>1, <1>3, <1>4, <1>5, <1>6, <1>7, Combine

\* Steps that change neither a task nor the gate.
LEMMA OutsideStep ==
    ASSUME GateInv, TypeOK',
           UNCHANGED << gateVars, acquire, must, taskVars, runtimeVars >>
    PROVE  GateInv'
<1>1. ASSUME NEW s \in Requests PROVE SameReq(s)
    BY DEF SameReq
<1>2. LineGate' /\ \A s \in Requests : SameLine(s)
    BY QuietGate DEF Owns, GateInv, LineGate
<1>3. CountsSound'
    BY QuietCounts DEF GateInv, InQueue
<1>4. ASSUME NEW s \in Requests PROVE ReqSound(s)'
    BY <1>1, <1>2, Frame DEF GateInv
<1> QED BY <1>2, <1>3, <1>4 DEF GateInv, LineGate

LEMMA ElapseStep ==
    ASSUME GateInv, NEW r \in Requests, Elapse(r)
    PROVE  GateInv'
<1>1. TypeOK'
    BY DEF GateInv, TypeOK, Elapse
<1> QED BY <1>1, OutsideStep DEF Elapse

LEMMA UpdateConcurrencyStep ==
    ASSUME GateInv, UpdateConcurrency
    PROVE  GateInv'
<1>1. TypeOK'
  <2>1. edits' \in 0..MaxEdits /\ max_queued_requests' \in QueueLimits
    BY GateAssumption DEF GateInv, TypeOK, UpdateConcurrency
  <2>2. expired' \subseteq Timed /\ changed' \subseteq Requests
    BY DEF GateInv, TypeOK, UpdateConcurrency
  <2> QED BY <2>1, <2>2 DEF GateInv, TypeOK, UpdateConcurrency
<1> QED BY <1>1, OutsideStep DEF UpdateConcurrency

\* r starts or stops being counted as queued.
LEMMA QueuedMoves ==
    ASSUME TypeOK, CountsSound, NEW r \in Requests,
           \A s \in Requests \ {r} : InQueue(s)' <=> InQueue(s)
    PROVE  /\ ~InQueue(r) /\ InQueue(r)' => Cardinality(QueuedSet') = queued_requests + 1
           /\ InQueue(r) /\ ~InQueue(r)' => Cardinality(QueuedSet') = OneLess(queued_requests)
<1>1. IsFiniteSet(QueuedSet) /\ Cardinality(QueuedSet) \in Nat
    BY FiniteOwners
<1>2. ASSUME ~InQueue(r), InQueue(r)' PROVE Cardinality(QueuedSet') = queued_requests + 1
  <2>1. QueuedSet' = QueuedSet \cup {r} /\ r \notin QueuedSet
    BY <1>2 DEF QueuedSet
  <2> QED BY <1>1, <2>1, FS_AddElement DEF CountsSound
<1>3. ASSUME InQueue(r), ~InQueue(r)'
      PROVE  Cardinality(QueuedSet') = OneLess(queued_requests)
  <2>1. QueuedSet' = QueuedSet \ {r} /\ r \in QueuedSet
    BY <1>3 DEF QueuedSet
  <2>2. Cardinality(QueuedSet') = Cardinality(QueuedSet) - 1 /\ Cardinality(QueuedSet') \in Nat
    BY <1>1, <2>1, FS_RemoveElement, FS_CardinalityType
  <2> QED BY <1>1, <2>2 DEF CountsSound, OneLess
<1> QED BY <1>2, <1>3

LEMMA EnterStep ==
    ASSUME GateInv, NEW r \in Requests, Enter(r)
    PROVE  GateInv'
<1>1. TypeOK'
  <2>1. task' \in [Requests -> TaskStates] /\ acquire' \in [Requests -> AcquireStates]
    BY DEF GateInv, TypeOK, Enter, TaskStates, AcquireStates
  <2>2. queued_requests' \in Nat
    BY DEF GateInv, TypeOK, Enter
  <2>3. must' \subseteq Requests
    BY DEF GateInv, TypeOK, Enter
  <2> QED BY <2>1, <2>2, <2>3 DEF GateInv, TypeOK, Enter
<1>2. /\ task[r] = "idle" /\ future' = future /\ seen' = seen /\ acquired' = acquired
      /\ active' = active /\ cancelled' = cancelled /\ cancels' = cancels
      /\ \/ task'[r] = "ended" /\ acquire' = acquire /\ must' = must
         \/ task'[r] = "reap" /\ acquire'[r] = "new" /\ r \in must' /\ r \in Timed
         \/ task'[r] = "wait" /\ acquire'[r] = "new" /\ must' = must
    BY DEF GateInv, TypeOK, Enter
<1>3. ASSUME NEW s \in Requests \ {r} PROVE SameReq(s)
    BY DEF GateInv, TypeOK, Enter, SameReq
<1>4. ReqSound(r)
    BY DEF GateInv
<1>5. LineGate' /\ \A s \in Requests : SameLine(s)
  <2>1. ASSUME NEW s \in Requests PROVE Owns(s)' <=> Owns(s)
    BY <1>2, <1>3, <1>4 DEF Owns, SameReq, ReqSound, TasksAgree
  <2> QED BY <2>1, QuietGate DEF Enter, GateInv, LineGate
<1>6. CountsSound'
  <2>1. ASSUME NEW s \in Requests \ {r} PROVE InQueue(s)' <=> InQueue(s)
    BY <1>3 DEF InQueue, SameReq
  <2>2. ~InQueue(r)
    BY <1>2 DEF InQueue
  <2>3. CASE task'[r] = "ended"
    <3>1. ~InQueue(r)' /\ UNCHANGED << active, queued_requests, active_requests >>
      BY <2>3 DEF InQueue, Enter, GateInv, TypeOK
    <3> QED BY <2>1, <2>2, <3>1, QuietCounts DEF GateInv
  <2>4. CASE task'[r] # "ended"
    <3>1. InQueue(r)' /\ UNCHANGED << active, active_requests >>
          /\ queued_requests' = queued_requests + 1
      BY <1>2, <2>4 DEF InQueue, Enter, GateInv, TypeOK
    <3> QED BY <2>1, <2>2, <3>1, QueuedMoves DEF GateInv, CountsSound
  <2> QED BY <2>3, <2>4
<1>7. ReqSound(r)'
    BY <1>2, <1>4, <1>5 DEF ReqSound, TasksAgree, NotTorn, LineAgrees, SameLine, Enter
<1>8. closed' = closed
    BY DEF Enter
<1> QED BY <1>1, <1>3, <1>5, <1>6, <1>7, <1>8, Combine

LEMMA SettleStep ==
    ASSUME GateInv, NEW r \in Requests, Settle(r)
    PROVE  GateInv'
<1>1. TypeOK'
  <2>1. task' \in [Requests -> TaskStates] /\ acquire' \in [Requests -> AcquireStates]
    BY DEF GateInv, TypeOK, Settle, CancelAcquire, TaskStates, AcquireStates
  <2>2. future' \in [Requests -> FutureStates]
    BY DEF GateInv, TypeOK, Settle, CancelAcquire, FutureStates
  <2>3. must' \subseteq Requests /\ acquired' \subseteq Requests
    BY DEF GateInv, TypeOK, Settle, CancelAcquire
  <2>4. cancelled' \subseteq Requests
    BY DEF GateInv, TypeOK, Settle
  <2>5. UNCHANGED << capacity, granted, waiters, closed, seen, active, cancels, queued_requests,
                     active_requests, expired, changed, settings, raised, arrived >>
    BY DEF Settle
  <2> QED BY <2>1, <2>2, <2>3, <2>4, <2>5 DEF GateInv, TypeOK
<1>2. ReqSound(r)
    BY DEF GateInv
<1>3. /\ task[r] = "settle" /\ seen' = seen /\ active' = active /\ cancels' = cancels
      /\ r \notin cancelled' /\ closed' = closed
      /\ \/ /\ task'[r] = "reap" /\ acquire' = acquire /\ acquired' = acquired
            /\ \/ r \in cancelled \/ seen[r] = "cancelled" \/ r \in Timed
               \/ acquire[r] = "error"
            /\ \/ acquire[r] = "waiting" /\ future[r] = "pending"
                  /\ future'[r] = "cancelled" /\ must' = must
               \/ /\ ~(acquire[r] = "waiting" /\ future[r] = "pending")
                  /\ future' = future
                  /\ \/ Done(r) /\ must' = must
                     \/ ~Done(r)
         \/ /\ task'[r] = "held" /\ acquire'[r] = "spent" /\ r \in acquired'
            /\ acquire[r] = "ok" /\ future' = future /\ must' = must
         \/ /\ task'[r] = "wait" /\ acquire' = acquire /\ acquired' = acquired
            /\ future' = future /\ must' = must
    BY <1>2 DEF GateInv, TypeOK, Settle, CancelAcquire, IsPending, ReqSound, TasksAgree, Done
<1>4. ASSUME NEW s \in Requests \ {r} PROVE SameReq(s)
    BY DEF GateInv, TypeOK, Settle, CancelAcquire, SameReq
<1>5. LineGate' /\ \A s \in Requests : SameLine(s)
  <2>1. ASSUME NEW s \in Requests \ {r} PROVE Owns(s)' <=> Owns(s)
    BY <1>4 DEF Owns, SameReq
  <2>2. Owns(r)' <=> Owns(r)
    BY <1>2, <1>3 DEF Owns, ReqSound, TasksAgree
  <2> QED BY <2>1, <2>2, QuietGate DEF Settle, GateInv, LineGate
<1>6. CountsSound'
  <2>1. ASSUME NEW s \in Requests PROVE InQueue(s)' <=> InQueue(s)
    BY <1>3, <1>4 DEF InQueue, SameReq
  <2> QED BY <2>1, QuietCounts DEF GateInv, Settle
<1>7. ReqSound(r)'
  <2>1. TasksAgree(r)'
    BY <1>2, <1>3 DEF ReqSound, TasksAgree, LineAgrees, Done
  <2>2. NotTorn(r)'
    BY <1>2, <1>3 DEF ReqSound, NotTorn
  <2>3. LineAgrees(r)'
    BY <1>2, <1>3, <1>5 DEF ReqSound, LineAgrees, SameLine
  <2> QED BY <2>1, <2>2, <2>3 DEF ReqSound
<1> QED BY <1>1, <1>3, <1>4, <1>5, <1>6, <1>7, Combine

LEMMA ActivateStep ==
    ASSUME GateInv, NEW r \in Requests, Activate(r)
    PROVE  GateInv'
<1>1. TypeOK'
  <2>1. task' \in [Requests -> TaskStates]
    BY DEF GateInv, TypeOK, Activate, TaskStates
  <2>2. queued_requests' \in Nat /\ active_requests' \in Nat
    BY DEF GateInv, TypeOK, Activate, OneLess
  <2>3. active' \subseteq Requests /\ cancelled' \subseteq Requests
    BY DEF GateInv, TypeOK, Activate
  <2> QED BY <2>1, <2>2, <2>3 DEF GateInv, TypeOK, Activate
<1>2. ReqSound(r)
    BY DEF GateInv
<1>3. /\ task[r] = "held" /\ r \notin cancelled' /\ seen' = seen /\ cancels' = cancels
      /\ acquire' = acquire /\ future' = future /\ must' = must /\ acquired' = acquired
      /\ closed' = closed
      /\ \/ task'[r] = "active" /\ active' = active \cup {r}
            /\ queued_requests' = OneLess(queued_requests)
            /\ active_requests' = active_requests + 1
         \/ task'[r] = "finish" /\ active' = active
            /\ queued_requests' = queued_requests /\ active_requests' = active_requests
    BY DEF GateInv, TypeOK, Activate
<1>4. ASSUME NEW s \in Requests \ {r} PROVE SameReq(s)
    BY DEF GateInv, TypeOK, Activate, SameReq
<1>5. LineGate' /\ \A s \in Requests : SameLine(s)
    BY QuietGate DEF Activate, Owns, GateInv, LineGate
<1>6. CountsSound'
  <2>1. ASSUME NEW s \in Requests \ {r} PROVE InQueue(s)' <=> InQueue(s)
    BY <1>4 DEF InQueue, SameReq
  <2>2. InQueue(r) /\ r \notin active
    BY <1>2, <1>3 DEF InQueue, ReqSound, TasksAgree
  <2>3. CASE task'[r] = "active"
    <3>1. ~InQueue(r)' /\ active' = active \cup {r}
          /\ queued_requests' = OneLess(queued_requests)
          /\ active_requests' = active_requests + 1
      BY <1>3, <2>3 DEF InQueue
    <3>2. Cardinality(active') = active_requests + 1
      BY <2>2, <3>1, FiniteOwners, FS_AddElement DEF GateInv, CountsSound
    <3> QED BY <2>1, <2>2, <3>1, <3>2, QueuedMoves DEF GateInv, CountsSound
  <2>4. CASE task'[r] = "finish"
    <3>1. InQueue(r)' /\ UNCHANGED << active, queued_requests, active_requests >>
      BY <1>3, <2>2, <2>4 DEF InQueue
    <3> QED BY <2>1, <2>2, <3>1, QuietCounts DEF GateInv
  <2> QED BY <1>3, <2>3, <2>4
<1>7. ReqSound(r)'
    BY <1>2, <1>3, <1>5 DEF ReqSound, TasksAgree, NotTorn, LineAgrees, SameLine
<1> QED BY <1>1, <1>3, <1>4, <1>5, <1>6, <1>7, Combine

LEMMA AcquireStartStep ==
    ASSUME GateInv, NEW r \in Requests, AcquireStart(r)
    PROVE  GateInv'
<1> USE DEF GateInv
<1>1. ReqSound(r) /\ ~Owns(r) /\ ~InLine(r)
    BY DEF AcquireStart, ReqSound, TasksAgree, LineAgrees, Owns
<1>2. /\ acquire[r] = "new" /\ r \notin must' /\ closed' = closed
      /\ UNCHANGED << task, seen, acquired, active, cancelled, cancels, queued_requests,
                      active_requests >>
      /\ \A s \in Requests \ {r} : (s \in must' <=> s \in must) /\ acquire'[s] = acquire[s]
    BY DEF AcquireStart, TypeOK
<1>3. CountsSound'
    BY <1>2, QuietCounts DEF InQueue
<1>4. ReqSound(r) /\ task[r] \in {"wait", "settle", "reap"} /\ future[r] = "none"
    BY <1>2 DEF ReqSound, TasksAgree, LineAgrees, TypeOK, TaskStates
<1>5. CASE UNCHANGED << gateVars, arrived >> /\ acquire'[r] \in {"cancelled", "error"}
  <2>1. TypeOK'
    <3>1. acquire' \in [Requests -> AcquireStates]
      BY <1>5 DEF AcquireStart, TypeOK, AcquireStates
    <3> QED BY <1>2, <1>5, <3>1 DEF TypeOK, AcquireStart
  <2>2. ASSUME NEW s \in Requests \ {r} PROVE SameReq(s)
    BY <1>2, <1>5 DEF SameReq
  <2>3. LineGate' /\ \A s \in Requests : SameLine(s)
    <3>1. ASSUME NEW s \in Requests PROVE Owns(s)' <=> Owns(s)
      BY <1>1, <1>2, <1>5, <2>2 DEF Owns, SameReq
    <3> QED BY <1>5, <3>1, QuietGate DEF LineGate
  <2>4. acquire'[r] = "cancelled" => r \in must
    BY <1>5 DEF AcquireStart, TypeOK
  <2>5. ReqSound(r)'
    BY <1>1, <1>2, <1>4, <1>5, <2>3, <2>4 DEF ReqSound, TasksAgree, NotTorn, LineAgrees,
       SameLine
  <2> QED BY <1>2, <1>3, <2>1, <2>2, <2>3, <2>5, Combine
<1>6. CASE /\ r \notin must /\ ~closed /\ HasFreeSlot /\ granted' = granted + 1
           /\ acquire'[r] = "ok" /\ UNCHANGED << capacity, waiters, closed, future, arrived >>
  <2>1. TypeOK'
    <3>1. acquire' \in [Requests -> AcquireStates]
      BY DEF AcquireStart, TypeOK, AcquireStates
    <3>2. granted' \in Nat
      BY <1>6 DEF TypeOK
    <3> QED BY <1>2, <1>6, <3>1, <3>2 DEF TypeOK, AcquireStart
  <2>2. ASSUME NEW s \in Requests \ {r} PROVE SameReq(s)
    BY <1>2, <1>6 DEF SameReq
  <2>3. \A s \in Requests : SameLine(s)
    BY <1>6 DEF SameLine, InLine
  <2>4. LineGate'
    <3>1. Owners' = Owners \cup {r} /\ r \notin Owners
      <4>1. ASSUME NEW s \in Requests \ {r} PROVE Owns(s)' <=> Owns(s)
        BY <2>2 DEF Owns, SameReq
      <4>2. Owns(r)'
        BY <1>6 DEF Owns
      <4> QED BY <1>1, <4>1, <4>2 DEF Owners
    <3>2. Cardinality(Owners') = Cardinality(Owners) + 1 /\ Cardinality(Owners) \in Nat
      BY <3>1, FiniteOwners, FS_AddElement
    <3>3. granted \in Nat /\ capacity \in Nat /\ granted < capacity /\ waiters = <<>>
      BY <1>6, GateAssumption DEF TypeOK, HasFreeSlot
    <3>4. granted = Cardinality(Owners)
      BY <1>6 DEF GrantsAccounted
    <3>5. GrantsAccounted' /\ CapacityRespected'
      BY <1>6, <3>2, <3>3, <3>4 DEF GrantsAccounted, CapacityRespected
    <3>6. LineSound'
      BY <1>6, <3>3 DEF LineSound
    <3> QED BY <3>5, <3>6 DEF LineGate
  <2>5. ReqSound(r)'
    BY <1>1, <1>2, <1>4, <1>6, <2>3 DEF ReqSound, TasksAgree, NotTorn, LineAgrees, SameLine
  <2> QED BY <1>2, <1>3, <2>1, <2>2, <2>3, <2>4, <2>5, Combine
<1>7. CASE /\ r \notin must /\ ~closed /\ ~HasFreeSlot
           /\ \E i \in 0..Len(waiters) : waiters' = InsertAt(waiters, i, r)
           /\ future' = [future EXCEPT ![r] = "pending"] /\ acquire'[r] = "waiting"
           /\ arrived' = Append(arrived, r) /\ UNCHANGED << capacity, granted, closed >>
  <2>1. PICK i \in 0..Len(waiters) : waiters' = InsertAt(waiters, i, r)
    BY <1>7
  <2>2. /\ waiters \in Seq(Requests) /\ Len(waiters) \in Nat
        /\ DOMAIN waiters = 1..Len(waiters)
    BY DEF TypeOK
  <2>3. /\ waiters' \in Seq(Requests) /\ Len(waiters') = Len(waiters) + 1
        /\ DOMAIN waiters' = 1..(Len(waiters) + 1)
        /\ \A k \in 1..(Len(waiters) + 1) :
              waiters'[k] = IF k <= i THEN waiters[k] ELSE IF k = i + 1 THEN r
                            ELSE waiters[k - 1]
    <3>1. IsInsertion(InsertAt(waiters, i, r), waiters, i, r, Requests)
      BY <2>2, Inserted
    <3>2. IsInsertion(waiters', waiters, i, r, Requests)
      BY <2>1, <3>1
    <3> QED BY <3>2 DEF IsInsertion
  <2>4. TypeOK'
    <3>1. acquire' \in [Requests -> AcquireStates] /\ future' \in [Requests -> FutureStates]
      BY <1>7 DEF AcquireStart, TypeOK, AcquireStates, FutureStates
    <3>2. arrived' \in Seq(Requests)
      BY <1>7 DEF TypeOK
    <3> QED BY <1>2, <1>7, <2>3, <3>1, <3>2 DEF TypeOK, AcquireStart
  <2>5. ASSUME NEW s \in Requests \ {r} PROVE SameReq(s)
    BY <1>2, <1>7 DEF SameReq, TypeOK
  <2>6. InLine(r)'
    <3>1. i + 1 \in DOMAIN waiters' /\ waiters'[i + 1] = r
      BY <2>2, <2>3
    <3> QED BY <3>1 DEF InLine
  <2>7. ASSUME NEW s \in Requests \ {r} PROVE SameLine(s)
    <3>1. ASSUME InLine(s) PROVE InLine(s)'
      <4>1. PICK k \in 1..Len(waiters) : waiters[k] = s
        BY <2>2, <3>1 DEF InLine
      <4>2. CASE k <= i
        BY <2>2, <2>3, <4>1, <4>2 DEF InLine
      <4>3. CASE k > i
        <5>1. k + 1 \in 1..(Len(waiters) + 1) /\ ~(k + 1 <= i) /\ k + 1 # i + 1 /\ (k + 1) - 1 = k
          BY <2>2, <4>3
        <5>2. waiters'[k + 1] = s
          BY <2>3, <4>1, <5>1
        <5> QED BY <2>3, <5>1, <5>2 DEF InLine
      <4> QED BY <2>2, <4>2, <4>3
    <3>2. ASSUME InLine(s)' PROVE InLine(s)
      <4>1. PICK k \in 1..(Len(waiters) + 1) : waiters'[k] = s
        BY <2>3, <3>2 DEF InLine
      <4>2. CASE k <= i
        BY <2>2, <2>3, <4>1, <4>2 DEF InLine
      <4>3. CASE k > i
        <5>1. k # i + 1
          BY <2>2, <2>3, <4>1, <4>3
        <5>2. k - 1 \in 1..Len(waiters) /\ ~(k <= i)
          BY <2>2, <4>3, <5>1
        <5>3. waiters[k - 1] = s
          BY <2>3, <4>1, <5>1, <5>2
        <5> QED BY <2>2, <5>2, <5>3 DEF InLine
      <4> QED BY <2>2, <4>2, <4>3
    <3> QED BY <3>1, <3>2 DEF SameLine
  <2>8. LineGate'
    <3>1. ASSUME NEW s \in Requests PROVE Owns(s)' <=> Owns(s)
      BY <1>1, <1>2, <1>7, <2>5 DEF Owns, SameReq, TypeOK
    <3>2. Owners' = Owners
      BY <3>1 DEF Owners
    <3>3. \A k \in DOMAIN waiters : waiters[k] # r
      BY <1>1 DEF InLine
    <3>4. ASSUME NEW k \in DOMAIN waiters', NEW l \in DOMAIN waiters', waiters'[k] = waiters'[l]
          PROVE  k = l
      <4> DEFINE o(x) == IF x <= i THEN x ELSE x - 1
      <4>1. ASSUME NEW x \in 1..(Len(waiters) + 1), x # i + 1
            PROVE  o(x) \in DOMAIN waiters /\ waiters'[x] = waiters[o(x)]
        BY <2>2, <2>3, <4>1
      <4>2. waiters'[i + 1] = r
        BY <2>2, <2>3
      <4>3. CASE k = i + 1 \/ l = i + 1
        BY <2>3, <3>3, <3>4, <4>1, <4>2, <4>3
      <4>4. CASE k # i + 1 /\ l # i + 1
        <5>1. o(k) = o(l)
          <6> HIDE DEF o
          <6> QED BY <2>3, <3>4, <4>1, <4>4 DEF LineSound
        <5> QED BY <2>2, <2>3, <4>4, <5>1
      <4> QED BY <4>3, <4>4
    <3>5. granted >= capacity
      BY <1>7, GateAssumption DEF HasFreeSlot, LineSound, TypeOK
    <3>6. LineSound'
      BY <1>7, <3>4, <3>5 DEF LineSound
    <3> QED BY <1>7, <3>2, <3>6 DEF LineGate, GrantsAccounted, CapacityRespected
  <2>9. ReqSound(r)'
    <3>1. future'[r] = "pending" /\ acquire'[r] = "waiting"
      BY <1>7 DEF TypeOK
    <3>2. TasksAgree(r)' /\ NotTorn(r)'
      BY <1>2, <1>4, <3>1 DEF ReqSound, TasksAgree, NotTorn
    <3>3. LineAgrees(r)'
      BY <2>6, <3>1 DEF LineAgrees
    <3> QED BY <3>2, <3>3 DEF ReqSound
  <2> QED BY <1>2, <1>3, <2>4, <2>5, <2>7, <2>8, <2>9, Combine
<1>8. \/ UNCHANGED << gateVars, arrived >> /\ acquire'[r] \in {"cancelled", "error"}
      \/ /\ r \notin must /\ ~closed /\ HasFreeSlot /\ granted' = granted + 1
         /\ acquire'[r] = "ok" /\ UNCHANGED << capacity, waiters, closed, future, arrived >>
      \/ /\ r \notin must /\ ~closed /\ ~HasFreeSlot
         /\ \E i \in 0..Len(waiters) : waiters' = InsertAt(waiters, i, r)
         /\ future' = [future EXCEPT ![r] = "pending"] /\ acquire'[r] = "waiting"
         /\ arrived' = Append(arrived, r) /\ UNCHANGED << capacity, granted, closed >>
    BY DEF AcquireStart, TypeOK
<1> QED BY <1>5, <1>6, <1>7, <1>8

\* Nothing happens to the two tasks of s.
SameTask(s) ==
    /\ task'[s] = task[s] /\ acquire'[s] = acquire[s]
    /\ seen'[s] = seen[s] /\ cancels'[s] = cancels[s]
    /\ (s \in must' <=> s \in must) /\ (s \in acquired' <=> s \in acquired)
    /\ (s \in active' <=> s \in active) /\ (s \in cancelled' <=> s \in cancelled)

\* What release() may do to s.
Passed(s) ==
    \/ future'[s] = future[s] /\ SameLine(s)
    \/ IsPending(s) /\ future'[s] = "granted" /\ ~InLine(s)'
    \/ ~IsPending(s) /\ future'[s] = future[s] /\ ~InLine(s)'

LEMMA ReleaseFrame ==
    ASSUME NEW s \in Requests, ReqSound(s), SameTask(s), Passed(s), closed' = closed
    PROVE  ReqSound(s)'
<1>1. TasksAgree(s)'
    BY DEF ReqSound, TasksAgree, SameTask, Passed, IsPending
<1>2. NotTorn(s)'
    BY DEF ReqSound, NotTorn, SameTask
<1>3. LineAgrees(s)'
    BY DEF ReqSound, LineAgrees, SameTask, Passed, IsPending, SameLine
<1> QED BY <1>1, <1>2, <1>3 DEF ReqSound

LEMMA AcquireWakeStep ==
    ASSUME GateInv, NEW r \in Requests, AcquireWake(r)
    PROVE  GateInv'
<1> USE DEF GateInv
<1>1. ReqSound(r) /\ acquire[r] = "waiting" /\ ~IsPending(r) /\ r \notin must'
    BY DEF AcquireWake
<1>2. /\ UNCHANGED << task, seen, acquired, active, cancelled, cancels, queued_requests,
                      active_requests, expired, changed, settings, arrived >>
      /\ \A s \in Requests \ {r} : SameTask(s)
    BY DEF AcquireWake, TypeOK, SameTask
<1>3. CountsSound'
    BY <1>2, QuietCounts DEF InQueue
<1>4. task[r] \in {"wait", "settle", "reap"} /\ r \notin acquired /\ future[r] # "none"
    BY <1>1 DEF ReqSound, TasksAgree, LineAgrees, TypeOK, TaskStates
<1>5. acquire' \in [Requests -> AcquireStates] /\ must' \subseteq Requests
    BY DEF AcquireWake, TypeOK, AcquireStates
<1>6. CASE r \notin must /\ future[r] # "cancelled"
  <2>1. /\ UNCHANGED << gateVars, raised >>
        /\ \/ future[r] = "granted" /\ acquire'[r] = "ok"
           \/ future[r] = "error" /\ acquire'[r] = "error"
    BY <1>1, <1>4, <1>6 DEF AcquireWake, TypeOK, IsPending, FutureStates
  <2>2. TypeOK'
    BY <1>2, <1>5, <2>1 DEF TypeOK
  <2>3. ASSUME NEW s \in Requests \ {r} PROVE SameReq(s)
    BY <1>2, <2>1 DEF SameReq, SameTask
  <2>4. LineGate' /\ \A s \in Requests : SameLine(s)
    <3>1. ASSUME NEW s \in Requests \ {r} PROVE Owns(s)' <=> Owns(s)
      BY <2>3 DEF Owns, SameReq
    <3>2. Owns(r)' <=> Owns(r)
      BY <1>1, <1>2, <2>1 DEF Owns
    <3> QED BY <2>1, <3>1, <3>2, QuietGate DEF LineGate
  <2>5. ReqSound(r)'
    <3>1. TasksAgree(r)' /\ NotTorn(r)'
      BY <1>1, <1>2, <1>4, <2>1 DEF ReqSound, TasksAgree, NotTorn
    <3>2. LineAgrees(r)'
      BY <1>1, <2>1, <2>4 DEF ReqSound, LineAgrees, SameLine
    <3> QED BY <3>1, <3>2 DEF ReqSound
  <2>6. closed' = closed
    BY <2>1
  <2> QED BY <1>3, <2>2, <2>3, <2>4, <2>5, <2>6, Combine
<1>7. CASE r \in must /\ future[r] # "cancelled"
  <2>1. Release /\ acquire'[r] \in {"cancelled", "error"}
    BY <1>7 DEF AcquireWake, HandsOn, TypeOK
  <2>2. Owns(r) \/ closed
    BY <1>1, <1>4, <1>7 DEF Owns, ReqSound, LineAgrees, IsPending, TypeOK, FutureStates
  <2>3. ~Owns(r)'
    BY <1>2, <1>4, <2>1 DEF Owns
  <2>4. /\ LineGate'
        /\ capacity' \in 1..Capacity /\ granted' \in Nat /\ waiters' \in Seq(Requests)
        /\ closed' = closed /\ future' \in [Requests -> FutureStates] /\ raised' \in BOOLEAN
        /\ \A s \in Requests : Passed(s)
        /\ future'[r] = future[r]
    BY <1>1, <1>2, <2>1, <2>2, <2>3, ReleaseStep DEF LineGate, SameTask, Passed
  <2>5. TypeOK'
    BY <1>2, <1>5, <2>4 DEF TypeOK
  <2>6. ASSUME NEW s \in Requests \ {r} PROVE ReqSound(s)'
    BY <1>2, <2>4, ReleaseFrame
  <2>7. ~InLine(r) /\ (InLine(r)' => InLine(r)) /\ task[r] = "reap"
    BY <1>1, <1>7, <2>4 DEF ReqSound, LineAgrees, TasksAgree, Passed, SameLine, IsPending,
       TypeOK, FutureStates
  <2>8. ReqSound(r)'
    <3>1. TasksAgree(r)' /\ NotTorn(r)'
      BY <1>1, <1>2, <2>1, <2>4, <2>7 DEF ReqSound, TasksAgree, NotTorn
    <3>2. LineAgrees(r)'
      BY <1>1, <2>1, <2>4, <2>7 DEF LineAgrees, IsPending
    <3> QED BY <3>1, <3>2 DEF ReqSound
  <2> QED BY <1>3, <2>4, <2>5, <2>6, <2>8 DEF LineGate
<1>8. CASE future[r] = "cancelled"
  <2>1. /\ waiters' = Remove(waiters, r) /\ acquire'[r] = "cancelled"
        /\ UNCHANGED << capacity, granted, closed, future, raised >>
    BY <1>8 DEF AcquireWake, HandsOn, TypeOK
  <2>2. /\ waiters \in Seq(Requests) /\ Len(waiters) \in Nat
        /\ DOMAIN waiters = 1..Len(waiters)
    BY DEF TypeOK
  <2>3. IsRemoval(waiters', waiters, r, Requests)
    BY <2>1, <2>2, Removed
  <2>4. /\ waiters' \in Seq(Requests) /\ ~InLine(r)'
        /\ \A s \in Requests \ {r} : SameLine(s)
        /\ \A k, l \in DOMAIN waiters' : waiters'[k] = waiters'[l] => k = l
        /\ waiters' # <<>> => waiters # <<>>
    <3>1. CASE waiters' = waiters /\ \A k \in DOMAIN waiters : waiters[k] # r
      BY <2>2, <3>1 DEF InLine, SameLine, LineSound
    <3>2. CASE \E i \in DOMAIN waiters :
                  /\ waiters[i] = r /\ Len(waiters') = Len(waiters) - 1
                  /\ \A k \in 1..Len(waiters') :
                        waiters'[k] = IF k < i THEN waiters[k] ELSE waiters[k + 1]
      <4>1. PICK i \in 1..Len(waiters) :
                  /\ waiters[i] = r /\ Len(waiters') = Len(waiters) - 1
                  /\ \A k \in 1..Len(waiters') :
                        waiters'[k] = IF k < i THEN waiters[k] ELSE waiters[k + 1]
        BY <2>2, <3>2
      <4>2. waiters' \in Seq(Requests) /\ DOMAIN waiters' = 1..(Len(waiters) - 1)
        BY <2>3, <4>1 DEF IsRemoval
      <4> DEFINE o(k) == IF k < i THEN k ELSE k + 1
      <4>3. ASSUME NEW k \in 1..(Len(waiters) - 1)
            PROVE  o(k) \in DOMAIN waiters /\ o(k) # i /\ waiters'[k] = waiters[o(k)]
        BY <2>2, <4>1
      <4>4. \A k \in DOMAIN waiters : k # i => waiters[k] # r
        BY <2>2, <4>1 DEF LineSound
      <4>5. ~InLine(r)'
        BY <4>2, <4>3, <4>4 DEF InLine
      <4>6. ASSUME NEW k \in DOMAIN waiters', NEW l \in DOMAIN waiters',
                   waiters'[k] = waiters'[l]
            PROVE  k = l
        <5>1. o(k) = o(l)
          <6> HIDE DEF o
          <6> QED BY <4>2, <4>3, <4>6 DEF LineSound
        <5> QED BY <2>2, <4>2, <5>1
      <4>7. ASSUME NEW s \in Requests \ {r} PROVE SameLine(s)
        <5>1. ASSUME InLine(s)' PROVE InLine(s)
          <6> HIDE DEF o
          <6> QED BY <4>2, <4>3, <5>1 DEF InLine
        <5>2. ASSUME InLine(s) PROVE InLine(s)'
          <6>1. PICK k \in 1..Len(waiters) : waiters[k] = s /\ k # i
            BY <2>2, <4>1, <5>2 DEF InLine
          <6>2. CASE k < i
            <7>1. k \in 1..(Len(waiters) - 1)
              BY <2>2, <6>2
            <7>2. waiters'[k] = s
              BY <4>1, <6>1, <6>2, <7>1
            <7> QED BY <4>2, <7>1, <7>2 DEF InLine
          <6>3. CASE k > i
            <7>1. k - 1 \in 1..(Len(waiters) - 1) /\ ~(k - 1 < i) /\ (k - 1) + 1 = k
              BY <2>2, <6>3
            <7>2. waiters'[k - 1] = s
              BY <4>1, <6>1, <7>1
            <7> QED BY <4>2, <7>1, <7>2 DEF InLine
          <6> QED BY <6>1, <6>2, <6>3
        <5> QED BY <5>1, <5>2 DEF SameLine
      <4>8. waiters # <<>>
        BY <2>2, <4>1
      <4> QED BY <4>2, <4>5, <4>6, <4>7, <4>8
    <3> QED BY <2>3, <3>1, <3>2 DEF IsRemoval
  <2>5. TypeOK'
    BY <1>2, <1>5, <2>1, <2>4 DEF TypeOK
  <2>6. ASSUME NEW s \in Requests \ {r} PROVE SameReq(s)
    BY <1>2, <2>1 DEF SameReq, SameTask
  <2>7. LineGate'
    <3>1. ASSUME NEW s \in Requests \ {r} PROVE Owns(s)' <=> Owns(s)
      BY <2>6 DEF Owns, SameReq
    <3>2. ~Owns(r)' /\ ~Owns(r)
      BY <1>1, <1>2, <1>4, <1>8, <2>1 DEF Owns
    <3>3. Owners' = Owners
      BY <3>1, <3>2 DEF Owners
    <3>4. LineSound'
      BY <2>1, <2>4 DEF LineSound
    <3> QED BY <2>1, <3>3, <3>4 DEF LineGate, GrantsAccounted, CapacityRespected
  <2>8. ReqSound(r)'
    <3>1. TasksAgree(r)' /\ NotTorn(r)'
      BY <1>1, <1>2, <1>4, <1>8, <2>1 DEF ReqSound, TasksAgree, NotTorn
    <3>2. LineAgrees(r)'
      BY <1>8, <2>1, <2>4 DEF LineAgrees
    <3> QED BY <3>1, <3>2 DEF ReqSound
  <2> QED BY <1>3, <2>1, <2>4, <2>5, <2>6, <2>7, <2>8, Combine
<1> QED BY <1>6, <1>7, <1>8

LEMMA ReapStep ==
    ASSUME GateInv, NEW r \in Requests, Reap(r)
    PROVE  GateInv'
<1> USE DEF GateInv
<1>1. ReqSound(r) /\ task[r] = "reap" /\ Done(r) /\ task'[r] = "finish" /\ r \notin cancelled'
    BY DEF Reap, TypeOK
<1>2. /\ UNCHANGED << must, seen, acquired, active, cancels, queued_requests, active_requests,
                      expired, changed, settings, arrived >>
      /\ \A s \in Requests \ {r} : SameTask(s)
    BY DEF Reap, TypeOK, SameTask
<1>3. /\ r \notin acquired /\ r \notin active /\ r \notin must /\ ~IsPending(r) /\ ~InLine(r)
      /\ future[r] = "error" => acquire[r] # "waiting"
    BY <1>1 DEF ReqSound, TasksAgree, LineAgrees, Done, IsPending
<1>4. CountsSound'
  <2>1. ASSUME NEW s \in Requests PROVE InQueue(s)' <=> InQueue(s)
    BY <1>1, <1>2, <1>3 DEF InQueue, SameTask
  <2> QED BY <1>2, <2>1, QuietCounts
<1>5. /\ task' \in [Requests -> TaskStates] /\ acquire' \in [Requests -> AcquireStates]
      /\ cancelled' \subseteq Requests
    BY DEF Reap, TypeOK, TaskStates, AcquireStates
<1>6. CASE GivesBack(r)
  <2>1. Release /\ acquire'[r] = "spent" /\ acquire[r] = "ok"
    BY <1>6 DEF Reap, GivesBack, TypeOK
  <2>2. Owns(r) /\ ~Owns(r)'
    BY <1>2, <1>3, <2>1 DEF Owns
  <2>3. /\ LineGate'
        /\ capacity' \in 1..Capacity /\ granted' \in Nat /\ waiters' \in Seq(Requests)
        /\ closed' = closed /\ future' \in [Requests -> FutureStates] /\ raised' \in BOOLEAN
        /\ \A s \in Requests : Passed(s)
        /\ future'[r] = future[r]
    BY <1>2, <1>3, <2>1, <2>2, ReleaseStep DEF LineGate, SameTask, Passed
  <2>4. TypeOK'
    BY <1>2, <1>5, <2>3 DEF TypeOK
  <2>5. ASSUME NEW s \in Requests \ {r} PROVE ReqSound(s)'
    BY <1>2, <2>3, ReleaseFrame
  <2>6. ReqSound(r)'
    <3>1. ~InLine(r)'
      BY <1>3, <2>3 DEF Passed, SameLine
    <3>2. TasksAgree(r)' /\ NotTorn(r)'
      BY <1>1, <1>2, <1>3, <2>1 DEF ReqSound, TasksAgree, NotTorn
    <3>3. LineAgrees(r)'
      BY <1>3, <2>1, <2>3, <3>1 DEF LineAgrees, IsPending
    <3> QED BY <3>2, <3>3 DEF ReqSound
  <2> QED BY <1>4, <2>3, <2>4, <2>5, <2>6 DEF LineGate
<1>7. CASE ~GivesBack(r)
  <2>1. /\ UNCHANGED << gateVars, raised, acquire >>
        /\ \/ acquire[r] \in {"cancelled", "error"}
           \/ acquire[r] = "ok" /\ TwoReasons(r)
    BY <1>1, <1>7 DEF Reap, GivesBack, ReqSound, NotTorn, Done
  <2>2. TypeOK'
    BY <1>2, <1>5, <2>1 DEF TypeOK
  <2>3. ASSUME NEW s \in Requests \ {r} PROVE SameReq(s)
    BY <1>2, <2>1 DEF SameReq, SameTask
  <2>4. LineGate' /\ \A s \in Requests : SameLine(s)
    BY <1>2, <2>1, QuietGate DEF LineGate, Owns
  <2>5. ReqSound(r)'
    BY <1>1, <1>2, <1>3, <2>1, <2>4 DEF ReqSound, TasksAgree, NotTorn, LineAgrees, SameLine
  <2>6. closed' = closed
    BY <2>1
  <2> QED BY <1>4, <2>2, <2>3, <2>4, <2>5, <2>6, Combine
<1> QED BY <1>6, <1>7

LEMMA FinishRequestStep ==
    ASSUME GateInv, NEW r \in Requests, FinishRequest(r)
    PROVE  GateInv'
<1> USE DEF GateInv
<1>1. /\ ReqSound(r) /\ task[r] = "finish" /\ task'[r] = "ended" /\ r \notin acquired'
      /\ active' = active \ {r}
    BY DEF FinishRequest, TypeOK
<1>2. /\ UNCHANGED << acquire, must, seen, cancelled, cancels, expired, changed, settings,
                      arrived >>
      /\ \A s \in Requests \ {r} : SameTask(s)
    BY DEF FinishRequest, TypeOK, SameTask
<1>3. /\ r \notin must /\ acquire[r] \notin {"new", "waiting"}
      /\ ~IsPending(r) /\ ~InLine(r) /\ (r \in acquired => ~Owns(r)')
    BY <1>1, <1>2 DEF ReqSound, TasksAgree, LineAgrees, IsPending, Owns
<1>4. CountsSound'
  <2>1. ASSUME NEW s \in Requests \ {r} PROVE InQueue(s)' <=> InQueue(s)
    BY <1>2 DEF InQueue, SameTask
  <2>2. ~InQueue(r)'
    BY <1>1 DEF InQueue
  <2>3. CASE r \in active
    <3>1. /\ active_requests' = OneLess(active_requests) /\ queued_requests' = queued_requests
          /\ ~InQueue(r)
      BY <1>1, <2>3 DEF FinishRequest, InQueue
    <3>2. Cardinality(active') = OneLess(active_requests)
      <4>1. /\ Cardinality(active') = Cardinality(active) - 1
            /\ Cardinality(active') \in Nat /\ Cardinality(active) \in Nat
        BY <1>1, <2>3, FiniteOwners, FS_RemoveElement, FS_CardinalityType
      <4> QED BY <4>1 DEF CountsSound, OneLess
    <3>3. QueuedSet' = QueuedSet
      BY <2>1, <2>2, <3>1 DEF QueuedSet
    <3> QED BY <3>1, <3>2, <3>3 DEF CountsSound
  <2>4. CASE r \notin active
    <3>1. /\ queued_requests' = OneLess(queued_requests) /\ active_requests' = active_requests
          /\ InQueue(r)
      BY <1>1, <2>4 DEF FinishRequest, InQueue
    <3>2. active' = active
      BY <1>1, <2>4
    <3>3. Cardinality(QueuedSet') = OneLess(queued_requests)
      BY <2>1, <2>2, <3>1, QueuedMoves
    <3> QED BY <3>1, <3>2, <3>3 DEF CountsSound
  <2> QED BY <2>3, <2>4
<1>5. /\ task' \in [Requests -> TaskStates] /\ active' \subseteq Requests
      /\ acquired' \subseteq Requests
    BY DEF FinishRequest, TypeOK, TaskStates
<1>6. queued_requests' \in Nat /\ active_requests' \in Nat
    BY DEF FinishRequest, TypeOK, OneLess
<1>7. CASE r \in acquired
  <2>1. Release
    BY <1>7 DEF FinishRequest
  <2>2. Owns(r)
    BY <1>7 DEF Owns
  <2>3. /\ LineGate'
        /\ capacity' \in 1..Capacity /\ granted' \in Nat /\ waiters' \in Seq(Requests)
        /\ closed' = closed /\ future' \in [Requests -> FutureStates] /\ raised' \in BOOLEAN
        /\ \A s \in Requests : Passed(s)
        /\ future'[r] = future[r]
    BY <1>2, <1>3, <1>7, <2>1, <2>2, ReleaseStep DEF LineGate, SameTask, Passed
  <2>4. TypeOK'
    BY <1>2, <1>5, <1>6, <2>3 DEF TypeOK
  <2>5. ASSUME NEW s \in Requests \ {r} PROVE ReqSound(s)'
    BY <1>2, <2>3, ReleaseFrame
  <2>6. ReqSound(r)'
    <3>1. ~InLine(r)'
      BY <1>3, <2>3 DEF Passed, SameLine
    <3>2. TasksAgree(r)' /\ NotTorn(r)'
      BY <1>1, <1>2, <1>3 DEF ReqSound, TasksAgree, NotTorn
    <3>3. LineAgrees(r)'
      BY <1>1, <1>2, <1>3, <2>3, <3>1 DEF ReqSound, LineAgrees, IsPending
    <3> QED BY <3>2, <3>3 DEF ReqSound
  <2> QED BY <1>4, <2>3, <2>4, <2>5, <2>6 DEF LineGate
<1>8. CASE r \notin acquired
  <2>1. UNCHANGED << gateVars, raised, acquired >>
    BY <1>8 DEF FinishRequest
  <2>2. TypeOK'
    BY <1>2, <1>5, <1>6, <2>1 DEF TypeOK
  <2>3. ASSUME NEW s \in Requests \ {r} PROVE SameReq(s)
    BY <1>2, <2>1 DEF SameReq, SameTask
  <2>4. LineGate' /\ \A s \in Requests : SameLine(s)
    BY <1>2, <2>1, QuietGate DEF LineGate, Owns
  <2>5. ReqSound(r)'
    BY <1>1, <1>2, <1>3, <2>1, <2>4 DEF ReqSound, TasksAgree, NotTorn, LineAgrees, SameLine
  <2>6. closed' = closed
    BY <2>1
  <2> QED BY <1>4, <2>2, <2>3, <2>4, <2>5, <2>6, Combine
<1> QED BY <1>7, <1>8

LEMMA CloseStep ==
    ASSUME GateInv, Close
    PROVE  GateInv'
<1> USE DEF GateInv
<1>1. /\ closed' /\ waiters' = <<>> /\ capacity' = capacity /\ granted' = granted
      /\ UNCHANGED << acquire, must, task, seen, acquired, active, cancelled, cancels,
                      queued_requests, active_requests >>
      /\ \A s \in Requests :
            future'[s] = IF InLine(s) /\ IsPending(s) THEN "error" ELSE future[s]
    BY DEF Close, InLine
<1>2. TypeOK'
  <2>1. future' \in [Requests -> FutureStates]
    BY DEF Close, TypeOK, FutureStates
  <2>2. waiters' \in Seq(Requests) /\ closed' \in BOOLEAN
    BY DEF Close
  <2> QED BY <2>1, <2>2 DEF Close, TypeOK
<1>3. ASSUME NEW s \in Requests PROVE ReqSound(s)' /\ (Owns(s)' <=> Owns(s))
  <2>1. ReqSound(s) /\ ~InLine(s)'
    BY <1>1 DEF InLine
  <2>2. Owns(s)' <=> Owns(s)
    BY <1>1 DEF Owns, IsPending
  <2>3. TasksAgree(s)' /\ NotTorn(s)'
    BY <1>1, <2>1 DEF ReqSound, TasksAgree, NotTorn
  <2>4. LineAgrees(s)'
    BY <1>1, <2>1 DEF ReqSound, LineAgrees, IsPending
  <2> QED BY <2>2, <2>3, <2>4 DEF ReqSound
<1>4. Owners' = Owners
    BY <1>3 DEF Owners
<1>5. CountsSound'
    BY <1>1, QuietCounts DEF InQueue
<1>6. LineSound'
    BY <1>1 DEF LineSound
<1> QED BY <1>1, <1>2, <1>3, <1>4, <1>5, <1>6 DEF GrantsAccounted, CapacityRespected

LEMMA ApplyBatchCapacityStep ==
    ASSUME GateInv, NEW n \in 1..Capacity, ApplyBatchCapacity(n)
    PROVE  GateInv'
<1> USE DEF GateInv
<1>1. /\ capacity' = n /\ granted' = 0 /\ waiters' = <<>> /\ ~closed' /\ ~InFlight
      /\ acquire' = [s \in Requests |-> IF acquire[s] = "ok" THEN "spent" ELSE acquire[s]]
      /\ UNCHANGED << future, must, task, seen, acquired, active, cancelled, cancels,
                      queued_requests, active_requests >>
    BY DEF ApplyBatchCapacity
<1>2. QueuedSet = {} /\ active = {}
  <2>1. queued_requests = 0 /\ active_requests = 0
    BY <1>1 DEF InFlight, TypeOK
  <2> QED BY <2>1, FiniteOwners, FS_EmptySet DEF CountsSound
<1>3. ASSUME NEW s \in Requests
      PROVE  /\ task[s] \in {"idle", "ended"}
             /\ acquire[s] \in {"none", "ok", "spent", "cancelled", "error"} /\ s \notin acquired
    BY <1>2 DEF QueuedSet, InQueue, TypeOK, TaskStates, ReqSound, TasksAgree
<1>4. ASSUME NEW s \in Requests PROVE ~Owns(s)' /\ ReqSound(s)'
  <2>1. ~InLine(s)' /\ ReqSound(s)
    BY <1>1 DEF InLine
  <2>2. TasksAgree(s)' /\ NotTorn(s)'
    BY <1>1, <1>3, <2>1 DEF ReqSound, TasksAgree, NotTorn
  <2>3. LineAgrees(s)'
    BY <1>1, <1>3, <2>1 DEF ReqSound, LineAgrees
  <2> QED BY <1>1, <1>3, <2>2, <2>3 DEF ReqSound, Owns
<1>5. Owners' = {}
    BY <1>4 DEF Owners
<1>6. GrantsAccounted' /\ CapacityRespected'
    BY <1>1, <1>5, FS_EmptySet DEF GrantsAccounted, CapacityRespected
<1>7. CountsSound'
    BY <1>1, QuietCounts DEF InQueue
<1>8. LineSound'
    BY <1>1 DEF LineSound
<1>9. TypeOK'
  <2>1. waiters' \in Seq(Requests)
    BY <1>1
  <2>2. granted' \in Nat /\ closed' \in BOOLEAN
    BY DEF ApplyBatchCapacity
  <2>3. acquire' \in [Requests -> AcquireStates]
    BY <1>1 DEF TypeOK, AcquireStates
  <2> QED BY <2>1, <2>2, <2>3 DEF ApplyBatchCapacity, TypeOK
<1> QED BY <1>4, <1>6, <1>7, <1>8, <1>9

(***************************************************************************)
(* The theorems.                                                           *)
(***************************************************************************)
LEMMA GateInit == Init => GateInv
<1> SUFFICES ASSUME Init PROVE GateInv
    OBVIOUS
<1>1. TypeOK
  <2>1. capacity \in 1..Capacity
    BY GateAssumption DEF Init
  <2>2. cancels \in [Requests -> 0..MaxCancels] /\ edits \in 0..MaxEdits
    BY GateAssumption DEF Init
  <2>3. waiters \in Seq(Requests) /\ arrived \in Seq(Requests)
    BY DEF Init
  <2>4. /\ future \in [Requests -> FutureStates] /\ acquire \in [Requests -> AcquireStates]
        /\ task \in [Requests -> TaskStates]
        /\ seen \in [Requests -> {"nothing", "cancelled", "acquire", "other"}]
    BY DEF Init, FutureStates, AcquireStates, TaskStates
  <2> QED BY <2>1, <2>2, <2>3, <2>4 DEF Init, TypeOK
<1>2. ASSUME NEW r \in Requests PROVE ReqSound(r) /\ ~Owns(r) /\ ~InQueue(r)
    BY DEF Init, ReqSound, TasksAgree, NotTorn, LineAgrees, InLine, Owns, InQueue
<1>3. Owners = {} /\ QueuedSet = {} /\ active = {}
    BY <1>2 DEF Owners, QueuedSet, Init
<1>4. Cardinality({}) = 0
    BY FS_EmptySet
<1>5. CountsSound /\ GrantsAccounted
    BY <1>3, <1>4 DEF CountsSound, GrantsAccounted, Init
<1>6. CapacityRespected /\ LineSound
    BY <1>3, <1>4, GateAssumption DEF CapacityRespected, LineSound, Init
<1> QED BY <1>1, <1>2, <1>5, <1>6 DEF GateInv

LEMMA GateStep == ASSUME GateInv, [Next]_vars PROVE GateInv'
<1>1. CASE UNCHANGED vars
  <2>1. TypeOK'
    BY <1>1 DEF GateInv, TypeOK, vars
  <2> QED BY <1>1, <2>1, OutsideStep DEF vars
<1>2. ASSUME NEW r \in Requests, RunTask(r) PROVE GateInv'
    BY <1>2, AcquireStartStep, AcquireWakeStep, WaitReturnsStep, SettleStep, ReapStep,
       ActivateStep, EndStreamStep, FinishRequestStep DEF RunTask
<1>3. ASSUME NEW r \in Requests, Enter(r) \/ CancelTask(r) \/ Elapse(r) PROVE GateInv'
    BY <1>3, EnterStep, CancelTaskStep, ElapseStep
<1>4. CASE AllEnded
    BY <1>1, <1>4 DEF AllEnded
<1> QED BY <1>1, <1>2, <1>3, <1>4, CloseStep, ApplyBatchCapacityStep, UpdateConcurrencyStep DEF
           Next

\* The inductive invariant.
THEOREM GateSound == Spec => []GateInv
BY GateInit, GateStep, PTL DEF Spec

\* Every variable keeps its type.
THEOREM GateTypes == Spec => []TypeOK
<1>1. GateInv => TypeOK
    BY DEF GateInv
<1> QED BY <1>1, GateSound, PTL

\* The gate counts the slots that requests have (runtime_pool.py:246-297).
THEOREM SlotsAccounted == Spec => []GrantsAccounted
<1>1. GateInv => GrantsAccounted
    BY DEF GateInv
<1> QED BY <1>1, GateSound, PTL

\* There are never more of them than the gate has (runtime_pool.py:233).
THEOREM SlotsBounded == Spec => []CapacityRespected
<1>1. GateInv => CapacityRespected
    BY DEF GateInv
<1> QED BY <1>1, GateSound, PTL

\* A request that ends leaves no slot behind, unless it was cancelled while it was
\* giving up for another reason (runtime_pool.py:273-275, 2086-2089).
THEOREM SlotsReturned == Spec => []NoSlotLost
<1>1. GateInv => NoSlotLost
    BY DEF GateInv, NoSlotLost, Owners, Owns, ReqSound, TasksAgree
<1> QED BY <1>1, GateSound, PTL

\* A free slot and a waiting request do not coexist (runtime_pool.py:283-284, 288-297).
THEOREM SlotsUsed == Spec => []NoIdleSlot
<1>1. GateInv => NoIdleSlot
    BY DEF GateInv, NoIdleSlot, IsPending, ReqSound, LineAgrees, InLine, LineSound
<1> QED BY <1>1, GateSound, PTL

(***************************************************************************)
(* The gate implements SlotPool.  LineOrder is what that needs beyond      *)
(* GateInv: the line is sorted by priority and, among equals, by arrival.  *)
(***************************************************************************)
Before(a, b) == \E i, j \in DOMAIN arrived : i < j /\ arrived[i] = a /\ arrived[j] = b

\* a stands in front of b.
Leads(a, b) ==
    \/ Priority[b] < Priority[a]
    \/ Priority[b] = Priority[a] /\ Before(a, b)

ArrivedOnce == \A i, j \in DOMAIN arrived : arrived[i] = arrived[j] => i = j
Known(r) == \E i \in DOMAIN arrived : arrived[i] = r

LineOrder ==
    /\ ArrivedOnce
    /\ \A r \in Requests : InLine(r) => Known(r)
    /\ \A r \in Requests : acquire[r] \in {"none", "new"} => ~Known(r)
    /\ \A i, j \in DOMAIN waiters : i < j => Leads(waiters[i], waiters[j])

\* What waits is a part of the line: h says where each one stood.
Shortens(h) ==
    /\ h \in [DOMAIN waiters' -> DOMAIN waiters]
    /\ \A k \in DOMAIN waiters' : waiters'[k] = waiters[h[k]]
    /\ \A k, l \in DOMAIN waiters' : k < l => h[k] < h[l]

\* Nobody comes, and whoever stays keeps his place.
LEMMA OrderKept ==
    ASSUME LineOrder, UNCHANGED arrived, NEW h, Shortens(h),
           \A r \in Requests : acquire'[r] \in {"none", "new"} => acquire[r] \in {"none", "new"}
    PROVE  LineOrder'
<1>1. ArrivedOnce'
  BY DEF LineOrder, ArrivedOnce
<1>2. ASSUME NEW r \in Requests
      PROVE  Known(r)' <=> Known(r)
  BY DEF Known
<1>3. ASSUME NEW r \in Requests, InLine(r)'
      PROVE  Known(r)'
  <2>1. InLine(r)
    BY <1>3 DEF InLine, Shortens
  <2> QED BY <1>2, <2>1 DEF LineOrder
<1>4. ASSUME NEW i \in DOMAIN waiters', NEW j \in DOMAIN waiters', i < j
      PROVE  Leads(waiters[i], waiters[j])'
  <2>1. /\ h[i] \in DOMAIN waiters /\ h[j] \in DOMAIN waiters /\ h[i] < h[j]
        /\ waiters'[i] = waiters[h[i]] /\ waiters'[j] = waiters[h[j]]
    BY <1>4 DEF Shortens
  <2>2. Leads(waiters[h[i]], waiters[h[j]])
    BY <2>1 DEF LineOrder
  <2> QED BY <2>1, <2>2 DEF Leads, Before
<1> QED BY <1>1, <1>2, <1>3, <1>4 DEF LineOrder

\* The line does not move.
LEMMA OrderQuiet ==
    ASSUME TypeOK, LineOrder, UNCHANGED << arrived, waiters >>,
           \A r \in Requests : acquire'[r] \in {"none", "new"} => acquire[r] \in {"none", "new"}
    PROVE  LineOrder'
<1> DEFINE h == [k \in DOMAIN waiters |-> k]
<1>1. Shortens(h)
  BY DEF Shortens
<1> HIDE DEF h
<1> QED BY <1>1, OrderKept

\* An empty line is in order.
LEMMA OrderEmpty ==
    ASSUME LineOrder, UNCHANGED arrived, waiters' = <<>>,
           \A r \in Requests : acquire'[r] \in {"none", "new"} => acquire[r] \in {"none", "new"}
    PROVE  LineOrder'
<1> DEFINE h == [k \in DOMAIN waiters' |-> k]
<1>1. DOMAIN waiters' = {}
  OBVIOUS
<1>2. Shortens(h)
  BY <1>1 DEF Shortens
<1> HIDE DEF h
<1> QED BY <1>2, OrderKept

\* remove()
LEMMA OrderRemoved ==
    ASSUME TypeOK, LineOrder, NEW r, waiters' = Remove(waiters, r), UNCHANGED arrived,
           \A s \in Requests : acquire'[s] \in {"none", "new"} => acquire[s] \in {"none", "new"}
    PROVE  LineOrder'
<1>1. waiters \in Seq(Requests)
  BY DEF TypeOK
<1>2. IsRemoval(waiters', waiters, r, Requests)
  BY <1>1, Removed
<1>3. CASE waiters' = waiters
  BY <1>3, OrderQuiet
<1>4. ASSUME NEW i \in DOMAIN waiters, Len(waiters') = Len(waiters) - 1,
             waiters' \in Seq(Requests),
             \A k \in 1..Len(waiters') : waiters'[k] = IF k < i THEN waiters[k]
                                                       ELSE waiters[k + 1]
      PROVE  LineOrder'
  <2> DEFINE h == [k \in DOMAIN waiters' |-> IF k < i THEN k ELSE k + 1]
             n == Len(waiters)
             m == Len(waiters')
  <2>1. /\ n \in Nat /\ m = n - 1 /\ i \in 1..n
        /\ DOMAIN waiters' = 1..m /\ DOMAIN waiters = 1..n
    BY <1>1, <1>4
  <2> HIDE DEF n, m
  <2>2. \A k \in 1..m : (IF k < i THEN k ELSE k + 1) \in 1..n
    BY <2>1
  <2>3. \A k, l \in 1..m : k < l => (IF k < i THEN k ELSE k + 1) < (IF l < i THEN l ELSE l + 1)
    BY <2>1
  <2>4. \A k \in 1..m : waiters'[k] = waiters[IF k < i THEN k ELSE k + 1]
    BY <1>4 DEF m
  <2>5. Shortens(h)
    BY <2>1, <2>2, <2>3, <2>4 DEF Shortens
  <2> HIDE DEF h
  <2> QED BY <2>5, OrderKept
<1> QED BY <1>2, <1>3, <1>4 DEF IsRemoval

\* release()
LEMMA OrderReleased ==
    ASSUME TypeOK, LineSound, LineOrder, Release, UNCHANGED arrived,
           \A s \in Requests : acquire'[s] \in {"none", "new"} => acquire[s] \in {"none", "new"}
    PROVE  LineOrder'
<1>1. CASE granted <= 0
  BY <1>1, OrderQuiet DEF Release, gateVars
<1>2. CASE granted > 0
  <2>1. PICK n : /\ n \in 0..Len(waiters)
                 /\ \A k \in DOMAIN waiters' :
                       n + k \in DOMAIN waiters /\ waiters'[k] = waiters[n + k]
                 /\ waiters' \in Seq(Requests)
    BY <1>2, ReleaseEffect DEF HandsOut
  <2> DEFINE h == [k \in DOMAIN waiters' |-> n + k]
  <2>2. n \in Nat /\ DOMAIN waiters' \subseteq Nat
    <3>1. Len(waiters) \in Nat
      BY DEF TypeOK
    <3> QED BY <2>1, <3>1
  <2>3. \A k, l \in DOMAIN waiters' : k < l => n + k < n + l
    BY <2>2
  <2>4. Shortens(h)
    BY <2>1, <2>3 DEF Shortens
  <2> HIDE DEF h
  <2> QED BY <2>4, OrderKept
<1>3. granted \in Nat
  BY DEF TypeOK
<1> QED BY <1>1, <1>2, <1>3

\* A newcomer stands behind his equals, who came before him.
LEMMA OrderInserted ==
    ASSUME TypeOK, LineOrder, NEW r \in Requests, ~Known(r), ~InLine(r),
           NEW i \in 0..Len(waiters), IsPosition(i, r),
           waiters' = InsertAt(waiters, i, r), arrived' = Append(arrived, r),
           acquire'[r] \notin {"none", "new"},
           \A s \in Requests \ {r} : acquire'[s] = acquire[s]
    PROVE  LineOrder'
<1> DEFINE n == Len(waiters)
           m == Len(arrived)
<1>1. /\ waiters \in Seq(Requests) /\ n \in Nat /\ DOMAIN waiters = 1..n /\ i \in 0..n
      /\ arrived \in Seq(Requests) /\ m \in Nat /\ DOMAIN arrived = 1..m
      /\ \A k \in 1..n : waiters[k] \in Requests
  BY DEF TypeOK
<1>2. /\ DOMAIN waiters' = 1..(n + 1)
      /\ \A k \in 1..(n + 1) :
            waiters'[k] = IF k <= i THEN waiters[k] ELSE IF k = i + 1 THEN r ELSE waiters[k - 1]
  <2>1. IsInsertion(InsertAt(waiters, i, r), waiters, i, r, Requests)
    BY <1>1, Inserted
  <2>2. IsInsertion(waiters', waiters, i, r, Requests)
    BY <2>1
  <2> QED BY <2>2 DEF IsInsertion
<1>3. /\ DOMAIN arrived' = 1..(m + 1) /\ arrived'[m + 1] = r
      /\ \A k \in 1..m : arrived'[k] = arrived[k]
  BY <1>1
<1>4. IsPosition(i, r)
  OBVIOUS
<1>5. /\ \A k \in (i + 1)..n : Priority[waiters[k]] < Priority[r]
      /\ i > 0 => Priority[waiters[i]] >= Priority[r]
  BY <1>4 DEF IsPosition
<1> HIDE DEF n, m
<1>6. \A k \in 1..m : arrived[k] # r
  BY <1>1 DEF Known
<1>7. ArrivedOnce'
  <2> SUFFICES ASSUME NEW k \in 1..(m + 1), NEW l \in 1..(m + 1), arrived'[k] = arrived'[l]
               PROVE  k = l
    BY <1>3 DEF ArrivedOnce
  <2>1. CASE k \in 1..m /\ l \in 1..m
    BY <1>1, <1>3, <2>1 DEF LineOrder, ArrivedOnce
  <2>2. CASE k = m + 1 /\ l = m + 1
    BY <2>2
  <2>3. CASE k \in 1..m /\ l = m + 1
    BY <1>3, <1>6, <2>3
  <2>4. CASE k = m + 1 /\ l \in 1..m
    BY <1>3, <1>6, <2>4
  <2> QED BY <1>1, <2>1, <2>2, <2>3, <2>4
<1>8. ASSUME NEW s \in Requests
      PROVE  Known(s)' <=> (Known(s) \/ s = r)
  <2>1. 1..m \subseteq 1..(m + 1) /\ m + 1 \in 1..(m + 1)
        /\ \A k \in 1..(m + 1) : k \in 1..m \/ k = m + 1
    BY <1>1
  <2> QED BY <1>1, <1>3, <2>1 DEF Known
<1>9. ASSUME NEW s \in Requests, InLine(s)'
      PROVE  Known(s)'
  <2>1. PICK k \in 1..(n + 1) : waiters'[k] = s
    BY <1>2, <1>9 DEF InLine
  <2>2. CASE k <= i
    <3>1. k \in 1..n /\ waiters[k] = s
      BY <1>1, <1>2, <2>1, <2>2
    <3>2. InLine(s)
      BY <1>1, <3>1 DEF InLine
    <3> QED BY <1>8, <3>2 DEF LineOrder
  <2>3. CASE k = i + 1
    <3>1. s = r
      BY <1>1, <1>2, <2>1, <2>3
    <3> QED BY <1>8, <3>1
  <2>4. CASE k > i + 1
    <3>1. k - 1 \in 1..n /\ waiters[k - 1] = s
      BY <1>1, <1>2, <2>1, <2>4
    <3>2. InLine(s)
      BY <1>1, <3>1 DEF InLine
    <3> QED BY <1>8, <3>2 DEF LineOrder
  <2> QED BY <1>1, <2>2, <2>3, <2>4
<1>10. ASSUME NEW s \in Requests, acquire'[s] \in {"none", "new"}
       PROVE  ~Known(s)'
  <2>1. s # r /\ acquire'[s] = acquire[s]
    BY <1>10
  <2> QED BY <1>8, <1>10, <2>1 DEF LineOrder
<1>11. ASSUME NEW a, NEW b, Before(a, b)
       PROVE  Before(a, b)'
  <2>1. PICK x \in 1..m, y \in 1..m : x < y /\ arrived[x] = a /\ arrived[y] = b
    BY <1>1, <1>11 DEF Before
  <2>2. x \in 1..(m + 1) /\ y \in 1..(m + 1)
    BY <1>1
  <2> QED BY <1>3, <2>1, <2>2 DEF Before
<1>12. ASSUME NEW a, NEW b, Leads(a, b)
       PROVE  Leads(a, b)'
  BY <1>11, <1>12 DEF Leads
<1>13. ASSUME NEW a \in Requests, Known(a)
       PROVE  Before(a, r)'
  <2>1. PICK x \in 1..m : arrived[x] = a
    BY <1>1, <1>13 DEF Known
  <2>2. x \in 1..(m + 1) /\ m + 1 \in 1..(m + 1) /\ x < m + 1
    BY <1>1
  <2> QED BY <1>3, <2>1, <2>2 DEF Before
<1>14. ASSUME NEW k \in 1..n, k <= i, NEW a, a = waiters[k]
       PROVE  Leads(a, r)'
  <2>1. a \in Requests /\ Known(a)
    BY <1>1, <1>14 DEF LineOrder, InLine
  <2>2. i \in 1..n /\ Priority[waiters[i]] >= Priority[r]
    BY <1>1, <1>5, <1>14
  <2>3. k = i \/ Leads(a, waiters[i])
    BY <1>1, <1>14, <2>2 DEF LineOrder
  <2>4. Priority[a] \in Int /\ Priority[waiters[i]] \in Int /\ Priority[r] \in Int
    BY <1>1, <2>1, <2>2, GateAssumption
  <2>5. Priority[a] >= Priority[waiters[i]]
    BY <1>14, <2>3, <2>4 DEF Leads
  <2>6. Before(a, r)'
    BY <1>13, <2>1
  <2>7. Priority[r] < Priority[a] \/ Priority[r] = Priority[a]
    BY <2>2, <2>4, <2>5
  <2> QED BY <2>6, <2>7 DEF Leads
<1>15. ASSUME NEW k \in 1..(n + 1), NEW l \in 1..(n + 1), k < l,
              NEW a, NEW b, a = waiters'[k], b = waiters'[l]
       PROVE  Leads(a, b)'
  <2>1. CASE l = i + 1
    <3>1. b = r /\ k \in 1..n /\ k <= i /\ a = waiters[k]
      BY <1>1, <1>2, <1>15, <2>1
    <3> QED BY <1>14, <3>1
  <2>2. CASE k = i + 1
    <3>1. a = r /\ l - 1 \in (i + 1)..n /\ b = waiters[l - 1]
      BY <1>1, <1>2, <1>15, <2>2
    <3>2. Leads(a, b)
      BY <1>5, <3>1 DEF Leads
    <3> QED BY <1>12, <3>2
  <2>3. CASE k # i + 1 /\ l # i + 1
    <3> DEFINE x == IF k <= i THEN k ELSE k - 1
               y == IF l <= i THEN l ELSE l - 1
    <3>1. x \in 1..n /\ y \in 1..n /\ x < y
      BY <1>1, <1>15, <2>3
    <3>2. a = waiters[x] /\ b = waiters[y]
      BY <1>1, <1>2, <1>15, <2>3
    <3> HIDE DEF x, y
    <3>3. Leads(a, b)
      BY <1>1, <3>1, <3>2 DEF LineOrder
    <3> QED BY <1>12, <3>3
  <2> QED BY <2>1, <2>2, <2>3
<1>16. ASSUME NEW k \in DOMAIN waiters', NEW l \in DOMAIN waiters', k < l
       PROVE  Leads(waiters[k], waiters[l])'
  BY <1>2, <1>15, <1>16 DEF Leads, Before
<1> QED BY <1>7, <1>9, <1>10, <1>16 DEF LineOrder

\* Those who neither come nor go.
NobodyNew ==
    \A s \in Requests : acquire'[s] \in {"none", "new"} => acquire[s] \in {"none", "new"}

LEMMA OrderAcquireStart ==
    ASSUME GateInv, LineOrder, NEW r \in Requests, AcquireStart(r)
    PROVE  LineOrder'
<1> USE DEF GateInv
<1>1. /\ acquire[r] = "new" /\ acquire'[r] \notin {"none", "new"}
      /\ \A s \in Requests \ {r} : acquire'[s] = acquire[s]
  BY DEF AcquireStart, TypeOK
<1>2. ~Known(r) /\ ~InLine(r)
  BY <1>1 DEF LineOrder, ReqSound, LineAgrees
<1>3. CASE UNCHANGED << arrived, waiters >>
  BY <1>1, <1>3, OrderQuiet
<1>4. CASE arrived' = Append(arrived, r)
           /\ \E i \in 0..Len(waiters) : IsPosition(i, r) /\ waiters' = InsertAt(waiters, i, r)
  <2>1. PICK i \in 0..Len(waiters) : IsPosition(i, r) /\ waiters' = InsertAt(waiters, i, r)
    BY <1>4
  <2> QED BY <1>1, <1>2, <1>4, <2>1, OrderInserted
<1> QED BY <1>3, <1>4 DEF AcquireStart, gateVars

LEMMA OrderAcquireWake ==
    ASSUME GateInv, LineOrder, NEW r \in Requests, AcquireWake(r)
    PROVE  LineOrder'
<1> USE DEF GateInv
<1>1. NobodyNew /\ UNCHANGED arrived
  BY DEF AcquireWake, TypeOK, NobodyNew
<1>2. \/ UNCHANGED waiters \/ waiters' = Remove(waiters, r) \/ Release
  BY DEF AcquireWake, gateVars
<1> QED BY <1>1, <1>2, OrderQuiet, OrderRemoved, OrderReleased DEF NobodyNew

LEMMA OrderStep ==
    ASSUME GateInv, LineOrder, [Next]_vars
    PROVE  LineOrder'
<1> USE DEF GateInv
<1>1. CASE UNCHANGED vars
  <2>1. NobodyNew /\ UNCHANGED << arrived, waiters >>
    BY <1>1 DEF vars, NobodyNew, gateVars
  <2> QED BY <2>1, OrderQuiet DEF NobodyNew
<1>2. ASSUME NEW r \in Requests, RunTask(r) PROVE LineOrder'
  <2>1. CASE AcquireStart(r)
    BY <2>1, OrderAcquireStart
  <2>2. CASE AcquireWake(r)
    BY <2>2, OrderAcquireWake
  <2>3. CASE WaitReturns(r) \/ Activate(r) \/ EndStream(r)
    <3>1. NobodyNew /\ UNCHANGED << arrived, waiters >>
      BY <2>3 DEF WaitReturns, Activate, EndStream, NobodyNew, gateVars
    <3> QED BY <3>1, OrderQuiet DEF NobodyNew
  <2>4. CASE Settle(r)
    <3>1. NobodyNew /\ UNCHANGED << arrived, waiters >>
      BY <2>4 DEF Settle, NobodyNew, TypeOK
    <3> QED BY <3>1, OrderQuiet DEF NobodyNew
  <2>5. CASE Reap(r) \/ FinishRequest(r)
    <3>1. NobodyNew /\ UNCHANGED arrived /\ (UNCHANGED waiters \/ Release)
      BY <2>5 DEF Reap, FinishRequest, NobodyNew, TypeOK, gateVars
    <3> QED BY <3>1, OrderQuiet, OrderReleased DEF NobodyNew
  <2> QED BY <1>2, <2>1, <2>2, <2>3, <2>4, <2>5 DEF RunTask
<1>3. ASSUME NEW r \in Requests, Enter(r) \/ CancelTask(r) \/ Elapse(r) PROVE LineOrder'
  <2>1. UNCHANGED << arrived, waiters >>
    BY <1>3 DEF Enter, CancelTask, Elapse, gateVars
  <2>2. NobodyNew
    <3>1. CASE Enter(r)
      <4>1. acquire[r] = "none"
        BY <3>1 DEF Enter, ReqSound, TasksAgree
      <4>2. \A s \in Requests \ {r} : acquire'[s] = acquire[s]
        BY <3>1 DEF Enter, TypeOK
      <4> QED BY <4>1, <4>2 DEF NobodyNew
    <3>2. CASE CancelTask(r) \/ Elapse(r)
      BY <3>2 DEF CancelTask, Elapse, NobodyNew
    <3> QED BY <1>3, <3>1, <3>2
  <2> QED BY <2>1, <2>2, OrderQuiet DEF NobodyNew
<1>4. CASE Close \/ \E n \in 1..Capacity : ApplyBatchCapacity(n)
  <2>1. NobodyNew /\ UNCHANGED arrived /\ waiters' = <<>>
    BY <1>4 DEF Close, ApplyBatchCapacity, NobodyNew
  <2> QED BY <2>1, OrderEmpty DEF NobodyNew
<1>5. CASE UpdateConcurrency
  <2>1. NobodyNew /\ UNCHANGED << arrived, waiters >>
    BY <1>5 DEF UpdateConcurrency, NobodyNew, gateVars
  <2> QED BY <2>1, OrderQuiet DEF NobodyNew
<1> QED BY <1>1, <1>2, <1>3, <1>4, <1>5 DEF Next, AllEnded

LEMMA OrderInit == Init => LineOrder
<1> SUFFICES ASSUME Init PROVE LineOrder
  OBVIOUS
<1>1. DOMAIN waiters = {} /\ DOMAIN arrived = {}
  BY DEF Init
<1> QED BY <1>1 DEF LineOrder, ArrivedOnce, Known, InLine

\* The line is sorted by priority and, among equals, by arrival
\* (runtime_pool.py:262-266): insertion, lazy removal and hand-over keep it so.
THEOREM LineStaysSorted == Spec => []LineOrder
<1>1. GateInv /\ LineOrder /\ [Next]_vars => LineOrder'
  BY OrderStep
<1> QED BY <1>1, OrderInit, GateSound, PTL DEF Spec

(***************************************************************************)
(* The queue of the pool: those who came and still wait.                   *)
(***************************************************************************)
LEMMA QueueFacts ==
    ASSUME GateInv, LineOrder
    PROVE  /\ StillWaiting \in Seq(Requests)
           /\ \A k \in DOMAIN StillWaiting :
                 StillWaiting[k] \in Requests /\ IsPending(StillWaiting[k])
           /\ \A r \in Requests : IsPending(r) => \E k \in DOMAIN StillWaiting : StillWaiting[k] = r
           /\ \A k, l \in DOMAIN StillWaiting : StillWaiting[k] = StillWaiting[l] => k = l
           /\ \A k, l \in DOMAIN StillWaiting :
                 k < l => Before(StillWaiting[k], StillWaiting[l])
<1> DEFINE P == { r \in Requests : IsPending(r) }
           q == Filter(arrived, P)
<1>1. arrived \in Seq(Requests) /\ DOMAIN arrived = 1..Len(arrived)
  BY DEF GateInv, TypeOK
<1>2. q \in Seq(Requests) /\ \E h : Embeds(h, q, Len(arrived), arrived, P)
  <2> HIDE DEF P
  <2> QED BY <1>1, FilterEmbeds
<1>3. \A k, l \in DOMAIN q : q[k] = q[l] => k = l
  <2>1. \A i, j \in DOMAIN arrived : arrived[i] = arrived[j] => i = j
    BY DEF LineOrder, ArrivedOnce
  <2> HIDE DEF P
  <2> QED BY <1>1, <2>1, FilterElements
<1>4. ASSUME NEW r \in P PROVE \E j \in 1..Len(arrived) : arrived[j] = r
  <2>1. InLine(r)
    BY <1>4 DEF GateInv, ReqSound, LineAgrees, IsPending
  <2> QED BY <1>1, <2>1 DEF LineOrder, Known
<1>5. StillWaiting = q
  BY DEF StillWaiting
<1> HIDE DEF q
<1>6. PICK h : Embeds(h, q, Len(arrived), arrived, P)
  BY <1>2
<1>7. DOMAIN q = 1..Len(q)
  BY <1>2
<1>8. \A k \in DOMAIN q : q[k] \in P
  BY <1>6, <1>7 DEF Embeds
<1>9. ASSUME NEW r \in P PROVE \E k \in DOMAIN q : q[k] = r
  <2>1. PICK j \in 1..Len(arrived) : arrived[j] = r
    BY <1>4
  <2>2. PICK k \in 1..Len(q) : h[k] = j
    BY <1>6, <1>9, <2>1 DEF Embeds
  <2> QED BY <1>6, <1>7, <2>1, <2>2 DEF Embeds
<1>10. ASSUME NEW k \in DOMAIN q, NEW l \in DOMAIN q, k < l PROVE Before(q[k], q[l])
  <2>1. /\ h[k] \in 1..Len(arrived) /\ h[l] \in 1..Len(arrived) /\ h[k] < h[l]
        /\ q[k] = arrived[h[k]] /\ q[l] = arrived[h[l]]
    BY <1>6, <1>7, <1>10 DEF Embeds
  <2> QED BY <1>1, <2>1 DEF Before
<1> QED BY <1>2, <1>3, <1>5, <1>8, <1>9, <1>10

\* Nobody waits, nobody is in the queue.
LEMMA QueueEmpty ==
    ASSUME GateInv, LineOrder, \A r \in Requests : ~IsPending(r)
    PROVE  StillWaiting = <<>>
<1>1. StillWaiting \in Seq(Requests) /\ DOMAIN StillWaiting = {}
  BY QueueFacts
<1> QED BY <1>1, EmptySeq

\* The queue without those who do not wait any more.
LEMMA QueueLeave ==
    ASSUME TypeOK, UNCHANGED arrived, NEW r \in Requests,
           \A s \in Requests : IsPending(s)' <=> IsPending(s) /\ s # r
    PROVE  StillWaiting' = Filter(StillWaiting, Requests \ {r})
<1> DEFINE P == { s \in Requests : IsPending(s) }
           R == Requests \ {r}
<1>1. { s \in Requests : IsPending(s)' } = P \cap R
  OBVIOUS
<1>2. StillWaiting' = Filter(arrived, P \cap R)
  BY <1>1 DEF StillWaiting
<1>3. StillWaiting = Filter(arrived, P)
  BY DEF StillWaiting
<1>4. arrived \in Seq(Requests)
  BY DEF TypeOK
<1> HIDE DEF P, R
<1>5. Filter(Filter(arrived, P), R) = Filter(arrived, P \cap R)
  BY <1>4, FilterTwice
<1> QED BY <1>2, <1>3, <1>5 DEF R

LEMMA QueueSame ==
    ASSUME UNCHANGED arrived, \A s \in Requests : IsPending(s)' <=> IsPending(s)
    PROVE  StillWaiting' = StillWaiting
BY DEF StillWaiting

\* Somebody comes.
LEMMA QueueJoin ==
    ASSUME TypeOK, NEW r \in Requests, ~Known(r), arrived' = Append(arrived, r),
           \A s \in Requests : IsPending(s)' <=> IsPending(s) \/ s = r
    PROVE  StillWaiting' = Append(StillWaiting, r)
<1> DEFINE P == { s \in Requests : IsPending(s) }
           Q == { s \in Requests : IsPending(s)' }
<1>1. arrived \in Seq(Requests)
  BY DEF TypeOK
<1>2. StillWaiting = Filter(arrived, P) /\ StillWaiting' = Filter(Append(arrived, r), Q)
  BY DEF StillWaiting
<1>3. r \in Q
  OBVIOUS
<1>4. \A i \in DOMAIN arrived : arrived[i] \in P <=> arrived[i] \in Q
  BY <1>1 DEF Known
<1> HIDE DEF P, Q
<1>5. Filter(arrived, P) = Filter(arrived, Q)
  BY <1>1, <1>4, FilterAgree
<1>6. Filter(Append(arrived, r), Q) = Append(Filter(arrived, Q), r)
  BY <1>1, <1>3, FilterAppend
<1> QED BY <1>2, <1>5, <1>6

LEMMA PoolWithout ==
    ASSUME NEW r
    PROVE  Pool!Without(r) = Filter(StillWaiting, Requests \ {r})
<1>1. \A s, S : Pool!Filter(s, S) = Filter(s, S)
  BY DEF Pool!Filter, Filter
<1> QED BY <1>1 DEF Pool!Without

LEMMA PoolCardinality ==
    ASSUME NEW S
    PROVE  Pool!Cardinality(S) = Cardinality(S)
BY DEF Pool!Cardinality, Cardinality

(***************************************************************************)
(* Every step of the gate is a step of the pool, or leaves it alone.       *)
(***************************************************************************)
PoolStep == [Pool!PoolNext]_(Pool!poolVars)

\* A step that gives nobody a slot, takes none away and leaves the queue alone.
LEMMA PoolStutters ==
    ASSUME UNCHANGED << capacity, closed, arrived >>,
           \A s \in Requests : (Owns(s)' <=> Owns(s)) /\ (IsPending(s)' <=> IsPending(s))
    PROVE  PoolStep
<1>1. StillWaiting' = StillWaiting
  BY QueueSame
<1>2. Owners' = Owners
  BY DEF Owners
<1>3. UNCHANGED << capacity, Owners, StillWaiting, ~closed >>
  BY <1>1, <1>2
<1> QED BY <1>3 DEF PoolStep, Pool!poolVars

\* Whoever waits is in line, and the gate is full.
LEMMA PendingFull ==
    ASSUME GateInv, NEW s \in Requests, IsPending(s)
    PROVE  InLine(s) /\ waiters # <<>> /\ ~closed /\ granted = capacity
<1>1. InLine(s)
  BY DEF GateInv, ReqSound, LineAgrees, IsPending
<1>2. waiters # <<>>
  BY <1>1 DEF InLine
<1>3. granted \in Nat /\ capacity \in Nat
  BY GateAssumption DEF GateInv, TypeOK
<1> QED BY <1>1, <1>2, <1>3 DEF GateInv, LineSound

\* release() of a slot that r has: it goes to the best of those who wait.
LEMMA PoolGivesBack ==
    ASSUME GateInv, LineOrder, Release, NEW r \in Requests, Owns(r), ~IsPending(r), ~Owns(r)',
           UNCHANGED arrived,
           \A s \in Requests \ {r} :
              acquire'[s] = acquire[s] /\ (s \in acquired' <=> s \in acquired)
    PROVE  Pool!GiveBack(r)
<1> USE DEF GateInv
<1>1. capacity \in Nat /\ granted \in Nat
  BY GateAssumption DEF TypeOK
<1>2. r \in Owners
  BY DEF Owners
<1>3. CASE granted <= 0
  <2>1. UNCHANGED << capacity, granted, waiters, closed, future >>
    BY <1>3 DEF Release
  <2>2. Owners' = Owners \ {r}
    BY <2>1 DEF Owners, Owns
  <2>3. \A s \in Requests : ~IsPending(s)
    BY <1>1, <1>3, PendingFull, GateAssumption DEF TypeOK
  <2>4. StillWaiting = <<>>
    BY <2>3, QueueEmpty
  <2>5. StillWaiting' = StillWaiting
    BY <2>1, QueueSame DEF IsPending
  <2> QED BY <1>2, <2>1, <2>2, <2>4, <2>5 DEF Pool!GiveBack
<1>4. CASE granted > 0
  <2>1. PICK lucky \in SUBSET Requests :
              /\ IsFiniteSet(lucky)
              /\ \A s \in lucky : IsPending(s) /\ InLine(s)
              /\ future' = [s \in Requests |-> IF s \in lucky THEN "granted" ELSE future[s]]
              /\ \E m : HandsOut(m, lucky)
              /\ UNCHANGED << capacity, closed >>
    BY <1>4, ReleaseEffect
  <2>2. PICK n : HandsOut(n, lucky)
    BY <2>1
  <2>3. Owners' = (Owners \ {r}) \cup lucky
    <3>1. ASSUME NEW s \in lucky PROVE Owns(s)'
      BY <2>1, <3>1 DEF Owns, ReqSound, LineAgrees, IsPending
    <3>2. ASSUME NEW s \in Requests \ lucky, s # r PROVE Owns(s)' <=> Owns(s)
      BY <2>1, <3>2 DEF Owns
    <3>3. r \notin lucky
      BY <2>1
    <3> QED BY <3>1, <3>2, <3>3 DEF Owners
  <2>4. \A s \in Requests : IsPending(s)' <=> IsPending(s) /\ s \notin lucky
    BY <2>1 DEF IsPending
  <2>5. ASSUME NEW s \in Requests, IsPending(s)
        PROVE  lucky # {} /\ Cardinality(lucky) <= 1
    <3>1. granted = capacity /\ InLine(s)
      BY <2>5, PendingFull
    <3>2. capacity - (granted - 1) = 1
      BY <1>1, <3>1
    <3>3. /\ Cardinality(lucky) <= 1
          /\ n < Len(waiters) => Cardinality(lucky) >= 1
      BY <2>2, <3>2 DEF HandsOut
    <3>4. CASE n < Len(waiters)
      <4>1. Cardinality({}) = 0
        BY FS_EmptySet
      <4>2. Cardinality(lucky) >= 1
        BY <3>3, <3>4
      <4>3. ASSUME lucky = {} PROVE FALSE
        BY <4>1, <4>2, <4>3
      <4> QED BY <3>3, <4>3
    <3>5. CASE ~(n < Len(waiters))
      <4>1. n = Len(waiters) /\ DOMAIN waiters = 1..Len(waiters)
        BY <2>2, <3>5 DEF HandsOut, TypeOK
      <4>2. s \in lucky
        BY <2>2, <2>5, <3>1, <4>1 DEF HandsOut, InLine
      <4> QED BY <3>3, <4>2
    <3> QED BY <3>4, <3>5
  <2>6. CASE lucky = {}
    <3>1. \A s \in Requests : ~IsPending(s)
      BY <2>5, <2>6
    <3>2. StillWaiting = <<>>
      BY <3>1, QueueEmpty
    <3>3. StillWaiting' = StillWaiting
      BY <2>4, <2>6, QueueSame
    <3>4. Owners' = Owners \ {r}
      BY <2>3, <2>6
    <3> QED BY <1>2, <2>1, <3>2, <3>3, <3>4 DEF Pool!GiveBack
  <2>7. CASE lucky # {}
    <3>1. PICK b : lucky = {b}
      <4>1. Cardinality(lucky) <= 1 /\ Cardinality(lucky) \in Nat
        BY <2>1, <2>2, <2>5, <2>7 DEF HandsOut
      <4>2. Cardinality(lucky) # 0
        BY <2>1, <2>7, FS_EmptySet
      <4>3. Cardinality(lucky) = 1
        BY <4>1, <4>2
      <4> QED BY <2>1, <4>3, FS_Singleton
    <3>2. b \in Requests /\ IsPending(b) /\ InLine(b)
      BY <2>1, <3>1
    <3>3. PICK i \in DOMAIN StillWaiting : StillWaiting[i] = b
      BY <3>2, QueueFacts
    <3>4. Pool!IsNext(i)
      <4> SUFFICES ASSUME NEW k \in DOMAIN StillWaiting
                   PROVE  \/ Priority[StillWaiting[k]] < Priority[StillWaiting[i]]
                          \/ Priority[StillWaiting[k]] = Priority[StillWaiting[i]] /\ k >= i
        BY DEF Pool!IsNext
      <4> DEFINE c == StillWaiting[k]
      <4>1. c \in Requests /\ IsPending(c) /\ k \in Nat /\ i \in Nat
        BY QueueFacts
      <4>2. CASE c = b
        <5>1. k = i
          BY <3>3, <4>2, QueueFacts
        <5> QED BY <4>1, <5>1
      <4>3. CASE c # b
        <5>1. PICK x \in DOMAIN waiters : waiters[x] = c
          BY <4>1, PendingFull DEF InLine
        <5>2. PICK y \in 1..n : waiters[y] = b
          BY <2>2, <3>1 DEF HandsOut
        <5>3. n \in Nat /\ n <= Len(waiters) /\ Len(waiters) \in Nat
              /\ DOMAIN waiters = 1..Len(waiters)
          BY <2>2 DEF HandsOut, TypeOK
        <5>4. ~(x \in 1..n)
          BY <2>2, <3>1, <4>1, <4>3, <5>1 DEF HandsOut
        <5>5. y \in DOMAIN waiters /\ y < x
          BY <5>3, <5>4
        <5>6. Leads(b, c)
          BY <5>1, <5>2, <5>5 DEF LineOrder
        <5>7. CASE Before(b, c)
          <6>1. ASSUME k < i PROVE FALSE
            <7>1. Before(c, b)
              BY <3>3, <6>1, QueueFacts
            <7>2. DOMAIN arrived \subseteq Nat
              BY DEF TypeOK
            <7> HIDE DEF c
            <7>3. PICK u \in DOMAIN arrived, v \in DOMAIN arrived :
                     u < v /\ arrived[u] = b /\ arrived[v] = c
              BY <5>7 DEF Before
            <7>4. PICK w \in DOMAIN arrived, z \in DOMAIN arrived :
                     w < z /\ arrived[w] = c /\ arrived[z] = b
              BY <7>1 DEF Before
            <7>5. w = v /\ z = u
              BY <7>3, <7>4 DEF LineOrder, ArrivedOnce
            <7> QED BY <7>2, <7>3, <7>4, <7>5
          <6>2. k >= i
            BY <4>1, <6>1
          <6> QED BY <3>3, <5>6, <6>2 DEF Leads
        <5>8. CASE ~Before(b, c)
          BY <3>3, <5>6, <5>8 DEF Leads
        <5> QED BY <5>7, <5>8
      <4> QED BY <4>2, <4>3
    <3>5. StillWaiting' = Pool!Without(b)
      <4>1. \A s \in Requests : IsPending(s)' <=> IsPending(s) /\ s # b
        BY <2>4, <3>1
      <4> QED BY <3>2, <4>1, QueueLeave, PoolWithout
    <3>6. Owners' = (Owners \ {r}) \cup {StillWaiting[i]}
      BY <2>3, <3>1, <3>3
    <3>7. StillWaiting # <<>>
      BY <3>3
    <3> QED BY <1>2, <2>1, <3>3, <3>4, <3>5, <3>6, <3>7 DEF Pool!GiveBack
  <2> QED BY <2>6, <2>7
<1> QED BY <1>1, <1>3, <1>4

LEMMA PoolAcquireStart ==
    ASSUME GateInv, LineOrder, NEW r \in Requests, AcquireStart(r)
    PROVE  PoolStep
<1> USE DEF GateInv
<1>1. ReqSound(r) /\ ~Owns(r) /\ future[r] = "none" /\ ~Known(r) /\ acquire[r] = "new"
  BY DEF AcquireStart, ReqSound, TasksAgree, LineAgrees, Owns, LineOrder
<1>2. /\ UNCHANGED acquired /\ r \notin acquired
      /\ \A s \in Requests \ {r} : acquire'[s] = acquire[s]
  BY <1>1 DEF AcquireStart, TypeOK, Owns
<1>3. CASE UNCHANGED << gateVars, arrived >> /\ acquire'[r] \in {"cancelled", "error"}
  <2>1. \A s \in Requests : Owns(s)' <=> Owns(s)
    BY <1>1, <1>2, <1>3 DEF Owns
  <2>2. \A s \in Requests : IsPending(s)' <=> IsPending(s)
    BY <1>3 DEF IsPending
  <2> QED BY <1>3, <2>1, <2>2, PoolStutters
<1>4. CASE /\ ~closed /\ HasFreeSlot /\ acquire'[r] = "ok"
           /\ UNCHANGED << capacity, waiters, closed, future, arrived >>
  <2>1. Owners' = Owners \cup {r} /\ r \notin Owners
    <3>1. ASSUME NEW s \in Requests \ {r} PROVE Owns(s)' <=> Owns(s)
      BY <1>2, <1>4 DEF Owns
    <3>2. Owns(r)'
      BY <1>4 DEF Owns
    <3> QED BY <1>1, <3>1, <3>2 DEF Owners
  <2>2. StillWaiting' = StillWaiting
    BY <1>4, QueueSame DEF IsPending
  <2>3. StillWaiting = <<>>
    <3>1. waiters = <<>>
      BY <1>4 DEF HasFreeSlot
    <3> QED BY <3>1, PendingFull, QueueEmpty
  <2>4. Cardinality(Owners) < capacity
    BY <1>4 DEF HasFreeSlot, GrantsAccounted
  <2>5. Pool!Take(r)
    BY <1>4, <2>1, <2>2, <2>3, <2>4, PoolCardinality DEF Pool!Take
  <2> QED BY <2>5 DEF PoolStep, Pool!PoolNext
<1>5. CASE /\ ~closed /\ ~HasFreeSlot
           /\ future' = [future EXCEPT ![r] = "pending"] /\ acquire'[r] = "waiting"
           /\ arrived' = Append(arrived, r) /\ UNCHANGED << capacity, granted, closed >>
  <2>1. \A s \in Requests : IsPending(s)' <=> IsPending(s) \/ s = r
    BY <1>5 DEF IsPending, TypeOK
  <2>2. StillWaiting' = Append(StillWaiting, r)
    BY <1>1, <1>5, <2>1, QueueJoin
  <2>3. Owners' = Owners /\ r \notin Owners
    <3>1. ASSUME NEW s \in Requests \ {r} PROVE Owns(s)' <=> Owns(s)
      BY <1>2, <1>5 DEF Owns, TypeOK
    <3>2. ~Owns(r)'
      <4>1. future'[r] = "pending"
        BY <1>5 DEF TypeOK
      <4> QED BY <1>2, <1>5, <4>1 DEF Owns
    <3> QED BY <1>1, <3>1, <3>2 DEF Owners
  <2>4. ~\E k \in DOMAIN StillWaiting : StillWaiting[k] = r
    BY <1>1, QueueFacts DEF IsPending
  <2>5. Cardinality(Owners) >= capacity
    <3>1. granted >= capacity
      BY <1>5, GateAssumption DEF HasFreeSlot, LineSound, TypeOK
    <3> QED BY <1>5, <3>1 DEF GrantsAccounted
  <2>6. Pool!Wait(r)
    BY <1>5, <2>2, <2>3, <2>4, <2>5, PoolCardinality DEF Pool!Wait, Pool!Queued
  <2> QED BY <2>6 DEF PoolStep, Pool!PoolNext
<1>6. \/ UNCHANGED << gateVars, arrived >> /\ acquire'[r] \in {"cancelled", "error"}
      \/ /\ ~closed /\ HasFreeSlot /\ acquire'[r] = "ok"
         /\ UNCHANGED << capacity, waiters, closed, future, arrived >>
      \/ /\ ~closed /\ ~HasFreeSlot
         /\ future' = [future EXCEPT ![r] = "pending"] /\ acquire'[r] = "waiting"
         /\ arrived' = Append(arrived, r) /\ UNCHANGED << capacity, granted, closed >>
  BY DEF AcquireStart, TypeOK
<1> QED BY <1>3, <1>4, <1>5, <1>6

LEMMA PoolAcquireWake ==
    ASSUME GateInv, LineOrder, NEW r \in Requests, AcquireWake(r)
    PROVE  PoolStep
<1> USE DEF GateInv
<1>1. /\ ReqSound(r) /\ acquire[r] = "waiting" /\ ~IsPending(r) /\ r \notin acquired
      /\ future[r] \in {"granted", "cancelled", "error"}
  BY DEF AcquireWake, ReqSound, TasksAgree, LineAgrees, IsPending, TypeOK, FutureStates
<1>2. /\ UNCHANGED << acquired, arrived >>
      /\ \A s \in Requests \ {r} : acquire'[s] = acquire[s]
  BY DEF AcquireWake, TypeOK
<1>3. CASE future[r] = "granted" /\ r \in must
  <2>1. Release /\ acquire'[r] \in {"cancelled", "error"}
    BY <1>3 DEF AcquireWake, HandsOn, TypeOK
  <2>2. Owns(r) /\ ~Owns(r)'
    BY <1>1, <1>2, <1>3, <2>1 DEF Owns
  <2>3. Pool!GiveBack(r)
    BY <1>1, <1>2, <2>1, <2>2, PoolGivesBack
  <2> QED BY <2>3 DEF PoolStep, Pool!PoolNext
<1>4. CASE ~(future[r] = "granted" /\ r \in must)
  <2>1. UNCHANGED << capacity, closed, future >>
    <3>1. CASE Release /\ future[r] = "error"
      <4>1. closed /\ waiters = <<>>
        BY <1>1, <3>1 DEF ReqSound, LineAgrees, LineSound
      <4>2. CASE granted <= 0
        BY <3>1, <4>2 DEF Release
      <4>3. CASE granted > 0
        <5>1. PICK lucky \in SUBSET Requests :
                 /\ future' = [s \in Requests |-> IF s \in lucky THEN "granted" ELSE future[s]]
                 /\ waiters = <<>> => lucky = {}
                 /\ UNCHANGED << capacity, closed >>
          BY <3>1, <4>3, ReleaseEffect
        <5>2. future' = [s \in Requests |-> future[s]]
          BY <4>1, <5>1
        <5>3. future' = future
          BY <5>2 DEF TypeOK
        <5> QED BY <5>1, <5>3
      <4>4. granted \in Nat
        BY DEF TypeOK
      <4> QED BY <4>2, <4>3, <4>4
    <3>2. CASE ~(Release /\ future[r] = "error")
      BY <1>1, <1>4, <3>2 DEF AcquireWake, HandsOn
    <3> QED BY <3>1, <3>2
  <2>2. future[r] = "granted" => acquire'[r] = "ok"
    BY <1>4 DEF AcquireWake, TypeOK
  <2>3. future[r] # "granted" => acquire'[r] \in {"cancelled", "error"}
    BY DEF AcquireWake, TypeOK
  <2>4. \A s \in Requests : Owns(s)' <=> Owns(s)
    BY <1>1, <1>2, <2>1, <2>2, <2>3 DEF Owns
  <2>5. \A s \in Requests : IsPending(s)' <=> IsPending(s)
    BY <2>1 DEF IsPending
  <2> QED BY <1>2, <2>1, <2>4, <2>5, PoolStutters
<1> QED BY <1>3, <1>4

LEMMA FilterNothing ==
    ASSUME NEW X, NEW s \in Seq(X)
    PROVE  Filter(s, {}) = <<>>
<1> DEFINE none == {}
           t == Filter(s, none)
<1>1. t \in Seq(X) /\ { t[k] : k \in DOMAIN t } = { s[i] : i \in DOMAIN s } \cap none
  <2> HIDE DEF none
  <2> QED BY FilterElements
<1> HIDE DEF t
<1>2. DOMAIN t = {}
  BY <1>1
<1>3. t = <<>>
  BY <1>1, <1>2, EmptySeq
<1> QED BY <1>3 DEF t

LEMMA PoolSettle ==
    ASSUME GateInv, LineOrder, NEW r \in Requests, Settle(r)
    PROVE  PoolStep
<1> USE DEF GateInv
<1>1. ReqSound(r) /\ task[r] = "settle" /\ r \notin acquired
  BY DEF Settle, ReqSound, TasksAgree
<1>2. UNCHANGED << capacity, closed, arrived >>
  BY DEF Settle
<1>3. CASE /\ acquire[r] = "waiting" /\ IsPending(r)
           /\ future' = [future EXCEPT ![r] = "cancelled"] /\ UNCHANGED << acquire, acquired >>
  <2>1. \A s \in Requests : IsPending(s)' <=> IsPending(s) /\ s # r
    BY <1>3 DEF IsPending, TypeOK
  <2>2. StillWaiting' = Pool!Without(r)
    BY <1>2, <2>1, QueueLeave, PoolWithout
  <2>3. Owners' = Owners
    <3>1. ASSUME NEW s \in Requests PROVE Owns(s)' <=> Owns(s)
      BY <1>3 DEF Owns, TypeOK, IsPending
    <3> QED BY <3>1 DEF Owners
  <2>4. \E k \in DOMAIN StillWaiting : StillWaiting[k] = r
    BY <1>3, QueueFacts
  <2>5. Pool!GiveUp(r)
    BY <1>2, <2>2, <2>3, <2>4 DEF Pool!GiveUp, Pool!Queued
  <2> QED BY <2>5 DEF PoolStep, Pool!PoolNext
<1>4. CASE UNCHANGED << future, acquire, acquired >>
  BY <1>2, <1>4, PoolStutters DEF Owns, IsPending
<1>5. CASE /\ acquire[r] = "ok" /\ acquire' = [acquire EXCEPT ![r] = "spent"]
           /\ acquired' = acquired \cup {r} /\ UNCHANGED future
  <2>1. \A s \in Requests : Owns(s)' <=> Owns(s)
    BY <1>5 DEF Owns, TypeOK
  <2> QED BY <1>2, <1>5, <2>1, PoolStutters DEF IsPending
<1>6. seen[r] = "acquire" => acquire[r] \in {"ok", "error"}
  BY <1>1 DEF ReqSound, TasksAgree
<1> QED BY <1>3, <1>4, <1>5, <1>6 DEF Settle, CancelAcquire

LEMMA PoolReap ==
    ASSUME GateInv, LineOrder, NEW r \in Requests, Reap(r)
    PROVE  PoolStep
<1> USE DEF GateInv
<1>1. /\ ReqSound(r) /\ task[r] = "reap" /\ Done(r) /\ r \notin acquired /\ ~IsPending(r)
      /\ UNCHANGED << acquired, arrived >>
  BY DEF Reap, ReqSound, TasksAgree, LineAgrees, Done, IsPending
<1>2. CASE GivesBack(r)
  <2>1. Release /\ acquire' = [acquire EXCEPT ![r] = "spent"] /\ acquire[r] = "ok"
    BY <1>2 DEF Reap, GivesBack
  <2>2. acquire'[r] = "spent" /\ \A s \in Requests \ {r} : acquire'[s] = acquire[s]
    BY <2>1 DEF TypeOK
  <2>3. Owns(r) /\ ~Owns(r)'
    BY <1>1, <2>1, <2>2 DEF Owns
  <2>4. Pool!GiveBack(r)
    BY <1>1, <2>1, <2>2, <2>3, PoolGivesBack
  <2> QED BY <2>4 DEF PoolStep, Pool!PoolNext
<1>3. CASE ~GivesBack(r)
  BY <1>1, <1>3, PoolStutters DEF Reap, Owns, IsPending
<1> QED BY <1>2, <1>3

LEMMA PoolFinishRequest ==
    ASSUME GateInv, LineOrder, NEW r \in Requests, FinishRequest(r)
    PROVE  PoolStep
<1> USE DEF GateInv
<1>1. /\ ReqSound(r) /\ task[r] = "finish" /\ UNCHANGED << acquire, arrived >>
      /\ ~IsPending(r) /\ (r \in acquired => acquire[r] = "spent")
  BY DEF FinishRequest, ReqSound, TasksAgree, LineAgrees, IsPending
<1>2. CASE r \in acquired
  <2>1. Release /\ acquired' = acquired \ {r}
    BY <1>2 DEF FinishRequest
  <2>2. Owns(r) /\ ~Owns(r)'
    BY <1>1, <1>2, <2>1 DEF Owns
  <2>3. Pool!GiveBack(r)
    BY <1>1, <2>1, <2>2, PoolGivesBack
  <2> QED BY <2>3 DEF PoolStep, Pool!PoolNext
<1>3. CASE r \notin acquired
  BY <1>1, <1>3, PoolStutters DEF FinishRequest, Owns, IsPending
<1> QED BY <1>2, <1>3

LEMMA PoolEnter ==
    ASSUME GateInv, NEW r \in Requests, Enter(r)
    PROVE  PoolStep
<1> USE DEF GateInv
<1>1. acquire[r] = "none"
  BY DEF Enter, ReqSound, TasksAgree
<1>2. UNCHANGED << capacity, closed, future, arrived, acquired >>
  BY DEF Enter
<1>3. acquire'[r] \in {"none", "new"} /\ \A s \in Requests \ {r} : acquire'[s] = acquire[s]
  BY <1>1 DEF Enter, TypeOK
<1>4. \A s \in Requests : Owns(s)' <=> Owns(s)
  BY <1>1, <1>2, <1>3 DEF Owns
<1> QED BY <1>2, <1>4, PoolStutters DEF IsPending

LEMMA PoolClose ==
    ASSUME GateInv, LineOrder, Close
    PROVE  PoolStep
<1> USE DEF GateInv
<1>1. /\ ~closed /\ closed' /\ UNCHANGED << capacity, acquire, acquired, arrived >>
      /\ \A s \in Requests :
            future'[s] = IF InLine(s) /\ IsPending(s) THEN "error" ELSE future[s]
  BY DEF Close, InLine
<1>2. ASSUME NEW s \in Requests PROVE (Owns(s)' <=> Owns(s)) /\ ~IsPending(s)'
  BY <1>1, PendingFull DEF Owns, IsPending
<1>3. Owners' = Owners
  BY <1>2 DEF Owners
<1>4. StillWaiting' = <<>>
  <2>1. { s \in Requests : IsPending(s)' } = {}
    BY <1>2
  <2>2. StillWaiting' = Filter(arrived, {})
    BY <1>1, <2>1 DEF StillWaiting
  <2>3. arrived \in Seq(Requests)
    BY DEF TypeOK
  <2> QED BY <2>2, <2>3, FilterNothing
<1>5. Pool!Shut
  BY <1>1, <1>3, <1>4 DEF Pool!Shut
<1> QED BY <1>5 DEF PoolStep, Pool!PoolNext

LEMMA PoolApplyBatchCapacity ==
    ASSUME GateInv, LineOrder, NEW n \in 1..Capacity, ApplyBatchCapacity(n)
    PROVE  PoolStep
<1> USE DEF GateInv
<1>1. /\ capacity' = n /\ n < capacity /\ ~closed' /\ ~InFlight
      /\ acquire' = [s \in Requests |-> IF acquire[s] = "ok" THEN "spent" ELSE acquire[s]]
      /\ UNCHANGED << future, acquired, arrived >>
  BY DEF ApplyBatchCapacity
<1>2. QueuedSet = {} /\ active = {}
  <2>1. queued_requests = 0 /\ active_requests = 0
    BY <1>1 DEF InFlight, TypeOK
  <2> QED BY <2>1, FiniteOwners, FS_EmptySet DEF CountsSound
<1>3. ASSUME NEW s \in Requests PROVE ~Owns(s)' /\ ~IsPending(s)
  <2>1. /\ acquire[s] \in {"none", "ok", "spent", "cancelled", "error"} /\ s \notin acquired
        /\ acquire'[s] \in {"none", "spent", "cancelled", "error"}
    BY <1>1, <1>2 DEF QueuedSet, InQueue, TypeOK, TaskStates, ReqSound, TasksAgree
  <2> QED BY <1>1, <2>1 DEF Owns, IsPending, ReqSound, LineAgrees
<1>4. Owners' = {} /\ StillWaiting = <<>>
  BY <1>3, QueueEmpty DEF Owners
<1>5. StillWaiting' = StillWaiting
  BY <1>1, QueueSame DEF IsPending
<1>6. capacity' \in 1..(capacity - 1)
  BY <1>1, GateAssumption DEF TypeOK
<1>7. Pool!Replace
  BY <1>1, <1>4, <1>5, <1>6 DEF Pool!Replace
<1> QED BY <1>7 DEF PoolStep, Pool!PoolNext

LEMMA PoolEveryStep ==
    ASSUME GateInv, LineOrder, [Next]_vars
    PROVE  PoolStep
<1>1. ASSUME UNCHANGED << capacity, closed, future, arrived, acquire, acquired >>
      PROVE  PoolStep
  BY <1>1, PoolStutters DEF Owns, IsPending
<1>2. CASE UNCHANGED vars \/ AllEnded
  BY <1>1, <1>2 DEF vars, AllEnded
<1>3. ASSUME NEW r \in Requests, RunTask(r) PROVE PoolStep
  <2>1. CASE WaitReturns(r) \/ Activate(r) \/ EndStream(r)
    BY <1>1, <2>1 DEF WaitReturns, Activate, EndStream
  <2> QED BY <1>3, <2>1, PoolAcquireStart, PoolAcquireWake, PoolSettle, PoolReap,
             PoolFinishRequest DEF RunTask
<1>4. ASSUME NEW r \in Requests, Enter(r) \/ CancelTask(r) \/ Elapse(r) PROVE PoolStep
  <2>1. CASE CancelTask(r) \/ Elapse(r)
    BY <1>1, <2>1 DEF CancelTask, Elapse
  <2> QED BY <1>4, <2>1, PoolEnter
<1>5. CASE UpdateConcurrency
  BY <1>1, <1>5 DEF UpdateConcurrency
<1> QED BY <1>2, <1>3, <1>4, <1>5, PoolClose, PoolApplyBatchCapacity DEF Next

\* "Waiters leave in descending priority order and FIFO inside one priority"
\* (runtime_pool.py:236-237): whatever races, the gate is a pool of slots in which
\* each one that comes back goes at once to the best of those who still wait.
THEOREM GateImplementsPool == Spec => ImplementsPool
<1>1. Init => Pool!PoolInit
  <2> SUFFICES ASSUME Init PROVE Pool!PoolInit
    OBVIOUS
  <2>1. \A s \in Requests : ~IsPending(s) /\ ~Owns(s)
    BY DEF Init, IsPending, Owns
  <2>2. GateInv /\ LineOrder
    BY GateInit, OrderInit
  <2>3. StillWaiting = <<>> /\ Owners = {}
    BY <2>1, <2>2, QueueEmpty DEF Owners
  <2> QED BY <2>3 DEF Init, Pool!PoolInit
<1>2. GateInv /\ LineOrder /\ [Next]_vars => [Pool!PoolNext]_(Pool!poolVars)
  BY PoolEveryStep DEF PoolStep
<1> QED BY <1>1, <1>2, GateSound, LineStaysSorted, PTL DEF Spec, ImplementsPool, Pool!PoolSpec
==============================================================================
