--------------------------- MODULE ContinuousBatch ---------------------------
(***************************************************************************)
(* Continuous batching: rows of one device batch that prefill, decode, are *)
(* retracted under memory pressure and replay what they had.               *)
(*                                                                         *)
(* The batch runs on the scheduler's thread inside RequestExecutor::step,  *)
(* which calls ContinuousBatch::step and then resumes the coroutine of     *)
(* every eligible or cancelled request once.  `stage` says how far that    *)
(* call is: "idle", "decode", "pack" and "resume".                         *)
(*                                                                         *)
(* The operations are those of FlashNextBatchOperations without MTP, on    *)
(* the one device they name.  What a cache of so many tokens occupies is   *)
(* the parameter Room: buffers that double, whole preallocations, or pages *)
(* that are mapped as they are needed.                                     *)
(***************************************************************************)
EXTENDS Lists, FiniteSets, FiniteSetsExt, SequencesExt

CONSTANTS
    Rows,
    Loads,          \* set of [Rows -> [prompt, limit]]: what the rows may ask for
    ChunkSize,      \* prefill_chunk_size
    TokenBudget,    \* tokens of one packed prefill
    PackLimit,      \* prefill_batch_limit()
    MaxPositions,   \* max_position_embeddings()
    Room,           \* Room[n]: the memory of a cache with room for n tokens
    Copies,         \* does a cache grow into a new buffer, or by further pages?
    Capacity,       \* the memory of the device
    Workspace,      \* memory a captured decode graph keeps until it is cleared
    Scale, Initial, Minimum,    \* NewTokenRatioTracker, in 1/Scale
    RetractSteps,
    Cancellable,    \* rows a client may cancel
    MaxStalls,      \* bound: steps that leave out a row whose outbox is full
    MaxFaults       \* bound: operations that throw

ASSUME BatchAssumption ==
    /\ IsFiniteSet(Rows)
    /\ Loads \subseteq [Rows -> [prompt : Nat \ {0}, limit : Nat \ {0}]]
    /\ MaxPositions \in Nat /\ Room \in [0..MaxPositions -> Nat] /\ Room[0] = 0
    /\ \A m, n \in 0..MaxPositions : m <= n => Room[m] <= Room[n]
    /\ Copies \in BOOLEAN
    /\ ChunkSize \in Nat \ {0} /\ TokenBudget \in Nat \ {0} /\ PackLimit \in Nat \ {0}
    /\ Capacity \in Nat /\ Workspace \in Nat
    /\ Scale \in Nat \ {0} /\ Initial \in 1..Scale /\ Minimum \in 1..Initial
    /\ RetractSteps \in Nat \ {0}
    /\ Cancellable \subseteq Rows /\ MaxStalls \in Nat /\ MaxFaults \in Nat

VARIABLES
    load,           \* [Rows -> length of the prompt and sampling.max_tokens]
    work,           \* [Rows -> Work, its BatchRequest, its coroutine and its memory]
    active,         \* state.active
    decode_next, ratio,
    idle,           \* memory that only comes back when it is reclaimed
    stage,
    eligible,       \* the list step() was called with
    items,          \* the rows of the next prefill and their chunks
    todo,           \* rows the executor has yet to resume in this step
    cancelled,      \* output.result.cancelled
    stalls, faults

vars == << load, work, active, decode_next, ratio, idle, stage, eligible, items, todo,
           cancelled, stalls, faults >>

\* Where a row's coroutine is suspended.
Places == {"accepted", "prefill", "progress", "decode", "last", "done"}

NewWork == [at |-> "accepted", prefill |-> FALSE, decode |-> FALSE, active |-> FALSE,
            admitted |-> FALSE, failure |-> FALSE, result |-> FALSE,
            prefill_offset |-> 0, replay_offset |-> -1, cache_length |-> 0,
            produced |-> 0, held |-> 0]

Init ==
    /\ load \in Loads
    /\ work = [r \in Rows |-> NewWork]
    /\ active = <<>> /\ decode_next = TRUE /\ ratio = Initial /\ idle = 0
    /\ stage = "idle" /\ eligible = <<>> /\ items = <<>> /\ todo = {}
    /\ cancelled = {} /\ stalls = 0 /\ faults = 0

Prompt(r) == load[r].prompt
Limit(r) == load[r].limit

Live == { r \in Rows : work[r].at # "done" }
Batch == { r \in Rows : work[r].at \notin {"accepted", "done"} }   \* the map `requests`
Active == ToSet(active)
Listed == ToSet(eligible)

\* request->eligible, which step() computes for every active row.
Eligible(listed) == { r \in Active : work[r].decode /\ r \in listed }

(***************************************************************************)
(* Admission: how much memory every admitted row will still want.          *)
(***************************************************************************)
CeilDiv(a, b) == (a + b - 1) \div b

ReplayLength(r) == Prompt(r) + Max({0, work[r].produced - 1})

\* NewTokenRatioTracker::expected
Expected(r) == CeilDiv(Max({0, Limit(r) - work[r].produced}) * ratio, Scale)

\* Tokens of the prompt, or of the replay, that are not in the cache.
Uncached(r) ==
    IF work[r].replay_offset >= 0 THEN ReplayLength(r) - work[r].replay_offset
    ELSE Prompt(r) - work[r].prefill_offset

RoomFor(n) == Room[Min({n, MaxPositions})]

\* prefill_growth_bytes(n): what r's cache allocates to hold n more tokens.
Growth(r, n) ==
    LET old == RoomFor(work[r].held)
        new == RoomFor(work[r].held + n)
    IN  IF new = old THEN 0 ELSE IF Copies THEN new ELSE new - old

\* admission_cost: of the tokens not cached and of n more.
Cost(r, n) == Growth(r, Uncached(r) + n)

Used == SumFunction([r \in Rows |-> RoomFor(work[r].held)])
Available == Capacity - Used - idle

\* The caches of the rows in DOMAIN n have room to grow by n[r] tokens: each of them
\* beside what is in use now, and all of them together in the end.
RoomToGrow(n, capacity) ==
    /\ \A r \in DOMAIN n : Used + Growth(r, n[r]) <= capacity
    /\ SumFunction([r \in Rows |->
                       RoomFor(work[r].held + IF r \in DOMAIN n THEN n[r] ELSE 0)]) <= capacity

Occupants == { r \in Batch : work[r].admitted /\ ~work[r].failure }
Promised == SumFunction([r \in Occupants |-> Cost(r, Expected(r))])

\* Reserving for every occupant and then for r; a solitary row needs room for
\* one token only, and idle buffers are released for it.  (The mutant of
\* FitsAlone wants room for all that is expected.)
FitsBeside(r) == Promised + Cost(r, Expected(r)) <= Available
FitsAloneInFull(r) == Occupants = {} /\ Cost(r, Expected(r)) <= Capacity - Used
FitsAlone(r) == Occupants = {} /\ Cost(r, 1) <= Capacity - Used

can_admit(r) ==
    work[r].admitted \/ (~work[r].failure /\ (FitsBeside(r) \/ FitsAlone(r)))

\* Mutant: a row that cannot fit waits.
RefusedNever(r) == FALSE

\* can_admit() gives up on r: no admitted row can free memory for it.
Refused(r) == ~can_admit(r) /\ ~work[r].failure /\ Occupants = {}

\* can_admit() releases idle buffers and caches for r.
Reclaims(r) ==
    /\ ~work[r].admitted /\ ~work[r].failure /\ Occupants = {}
    /\ ~FitsBeside(r) /\ Cost(r, 1) > Available

\* The chunk r's coroutine, or its retraction, asked for.
Proposed(r) == Min({ChunkSize, Uncached(r)})

\* The chunks it may get: prefill_chunk() shrinks one that is not a replay.
Tiles(r) == IF work[r].replay_offset >= 0 THEN {Proposed(r)} ELSE 1..Proposed(r)

(***************************************************************************)
(* Leaving the batch.                                                      *)
(***************************************************************************)
\* release(): what it asks the device to give back depends on the row.
Released(w) ==
    [NewWork EXCEPT !.at = "done",
                    !.held = IF w.active \/ ~w.failure THEN 0 ELSE w.held]

Without(s, r) == Filter(s, Rows \ {r})

\* An idle batch forgets the ratio.
RatioAfter(left) == IF left = {} THEN Initial ELSE ratio

Leave(r) ==
    /\ work' = [work EXCEPT ![r] = Released(@)]
    /\ active' = Without(active, r)
    /\ ratio' = RatioAfter(Batch \ {r})

\* The executor completes the rows in gone, which leave one after the other; w is
\* the work they leave.
Complete(w, gone) ==
    /\ work' = [r \in Rows |-> IF r \in gone THEN Released(w[r]) ELSE w[r]]
    /\ active' = Filter(active, Rows \ gone)
    /\ ratio' = RatioAfter(Batch \ gone)
    /\ todo' = { r \in cancelled \ gone : work[r].at # "done" }

\* recover(): every row fails and the device drops them all.
Recovered(w) ==
    [w EXCEPT !.failure = TRUE, !.prefill = FALSE, !.decode = FALSE,
              !.active = FALSE, !.held = 0]

\* recover(), and the rows in gone leave.
Recover(gone) ==
    /\ work' = [r \in Rows |->
                   IF r \in Batch
                   THEN IF r \in gone THEN Released(Recovered(work[r])) ELSE Recovered(work[r])
                   ELSE IF r \in gone THEN [work[r] EXCEPT !.at = "done"] ELSE work[r]]
    /\ active' = <<>>

(***************************************************************************)
(* ContinuousBatch::step, up to the operation it decides on.               *)
(***************************************************************************)
\* The first listed row with a chunk to prefill that may be admitted.
FirstAdmitted(list) ==
    { i \in DOMAIN list :
        /\ list[i] \in Batch /\ work[list[i]].prefill /\ can_admit(list[i])
        /\ \A j \in 1..(i - 1) :
              ~(list[j] \in Batch /\ work[list[j]].prefill /\ can_admit(list[j])) }

\* The rows with a chunk that can_admit() was asked about.
Examined(list) ==
    { list[i] : i \in { k \in DOMAIN list :
        /\ list[k] \in Batch /\ work[list[k]].prefill
        /\ \A f \in FirstAdmitted(list) : k <= f } }

RunDecode(list) ==
    /\ \A r \in Active : r \in ToSet(list) => work[r].decode
    /\ Eligible(ToSet(list)) # {}
    /\ FirstAdmitted(list) = {} \/ decode_next

\* step() is called; a row that is neither listed nor cancelled is stalled.
Call(list) ==
    /\ stage = "idle" /\ eligible' = list
    /\ stalls' = stalls + (IF Live \ cancelled \subseteq ToSet(list) THEN 0 ELSE 1)
    /\ stalls' <= MaxStalls

Begin(list, decide) ==
    /\ Call(list)
    /\ idle' = IF \E r \in Examined(list) : Reclaims(r) THEN 0 ELSE idle
    /\ work' = [r \in Rows |->
                   IF r \in Examined(list) /\ Refused(r)
                   THEN [work[r] EXCEPT !.failure = TRUE, !.prefill = FALSE]
                   ELSE IF decide = "pack" /\ \E f \in FirstAdmitted(list) : r = list[f]
                   THEN [work[r] EXCEPT !.admitted = TRUE]
                   ELSE work[r]]
    /\ UNCHANGED << active, ratio, cancelled, faults >>

\* The executor resumes the listed and the cancelled rows that are not done.
ToResume(listed) == { r \in listed \cup cancelled : work[r].at # "done" }

BeginDecode(list) ==
    /\ Begin(list, "decode") /\ RunDecode(list)
    /\ stage' = "decode"
    /\ UNCHANGED << decode_next, items, todo >>

BeginPrefill(list) ==
    /\ Begin(list, "pack") /\ ~RunDecode(list)
    /\ \E f \in FirstAdmitted(list) : \E n \in Tiles(list[f]) :
          items' = << [row |-> list[f], count |-> n] >>
    /\ stage' = "pack"
    /\ UNCHANGED << decode_next, todo >>

BeginNothing(list) ==
    /\ Begin(list, "nothing") /\ ~RunDecode(list) /\ FirstAdmitted(list) = {}
    /\ stage' = "resume" /\ decode_next' = ~decode_next
    /\ todo' = ToResume(ToSet(list))
    /\ UNCHANGED items

\* can_admit() throws, which nothing in step() catches: no recover().  The executor
\* completes the listed rows (every row if the backend is to blame).
BeginThrows(list) ==
    /\ Call(list) /\ \E r \in Examined(list) : ~work[r].admitted /\ ~work[r].failure
    /\ faults < MaxFaults /\ faults' = faults + 1
    /\ \E gone \in { ToSet(list), Rows } : Complete(work, gone)
    /\ idle' \in {idle, 0} /\ stage' = "resume"
    /\ UNCHANGED << decode_next, items, cancelled >>

EndStep(toggle) ==
    /\ stage' = "resume"
    /\ decode_next' = (decode_next # toggle)
    /\ items' = <<>> /\ todo' = ToResume(Listed)
    /\ UNCHANGED << eligible, cancelled, stalls >>

(***************************************************************************)
(* Decode, and retraction when there is no room to grow.                   *)
(***************************************************************************)
Needed == SumFunction([r \in Eligible(Listed) |-> Growth(r, 1)])
HasCapacity == Needed = 0 \/ Needed <= Available

\* A row whose retraction threw half-way: on the active list, without a cache.
Stripped(r) == work[r].active /\ work[r].held = 0

\* step() has decided to decode rows that all have a cache.
Decoding == stage = "decode" /\ \A r \in Eligible(Listed) : ~Stripped(r)

Retractable ==
    IF Len(active) <= 1 THEN {}
    ELSE { r \in Active : /\ work[r].decode
                          /\ r \in Listed => Cardinality(Eligible(Listed)) > 1 }

\* retraction_order: a sorts before b.
SortsBefore(a, b) ==
    \/ work[a].produced < work[b].produced
    \/ work[a].produced = work[b].produced /\ Prompt(a) > Prompt(b)
    \/ /\ work[a].produced = work[b].produced /\ Prompt(a) = Prompt(b)
       /\ \E i, j \in DOMAIN active : i < j /\ active[i] = a /\ active[j] = b

NextRetracted(r) ==
    r \in Retractable /\ \A t \in Retractable \ {r} : SortsBefore(r, t)

\* Mutant: the row keeps its active flag.
RetractedActive(w) ==
    [w EXCEPT !.admitted = FALSE, !.replay_offset = 0,
              !.cache_length = 0, !.prefill = TRUE, !.held = 0]

\* A retracted row waits for its decode behind the replay of its cache.
Retracted(w) ==
    [w EXCEPT !.active = FALSE, !.admitted = FALSE, !.replay_offset = 0,
              !.cache_length = 0, !.prefill = TRUE, !.held = 0]

\* Mutant: the ratio is not capped.
AfterRetractionUncapped(left) == 1 + Scale

\* NewTokenRatioTracker::after_retraction
AfterRetraction(left) ==
    Min({Scale, CeilDiv(Scale * (SumFunction([r \in left |-> work[r].produced])
                                   + RetractSteps * Cardinality(left)),
                        1 + SumFunction([r \in left |-> Limit(r)]))})

retract_one(r) ==
    /\ NextRetracted(r)
    /\ work' = [work EXCEPT ![r] = Retracted(@)]
    /\ active' = Without(active, r)
    /\ ratio' = AfterRetraction(Active \ {r})
    /\ idle' = 0

Retract ==
    /\ Decoding /\ ~HasCapacity
    /\ \E r \in Rows : retract_one(r)
    /\ UNCHANGED << decode_next, stage, eligible, items, todo, cancelled, stalls, faults >>

Decoded(w) ==
    [w EXCEPT !.result = TRUE, !.decode = FALSE, !.held = @ + 1, !.cache_length = @ + 1]

\* A decode that captures a graph keeps its workspace.
Decode ==
    LET rows == Eligible(Listed) IN
    /\ Decoding /\ (HasCapacity \/ Retractable = {})
    /\ RoomToGrow([r \in rows |-> 1], Capacity)
    /\ work' = [r \in Rows |-> IF r \in rows THEN Decoded(work[r]) ELSE work[r]]
    /\ ratio' = Max({Minimum, ratio - 1})
    /\ idle' \in (IF HasCapacity THEN {idle} ELSE {0})
                   \cup { k \in {Workspace} : RoomToGrow([r \in rows |-> 1], Capacity - k) }
    /\ EndStep(TRUE)
    /\ UNCHANGED << active, faults >>

\* The newest eligible row, which gives way when nothing can be retracted.
Victim(r) ==
    /\ r \in Eligible(Listed)
    /\ \E i \in DOMAIN active :
          active[i] = r /\ \A j \in DOMAIN active : j > i => active[j] \notin Eligible(Listed)

Fail(r) ==
    /\ work' = [work EXCEPT ![r].failure = TRUE, ![r].decode = FALSE,
                            ![r].active = FALSE, ![r].held = 0]
    /\ active' = Without(active, r)
    /\ UNCHANGED << ratio, idle >>

\* decode() throws InferenceInputError: no room for a row, or for its workspace.
DecodeOutOfMemory ==
    /\ Decoding /\ (HasCapacity \/ Retractable = {})
    /\ faults' = faults + (IF HasCapacity THEN 1 ELSE 0) /\ faults' <= MaxFaults
    /\ \E r \in Rows :
          \/ retract_one(r)
          \/ Retractable = {} /\ Victim(r) /\ Fail(r)
    /\ EndStep(FALSE)

\* retract_one() throws in the handler of that error, before or after it has dropped
\* the row's cache: no recover(), and the row is still active.
RetractThrows ==
    /\ Decoding /\ HasCapacity
    /\ faults < MaxFaults /\ faults' = faults + 1
    /\ \E r \in Rows : \E gone \in { Listed, Rows }, held \in {work[r].held, 0} :
          NextRetracted(r) /\ Complete([work EXCEPT ![r].held = held], gone)
    /\ idle' \in {idle, 0} /\ stage' = "resume"
    /\ UNCHANGED << decode_next, eligible, items, cancelled, stalls >>

\* decode_has_capacity() reads the cache of a row that has none: undefined, and
\* here the end of the process and of every request in it.
DecodeDies ==
    /\ stage = "decode" /\ ~Decoding
    /\ work' = [r \in Rows |-> Released(work[r])]
    /\ active' = <<>> /\ ratio' = Initial /\ idle' = 0
    /\ stage' = "idle" /\ eligible' = <<>>
    /\ UNCHANGED << decode_next, items, todo, cancelled, stalls, faults >>

(***************************************************************************)
(* Prefill: packing further rows, then one device operation.               *)
(***************************************************************************)
ItemRows == { items[i].row : i \in DOMAIN items }
CountOf(r) == items[CHOOSE i \in DOMAIN items : items[i].row = r].count
ItemTokens(S) == SumFunction([r \in S |-> CountOf(r)])
Replaying == work[items[1].row].replay_offset >= 0

Packable(r) ==
    /\ r \in Batch /\ work[r].prefill /\ r \notin ItemRows
    /\ ~Replaying /\ work[r].replay_offset < 0
    /\ Len(items) < PackLimit
    /\ Proposed(r) <= TokenBudget - ItemTokens(ItemRows)
    /\ can_admit(r)

Pack ==
    /\ stage = "pack"
    /\ \E i \in DOMAIN eligible :
          /\ Packable(eligible[i])
          /\ \A j \in 1..(i - 1) : ~Packable(eligible[j])
          /\ \E n \in Tiles(eligible[i]) :
                items' = Append(items, [row |-> eligible[i], count |-> n])
          /\ work' = [work EXCEPT ![eligible[i]].admitted = TRUE]
    /\ UNCHANGED << active, decode_next, ratio, idle, stage, eligible, todo, cancelled, stalls, faults >>

Packed == stage = "pack" /\ \A r \in Listed : ~Packable(r)

\* Mutant: the replay does not restore cache_length.
ReplayedStale(r, w) ==
    LET end == w.replay_offset + CountOf(r) IN
    IF end = ReplayLength(r)
    THEN [w EXCEPT !.replay_offset = -1, !.held = @ + CountOf(r),
                   !.active = TRUE, !.prefill = FALSE]
    ELSE [w EXCEPT !.replay_offset = end, !.held = @ + CountOf(r)]

\* The row's chunk is in the cache; the last one makes the row active.
Replayed(r, w) ==
    LET end == w.replay_offset + CountOf(r) IN
    IF end = ReplayLength(r)
    THEN [w EXCEPT !.replay_offset = -1, !.cache_length = end, !.held = @ + CountOf(r),
                   !.active = TRUE, !.prefill = FALSE]
    ELSE [w EXCEPT !.replay_offset = end, !.cache_length = end, !.held = @ + CountOf(r)]
Prefilled(r, w) ==
    LET end == w.prefill_offset + CountOf(r) IN
    [w EXCEPT !.prefill_offset = end, !.held = @ + CountOf(r), !.prefill = FALSE,
              !.result = TRUE, !.active = (end = Prompt(r)),
              !.cache_length = IF end = Prompt(r) THEN end ELSE @]
Advanced(r) == IF Replaying THEN Replayed(r, work[r]) ELSE Prefilled(r, work[r])

\* Mutant: the memory is not discarded.
DiscardedKeepsMemory(w) == [w EXCEPT !.failure = TRUE, !.prefill = FALSE, !.decode = FALSE]

\* The row fails and its memory is discarded.
Discarded(w) ==
    [w EXCEPT !.failure = TRUE, !.prefill = FALSE, !.decode = FALSE, !.held = 0]

\* A row that recover() has stripped may still ask for a chunk: its cache is
\* not where the chunk begins, and the device refuses.
Lost(r) == work[r].replay_offset < 0 /\ work[r].held # work[r].prefill_offset

\* What the caches of the rows in S allocate for their chunks.
Allocated(S) == SumFunction([r \in S |-> Growth(r, CountOf(r))])

\* Any other failure costs a fault unless there is no memory for the prefill.
PrefillFault ==
    /\ faults' = faults + (IF Packed /\ (\/ Used + Allocated(ItemRows) > Capacity
                                         \/ \E r \in ItemRows : Lost(r))
                           THEN 0 ELSE 1)
    /\ faults' <= MaxFaults

\* The operation returns; the rows in bad of a packed prefill have failed.
Prefill ==
    /\ Packed
    /\ \E bad \in SUBSET ItemRows :
          /\ \A r \in ItemRows \ bad : ~Lost(r)
          /\ RoomToGrow([r \in ItemRows \ bad |-> CountOf(r)], Capacity)
          /\ bad # {} => Len(items) > 1
          /\ IF bad = {} THEN UNCHANGED faults ELSE PrefillFault
          /\ work' = [r \in Rows |-> IF r \in bad THEN Discarded(work[r])
                                     ELSE IF r \in ItemRows THEN Advanced(r) ELSE work[r]]
          /\ active' = active \o Filter([i \in DOMAIN items |-> items[i].row],
                                        { r \in ItemRows \ bad : Advanced(r).active })
          /\ idle' = IF Allocated(ItemRows \ bad) > Available THEN 0 ELSE idle
    /\ EndStep(TRUE)
    /\ UNCHANGED ratio

\* The operation throws, or can_admit() while rows are packed: all its rows fail,
\* established rows stay.
PrefillThrows ==
    /\ stage = "pack" /\ PrefillFault
    /\ work' = [r \in Rows |-> IF r \in ItemRows THEN Discarded(work[r]) ELSE work[r]]
    /\ EndStep(FALSE)
    /\ UNCHANGED << active, ratio, idle >>

\* Anything else that throws: step() recovers and rethrows, and the executor
\* completes the listed rows (every row if the backend is to blame).
StepThrows ==
    /\ Decoding \/ stage = "pack"
    /\ faults < MaxFaults /\ faults' = faults + 1
    /\ \E gone \in { Listed, Rows } :
          /\ Recover({ r \in gone : work[r].at # "done" })
          /\ ratio' = RatioAfter(Batch \ gone)
          /\ todo' = { r \in cancelled \ gone : work[r].at # "done" }
    /\ stage' = "resume" /\ items' = <<>> /\ idle' = 0
    /\ UNCHANGED << decode_next, eligible, cancelled, stalls >>

(***************************************************************************)
(* The coroutines, one resumption each.                                    *)
(***************************************************************************)
Resuming(r) == stage = "resume" /\ r \in todo /\ todo' = todo \ {r}
                /\ UNCHANGED << decode_next, stage, eligible, items, cancelled, stalls >>

\* generate() up to its first schedule_prefill().
Generate(r) ==
    /\ Resuming(r) /\ work[r].at = "accepted" /\ r \notin cancelled
    /\ work' = [work EXCEPT ![r].at = "prefill", ![r].prefill = TRUE]
    /\ UNCHANGED << active, ratio, idle, faults >>

\* A chunk is done: the coroutine reports its progress.
ReportProgress(r) ==
    /\ Resuming(r) /\ work[r].at = "prefill" /\ r \notin cancelled
    /\ work[r].result /\ ~work[r].failure
    /\ work' = [work EXCEPT ![r].at = "progress"]
    /\ UNCHANGED << active, ratio, idle, faults >>

\* The next chunk.  A row that has failed meanwhile finds out when it waits.
SchedulePrefill(r) ==
    /\ Resuming(r) /\ work[r].at = "progress" /\ r \notin cancelled
    /\ work[r].prefill_offset < Prompt(r)
    /\ work' = [work EXCEPT ![r].at = "prefill", ![r].result = FALSE, ![r].prefill = TRUE]
    /\ UNCHANGED << active, ratio, idle, faults >>

HasToken(r) ==
    /\ ~work[r].failure
    /\ \/ work[r].at = "progress" /\ work[r].prefill_offset = Prompt(r)
       \/ work[r].at = "decode" /\ work[r].result

\* accept() and, unless the output is complete, schedule_decode().
AcceptToken(r) ==
    /\ Resuming(r) /\ HasToken(r) /\ r \notin cancelled
    /\ \E last \in BOOLEAN :
          /\ work[r].produced + 1 = Limit(r) => last
          /\ work' = [work EXCEPT ![r].produced = @ + 1,
                                  ![r].at = IF last THEN "last" ELSE "decode",
                                  ![r].result = last, ![r].decode = ~last]
    /\ UNCHANGED << active, ratio, idle, faults >>

\* Nothing for this row yet.
Wait(r) ==
    /\ Resuming(r) /\ work[r].at \in {"prefill", "decode"} /\ r \notin cancelled
    /\ ~work[r].result /\ ~work[r].failure
    /\ UNCHANGED << work, active, ratio, idle, faults >>

\* The coroutine ends: complete, cancelled or by the row's failure.
Ends(r) ==
    \/ r \in cancelled
    \/ work[r].at = "last"
    \/ work[r].failure /\ (work[r].at # "progress" \/ work[r].prefill_offset = Prompt(r))

Finish(r) ==
    /\ Resuming(r) /\ Ends(r)
    /\ IF r \in Batch THEN Leave(r)
       ELSE work' = [work EXCEPT ![r].at = "done"] /\ UNCHANGED << active, ratio >>
    /\ UNCHANGED << idle, faults >>

\* The device throws while release() gives a row back.
FinishThrows(r) ==
    /\ Resuming(r) /\ Ends(r) /\ r \in Batch
    /\ work[r].active \/ ~work[r].failure
    /\ faults < MaxFaults /\ faults' = faults + 1
    /\ Recover({r})
    /\ idle' = 0
    /\ UNCHANGED ratio

EndResume ==
    /\ stage = "resume" /\ todo = {}
    /\ stage' = "idle" /\ eligible' = <<>>
    /\ UNCHANGED << work, active, decode_next, ratio, idle, items, todo, cancelled, stalls, faults >>

Cancel(r) ==
    /\ stage = "idle" /\ r \in Cancellable \ cancelled /\ work[r].at # "done"
    /\ cancelled' = cancelled \cup {r}
    /\ UNCHANGED << work, active, decode_next, ratio, idle, stage, eligible, items, todo, stalls, faults >>

(***************************************************************************)
(* The specification.                                                      *)
(***************************************************************************)
\* The scheduler lists the rows that have room for their events, in turn, and
\* never one that it has cancelled.
BeginStep ==
    /\ Live # {}
    /\ \E list \in SetToAllKPermutations(Live \ cancelled) :
          BeginDecode(list) \/ BeginPrefill(list) \/ BeginNothing(list) \/ BeginThrows(list)

Operate ==
    \/ Retract \/ Decode \/ DecodeOutOfMemory \/ RetractThrows \/ DecodeDies
    \/ Pack \/ Prefill \/ PrefillThrows \/ StepThrows

Resume(r) ==
    \/ Generate(r) \/ ReportProgress(r) \/ SchedulePrefill(r) \/ AcceptToken(r)
    \/ Wait(r) \/ Finish(r) \/ FinishThrows(r)

\* What the scheduler's thread does.
Step ==
    /\ BeginStep \/ Operate \/ (\E r \in Rows : Resume(r)) \/ EndResume
    /\ UNCHANGED load

Next == Step \/ \E r \in Rows : Cancel(r) /\ UNCHANGED load

Spec == Init /\ [][Next]_vars

\* The scheduler keeps stepping as long as there is a request.
FairSpec == Spec /\ WF_vars(Step)

(***************************************************************************)
(* Properties.                                                             *)
(***************************************************************************)
Row ==
    [at : Places, prefill : BOOLEAN, decode : BOOLEAN, active : BOOLEAN,
     admitted : BOOLEAN, failure : BOOLEAN, result : BOOLEAN,
     prefill_offset : Nat, replay_offset : Nat \cup {-1}, cache_length : Nat,
     produced : Nat, held : Nat]

TypeOK ==
    /\ load \in Loads
    /\ work \in [Rows -> Row]
    /\ active \in Seq(Rows) /\ decode_next \in BOOLEAN
    /\ ratio \in 1..Scale /\ idle \in Nat
    /\ stage \in {"idle", "decode", "pack", "resume"}
    /\ eligible \in Seq(Rows)
    /\ items \in Seq([row : Rows, count : Nat \ {0}])
    /\ todo \subseteq Rows /\ cancelled \subseteq Rows
    /\ stalls \in 0..MaxStalls /\ faults \in 0..MaxFaults

\* continuous_batch.h:134-164, 385-387, 419-444: no memory is lost; whichever way a row
\* failed or left, only a row that is still being served holds cache.
HeldByOccupants == \A r \in Rows : work[r].held > 0 => r \in Occupants

\* continuous_batch.h:294-300, 369-392, cuda_batching.cpp:389, 587: the device's cache of
\* a row is as long as the batch believes, through chunks, decodes, retraction and
\* replay: the "position mismatch" checks hold.  Only a retraction that threw half-way
\* (414) leaves an active row without its cache.
PositionsMatch ==
    \A r \in Occupants :
        /\ work[r].active => Stripped(r) \/ work[r].held = work[r].cache_length
        /\ work[r].active /\ work[r].decode =>
              Stripped(r) \/ work[r].held = ReplayLength(r)
        /\ ~work[r].active =>
              work[r].held = IF work[r].replay_offset >= 0 THEN work[r].replay_offset
                             ELSE work[r].prefill_offset

\* continuous_batch.h:112-118, 253-276, 373-401: every row that waits is served in one way
\* and in one only, a decode on the active list, a prefill or a replay off it.
WaitersServed ==
    \A r \in Batch :
        /\ work[r].active <=> r \in Active
        /\ ~work[r].failure /\ work[r].at \in {"prefill", "decode"} /\ ~work[r].result =>
              (work[r].active /\ work[r].decode) # work[r].prefill

\* What a row has to cache before it can produce its next token.
Wanted(r) == IF work[r].replay_offset >= 0 THEN ReplayLength(r) ELSE Prompt(r)

\* continuous_batch.h:78-97, "No admitted row can free memory for this request": a row
\* is turned away only if the device, empty and with its idle buffers released, has no
\* room for its prompt, or for what a retracted row has to replay, and one token.
RefusedOnlyIfTooLarge ==
    [][\A r \in Rows :
          stage = "idle" /\ work'[r].failure /\ ~work[r].failure
             => RoomFor(Wanted(r) + 1) > Capacity]_vars

\* continuous_batch.h:103-125, 252-405: rows retract each other and replay, wait for memory,
\* fail and are cancelled, but every request ends.
RowsEnd == \A r \in Rows : <>(work[r].at = "done")

(***************************************************************************)
(* The inductive invariant behind the safety properties: where a row's     *)
(* coroutine is determines its flags and how much of it is in the cache.   *)
(* w is its Work and p the length of its prompt.                           *)
(***************************************************************************)
\* A row that is not yet, or no longer, in the batch.
RestingInv(w) ==
    /\ ~w.prefill /\ ~w.decode /\ ~w.active /\ ~w.admitted /\ ~w.failure /\ ~w.result
    /\ w.prefill_offset = 0 /\ w.replay_offset = -1 /\ w.produced = 0 /\ w.held = 0

\* A row of the batch that failed holds nothing.  One that recover() found between
\* two chunks may ask for the next, which begins where its cache no longer ends.
FailedInv(w, p) ==
    /\ ~w.active /\ w.held = 0
    /\ w.at = "progress" =>
          ~w.prefill /\ w.replay_offset < 0 /\ w.prefill_offset \in 1..p
    /\ w.prefill =>
          w.at = "prefill" /\ w.replay_offset < 0 /\ w.prefill_offset \in 1..(p - 1)

\* A row that is still to produce its first token.
PrefillingInv(w, p) ==
    /\ w.replay_offset = -1 /\ w.produced = 0 /\ ~w.decode
    /\ w.prefill_offset <= p /\ w.held = w.prefill_offset
    /\ w.active <=> w.prefill_offset = p
    /\ w.active => w.cache_length = w.held
    /\ w.result => w.prefill_offset > 0 /\ w.admitted
    /\ ~w.result => w.prefill_offset < p /\ w.at = "prefill"
    /\ w.prefill <=> ~w.result

\* A row that has produced a token: active, or replaying the cache it had.  A row
\* that waits for its decode may have been stripped of it.
DecodingInv(w, p) ==
    /\ w.produced > 0 /\ (w.decode <=> ~w.result)
    /\ w.at = "last" => w.result
    /\ w.replay_offset >= 0 =>
          /\ ~w.active /\ w.prefill /\ ~w.result
          /\ w.held = w.replay_offset /\ w.replay_offset < p + w.produced - 1
    /\ w.replay_offset < 0 =>
          /\ w.active /\ ~w.prefill /\ w.admitted
          /\ w.cache_length = (p + w.produced - 1) + IF w.at = "decode" /\ w.result THEN 1 ELSE 0
          /\ w.held = w.cache_length \/ (w.held = 0 /\ w.decode)

RowInv(w, p) ==
    /\ w.at \in {"accepted", "done"} => RestingInv(w)
    /\ ~w.admitted => w.held = 0
    /\ w.failure => FailedInv(w, p)
    /\ ~w.failure /\ w.at \in {"prefill", "progress"} => PrefillingInv(w, p)
    /\ ~w.failure /\ w.at \in {"decode", "last"} => DecodingInv(w, p)

\* state.active lists the rows with the flag, each once.
ActiveInv ==
    /\ \A r \in Rows : work[r].active <=> r \in Active
    /\ \A i, j \in DOMAIN active : active[i] = active[j] => i = j

\* The rows of a packed prefill: each once, admitted, and with at most the chunk
\* it asked for.  A replay is never packed.
ItemsInv ==
    /\ stage = "pack" <=> items # <<>>
    /\ \A i, j \in DOMAIN items : items[i].row = items[j].row => i = j
    /\ \A i \in DOMAIN items :
          /\ items[i].row \in Batch
          /\ work[items[i].row].prefill /\ work[items[i].row].admitted
          /\ items[i].count <= Uncached(items[i].row)
          /\ work[items[i].row].replay_offset >= 0 => Len(items) = 1

\* The inductive invariant of the batch.
BatchInv ==
    /\ TypeOK
    /\ \A r \in Rows : RowInv(work[r], Prompt(r))
    /\ ActiveInv /\ ItemsInv
=============================================================================
