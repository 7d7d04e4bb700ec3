------------------------ MODULE ContinuousBatchProofs ------------------------
(***************************************************************************)
(* The safety properties of ContinuousBatch, for any set of rows and any   *)
(* size of the device, from the inductive invariant BatchInv.              *)
(***************************************************************************)
EXTENDS ContinuousBatch, DataLemmas

(***************************************************************************)
(* One row: every way a Work is changed keeps RowInv.                      *)
(***************************************************************************)
InBatch(w) == w.at \notin {"accepted", "done"}

LEMMA NewWorkKeeps ==
    ASSUME NEW p \in Nat \ {0}
    PROVE  NewWork \in Row /\ RowInv(NewWork, p)
  BY DEF NewWork, Row, RowInv, RestingInv, Places

\* release()
LEMMA ReleasedKeeps ==
    ASSUME NEW p \in Nat \ {0}, NEW w \in Row, RowInv(w, p)
    PROVE  /\ Released(w) \in Row /\ RowInv(Released(w), p)
           /\ Released(w).held = 0 /\ ~Released(w).active /\ ~InBatch(Released(w))
<1>1. (IF w.active \/ ~w.failure THEN 0 ELSE w.held) = 0
  BY DEF RowInv, FailedInv
<1>2. Released(w) = [NewWork EXCEPT !.at = "done", !.held = 0]
  BY <1>1 DEF Released
<1>3. [NewWork EXCEPT !.at = "done", !.held = 0] \in Row
  BY DEF NewWork, Row, Places
<1> QED BY <1>2, <1>3 DEF RowInv, RestingInv, NewWork, InBatch

\* The end of a row that never joined the batch, or has left it.
LEMMA EndedKeeps ==
    ASSUME NEW p \in Nat \ {0}, NEW w \in Row, RowInv(w, p), ~InBatch(w)
    PROVE  LET d == [w EXCEPT !.at = "done"]
           IN  d \in Row /\ RowInv(d, p) /\ d.held = 0 /\ ~d.active /\ ~InBatch(d)
  BY DEF RowInv, RestingInv, Row, Places, InBatch

\* recover()
LEMMA RecoveredKeeps ==
    ASSUME NEW p \in Nat \ {0}, NEW w \in Row, RowInv(w, p), InBatch(w)
    PROVE  LET d == Recovered(w)
           IN  d \in Row /\ RowInv(d, p) /\ d.held = 0 /\ ~d.active /\ d.at = w.at
<1> DEFINE d == Recovered(w)
<1>1. d \in Row
  BY DEF Row, Places, Recovered
<1>2. /\ d.at = w.at /\ ~d.prefill /\ ~d.decode /\ ~d.active
      /\ (d.admitted <=> w.admitted) /\ d.failure /\ (d.result <=> w.result) /\ d.prefill_offset = w.prefill_offset
      /\ d.replay_offset = w.replay_offset /\ d.cache_length = w.cache_length /\ d.produced = w.produced /\ d.held = 0
  BY DEF Row, Recovered
<1> HIDE DEF d
<1>3. RowInv(d, p)
  BY <1>1, <1>2 DEF Row, Places, RowInv, RestingInv, FailedInv, PrefillingInv, DecodingInv, InBatch
<1>4. d.held = 0 /\ ~d.active /\ d.at = w.at
  BY <1>2 DEF RowInv, RestingInv, FailedInv, PrefillingInv, DecodingInv, InBatch
<1> QED BY <1>1, <1>3, <1>4 DEF d

\* can_admit() turns the row away.
LEMMA RefusedKeeps ==
    ASSUME NEW p \in Nat \ {0}, NEW w \in Row, RowInv(w, p), InBatch(w),
           w.prefill, ~w.admitted, ~w.failure
    PROVE  LET d == [w EXCEPT !.failure = TRUE, !.prefill = FALSE]
           IN  d \in Row /\ RowInv(d, p) /\ d.held = w.held /\ (d.active <=> w.active)
<1> DEFINE d == [w EXCEPT !.failure = TRUE, !.prefill = FALSE]
<1>1. d \in Row
  BY DEF Row, Places
<1>2. /\ d.at = w.at /\ ~d.prefill /\ (d.decode <=> w.decode) /\ (d.active <=> w.active)
      /\ (d.admitted <=> w.admitted) /\ d.failure /\ (d.result <=> w.result) /\ d.prefill_offset = w.prefill_offset
      /\ d.replay_offset = w.replay_offset /\ d.cache_length = w.cache_length /\ d.produced = w.produced /\ d.held = w.held
  BY DEF Row
<1> HIDE DEF d
<1>3. RowInv(d, p)
  BY <1>1, <1>2 DEF Row, Places, RowInv, RestingInv, FailedInv, PrefillingInv, DecodingInv, InBatch
<1>4. d.held = w.held /\ (d.active <=> w.active)
  BY <1>2 DEF RowInv, RestingInv, FailedInv, PrefillingInv, DecodingInv, InBatch
<1> QED BY <1>1, <1>3, <1>4 DEF d

LEMMA AdmittedKeeps ==
    ASSUME NEW p \in Nat \ {0}, NEW w \in Row, RowInv(w, p), InBatch(w)
    PROVE  LET d == [w EXCEPT !.admitted = TRUE]
           IN  d \in Row /\ RowInv(d, p) /\ d.held = w.held /\ (d.active <=> w.active)
  BY DEF Row, RowInv, FailedInv, PrefillingInv, DecodingInv, InBatch, Places

\* retract_one()
LEMMA RetractedKeeps ==
    ASSUME NEW p \in Nat \ {0}, NEW w \in Row, RowInv(w, p), w.active, w.decode
    PROVE  LET d == Retracted(w)
           IN  d \in Row /\ RowInv(d, p) /\ d.held = 0 /\ ~d.active
<1> DEFINE d == Retracted(w)
<1>1. d \in Row
  BY DEF Row, Places, Retracted
<1>2. /\ d.at = w.at /\ d.prefill /\ (d.decode <=> w.decode) /\ ~d.active
      /\ ~d.admitted /\ (d.failure <=> w.failure) /\ (d.result <=> w.result) /\ d.prefill_offset = w.prefill_offset
      /\ d.replay_offset = 0 /\ d.cache_length = 0 /\ d.produced = w.produced /\ d.held = 0
  BY DEF Row, Retracted
<1> HIDE DEF d
<1>3. RowInv(d, p)
  BY <1>1, <1>2 DEF Row, Places, RowInv, RestingInv, FailedInv, PrefillingInv, DecodingInv, InBatch
<1>4. d.held = 0 /\ ~d.active
  BY <1>2 DEF RowInv, RestingInv, FailedInv, PrefillingInv, DecodingInv, InBatch
<1> QED BY <1>1, <1>3, <1>4 DEF d

\* retract_one() throws.
LEMMA StrippedKeeps ==
    ASSUME NEW p \in Nat \ {0}, NEW w \in Row, RowInv(w, p), w.active, w.decode,
           NEW h \in {w.held, 0}
    PROVE  LET d == [w EXCEPT !.held = h]
           IN  d \in Row /\ RowInv(d, p) /\ (d.active <=> w.active)
<1> DEFINE d == [w EXCEPT !.held = h]
<1>0. h \in Nat
  BY DEF Row
<1>1. d \in Row
  BY <1>0 DEF Row, Places
<1>2. /\ d.at = w.at /\ (d.prefill <=> w.prefill) /\ (d.decode <=> w.decode) /\ (d.active <=> w.active)
      /\ (d.admitted <=> w.admitted) /\ (d.failure <=> w.failure) /\ (d.result <=> w.result) /\ d.prefill_offset = w.prefill_offset
      /\ d.replay_offset = w.replay_offset /\ d.cache_length = w.cache_length /\ d.produced = w.produced /\ d.held = h
  BY DEF Row
<1> HIDE DEF d
<1>3. RowInv(d, p)
  BY <1>1, <1>2 DEF Row, Places, RowInv, RestingInv, FailedInv, PrefillingInv, DecodingInv, InBatch
<1> QED BY <1>1, <1>2, <1>3 DEF d

LEMMA DecodedKeeps ==
    ASSUME NEW p \in Nat \ {0}, NEW w \in Row, RowInv(w, p), w.active, w.decode, w.held # 0
    PROVE  LET d == Decoded(w)
           IN  d \in Row /\ RowInv(d, p) /\ d.held = w.held + 1 /\ d.active
<1> DEFINE d == Decoded(w)
<1>0. w.held + 1 \in Nat /\ w.cache_length + 1 \in Nat
  BY DEF Row
<1>1. d \in Row
  BY <1>0 DEF Row, Decoded
<1>2. /\ d.at = w.at /\ (d.prefill <=> w.prefill) /\ ~d.decode /\ (d.active <=> w.active)
      /\ (d.admitted <=> w.admitted) /\ (d.failure <=> w.failure) /\ d.result /\ d.prefill_offset = w.prefill_offset
      /\ d.replay_offset = w.replay_offset /\ d.cache_length = w.cache_length + 1 /\ d.produced = w.produced /\ d.held = w.held + 1
  BY DEF Row, Decoded
<1> HIDE DEF d
<1>3. RowInv(d, p)
  BY <1>1, <1>2 DEF Row, Places, RowInv, RestingInv, FailedInv, PrefillingInv, DecodingInv, InBatch
<1>4. d.held = w.held + 1 /\ d.active
  BY <1>2 DEF RowInv, RestingInv, FailedInv, PrefillingInv, DecodingInv, InBatch
<1> QED BY <1>1, <1>3, <1>4 DEF d

LEMMA DiscardedKeeps ==
    ASSUME NEW p \in Nat \ {0}, NEW w \in Row, RowInv(w, p), w.prefill
    PROVE  LET d == Discarded(w)
           IN  d \in Row /\ RowInv(d, p) /\ d.held = 0 /\ ~d.active
<1> DEFINE d == Discarded(w)
<1>1. d \in Row
  BY DEF Row, Places, Discarded
<1>2. /\ d.at = w.at /\ ~d.prefill /\ ~d.decode /\ (d.active <=> w.active)
      /\ (d.admitted <=> w.admitted) /\ d.failure /\ (d.result <=> w.result) /\ d.prefill_offset = w.prefill_offset
      /\ d.replay_offset = w.replay_offset /\ d.cache_length = w.cache_length /\ d.produced = w.produced /\ d.held = 0
  BY DEF Row, Discarded
<1> HIDE DEF d
<1>3. RowInv(d, p)
  BY <1>1, <1>2 DEF Row, Places, RowInv, RestingInv, FailedInv, PrefillingInv, DecodingInv, InBatch
<1>4. d.held = 0 /\ ~d.active
  BY <1>2 DEF Row, Places, RowInv, RestingInv, FailedInv, PrefillingInv, DecodingInv
<1> QED BY <1>1, <1>3, <1>4 DEF d

\* The newest row gives way.
LEMMA FailedKeeps ==
    ASSUME NEW p \in Nat \ {0}, NEW w \in Row, RowInv(w, p), w.active, w.decode
    PROVE  LET d == [w EXCEPT !.failure = TRUE, !.decode = FALSE, !.active = FALSE, !.held = 0]
           IN  d \in Row /\ RowInv(d, p) /\ d.held = 0 /\ ~d.active
<1> DEFINE d == [w EXCEPT !.failure = TRUE, !.decode = FALSE, !.active = FALSE, !.held = 0]
<1>1. d \in Row
  BY DEF Row, Places
<1>2. /\ d.at = w.at /\ (d.prefill <=> w.prefill) /\ ~d.decode
      /\ ~d.active /\ (d.admitted <=> w.admitted) /\ d.failure
      /\ (d.result <=> w.result) /\ d.prefill_offset = w.prefill_offset /\ d.replay_offset = w.replay_offset
      /\ d.cache_length = w.cache_length /\ d.produced = w.produced /\ d.held = 0
  BY DEF Row
<1> HIDE DEF d
<1>3. RowInv(d, p)
  BY <1>1, <1>2 DEF Row, Places, RowInv, RestingInv, FailedInv, PrefillingInv,
     DecodingInv, InBatch
<1>4. d.held = 0 /\ ~d.active
  BY <1>2 DEF Row, Places, RowInv, RestingInv, FailedInv, PrefillingInv, DecodingInv
<1> QED BY <1>1, <1>3, <1>4 DEF d

\* generate() up to its first schedule_prefill().
LEMMA GenerateKeeps ==
    ASSUME NEW p \in Nat \ {0}, NEW w \in Row, RowInv(w, p), w.at = "accepted"
    PROVE  LET d == [w EXCEPT !.at = "prefill", !.prefill = TRUE]
           IN  d \in Row /\ RowInv(d, p) /\ d.held = w.held /\ (d.active <=> w.active)
<1> DEFINE d == [w EXCEPT !.at = "prefill", !.prefill = TRUE]
<1>1. d \in Row
  BY DEF Row, Places
<1>2. /\ d.at = "prefill" /\ d.prefill /\ (d.decode <=> w.decode)
      /\ (d.active <=> w.active) /\ (d.admitted <=> w.admitted) /\ (d.failure <=> w.failure)
      /\ (d.result <=> w.result) /\ d.prefill_offset = w.prefill_offset /\ d.replay_offset = w.replay_offset
      /\ d.cache_length = w.cache_length /\ d.produced = w.produced /\ d.held = w.held
  BY DEF Row
<1> HIDE DEF d
<1>3. RowInv(d, p)
  BY <1>1, <1>2 DEF Row, Places, RowInv, RestingInv, FailedInv, PrefillingInv,
     DecodingInv, InBatch
<1>4. d.held = w.held /\ (d.active <=> w.active)
  BY <1>2 DEF Row, Places, RowInv, RestingInv, FailedInv, PrefillingInv, DecodingInv
<1> QED BY <1>1, <1>3, <1>4 DEF d

\* A chunk is done.
LEMMA ProgressKeeps ==
    ASSUME NEW p \in Nat \ {0}, NEW w \in Row, RowInv(w, p), w.at = "prefill", w.result, ~w.failure
    PROVE  LET d == [w EXCEPT !.at = "progress"]
           IN  d \in Row /\ RowInv(d, p) /\ d.held = w.held /\ (d.active <=> w.active)
<1> DEFINE d == [w EXCEPT !.at = "progress"]
<1>1. d \in Row
  BY DEF Row, Places
<1>2. /\ d.at = "progress" /\ (d.prefill <=> w.prefill) /\ (d.decode <=> w.decode)
      /\ (d.active <=> w.active) /\ (d.admitted <=> w.admitted) /\ (d.failure <=> w.failure)
      /\ (d.result <=> w.result) /\ d.prefill_offset = w.prefill_offset /\ d.replay_offset = w.replay_offset
      /\ d.cache_length = w.cache_length /\ d.produced = w.produced /\ d.held = w.held
  BY DEF Row
<1> HIDE DEF d
<1>3. RowInv(d, p)
  BY <1>1, <1>2 DEF Row, Places, RowInv, RestingInv, FailedInv, PrefillingInv,
     DecodingInv, InBatch
<1>4. d.held = w.held /\ (d.active <=> w.active)
  BY <1>2 DEF Row, Places, RowInv, RestingInv, FailedInv, PrefillingInv, DecodingInv
<1> QED BY <1>1, <1>3, <1>4 DEF d

\* The next chunk.
LEMMA ScheduleKeeps ==
    ASSUME NEW p \in Nat \ {0}, NEW w \in Row, RowInv(w, p),
           w.at = "progress", w.prefill_offset < p
    PROVE  LET d == [w EXCEPT !.at = "prefill", !.result = FALSE, !.prefill = TRUE]
           IN  d \in Row /\ RowInv(d, p) /\ d.held = w.held /\ (d.active <=> w.active)
<1> DEFINE d == [w EXCEPT !.at = "prefill", !.result = FALSE, !.prefill = TRUE]
<1>1. d \in Row
  BY DEF Row, Places
<1>2. /\ d.at = "prefill" /\ d.prefill /\ (d.decode <=> w.decode)
      /\ (d.active <=> w.active) /\ (d.admitted <=> w.admitted) /\ (d.failure <=> w.failure)
      /\ ~d.result /\ d.prefill_offset = w.prefill_offset /\ d.replay_offset = w.replay_offset
      /\ d.cache_length = w.cache_length /\ d.produced = w.produced /\ d.held = w.held
  BY DEF Row
<1> HIDE DEF d
<1>3. RowInv(d, p)
  BY <1>1, <1>2 DEF Row, Places, RowInv, RestingInv, FailedInv, PrefillingInv,
     DecodingInv, InBatch
<1>4. d.held = w.held /\ (d.active <=> w.active)
  BY <1>2 DEF Row, Places, RowInv, RestingInv, FailedInv, PrefillingInv, DecodingInv
<1> QED BY <1>1, <1>3, <1>4 DEF d

\* accept()
LEMMA AcceptKeeps ==
    ASSUME NEW p \in Nat \ {0}, NEW w \in Row, RowInv(w, p),
           NEW last \in BOOLEAN, ~w.failure,
           \/ w.at = "progress" /\ w.prefill_offset = p
           \/ w.at = "decode" /\ w.result
    PROVE  LET d == [w EXCEPT !.produced = @ + 1, !.at = IF last THEN "last" ELSE "decode",
                           !.result = last, !.decode = ~last]
           IN  d \in Row /\ RowInv(d, p) /\ d.held = w.held /\ (d.active <=> w.active)
<1> DEFINE d == [w EXCEPT !.produced = @ + 1, !.at = IF last THEN "last" ELSE "decode",
                           !.result = last, !.decode = ~last]
<1>0. w.produced + 1 \in Nat
  BY DEF Row
<1>1. d \in Row
  BY <1>0 DEF Row, Places
<1>2. /\ d.at = (IF last THEN "last" ELSE "decode") /\ (d.prefill <=> w.prefill) /\ (d.decode <=> ~last)
      /\ (d.active <=> w.active) /\ (d.admitted <=> w.admitted) /\ (d.failure <=> w.failure)
      /\ (d.result <=> last) /\ d.prefill_offset = w.prefill_offset /\ d.replay_offset = w.replay_offset
      /\ d.cache_length = w.cache_length /\ d.produced = w.produced + 1 /\ d.held = w.held
  BY <1>0 DEF Row
<1> HIDE DEF d
<1>3. RowInv(d, p)
  BY <1>0, <1>1, <1>2 DEF Row, Places, RowInv, RestingInv, FailedInv, PrefillingInv,
     DecodingInv, InBatch
<1>4. d.held = w.held /\ (d.active <=> w.active)
  BY <1>2 DEF Row, Places, RowInv, RestingInv, FailedInv, PrefillingInv, DecodingInv
<1> QED BY <1>1, <1>3, <1>4 DEF d

\* A chunk of the prompt is in the cache.
LEMMA PrefilledKeeps ==
    ASSUME NEW r \in Rows, NEW w \in Row, Prompt(r) \in Nat \ {0}, RowInv(w, Prompt(r)),
           CountOf(r) \in Nat \ {0}, w.prefill, w.admitted, ~w.failure,
           w.replay_offset < 0, CountOf(r) <= Prompt(r) - w.prefill_offset
    PROVE  LET d == Prefilled(r, w)
           IN  d \in Row /\ RowInv(d, Prompt(r)) /\ d.held = w.held + CountOf(r)
<1> DEFINE d == Prefilled(r, w)
<1>0. w.held + CountOf(r) \in Nat /\ w.prefill_offset + CountOf(r) \in Nat
  BY DEF Row
<1>1. d \in Row
  BY <1>0 DEF Row, Places, Prefilled
<1>2. /\ d.at = w.at /\ ~d.prefill /\ (d.decode <=> w.decode)
      /\ (d.active <=> w.prefill_offset + CountOf(r) = Prompt(r)) /\ (d.admitted <=> w.admitted) /\ (d.failure <=> w.failure)
      /\ d.result /\ d.prefill_offset = w.prefill_offset + CountOf(r) /\ d.replay_offset = w.replay_offset
      /\ d.cache_length = (IF w.prefill_offset + CountOf(r) = Prompt(r)
                             THEN w.prefill_offset + CountOf(r) ELSE w.cache_length) /\ d.produced = w.produced /\ d.held = w.held + CountOf(r)
  BY <1>0 DEF Row, Prefilled
<1> HIDE DEF d
<1>3. RowInv(d, Prompt(r))
  BY <1>0, <1>1, <1>2 DEF Row, Places, RowInv, RestingInv, FailedInv, PrefillingInv,
     DecodingInv, InBatch
<1>4. d.held = w.held + CountOf(r)
  BY <1>2 DEF Row, Places, RowInv, RestingInv, FailedInv, PrefillingInv, DecodingInv
<1> QED BY <1>1, <1>3, <1>4 DEF d

\* A chunk of the replay is in the cache; the last one makes the row active again.
LEMMA ReplayedKeeps ==
    ASSUME NEW r \in Rows, NEW w \in Row, Prompt(r) \in Nat \ {0}, RowInv(w, Prompt(r)),
           CountOf(r) \in Nat \ {0}, w.prefill, w.admitted, w.replay_offset >= 0,
           ReplayLength(r) = Prompt(r) + w.produced - 1,
           CountOf(r) <= ReplayLength(r) - w.replay_offset
    PROVE  LET d == Replayed(r, w)
           IN  d \in Row /\ RowInv(d, Prompt(r)) /\ d.held = w.held + CountOf(r)
<1> DEFINE d == Replayed(r, w)
           end == w.replay_offset + CountOf(r)
<1>0. w.held + CountOf(r) \in Nat /\ end \in Nat
  BY DEF Row
<1>1. ~w.failure /\ w.at = "decode" /\ DecodingInv(w, Prompt(r))
  BY DEF Row, Places, RowInv, RestingInv, FailedInv, PrefillingInv, DecodingInv
<1>2. CASE end = ReplayLength(r)
  <2>1. d = [w EXCEPT !.replay_offset = -1, !.cache_length = end, !.held = @ + CountOf(r),
                      !.active = TRUE, !.prefill = FALSE]
    BY <1>2 DEF Replayed
  <2> HIDE DEF end
  <2>2. d \in Row
    BY <1>0, <2>1 DEF Row
  <2>3. /\ d.at = w.at /\ ~d.prefill /\ (d.decode <=> w.decode) /\ d.active
        /\ (d.admitted <=> w.admitted) /\ (d.failure <=> w.failure) /\ (d.result <=> w.result)
        /\ d.replay_offset = -1 /\ d.cache_length = end
        /\ d.produced = w.produced /\ d.held = w.held + CountOf(r)
    BY <2>1 DEF Row
  <2> HIDE DEF d
  <2>4. RowInv(d, Prompt(r))
    BY <1>0, <1>1, <1>2, <2>2, <2>3 DEF Row, RowInv, DecodingInv, end
  <2> QED BY <2>2, <2>3, <2>4 DEF d
<1>3. CASE end # ReplayLength(r)
  <2>1. d = [w EXCEPT !.replay_offset = end, !.cache_length = end, !.held = @ + CountOf(r)]
    BY <1>3 DEF Replayed
  <2> HIDE DEF end
  <2>2. d \in Row
    BY <1>0, <2>1 DEF Row
  <2>3. /\ d.at = w.at /\ d.prefill /\ (d.decode <=> w.decode) /\ (d.active <=> w.active)
        /\ (d.admitted <=> w.admitted) /\ (d.failure <=> w.failure) /\ (d.result <=> w.result)
        /\ d.replay_offset = end /\ d.cache_length = end
        /\ d.produced = w.produced /\ d.held = w.held + CountOf(r)
    BY <2>1 DEF Row
  <2> HIDE DEF d
  <2>4. RowInv(d, Prompt(r))
    BY <1>0, <1>1, <1>3, <2>2, <2>3 DEF Row, RowInv, DecodingInv, end
  <2> QED BY <2>2, <2>3, <2>4 DEF d
<1> QED BY <1>2, <1>3

(***************************************************************************)
(* The operators of the model.                                             *)
(***************************************************************************)
LEMMA MaxOfTwo ==
    ASSUME NEW a \in Int, NEW b \in Int
    PROVE  Max({a, b}) = IF a >= b THEN a ELSE b
<1> DEFINE m == IF a >= b THEN a ELSE b
<1>1. m \in {a, b} /\ \A y \in {a, b} : m >= y
  OBVIOUS
<1>2. \A x \in {a, b} : (\A y \in {a, b} : x >= y) => x = m
  OBVIOUS
<1> HIDE DEF m
<1>3. Max({a, b}) = m
  BY <1>1, <1>2 DEF Max
<1> QED BY <1>3 DEF m

LEMMA MinOfTwo ==
    ASSUME NEW a \in Int, NEW b \in Int
    PROVE  Min({a, b}) = IF a <= b THEN a ELSE b
<1> DEFINE m == IF a <= b THEN a ELSE b
<1>1. m \in {a, b} /\ \A y \in {a, b} : m =< y
  OBVIOUS
<1>2. \A x \in {a, b} : (\A y \in {a, b} : x =< y) => x = m
  OBVIOUS
<1> HIDE DEF m
<1>3. Min({a, b}) = m
  BY <1>1, <1>2 DEF Min
<1> QED BY <1>3 DEF m

LEMMA CeilDivPositive ==
    ASSUME NEW a \in Nat \ {0}, NEW b \in Nat \ {0}
    PROVE  CeilDiv(a, b) \in Nat \ {0}
<1> DEFINE n == a + b - 1
<1>1. n \in Nat /\ n >= b
  OBVIOUS
<1> HIDE DEF n
<1>2. n \div b \in Int /\ n \div b >= 1
  BY <1>1
<1> QED BY <1>2 DEF CeilDiv, n

LEMMA LoadType ==
    ASSUME load \in Loads, NEW r \in Rows
    PROVE  Prompt(r) \in Nat \ {0} /\ Limit(r) \in Nat \ {0}
<1>1. load \in [Rows -> [prompt : Nat \ {0}, limit : Nat \ {0}]]
  BY BatchAssumption
<1> QED BY <1>1 DEF Prompt, Limit

LEMMA ReplayLengthIs ==
    ASSUME TypeOK, NEW r \in Rows, work[r].produced > 0
    PROVE  ReplayLength(r) = Prompt(r) + work[r].produced - 1
<1>1. work[r].produced \in Nat
  BY DEF TypeOK, Row
<1>2. Max({0, work[r].produced - 1}) = work[r].produced - 1
  BY <1>1, MaxOfTwo
<1>3. Prompt(r) \in Nat \ {0}
  BY LoadType DEF TypeOK
<1> QED BY <1>1, <1>2, <1>3 DEF ReplayLength

\* A row that asks for a chunk has something left to compute.
LEMMA UncachedPositive ==
    ASSUME TypeOK, NEW r \in Rows, RowInv(work[r], Prompt(r)), work[r].prefill
    PROVE  /\ Uncached(r) \in Nat \ {0}
           /\ work[r].replay_offset >= 0 =>
                 /\ ~work[r].failure /\ work[r].at = "decode" /\ work[r].produced > 0
                 /\ Uncached(r) = Prompt(r) + work[r].produced - 1 - work[r].replay_offset
                 /\ ReplayLength(r) = Prompt(r) + work[r].produced - 1
           /\ work[r].replay_offset < 0 => Uncached(r) = Prompt(r) - work[r].prefill_offset
<1> DEFINE w == work[r]
           p == Prompt(r)
<1>1. w \in Row /\ p \in Nat \ {0} /\ RowInv(w, p) /\ w.prefill
  BY LoadType DEF TypeOK
<1>2. w.produced > 0 => ReplayLength(r) = p + w.produced - 1
  BY ReplayLengthIs
<1>3. Uncached(r) = IF w.replay_offset >= 0 THEN ReplayLength(r) - w.replay_offset
                    ELSE p - w.prefill_offset
  BY DEF Uncached
<1> HIDE DEF w, p
<1>4. CASE w.replay_offset >= 0
  <2>1. ~w.failure /\ w.at = "decode" /\ w.produced > 0 /\ w.replay_offset < p + w.produced - 1
    BY <1>1, <1>4 DEF Row, Places, RowInv, RestingInv, FailedInv, PrefillingInv, DecodingInv
  <2> QED BY <1>1, <1>2, <1>3, <1>4, <2>1 DEF Row, w, p
<1>5. CASE w.replay_offset < 0
  <2>1. w.prefill_offset < p
    BY <1>1, <1>5 DEF Row, Places, RowInv, RestingInv, FailedInv, PrefillingInv, DecodingInv
  <2> QED BY <1>1, <1>3, <1>5, <2>1 DEF Row, w, p
<1> QED BY <1>1, <1>4, <1>5 DEF Row

\* prefill_chunk() gives a row at least one token and at most what it asked for.
LEMMA TilesBounded ==
    ASSUME TypeOK, NEW r \in Rows, RowInv(work[r], Prompt(r)), work[r].prefill,
           NEW n \in Tiles(r)
    PROVE  n \in Nat \ {0} /\ n <= Uncached(r)
<1>1. Uncached(r) \in Nat \ {0}
  BY UncachedPositive
<1>2. ChunkSize \in Nat \ {0}
  BY BatchAssumption
<1>3. Proposed(r) \in Nat \ {0} /\ Proposed(r) <= Uncached(r)
  BY <1>1, <1>2, MinOfTwo DEF Proposed
<1> QED BY <1>1, <1>3 DEF Tiles

LEMMA FilterSet ==
    ASSUME NEW X, NEW s \in Seq(X), NEW S
    PROVE  ToSet(Filter(s, S)) = ToSet(s) \cap S
<1>1. /\ Filter(s, S) \in Seq(X)
      /\ ToSet(Filter(s, S)) = ToSet(s) \cap S
      /\ (\A i, j \in DOMAIN s : s[i] = s[j] => i = j) =>
            \A k, l \in DOMAIN Filter(s, S) : Filter(s, S)[k] = Filter(s, S)[l] => k = l
  BY FilterElements DEF ToSet
<1> QED BY <1>1

\* Erasing a row from the active list.
LEMMA WithoutFacts ==
    ASSUME NEW s \in Seq(Rows), NEW r
    PROVE  /\ Without(s, r) \in Seq(Rows)
           /\ ToSet(Without(s, r)) = ToSet(s) \ {r}
           /\ (\A i, j \in DOMAIN s : s[i] = s[j] => i = j) =>
                 \A i, j \in DOMAIN Without(s, r) : Without(s, r)[i] = Without(s, r)[j] => i = j
<1>1. /\ Without(s, r) \in Seq(Rows)
      /\ ToSet(Without(s, r)) = ToSet(s) \cap (Rows \ {r})
      /\ (\A i, j \in DOMAIN s : s[i] = s[j] => i = j) =>
            \A i, j \in DOMAIN Without(s, r) : Without(s, r)[i] = Without(s, r)[j] => i = j
  BY FilterElements DEF Without, ToSet
<1>2. ToSet(s) \subseteq Rows
  BY DEF ToSet
<1> QED BY <1>1, <1>2

LEMMA ListType ==
    ASSUME NEW list \in SetToAllKPermutations(Live \ cancelled)
    PROVE  list \in Seq(Rows) /\ ToSet(list) \subseteq Rows
<1>1. PICK s \in SUBSET (Live \ cancelled) : list \in [1..Cardinality(s) -> s]
  BY DEF SetToAllKPermutations, SetToSeqs
<1>2. s \subseteq Rows /\ IsFiniteSet(s)
  <2>1. s \in SUBSET Rows /\ IsFiniteSet(Rows)
    BY BatchAssumption DEF Live
  <2> QED BY <2>1, FS_Subset
<1>3. Cardinality(s) \in Nat
  BY <1>2, FS_CardinalityType
<1> QED BY <1>1, <1>2, <1>3 DEF ToSet

(***************************************************************************)
(* Memory.                                                                 *)
(***************************************************************************)
LEMMA NoRoom == RoomFor(0) = 0
<1>1. MaxPositions \in Nat /\ Room[0] = 0
  BY BatchAssumption
<1>2. Min({0, MaxPositions}) = 0
  BY <1>1, MinOfTwo
<1> QED BY <1>1, <1>2 DEF RoomFor

\* NewTokenRatioTracker::after_retraction stays a ratio.
LEMMA RatioAfterRetraction ==
    ASSUME TypeOK, NEW left \in SUBSET Rows, left # {}
    PROVE  AfterRetraction(left) \in 1..Scale
<1> DEFINE sum == SumFunction([r \in left |-> work[r].produced])
           limits == SumFunction([r \in left |-> Limit(r)])
           n == Cardinality(left)
<1>1. IsFiniteSet(left)
  BY BatchAssumption, FS_Subset
<1>2. n \in Nat \ {0}
  BY <1>1, FS_CardinalityType, FS_EmptySet
<1>3. sum \in Nat
  <2>1. [r \in left |-> work[r].produced] \in [left -> Nat]
    BY DEF TypeOK, Row
  <2> QED BY <1>1, <2>1, SumNat
<1>4. limits \in Nat
  <2>1. [r \in left |-> Limit(r)] \in [left -> Nat]
    BY LoadType DEF TypeOK
  <2> QED BY <1>1, <2>1, SumNat
<1>5. Scale \in Nat \ {0} /\ RetractSteps \in Nat \ {0}
  BY BatchAssumption
<1>6. AfterRetraction(left) = Min({Scale, CeilDiv(Scale * (sum + RetractSteps * n), 1 + limits)})
  BY DEF AfterRetraction
<1> HIDE DEF sum, limits, n
<1>7. RetractSteps * n \in Nat \ {0}
  BY <1>2, <1>5
<1> DEFINE k == sum + RetractSteps * n
<1>8. k \in Nat \ {0}
  BY <1>3, <1>7
<1> HIDE DEF k
<1>9. Scale * k \in Nat \ {0}
  BY <1>5, <1>8
<1>10. CeilDiv(Scale * k, 1 + limits) \in Nat \ {0}
  BY <1>4, <1>9, CeilDivPositive
<1> QED BY <1>5, <1>6, <1>10, MinOfTwo DEF k

(***************************************************************************)
(* What the steps have in common.                                          *)
(***************************************************************************)
\* The rows after a step.
RowsKept ==
    /\ work' \in [Rows -> Row] /\ \A r \in Rows : RowInv(work'[r], Prompt(r))

LEMMA RowFacts ==
    ASSUME BatchInv, NEW r \in Rows
    PROVE  work[r] \in Row /\ Prompt(r) \in Nat \ {0} /\ RowInv(work[r], Prompt(r))
  BY LoadType DEF BatchInv, TypeOK

LEMMA MapKeepsRows ==
    ASSUME BatchInv, DOMAIN work' = Rows, work' = [r \in Rows |-> work'[r]],
           \A r \in Rows : work'[r] \in Row /\ RowInv(work'[r], Prompt(r))
    PROVE  RowsKept
  BY DEF RowsKept

LEMMA OneRowKeepsRows ==
    ASSUME BatchInv, NEW r \in Rows, NEW d \in Row, RowInv(d, Prompt(r)),
           work' = [work EXCEPT ![r] = d]
    PROVE  RowsKept /\ work'[r] = d /\ \A t \in Rows \ {r} : work'[t] = work[t]
<1>1. work \in [Rows -> Row]
  BY DEF BatchInv, TypeOK
<1>2. work'[r] = d /\ \A t \in Rows \ {r} : work'[t] = work[t]
  BY <1>1
<1>3. DOMAIN work' = Rows /\ work' = [t \in Rows |-> work'[t]]
  BY <1>1
<1>4. ASSUME NEW t \in Rows
      PROVE  work'[t] \in Row /\ RowInv(work'[t], Prompt(t))
  BY <1>2, RowFacts
<1> QED BY <1>2, <1>3, <1>4, MapKeepsRows

LEMMA SameRowsKeepRows ==
    ASSUME BatchInv, work' = work
    PROVE  RowsKept
  BY DEF BatchInv, TypeOK, RowsKept

LEMMA ActiveSame ==
    ASSUME BatchInv, active' = active,
           \A r \in Rows : work'[r].active <=> work[r].active
    PROVE  ActiveInv' /\ active' \in Seq(Rows)
<1>1. Active' = Active
  BY DEF Active
<1> QED BY <1>1 DEF BatchInv, TypeOK, ActiveInv

LEMMA ActiveErased ==
    ASSUME BatchInv, NEW r \in Rows, active' = Without(active, r), ~work'[r].active,
           \A t \in Rows \ {r} : work'[t] = work[t]
    PROVE  ActiveInv' /\ active' \in Seq(Rows)
<1>1. active \in Seq(Rows)
  BY DEF BatchInv, TypeOK
<1>2. active' \in Seq(Rows) /\ ToSet(active') = ToSet(active) \ {r}
  BY <1>1, WithoutFacts
<1>3. \A i, j \in DOMAIN active' : active'[i] = active'[j] => i = j
  BY <1>1, WithoutFacts DEF BatchInv, ActiveInv
<1>4. \A t \in Rows : work'[t].active <=> t \in ToSet(active')
  BY <1>2 DEF BatchInv, ActiveInv, Active
<1> QED BY <1>2, <1>3, <1>4 DEF ActiveInv, Active

LEMMA ActiveCleared ==
    ASSUME active' = <<>>, \A r \in Rows : ~work'[r].active
    PROVE  ActiveInv' /\ active' \in Seq(Rows)
  BY DEF ActiveInv, Active, ToSet

LEMMA NoItems ==
    ASSUME items' = <<>>, stage' # "pack"
    PROVE  ItemsInv'
  BY DEF ItemsInv

LEMMA Combine ==
    ASSUME load' = load, TypeOK', RowsKept, ActiveInv', ItemsInv'
    PROVE  BatchInv'
<1>1. \A r \in Rows : Prompt(r)' = Prompt(r)
  BY DEF Prompt
<1> QED BY <1>1 DEF BatchInv, RowsKept

\* The variables a resumed coroutine leaves alone.
LEMMA ResumeFacts ==
    ASSUME BatchInv, load' = load, NEW r \in Rows, Resuming(r),
           RowsKept, ActiveInv', active' \in Seq(Rows), ratio' \in 1..Scale, faults' \in 0..MaxFaults,
           idle' \in {idle, 0}
    PROVE  BatchInv'
<1>1. TypeOK'
  BY DEF BatchInv, TypeOK, Resuming, RowsKept
<1>2. stage = "resume" /\ stage' = stage /\ items' = items
  BY DEF Resuming
<1>3. ItemsInv'
  BY <1>2, NoItems DEF BatchInv, ItemsInv
<1> QED BY <1>1, <1>3, Combine

(***************************************************************************)
(* The coroutines.                                                         *)
(***************************************************************************)

LEMMA GenerateStep ==
    ASSUME BatchInv, load' = load, NEW r \in Rows, Generate(r)
    PROVE  BatchInv'
<1> DEFINE w == work[r]
           d == [w EXCEPT !.at = "prefill", !.prefill = TRUE]
<1>1. w \in Row /\ Prompt(r) \in Nat \ {0} /\ RowInv(w, Prompt(r))
  BY RowFacts
<1>2. Resuming(r) /\ w.at = "accepted"
      /\ work' = [work EXCEPT ![r] = d] /\ active' = active /\ idle' = idle /\ ratio' = ratio /\ faults' = faults
  BY DEF Generate
<1> HIDE DEF w
<1>3. /\ d \in Row /\ RowInv(d, Prompt(r)) /\ d.held = w.held
      /\ (d.active <=> w.active)
  BY <1>1, <1>2, GenerateKeeps
<1> HIDE DEF d
<1>4. RowsKept /\ work'[r] = d /\ \A t \in Rows \ {r} : work'[t] = work[t]
  BY <1>2, <1>3, OneRowKeepsRows
<1>5. ActiveInv' /\ active' \in Seq(Rows)
  BY <1>2, <1>3, <1>4, ActiveSame DEF w
<1> QED BY <1>2, <1>4, <1>5, ResumeFacts DEF BatchInv, TypeOK

LEMMA ProgressStep ==
    ASSUME BatchInv, load' = load, NEW r \in Rows, ReportProgress(r)
    PROVE  BatchInv'
<1> DEFINE w == work[r]
           d == [w EXCEPT !.at = "progress"]
<1>1. w \in Row /\ Prompt(r) \in Nat \ {0} /\ RowInv(w, Prompt(r))
  BY RowFacts
<1>2. Resuming(r) /\ w.at = "prefill" /\ w.result /\ ~w.failure
      /\ work' = [work EXCEPT ![r] = d] /\ active' = active /\ idle' = idle /\ ratio' = ratio /\ faults' = faults
  BY DEF ReportProgress
<1> HIDE DEF w
<1>3. /\ d \in Row /\ RowInv(d, Prompt(r)) /\ d.held = w.held
      /\ (d.active <=> w.active)
  BY <1>1, <1>2, ProgressKeeps
<1> HIDE DEF d
<1>4. RowsKept /\ work'[r] = d /\ \A t \in Rows \ {r} : work'[t] = work[t]
  BY <1>2, <1>3, OneRowKeepsRows
<1>5. ActiveInv' /\ active' \in Seq(Rows)
  BY <1>2, <1>3, <1>4, ActiveSame DEF w
<1> QED BY <1>2, <1>4, <1>5, ResumeFacts DEF BatchInv, TypeOK

LEMMA ScheduleStep ==
    ASSUME BatchInv, load' = load, NEW r \in Rows, SchedulePrefill(r)
    PROVE  BatchInv'
<1> DEFINE w == work[r]
           d == [w EXCEPT !.at = "prefill", !.result = FALSE, !.prefill = TRUE]
<1>1. w \in Row /\ Prompt(r) \in Nat \ {0} /\ RowInv(w, Prompt(r))
  BY RowFacts
<1>2. Resuming(r) /\ w.at = "progress" /\ w.prefill_offset < Prompt(r)
      /\ work' = [work EXCEPT ![r] = d] /\ active' = active /\ idle' = idle /\ ratio' = ratio /\ faults' = faults
  BY DEF SchedulePrefill
<1> HIDE DEF w
<1>3. /\ d \in Row /\ RowInv(d, Prompt(r)) /\ d.held = w.held
      /\ (d.active <=> w.active)
  BY <1>1, <1>2, ScheduleKeeps
<1> HIDE DEF d
<1>4. RowsKept /\ work'[r] = d /\ \A t \in Rows \ {r} : work'[t] = work[t]
  BY <1>2, <1>3, OneRowKeepsRows
<1>5. ActiveInv' /\ active' \in Seq(Rows)
  BY <1>2, <1>3, <1>4, ActiveSame DEF w
<1> QED BY <1>2, <1>4, <1>5, ResumeFacts DEF BatchInv, TypeOK

LEMMA AcceptStep ==
    ASSUME BatchInv, load' = load, NEW r \in Rows, AcceptToken(r)
    PROVE  BatchInv'
<1> DEFINE w == work[r]
           d(last) == [w EXCEPT !.produced = @ + 1, !.at = IF last THEN "last" ELSE "decode",
                                !.result = last, !.decode = ~last]
<1>1. w \in Row /\ Prompt(r) \in Nat \ {0} /\ RowInv(w, Prompt(r))
  BY RowFacts
<1>2. PICK last \in BOOLEAN : work' = [work EXCEPT ![r] = d(last)]
  BY DEF AcceptToken
<1>3. Resuming(r) /\ ~w.failure /\ active' = active /\ idle' = idle /\ ratio' = ratio /\ faults' = faults
      /\ (\/ w.at = "progress" /\ w.prefill_offset = Prompt(r)
          \/ w.at = "decode" /\ w.result)
  BY DEF AcceptToken, HasToken
<1> HIDE DEF w
<1>4. /\ d(last) \in Row /\ RowInv(d(last), Prompt(r)) /\ d(last).held = w.held
      /\ (d(last).active <=> w.active)
  BY <1>1, <1>3, AcceptKeeps
<1> HIDE DEF d
<1>5. RowsKept /\ work'[r] = d(last) /\ \A t \in Rows \ {r} : work'[t] = work[t]
  BY <1>2, <1>4, OneRowKeepsRows
<1>6. ActiveInv' /\ active' \in Seq(Rows)
  BY <1>3, <1>4, <1>5, ActiveSame DEF w
<1> QED BY <1>3, <1>5, <1>6, ResumeFacts DEF BatchInv, TypeOK

LEMMA WaitStep ==
    ASSUME BatchInv, load' = load, NEW r \in Rows, Wait(r)
    PROVE  BatchInv'
<1>1. Resuming(r) /\ work' = work /\ active' = active /\ idle' = idle /\ ratio' = ratio /\ faults' = faults
  BY DEF Wait
<1>2. RowsKept /\ ActiveInv' /\ active' \in Seq(Rows)
  BY <1>1, SameRowsKeepRows, ActiveSame
<1> QED BY <1>1, <1>2, ResumeFacts DEF BatchInv, TypeOK

LEMMA RatioKept ==
    ASSUME BatchInv, NEW left, ratio' \in {ratio, RatioAfter(left)}
    PROVE  ratio' \in 1..Scale
  BY BatchAssumption DEF RatioAfter, BatchInv, TypeOK

LEMMA FinishStep ==
    ASSUME BatchInv, load' = load, NEW r \in Rows, Finish(r)
    PROVE  BatchInv'
<1> DEFINE w == work[r]
<1>1. w \in Row /\ Prompt(r) \in Nat \ {0} /\ RowInv(w, Prompt(r))
  BY RowFacts
<1>2. Resuming(r) /\ faults' = faults /\ idle' = idle
  BY DEF Finish
<1>3. CASE r \in Batch
  <2> DEFINE d == Released(w)
  <2>1. work' = [work EXCEPT ![r] = d] /\ active' = Without(active, r)
        /\ ratio' = RatioAfter(Batch \ {r})
    BY <1>3 DEF Finish, Leave
  <2>2. d \in Row /\ RowInv(d, Prompt(r)) /\ d.held = 0 /\ ~d.active
    <3> HIDE DEF w
    <3> QED BY <1>1, ReleasedKeeps
  <2> HIDE DEF d
  <2>4. RowsKept /\ work'[r] = d /\ \A t \in Rows \ {r} : work'[t] = work[t]
    BY <2>1, <2>2, OneRowKeepsRows
  <2>5. ActiveInv' /\ active' \in Seq(Rows)
    BY <2>1, <2>2, <2>4, ActiveErased
  <2>6. ratio' \in 1..Scale
    BY <2>1, RatioKept
  <2> QED BY <1>2, <2>4, <2>5, <2>6, ResumeFacts DEF BatchInv, TypeOK
<1>4. CASE r \notin Batch
  <2> DEFINE d == [w EXCEPT !.at = "done"]
  <2>1. work' = [work EXCEPT ![r] = d] /\ active' = active /\ ratio' = ratio
    BY <1>4 DEF Finish
  <2>2. ~InBatch(w)
    BY <1>4 DEF Batch, InBatch
  <2> HIDE DEF w
  <2>3. d \in Row /\ RowInv(d, Prompt(r)) /\ d.held = 0 /\ ~d.active
    BY <1>1, <2>2, EndedKeeps
  <2>4. ~w.active
    BY <1>1, <2>2, <2>3 DEF Row, Places, RowInv, RestingInv, InBatch
  <2> HIDE DEF d
  <2>5. RowsKept /\ work'[r] = d /\ \A t \in Rows \ {r} : work'[t] = work[t]
    BY <2>1, <2>3, <2>4, OneRowKeepsRows DEF w
  <2>6. ActiveInv' /\ active' \in Seq(Rows)
    BY <2>1, <2>3, <2>4, <2>5, ActiveSame DEF w
  <2> QED BY <1>2, <2>1, <2>5, <2>6, ResumeFacts DEF BatchInv, TypeOK
<1> QED BY <1>3, <1>4

LEMMA RecoverKeeps ==
    ASSUME BatchInv, NEW gone, Recover(gone)
    PROVE  RowsKept /\ ActiveInv' /\ active' \in Seq(Rows)
<1>1. ASSUME NEW t \in Rows
      PROVE  /\ work'[t] \in Row /\ RowInv(work'[t], Prompt(t)) /\ ~work'[t].active
             /\ work'[t].held = 0
  <2> DEFINE w == work[t]
  <2>1. w \in Row /\ Prompt(t) \in Nat \ {0} /\ RowInv(w, Prompt(t))
    BY RowFacts
  <2>2. work'[t] = IF InBatch(w)
                   THEN IF t \in gone THEN Released(Recovered(w)) ELSE Recovered(w)
                   ELSE IF t \in gone THEN [w EXCEPT !.at = "done"] ELSE w
    BY DEF Recover, InBatch, Batch
  <2> HIDE DEF w
  <2>3. CASE InBatch(w)
    <3>1. /\ Recovered(w) \in Row /\ RowInv(Recovered(w), Prompt(t))
          /\ Recovered(w).held = 0 /\ ~Recovered(w).active
      BY <2>1, <2>3, RecoveredKeeps
    <3>2. /\ Released(Recovered(w)) \in Row /\ RowInv(Released(Recovered(w)), Prompt(t))
          /\ Released(Recovered(w)).held = 0 /\ ~Released(Recovered(w)).active
      BY <2>1, <3>1, ReleasedKeeps
    <3> QED BY <2>2, <2>3, <3>1, <3>2
  <2>4. CASE ~InBatch(w)
    <3>1. LET d == [w EXCEPT !.at = "done"]
          IN  d \in Row /\ RowInv(d, Prompt(t)) /\ d.held = 0 /\ ~d.active
      BY <2>1, <2>4, EndedKeeps
    <3>2. w.held = 0 /\ ~w.active
      BY <2>1, <2>4 DEF RowInv, RestingInv, InBatch
    <3> QED BY <2>1, <2>2, <2>4, <3>1, <3>2
  <2> QED BY <2>3, <2>4
<1>2. DOMAIN work' = Rows /\ work' = [r \in Rows |-> work'[r]]
  BY DEF Recover
<1>3. RowsKept
  BY <1>1, <1>2, MapKeepsRows
<1> QED BY <1>1, <1>3, ActiveCleared DEF Recover

\* The executor completes rows.
LEMMA CompleteKeeps ==
    ASSUME BatchInv, NEW w \in [Rows -> Row], NEW gone \in SUBSET Rows, Complete(w, gone),
           \A r \in Rows : RowInv(w[r], Prompt(r)) /\ (w[r].active <=> work[r].active)
    PROVE  /\ RowsKept /\ ActiveInv' /\ active' \in Seq(Rows)
           /\ ratio' \in 1..Scale /\ todo' \subseteq Rows
<1>1. work' = [r \in Rows |-> IF r \in gone THEN Released(w[r]) ELSE w[r]]
  BY DEF Complete
<1>2. ASSUME NEW r \in Rows
      PROVE  /\ work'[r] \in Row /\ RowInv(work'[r], Prompt(r))
             /\ work'[r].active <=> (work[r].active /\ r \notin gone)
  <2> DEFINE d == w[r]
  <2>1. d \in Row /\ Prompt(r) \in Nat \ {0} /\ RowInv(d, Prompt(r)) /\ (d.active <=> work[r].active)
    BY RowFacts
  <2>2. work'[r] = IF r \in gone THEN Released(d) ELSE d
    BY <1>1
  <2> HIDE DEF d
  <2>3. Released(d) \in Row /\ RowInv(Released(d), Prompt(r)) /\ ~Released(d).active
    BY <2>1, ReleasedKeeps
  <2> QED BY <2>1, <2>2, <2>3
<1>3. RowsKept
  BY <1>1, <1>2, MapKeepsRows
<1>4. /\ active \in Seq(Rows) /\ \A r \in Rows : work[r].active <=> r \in Active
      /\ \A i, j \in DOMAIN active : active[i] = active[j] => i = j
  BY DEF BatchInv, TypeOK, ActiveInv
<1>5. active' = Filter(active, Rows \ gone)
  BY DEF Complete
<1>6. /\ active' \in Seq(Rows) /\ ToSet(active') = Active \cap (Rows \ gone)
      /\ \A i, j \in DOMAIN active' : active'[i] = active'[j] => i = j
  <2> DEFINE f == Filter(active, Rows \ gone)
  <2>1. ToSet(f) = ToSet(active) \cap (Rows \ gone)
    BY <1>4, FilterSet
  <2>2. f \in Seq(Rows)
    BY <1>4, FilterElements
  <2>3. \A i, j \in DOMAIN f : f[i] = f[j] => i = j
    BY <1>4, FilterElements
  <2> HIDE DEF f
  <2> QED BY <1>5, <2>1, <2>2, <2>3 DEF Active, f
<1>7. ActiveInv'
  BY <1>2, <1>4, <1>6 DEF ActiveInv, Active
<1>8. ratio' \in 1..Scale
  <2>1. ratio' \in {ratio, RatioAfter(Batch \ gone)}
    BY DEF Complete
  <2> QED BY <2>1, RatioKept
<1>9. todo' \subseteq Rows
  BY DEF Complete, BatchInv, TypeOK
<1> QED BY <1>3, <1>6, <1>7, <1>8, <1>9

LEMMA FinishThrowsStep ==
    ASSUME BatchInv, load' = load, NEW r \in Rows, FinishThrows(r)
    PROVE  BatchInv'
<1>1. Resuming(r) /\ Recover({r}) /\ ratio' = ratio /\ idle' = 0
  BY DEF FinishThrows
<1>2. faults' \in 0..MaxFaults
  BY BatchAssumption DEF FinishThrows, BatchInv, TypeOK
<1> QED BY <1>1, <1>2, RecoverKeeps, ResumeFacts DEF BatchInv, TypeOK

LEMMA EndResumeStep ==
    ASSUME BatchInv, load' = load, EndResume
    PROVE  BatchInv'
<1>1. work' = work /\ active' = active /\ items' = items /\ stage' = "idle" /\ stage = "resume"
  BY DEF EndResume
<1>2. RowsKept /\ ActiveInv' /\ active' \in Seq(Rows)
  BY <1>1, SameRowsKeepRows, ActiveSame
<1>3. ItemsInv'
  BY <1>1, NoItems DEF BatchInv, ItemsInv
<1>4. TypeOK'
  BY <1>2 DEF BatchInv, TypeOK, RowsKept, EndResume
<1> QED BY <1>2, <1>3, <1>4, Combine

LEMMA CancelStep ==
    ASSUME BatchInv, load' = load, NEW r \in Rows, Cancel(r)
    PROVE  BatchInv'
<1>1. work' = work /\ active' = active /\ items' = items /\ stage' = stage /\ stage = "idle"
  BY DEF Cancel
<1>2. RowsKept /\ ActiveInv' /\ active' \in Seq(Rows)
  BY <1>1, SameRowsKeepRows, ActiveSame
<1>3. ItemsInv'
  BY <1>1, NoItems DEF BatchInv, ItemsInv
<1>4. TypeOK'
  BY <1>2 DEF BatchInv, TypeOK, RowsKept, Cancel
<1> QED BY <1>2, <1>3, <1>4, Combine

(***************************************************************************)
(* The beginning of a step: can_admit() turns rows away, or admits one.    *)
(***************************************************************************)
LEMMA UncachedSame ==
    ASSUME load' = load, NEW r, work'[r].produced = work[r].produced,
           work'[r].replay_offset = work[r].replay_offset,
           work'[r].prefill_offset = work[r].prefill_offset
    PROVE  Uncached(r)' = Uncached(r)
  BY DEF Uncached, ReplayLength, Prompt

\* One row after can_admit() was asked.
LEMMA BeginRow ==
    ASSUME BatchInv, NEW list \in Seq(Rows), NEW decide, Begin(list, decide), NEW r \in Rows
    PROVE  /\ work'[r] \in Row /\ RowInv(work'[r], Prompt(r)) /\ work'[r].held = work[r].held
           /\ (work'[r].active <=> work[r].active)
           /\ decide = "pack" /\ (\E f \in FirstAdmitted(list) : r = list[f]) =>
                 /\ r \in Batch /\ work[r].prefill
                 /\ work'[r] = [work[r] EXCEPT !.admitted = TRUE]
<1> DEFINE w == work[r]
           first == decide = "pack" /\ \E f \in FirstAdmitted(list) : r = list[f]
<1>1. w \in Row /\ Prompt(r) \in Nat \ {0} /\ RowInv(w, Prompt(r))
  BY RowFacts
<1>2. work'[r] = IF r \in Examined(list) /\ Refused(r)
                 THEN [w EXCEPT !.failure = TRUE, !.prefill = FALSE]
                 ELSE IF first THEN [w EXCEPT !.admitted = TRUE] ELSE w
  BY DEF Begin
<1>3. r \in Examined(list) => r \in Batch /\ w.prefill
  BY DEF Examined
<1>4. first => r \in Batch /\ w.prefill /\ can_admit(r)
  BY DEF FirstAdmitted
<1>5. Refused(r) => ~can_admit(r) /\ ~w.failure /\ ~w.admitted
  BY DEF Refused, can_admit
<1>6. r \in Batch <=> InBatch(w)
  BY DEF Batch, InBatch
<1> HIDE DEF w, first
<1>7. CASE r \in Examined(list) /\ Refused(r)
  <2>1. ~first
    BY <1>4, <1>5, <1>7
  <2>2. LET d == [w EXCEPT !.failure = TRUE, !.prefill = FALSE]
        IN  d \in Row /\ RowInv(d, Prompt(r)) /\ d.held = w.held /\ (d.active <=> w.active)
    BY <1>1, <1>3, <1>5, <1>6, <1>7, RefusedKeeps
  <2> QED BY <1>2, <1>7, <2>1, <2>2 DEF w, first
<1>8. CASE ~(r \in Examined(list) /\ Refused(r)) /\ first
  <2>1. LET d == [w EXCEPT !.admitted = TRUE]
        IN  d \in Row /\ RowInv(d, Prompt(r)) /\ d.held = w.held /\ (d.active <=> w.active)
    BY <1>1, <1>4, <1>6, <1>8, AdmittedKeeps
  <2> QED BY <1>2, <1>4, <1>8, <2>1 DEF w, first
<1>9. CASE ~(r \in Examined(list) /\ Refused(r)) /\ ~first
  BY <1>1, <1>2, <1>9 DEF w, first
<1> QED BY <1>7, <1>8, <1>9

LEMMA CallKeeps ==
    ASSUME BatchInv, NEW list \in Seq(Rows), Call(list)
    PROVE  eligible' \in Seq(Rows) /\ stalls' \in 0..MaxStalls /\ items = <<>>
<1>1. stalls \in Nat /\ MaxStalls \in Nat
  BY BatchAssumption DEF BatchInv, TypeOK
<1>2. stalls' \in {stalls, stalls + 1} /\ stalls' <= MaxStalls
  BY <1>1 DEF Call
<1>3. items = <<>>
  BY DEF Call, BatchInv, ItemsInv
<1> QED BY <1>1, <1>2, <1>3 DEF Call

LEMMA BeginKeeps ==
    ASSUME BatchInv, NEW list \in Seq(Rows), NEW decide, Begin(list, decide)
    PROVE  /\ RowsKept /\ ActiveInv' /\ active' \in Seq(Rows)
           /\ eligible' \in Seq(Rows) /\ idle' \in Nat /\ stalls' \in 0..MaxStalls
           /\ items = <<>> /\ ratio' = ratio /\ cancelled' = cancelled /\ faults' = faults
<1>1. DOMAIN work' = Rows /\ work' = [r \in Rows |-> work'[r]] /\ active' = active
  BY DEF Begin
<1>2. \A r \in Rows : /\ work'[r] \in Row /\ RowInv(work'[r], Prompt(r))
                      /\ work'[r].held = work[r].held /\ (work'[r].active <=> work[r].active)
  BY BeginRow
<1>4. RowsKept
  BY <1>1, <1>2, MapKeepsRows
<1>5. ActiveInv' /\ active' \in Seq(Rows)
  BY <1>1, <1>2, ActiveSame
<1>6. eligible' \in Seq(Rows) /\ stalls' \in 0..MaxStalls /\ items = <<>>
  BY CallKeeps DEF Begin
<1>7. idle' \in Nat
  BY DEF Begin, BatchInv, TypeOK
<1> QED BY <1>4, <1>5, <1>6, <1>7 DEF Begin, BatchInv, TypeOK

LEMMA BeginDecodeStep ==
    ASSUME BatchInv, load' = load, NEW list \in Seq(Rows), BeginDecode(list)
    PROVE  BatchInv'
<1>1. Begin(list, "decode") /\ stage' = "decode" /\ items' = items
      /\ decode_next' = decode_next /\ todo' = todo
  BY DEF BeginDecode
<1>2. /\ RowsKept /\ ActiveInv' /\ active' \in Seq(Rows)
      /\ eligible' \in Seq(Rows) /\ idle' \in Nat /\ stalls' \in 0..MaxStalls
      /\ items = <<>> /\ ratio' = ratio /\ cancelled' = cancelled /\ faults' = faults
  BY <1>1, BeginKeeps
<1>3. ItemsInv'
  BY <1>1, <1>2, NoItems
<1>4. TypeOK'
  BY <1>1, <1>2 DEF BatchInv, TypeOK, RowsKept
<1> QED BY <1>2, <1>3, <1>4, Combine

LEMMA BeginNothingStep ==
    ASSUME BatchInv, load' = load, NEW list \in Seq(Rows), BeginNothing(list)
    PROVE  BatchInv'
<1>1. Begin(list, "nothing") /\ stage' = "resume" /\ items' = items
      /\ decode_next' = ~decode_next /\ todo' = ToResume(ToSet(list))
  BY DEF BeginNothing
<1>2. /\ RowsKept /\ ActiveInv' /\ active' \in Seq(Rows)
      /\ eligible' \in Seq(Rows) /\ idle' \in Nat /\ stalls' \in 0..MaxStalls
      /\ items = <<>> /\ ratio' = ratio /\ cancelled' = cancelled /\ faults' = faults
  BY <1>1, BeginKeeps
<1>3. ItemsInv'
  BY <1>1, <1>2, NoItems
<1>4. todo' \subseteq Rows
  BY <1>1 DEF BatchInv, TypeOK, ToResume, ToSet
<1>5. TypeOK'
  BY <1>1, <1>2, <1>4 DEF BatchInv, TypeOK, RowsKept
<1> QED BY <1>2, <1>3, <1>5, Combine

LEMMA BeginThrowsStep ==
    ASSUME BatchInv, load' = load, NEW list \in Seq(Rows), BeginThrows(list)
    PROVE  BatchInv'
<1>1. PICK gone \in { ToSet(list), Rows } : Complete(work, gone)
  BY DEF BeginThrows
<1>2. gone \in SUBSET Rows
  BY DEF ToSet
<1>3. work \in [Rows -> Row] /\ \A r \in Rows : RowInv(work[r], Prompt(r))
  BY DEF BatchInv, TypeOK
<1>4. /\ RowsKept /\ ActiveInv' /\ active' \in Seq(Rows)
      /\ ratio' \in 1..Scale /\ todo' \subseteq Rows
  BY <1>1, <1>2, <1>3, CompleteKeeps
<1>5. eligible' \in Seq(Rows) /\ stalls' \in 0..MaxStalls /\ items = <<>>
  BY CallKeeps DEF BeginThrows
<1>6. stage' = "resume" /\ items' = items /\ decode_next' = decode_next /\ cancelled' = cancelled
  BY DEF BeginThrows
<1>7. idle' \in Nat /\ faults' \in 0..MaxFaults
  BY BatchAssumption DEF BeginThrows, BatchInv, TypeOK
<1>8. ItemsInv'
  BY <1>5, <1>6, NoItems
<1>9. TypeOK'
  BY <1>4, <1>5, <1>6, <1>7 DEF BatchInv, TypeOK, RowsKept
<1> QED BY <1>4, <1>8, <1>9, Combine

LEMMA BeginPrefillStep ==
    ASSUME BatchInv, load' = load, NEW list \in Seq(Rows), BeginPrefill(list)
    PROVE  BatchInv'
<1>1. Begin(list, "pack") /\ stage' = "pack" /\ decode_next' = decode_next /\ todo' = todo
  BY DEF BeginPrefill
<1>2. /\ RowsKept /\ ActiveInv' /\ active' \in Seq(Rows)
      /\ eligible' \in Seq(Rows) /\ idle' \in Nat /\ stalls' \in 0..MaxStalls
      /\ items = <<>> /\ ratio' = ratio /\ cancelled' = cancelled /\ faults' = faults
  BY <1>1, BeginKeeps
<1>3. PICK f \in FirstAdmitted(list) : \E n \in Tiles(list[f]) :
         items' = << [row |-> list[f], count |-> n] >>
  BY DEF BeginPrefill
<1>4. PICK n \in Tiles(list[f]) : items' = << [row |-> list[f], count |-> n] >>
  BY <1>3
<1> DEFINE r == list[f]
<1>5. r \in Rows
  BY DEF FirstAdmitted
<1>6. r \in Batch /\ work[r].prefill /\ work'[r] = [work[r] EXCEPT !.admitted = TRUE]
  BY <1>1, <1>5, BeginRow
<1>7. work[r] \in Row /\ RowInv(work[r], Prompt(r)) /\ TypeOK
  BY <1>5, RowFacts DEF BatchInv
<1>8. n \in Nat \ {0} /\ n <= Uncached(r)
  BY <1>4, <1>5, <1>6, <1>7, TilesBounded
<1>9. /\ work'[r].at = work[r].at /\ work'[r].prefill /\ work'[r].admitted
      /\ work'[r].produced = work[r].produced
      /\ work'[r].replay_offset = work[r].replay_offset
      /\ work'[r].prefill_offset = work[r].prefill_offset
  BY <1>6, <1>7 DEF Row
<1>10. r \in Batch' /\ Uncached(r)' = Uncached(r)
  BY <1>5, <1>6, <1>9, UncachedSame DEF Batch
<1>11. items' = << [row |-> r, count |-> n] >>
  BY <1>4
<1> HIDE DEF r
<1>12. ItemsInv'
  BY <1>1, <1>8, <1>9, <1>10, <1>11 DEF ItemsInv
<1>13. items' \in Seq([row : Rows, count : Nat \ {0}])
  BY <1>5, <1>8, <1>11
<1>14. TypeOK'
  BY <1>1, <1>2, <1>13 DEF BatchInv, TypeOK, RowsKept
<1> QED BY <1>2, <1>12, <1>14, Combine

(***************************************************************************)
(* Decode and retraction.                                                  *)
(***************************************************************************)
\* An operation that ends the step.
LEMMA EndStepKeeps ==
    ASSUME BatchInv, load' = load, NEW toggle \in BOOLEAN, EndStep(toggle), RowsKept, ActiveInv',
           active' \in Seq(Rows), ratio' \in 1..Scale, idle' \in Nat, faults' \in 0..MaxFaults
    PROVE  BatchInv'
<1>1. /\ stage' = "resume" /\ items' = <<>> /\ todo' = ToResume(Listed)
      /\ decode_next' \in BOOLEAN /\ eligible' = eligible /\ cancelled' = cancelled /\ stalls' = stalls
  BY DEF EndStep
<1>2. ItemsInv'
  BY <1>1, NoItems
<1>3. todo' \subseteq Rows
  BY <1>1 DEF BatchInv, TypeOK, ToResume, Listed, ToSet
<1>4. TypeOK'
  BY <1>1, <1>3 DEF BatchInv, TypeOK, RowsKept
<1> QED BY <1>2, <1>4, Combine

\* There is another row on the active list.
LEMMA AnotherActive ==
    ASSUME BatchInv, NEW r \in Rows, r \in Active, Len(active) > 1
    PROVE  Active \ {r} # {} /\ Active \ {r} \in SUBSET Rows
<1>1. active \in Seq(Rows) /\ \A i, j \in DOMAIN active : active[i] = active[j] => i = j
  BY DEF BatchInv, TypeOK, ActiveInv
<1>2. 1 \in DOMAIN active /\ 2 \in DOMAIN active
  BY <1>1
<1>3. active[1] # active[2] /\ active[1] \in Active /\ active[2] \in Active
  BY <1>1, <1>2 DEF Active, ToSet
<1>4. Active \subseteq Rows
  BY <1>1 DEF Active, ToSet
<1> QED BY <1>3, <1>4

LEMMA RetractOneKeeps ==
    ASSUME BatchInv, NEW r \in Rows, retract_one(r)
    PROVE  /\ RowsKept /\ ActiveInv' /\ active' \in Seq(Rows)
           /\ ratio' \in 1..Scale /\ idle' \in Nat
<1> DEFINE w == work[r]
           d == Retracted(w)
<1>1. w \in Row /\ Prompt(r) \in Nat \ {0} /\ RowInv(w, Prompt(r)) /\ TypeOK
  BY RowFacts DEF BatchInv
<1>2. /\ work' = [work EXCEPT ![r] = d] /\ active' = Without(active, r) /\ idle' = 0
      /\ ratio' = AfterRetraction(Active \ {r}) /\ r \in Retractable
  BY DEF retract_one, NextRetracted
<1>3. Len(active) > 1 /\ r \in Active /\ w.decode
  BY <1>1, <1>2 DEF Retractable, TypeOK
<1>4. w.active
  BY <1>3 DEF BatchInv, ActiveInv
<1> HIDE DEF w
<1>5. d \in Row /\ RowInv(d, Prompt(r)) /\ ~d.active
  BY <1>1, <1>3, <1>4, RetractedKeeps
<1> HIDE DEF d
<1>6. RowsKept /\ work'[r] = d /\ \A t \in Rows \ {r} : work'[t] = work[t]
  BY <1>2, <1>5, OneRowKeepsRows
<1>7. ActiveInv' /\ active' \in Seq(Rows)
  BY <1>2, <1>5, <1>6, ActiveErased
<1>8. ratio' \in 1..Scale
  BY <1>1, <1>2, <1>3, AnotherActive, RatioAfterRetraction
<1> QED BY <1>2, <1>6, <1>7, <1>8

LEMMA RetractStep ==
    ASSUME BatchInv, load' = load, Retract
    PROVE  BatchInv'
<1>1. PICK r \in Rows : retract_one(r)
  BY DEF Retract
<1>2. /\ RowsKept /\ ActiveInv' /\ active' \in Seq(Rows)
      /\ ratio' \in 1..Scale /\ idle' \in Nat
  BY <1>1, RetractOneKeeps
<1>3. stage = "decode" /\ stage' = stage /\ items' = items
  BY DEF Retract, Decoding
<1>4. ItemsInv'
  BY <1>3, NoItems DEF BatchInv, ItemsInv
<1>5. TypeOK'
  BY <1>2 DEF BatchInv, TypeOK, RowsKept, Retract
<1> QED BY <1>2, <1>4, <1>5, Combine

LEMMA FailKeeps ==
    ASSUME BatchInv, NEW r \in Rows, Victim(r), Fail(r)
    PROVE  /\ RowsKept /\ ActiveInv' /\ active' \in Seq(Rows)
           /\ ratio' \in 1..Scale /\ idle' \in Nat
<1> DEFINE w == work[r]
           d == [w EXCEPT !.failure = TRUE, !.decode = FALSE, !.active = FALSE, !.held = 0]
<1>1. w \in Row /\ Prompt(r) \in Nat \ {0} /\ RowInv(w, Prompt(r)) /\ TypeOK
  BY RowFacts DEF BatchInv
<1>2. /\ work' = [work EXCEPT ![r] = d] /\ active' = Without(active, r)
      /\ idle' = idle /\ ratio' = ratio
  BY DEF Fail
<1>3. w.active /\ w.decode
  BY DEF Victim, Eligible, BatchInv, ActiveInv
<1> HIDE DEF w
<1>4. d \in Row /\ RowInv(d, Prompt(r)) /\ d.held = 0 /\ ~d.active
  BY <1>1, <1>3, FailedKeeps
<1> HIDE DEF d
<1>6. RowsKept /\ work'[r] = d /\ \A t \in Rows \ {r} : work'[t] = work[t]
  BY <1>2, <1>4, OneRowKeepsRows
<1>7. ActiveInv' /\ active' \in Seq(Rows)
  BY <1>2, <1>4, <1>6, ActiveErased
<1> QED BY <1>1, <1>2, <1>6, <1>7 DEF TypeOK

LEMMA DecodeOutOfMemoryStep ==
    ASSUME BatchInv, load' = load, DecodeOutOfMemory
    PROVE  BatchInv'
<1>1. PICK r \in Rows : retract_one(r) \/ (Victim(r) /\ Fail(r))
  BY DEF DecodeOutOfMemory
<1>2. /\ RowsKept /\ ActiveInv' /\ active' \in Seq(Rows)
      /\ ratio' \in 1..Scale /\ idle' \in Nat
  BY <1>1, RetractOneKeeps, FailKeeps
<1>3. faults' \in 0..MaxFaults
  <2>1. faults \in Nat /\ MaxFaults \in Nat
    BY BatchAssumption DEF BatchInv, TypeOK
  <2>2. faults' = faults + (IF HasCapacity THEN 1 ELSE 0) /\ faults' <= MaxFaults
    BY DEF DecodeOutOfMemory
  <2> QED BY <2>1, <2>2
<1>4. EndStep(FALSE)
  BY DEF DecodeOutOfMemory
<1> QED BY <1>2, <1>3, <1>4, EndStepKeeps

LEMMA RetractThrowsStep ==
    ASSUME BatchInv, load' = load, RetractThrows
    PROVE  BatchInv'
<1>1. PICK r \in Rows : \E gone \in { Listed, Rows }, held \in {work[r].held, 0} :
         NextRetracted(r) /\ Complete([work EXCEPT ![r].held = held], gone)
  BY DEF RetractThrows
<1>2. PICK gone \in { Listed, Rows }, held \in {work[r].held, 0} :
         NextRetracted(r) /\ Complete([work EXCEPT ![r].held = held], gone)
  BY <1>1
<1> DEFINE w == work[r]
           d == [w EXCEPT !.held = held]
           W == [work EXCEPT ![r] = d]
<1>3. gone \in SUBSET Rows
  BY DEF Listed, ToSet, BatchInv, TypeOK
<1>4. work \in [Rows -> Row] /\ w \in Row /\ Prompt(r) \in Nat \ {0} /\ RowInv(w, Prompt(r))
  BY RowFacts DEF BatchInv, TypeOK
<1>5. w.active /\ w.decode
  BY <1>2 DEF NextRetracted, Retractable, BatchInv, ActiveInv
<1>6. d \in Row /\ RowInv(d, Prompt(r)) /\ (d.active <=> w.active)
  <2>1. held \in {w.held, 0}
    OBVIOUS
  <2> HIDE DEF w
  <2> QED BY <1>4, <1>5, <2>1, StrippedKeeps
<1>7. Complete(W, gone)
  BY <1>2
<1> HIDE DEF d
<1>8. W \in [Rows -> Row]
      /\ \A t \in Rows : RowInv(W[t], Prompt(t)) /\ (W[t].active <=> work[t].active)
  BY <1>4, <1>6, RowFacts
<1> HIDE DEF W
<1>9. /\ RowsKept /\ ActiveInv' /\ active' \in Seq(Rows)
      /\ ratio' \in 1..Scale /\ todo' \subseteq Rows
  BY <1>3, <1>7, <1>8, CompleteKeeps
<1>10. stage = "decode" /\ stage' = "resume" /\ items' = items
  BY DEF RetractThrows, Decoding
<1>11. idle' \in Nat /\ faults' \in 0..MaxFaults
  <2>1. idle' \in {idle, 0} /\ faults < MaxFaults /\ faults' = faults + 1
    BY DEF RetractThrows
  <2> QED BY <2>1, BatchAssumption DEF BatchInv, TypeOK
<1>12. ItemsInv'
  BY <1>10, NoItems DEF BatchInv, ItemsInv
<1>13. TypeOK'
  BY <1>9, <1>10, <1>11 DEF BatchInv, TypeOK, RowsKept, RetractThrows
<1> QED BY <1>9, <1>12, <1>13, Combine

LEMMA DecodeDiesStep ==
    ASSUME BatchInv, load' = load, DecodeDies
    PROVE  BatchInv'
<1>1. /\ work' = [r \in Rows |-> Released(work[r])] /\ active' = <<>>
      /\ stage = "decode" /\ stage' = "idle" /\ items' = items
  BY DEF DecodeDies
<1>2. ASSUME NEW r \in Rows
      PROVE  work'[r] \in Row /\ RowInv(work'[r], Prompt(r)) /\ ~work'[r].active
  BY <1>1, RowFacts, ReleasedKeeps
<1>3. RowsKept
  BY <1>1, <1>2, MapKeepsRows
<1>4. ActiveInv' /\ active' \in Seq(Rows)
  BY <1>1, <1>2, ActiveCleared
<1>5. ItemsInv'
  BY <1>1, NoItems DEF BatchInv, ItemsInv
<1>6. TypeOK'
  BY <1>3, <1>4, BatchAssumption DEF BatchInv, TypeOK, RowsKept, DecodeDies
<1> QED BY <1>3, <1>4, <1>5, <1>6, Combine

LEMMA DecodeStep ==
    ASSUME BatchInv, load' = load, Decode
    PROVE  BatchInv'
<1> DEFINE rows == Eligible(Listed)
<1>1. /\ work' = [r \in Rows |-> IF r \in rows THEN Decoded(work[r]) ELSE work[r]]
      /\ ratio' = Max({Minimum, ratio - 1}) /\ EndStep(TRUE)
      /\ active' = active /\ faults' = faults
  BY DEF Decode
<1>2. idle' \in Nat
  BY BatchAssumption DEF Decode, BatchInv, TypeOK
<1>3. rows \in SUBSET Rows
      /\ \A r \in rows : work[r].active /\ work[r].decode /\ work[r].held # 0
  <2>1. Active \subseteq Rows
    BY DEF Active, ToSet, BatchInv, TypeOK
  <2> QED BY <2>1 DEF Eligible, BatchInv, ActiveInv, Decode, Decoding, Stripped
<1> HIDE DEF rows
<1>4. ASSUME NEW r \in Rows
      PROVE  /\ work'[r] \in Row /\ RowInv(work'[r], Prompt(r))
             /\ (work'[r].active <=> work[r].active)
  <2> DEFINE w == work[r]
  <2>1. w \in Row /\ Prompt(r) \in Nat \ {0} /\ RowInv(w, Prompt(r))
    BY RowFacts
  <2>2. work'[r] = IF r \in rows THEN Decoded(w) ELSE w
    BY <1>1
  <2>3. r \in rows => w.active /\ w.decode /\ w.held # 0
    BY <1>3
  <2> HIDE DEF w
  <2>4. CASE r \in rows
    <3>1. Decoded(w) \in Row /\ RowInv(Decoded(w), Prompt(r)) /\ Decoded(w).active
      BY <2>1, <2>3, <2>4, DecodedKeeps
    <3> QED BY <2>2, <2>3, <2>4, <3>1 DEF w
  <2>5. CASE r \notin rows
    BY <2>1, <2>2, <2>5 DEF w
  <2> QED BY <2>4, <2>5
<1>5. RowsKept
  BY <1>1, <1>4, MapKeepsRows
<1>6. ActiveInv' /\ active' \in Seq(Rows)
  BY <1>1, <1>4, ActiveSame
<1>7. ratio' \in 1..Scale /\ faults' \in 0..MaxFaults
  <2>1. ratio \in 1..Scale /\ Minimum \in 1..Scale /\ Scale \in Nat
    BY BatchAssumption DEF BatchInv, TypeOK
  <2>2. ratio' = IF Minimum >= ratio - 1 THEN Minimum ELSE ratio - 1
    BY <1>1, <2>1, MaxOfTwo
  <2> QED BY <1>1, <2>1, <2>2 DEF BatchInv, TypeOK
<1> QED BY <1>1, <1>2, <1>5, <1>6, <1>7, EndStepKeeps

(***************************************************************************)
(* Prefill.                                                                *)
(***************************************************************************)
\* A row with a chunk to prefill is not on the active list.
LEMMA PrefillInactive ==
    ASSUME NEW p \in Nat \ {0}, NEW w \in Row, RowInv(w, p), w.prefill
    PROVE  ~w.active /\ (w.failure => w.replay_offset < 0 /\ w.held # w.prefill_offset)
  BY DEF Row, Places, RowInv, RestingInv, FailedInv, PrefillingInv, DecodingInv

\* The rows of the prefill, and the chunk each of them gets.
LEMMA ItemFacts ==
    ASSUME BatchInv
    PROVE  /\ ItemRows \subseteq Rows
           /\ \A i \in DOMAIN items : CountOf(items[i].row) = items[i].count
           /\ \A r \in ItemRows : /\ CountOf(r) \in Nat \ {0} /\ CountOf(r) <= Uncached(r)
                                  /\ r \in Batch /\ work[r].prefill /\ work[r].admitted
<1>1. /\ items \in Seq([row : Rows, count : Nat \ {0}])
      /\ \A i, j \in DOMAIN items : items[i].row = items[j].row => i = j
      /\ \A i \in DOMAIN items : /\ items[i].row \in Batch /\ work[items[i].row].prefill
                                 /\ work[items[i].row].admitted
                                 /\ items[i].count <= Uncached(items[i].row)
  BY DEF BatchInv, TypeOK, ItemsInv
<1>2. ASSUME NEW i \in DOMAIN items
      PROVE  CountOf(items[i].row) = items[i].count
  <2> DEFINE k == CHOOSE j \in DOMAIN items : items[j].row = items[i].row
  <2>1. k \in DOMAIN items /\ items[k].row = items[i].row
    OBVIOUS
  <2>2. k = i
    BY <1>1, <2>1
  <2> QED BY <2>2 DEF CountOf
<1>3. ASSUME NEW i \in DOMAIN items
      PROVE  items[i].row \in Rows /\ items[i].count \in Nat \ {0}
  <2> DEFINE T == [row : Rows, count : Nat \ {0}]
  <2>1. items \in Seq(T) /\ \A t \in T : t.row \in Rows /\ t.count \in Nat \ {0}
    BY <1>1
  <2> HIDE DEF T
  <2>2. items[i] \in T
    BY <2>1
  <2> QED BY <2>1, <2>2
<1>4. ItemRows \subseteq Rows
  BY <1>3 DEF ItemRows
<1>5. ASSUME NEW r \in ItemRows
      PROVE  /\ CountOf(r) \in Nat \ {0} /\ CountOf(r) <= Uncached(r)
             /\ r \in Batch /\ work[r].prefill /\ work[r].admitted
  <2>1. PICK i \in DOMAIN items : r = items[i].row
    BY DEF ItemRows
  <2> QED BY <1>1, <1>2, <1>3, <2>1
<1> QED BY <1>2, <1>4, <1>5

\* A replay is alone in its prefill.
LEMMA ReplayingAlone ==
    ASSUME BatchInv, stage = "pack"
    PROVE  \A r \in ItemRows : work[r].replay_offset >= 0 <=> Replaying
<1>1. /\ items \in Seq([row : Rows, count : Nat \ {0}]) /\ items # <<>>
      /\ \A i \in DOMAIN items : work[items[i].row].replay_offset >= 0 => Len(items) = 1
  BY DEF BatchInv, TypeOK, ItemsInv
<1>2. 1 \in DOMAIN items /\ DOMAIN items = 1..Len(items) /\ Len(items) \in Nat
  BY <1>1
<1>3. ASSUME NEW i \in DOMAIN items
      PROVE  work[items[i].row].replay_offset >= 0 <=> Replaying
  <2>1. CASE Len(items) = 1
    <3>1. i = 1
      BY <1>2, <2>1
    <3> QED BY <3>1 DEF Replaying
  <2>2. CASE Len(items) # 1
    BY <1>1, <1>2, <2>2 DEF Replaying
  <2> QED BY <2>1, <2>2
<1> QED BY <1>3 DEF ItemRows

LEMMA PackStep ==
    ASSUME BatchInv, load' = load, Pack
    PROVE  BatchInv'
<1>1. PICK i \in DOMAIN eligible :
         /\ Packable(eligible[i])
         /\ \E n \in Tiles(eligible[i]) : items' = Append(items, [row |-> eligible[i], count |-> n])
         /\ work' = [work EXCEPT ![eligible[i]].admitted = TRUE]
  BY DEF Pack
<1>2. PICK n \in Tiles(eligible[i]) : items' = Append(items, [row |-> eligible[i], count |-> n])
  BY <1>1
<1> DEFINE r == eligible[i]
           w == work[r]
           d == [w EXCEPT !.admitted = TRUE]
<1>3. r \in Rows
  BY DEF BatchInv, TypeOK
<1>4. /\ r \in Batch /\ w.prefill /\ r \notin ItemRows /\ ~Replaying /\ w.replay_offset < 0
      /\ work' = [work EXCEPT ![r] = d] /\ stage = "pack" /\ stage' = stage
      /\ items' = Append(items, [row |-> r, count |-> n]) /\ active' = active
  BY <1>1, <1>2 DEF Packable, Pack
<1>5. w \in Row /\ Prompt(r) \in Nat \ {0} /\ RowInv(w, Prompt(r)) /\ TypeOK /\ n \in Tiles(r)
  BY <1>2, <1>3, RowFacts DEF BatchInv
<1>6. n \in Nat \ {0} /\ n <= Uncached(r)
  BY <1>3, <1>4, <1>5, TilesBounded
<1>7. InBatch(w)
  BY <1>4 DEF Batch, InBatch
<1> HIDE DEF r
<1>8. d \in Row /\ RowInv(d, Prompt(r)) /\ d.held = w.held /\ (d.active <=> w.active)
  <2> HIDE DEF w
  <2> QED BY <1>5, <1>7, AdmittedKeeps
<1>9. /\ d.at = w.at /\ d.admitted /\ (d.prefill <=> w.prefill) /\ d.produced = w.produced
      /\ d.replay_offset = w.replay_offset /\ d.prefill_offset = w.prefill_offset
  BY <1>5 DEF Row
<1>10. d.held <= work[r].held
  BY <1>5, <1>8 DEF Row
<1> HIDE DEF d
<1>11. RowsKept /\ work'[r] = d /\ \A t \in Rows \ {r} : work'[t] = work[t]
  BY <1>3, <1>4, <1>8, <1>10, OneRowKeepsRows
<1>12. ActiveInv' /\ active' \in Seq(Rows)
  <2>1. \A t \in Rows : work'[t].active <=> work[t].active
    BY <1>8, <1>11
  <2> QED BY <1>4, <2>1, ActiveSame
<1>13. \A t \in Rows : /\ work'[t].at = work[t].at /\ (work'[t].prefill <=> work[t].prefill)
                       /\ (work[t].admitted => work'[t].admitted)
                       /\ work'[t].produced = work[t].produced
                       /\ work'[t].replay_offset = work[t].replay_offset
                       /\ work'[t].prefill_offset = work[t].prefill_offset
  BY <1>9, <1>11
<1>14. Batch' = Batch /\ \A t \in Rows : Uncached(t)' = Uncached(t)
  BY <1>13, UncachedSame DEF Batch
<1>15. items \in Seq([row : Rows, count : Nat \ {0}]) /\ [row |-> r, count |-> n] \in [row : Rows, count : Nat \ {0}]
  BY <1>3, <1>5, <1>6 DEF TypeOK
<1>16. /\ items' \in Seq([row : Rows, count : Nat \ {0}]) /\ Len(items') = Len(items) + 1
       /\ Len(items) \in Nat /\ DOMAIN items = 1..Len(items) /\ DOMAIN items' = 1..(Len(items) + 1)
       /\ items'[Len(items) + 1] = [row |-> r, count |-> n]
       /\ \A j \in 1..Len(items) : items'[j] = items[j] /\ items[j].row \in Rows
  <2> DEFINE T == [row : Rows, count : Nat \ {0}]
             e == [row |-> r, count |-> n]
  <2>1. items \in Seq(T) /\ e \in T /\ items' = Append(items, e)
    BY <1>4, <1>15
  <2>2. \A t \in T : t.row \in Rows
    OBVIOUS
  <2> HIDE DEF T, e
  <2>3. /\ items' \in Seq(T) /\ Len(items') = Len(items) + 1
        /\ Len(items) \in Nat /\ DOMAIN items = 1..Len(items) /\ DOMAIN items' = 1..(Len(items) + 1)
        /\ items'[Len(items) + 1] = e
        /\ \A j \in 1..Len(items) : items'[j] = items[j] /\ items[j] \in T
    BY <2>1
  <2> QED BY <2>2, <2>3 DEF T, e
<1>17. \A j \in 1..Len(items) :
          /\ items[j].row # r /\ items[j].row \in Rows
          /\ items[j].row \in Batch /\ work[items[j].row].prefill /\ work[items[j].row].admitted
          /\ items[j].count <= Uncached(items[j].row)
          /\ work[items[j].row].replay_offset < 0
  <2>1. ASSUME NEW j \in 1..Len(items)
        PROVE  /\ items[j].row # r /\ items[j].row \in Rows
               /\ items[j].row \in Batch /\ work[items[j].row].prefill
               /\ work[items[j].row].admitted /\ items[j].count <= Uncached(items[j].row)
               /\ ~(work[items[j].row].replay_offset >= 0)
    <3>1. items[j].row \in ItemRows
      BY <1>16 DEF ItemRows
    <3>2. ~(work[items[j].row].replay_offset >= 0)
      BY <1>4, <3>1, ReplayingAlone
    <3> QED BY <1>4, <1>16, <3>1, <3>2 DEF BatchInv, ItemsInv
  <2>2. ASSUME NEW j \in 1..Len(items)
        PROVE  work[items[j].row].replay_offset < 0
    <3>1. work[items[j].row] \in Row
      BY <1>5, <2>1 DEF TypeOK
    <3> QED BY <2>1, <3>1 DEF Row
  <2> QED BY <2>1, <2>2
<1>18. \A i1, i2 \in DOMAIN items' : items'[i1].row = items'[i2].row => i1 = i2
  <2>1. \A i1, i2 \in 1..Len(items) : items[i1].row = items[i2].row => i1 = i2
    BY <1>16 DEF BatchInv, ItemsInv
  <2> QED BY <1>16, <1>17, <2>1
<1>19. ASSUME NEW k \in DOMAIN items'
       PROVE  /\ items'[k].row \in Batch'
              /\ work'[items'[k].row].prefill /\ work'[items'[k].row].admitted
              /\ items'[k].count <= Uncached(items[k].row)'
              /\ (work'[items'[k].row].replay_offset >= 0 => Len(items') = 1)
  <2>1. CASE k \in 1..Len(items)
    <3>1. items'[k] = items[k] /\ items[k].row \in Rows
      BY <1>16, <2>1
    <3>2. work[items[k].row] \in Row
      BY <1>5, <3>1 DEF TypeOK
    <3>3. ~(work[items[k].row].replay_offset >= 0)
      BY <1>17, <2>1, <3>2 DEF Row
    <3>4. Uncached(items[k].row)' = Uncached(items[k].row)
      BY <1>14, <3>1 DEF Uncached, ReplayLength, Prompt
    <3> QED BY <1>13, <1>14, <1>17, <2>1, <3>1, <3>3, <3>4
  <2>2. CASE k = Len(items) + 1
    <3>1. items'[k].row = r /\ items'[k].count = n
      BY <1>16, <2>2
    <3>2. ~(w.replay_offset >= 0)
      BY <1>4, <1>5 DEF Row
    <3>3. Uncached(items[k].row)' = Uncached(r)
      BY <1>3, <1>14, <3>1 DEF Uncached, ReplayLength, Prompt
    <3> QED BY <1>3, <1>4, <1>6, <1>9, <1>11, <1>14, <3>1, <3>2, <3>3
  <2> QED BY <1>16, <2>1, <2>2
<1>20. ItemsInv'
  <2>1. stage' = "pack" <=> items' # <<>>
    BY <1>4, <1>16
  <2> QED BY <1>18, <1>19, <2>1 DEF ItemsInv
<1>21. TypeOK'
  BY <1>11, <1>12, <1>16 DEF BatchInv, TypeOK, RowsKept, Pack
<1> QED BY <1>11, <1>12, <1>20, <1>21, Combine

LEMMA PrefillFaultBounded ==
    ASSUME BatchInv, PrefillFault
    PROVE  faults' \in 0..MaxFaults
<1>1. faults \in Nat /\ MaxFaults \in Nat
  BY BatchAssumption DEF BatchInv, TypeOK
<1>2. faults' <= MaxFaults /\ faults' \in {faults, faults + 1}
  BY <1>1 DEF PrefillFault
<1> QED BY <1>1, <1>2

LEMMA PrefillThrowsStep ==
    ASSUME BatchInv, load' = load, PrefillThrows
    PROVE  BatchInv'
<1>1. /\ work' = [r \in Rows |-> IF r \in ItemRows THEN Discarded(work[r]) ELSE work[r]]
      /\ EndStep(FALSE) /\ active' = active /\ ratio' = ratio /\ idle' = idle /\ PrefillFault
  BY DEF PrefillThrows
<1>2. ASSUME NEW r \in Rows
      PROVE  /\ work'[r] \in Row /\ RowInv(work'[r], Prompt(r))
             /\ (work'[r].active <=> work[r].active)
  <2> DEFINE w == work[r]
  <2>1. w \in Row /\ Prompt(r) \in Nat \ {0} /\ RowInv(w, Prompt(r))
    BY RowFacts
  <2>2. work'[r] = IF r \in ItemRows THEN Discarded(w) ELSE w
    BY <1>1
  <2>3. r \in ItemRows => w.prefill
    BY ItemFacts
  <2>4. w.held \in Nat
    BY <2>1 DEF Row
  <2> HIDE DEF w
  <2>5. CASE r \in ItemRows
    <3>1. /\ Discarded(w) \in Row /\ RowInv(Discarded(w), Prompt(r))
          /\ Discarded(w).held = 0 /\ ~Discarded(w).active
      BY <2>1, <2>3, <2>5, DiscardedKeeps
    <3>2. ~w.active
      BY <2>1, <2>3, <2>5, PrefillInactive
    <3> QED BY <2>2, <2>4, <2>5, <3>1, <3>2 DEF w
  <2>6. CASE r \notin ItemRows
    BY <2>1, <2>2, <2>4, <2>6 DEF w
  <2> QED BY <2>5, <2>6
<1>3. DOMAIN work' = Rows /\ work' = [r \in Rows |-> work'[r]]
  BY <1>1
<1>4. RowsKept
  BY <1>2, <1>3, MapKeepsRows
<1>5. ActiveInv' /\ active' \in Seq(Rows)
  BY <1>1, <1>2, ActiveSame
<1>6. ratio' \in 1..Scale /\ idle' \in Nat /\ faults' \in 0..MaxFaults
  BY <1>1, PrefillFaultBounded DEF BatchInv, TypeOK
<1> QED BY <1>1, <1>4, <1>5, <1>6, EndStepKeeps

LEMMA StepThrowsStep ==
    ASSUME BatchInv, load' = load, StepThrows
    PROVE  BatchInv'
<1>1. PICK gone \in { Listed, Rows } :
         /\ Recover({ r \in gone : work[r].at # "done" })
         /\ ratio' = RatioAfter(Batch \ gone)
         /\ todo' = { r \in cancelled \ gone : work[r].at # "done" }
  BY DEF StepThrows
<1>2. RowsKept /\ ActiveInv' /\ active' \in Seq(Rows)
  BY <1>1, RecoverKeeps
<1>3. ratio' \in 1..Scale
  <2>1. ratio' \in {ratio, RatioAfter(Batch \ gone)}
    BY <1>1
  <2> QED BY <2>1, RatioKept
<1>4. todo' \subseteq Rows
  BY <1>1 DEF BatchInv, TypeOK
<1>5. faults' \in 0..MaxFaults
  BY BatchAssumption DEF StepThrows, BatchInv, TypeOK
<1>6. stage' = "resume" /\ items' = <<>> /\ idle' = 0
  BY DEF StepThrows
<1>7. ItemsInv'
  BY <1>6, NoItems
<1>8. TypeOK'
  BY <1>2, <1>3, <1>4, <1>5, <1>6 DEF BatchInv, TypeOK, RowsKept, StepThrows
<1> QED BY <1>2, <1>7, <1>8, Combine

\* One row of a prefill that returns.
LEMMA AdvancedKeeps ==
    ASSUME BatchInv, stage = "pack", NEW r \in ItemRows, ~Lost(r)
    PROVE  /\ Advanced(r) \in Row /\ RowInv(Advanced(r), Prompt(r))
           /\ Advanced(r).held = work[r].held + CountOf(r) /\ ~work[r].active
<1> DEFINE w == work[r]
<1>1. /\ r \in Rows /\ CountOf(r) \in Nat \ {0} /\ CountOf(r) <= Uncached(r)
      /\ w.prefill /\ w.admitted
  BY ItemFacts
<1>2. w \in Row /\ Prompt(r) \in Nat \ {0} /\ RowInv(w, Prompt(r)) /\ TypeOK
  BY <1>1, RowFacts DEF BatchInv
<1>3. /\ w.replay_offset >= 0 =>
            /\ Uncached(r) = Prompt(r) + w.produced - 1 - w.replay_offset
            /\ ReplayLength(r) = Prompt(r) + w.produced - 1
      /\ w.replay_offset < 0 => Uncached(r) = Prompt(r) - w.prefill_offset
  BY <1>1, <1>2, UncachedPositive
<1>4. w.replay_offset >= 0 <=> Replaying
  BY ReplayingAlone
<1>5. Lost(r) <=> w.replay_offset < 0 /\ w.held # w.prefill_offset
  BY DEF Lost
<1>6. Advanced(r) = IF Replaying THEN Replayed(r, w) ELSE Prefilled(r, w)
  BY DEF Advanced
<1> HIDE DEF w
<1>7. ~w.active /\ ~w.failure
  BY <1>1, <1>2, <1>5, PrefillInactive
<1>8. CASE w.replay_offset >= 0
  <2>1. CountOf(r) <= ReplayLength(r) - w.replay_offset
    <3>1. w.produced \in Nat /\ w.replay_offset \in Int
      BY <1>2 DEF Row
    <3> QED BY <1>1, <1>2, <1>3, <1>8, <3>1
  <2>2. /\ Replayed(r, w) \in Row /\ RowInv(Replayed(r, w), Prompt(r))
        /\ Replayed(r, w).held = w.held + CountOf(r)
    BY <1>1, <1>2, <1>3, <1>8, <2>1, ReplayedKeeps
  <2> QED BY <1>4, <1>6, <1>7, <1>8, <2>2 DEF w
<1>9. CASE w.replay_offset < 0
  <2>1. ~(w.replay_offset >= 0)
    BY <1>2, <1>9 DEF Row
  <2>2. /\ Prefilled(r, w) \in Row /\ RowInv(Prefilled(r, w), Prompt(r))
        /\ Prefilled(r, w).held = w.held + CountOf(r)
    BY <1>1, <1>2, <1>3, <1>7, <1>9, PrefilledKeeps
  <2> QED BY <1>4, <1>6, <1>7, <2>1, <2>2 DEF w
<1> QED BY <1>2, <1>8, <1>9 DEF Row

\* Keeping some of the elements of a list in which each occurs once.
LEMMA FilterInside ==
    ASSUME NEW X, NEW s \in Seq(X), \A i, j \in DOMAIN s : s[i] = s[j] => i = j,
           NEW S \in SUBSET ToSet(s)
    PROVE  /\ Filter(s, S) \in Seq(X) /\ ToSet(Filter(s, S)) = S
           /\ \A i, j \in DOMAIN Filter(s, S) : Filter(s, S)[i] = Filter(s, S)[j] => i = j
<1>1. ToSet(Filter(s, S)) = ToSet(s) \cap S
  BY FilterSet
<1>2. Filter(s, S) \in Seq(X)
  BY FilterElements
<1>3. \A i, j \in DOMAIN Filter(s, S) : Filter(s, S)[i] = Filter(s, S)[j] => i = j
  BY FilterElements
<1> QED BY <1>1, <1>2, <1>3

\* The rows whose last chunk it was join the active list.
LEMMA ActiveJoined ==
    ASSUME BatchInv, NEW new \in SUBSET ItemRows,
           \A r \in ItemRows : ~work[r].active,
           active' = active \o Filter([i \in DOMAIN items |-> items[i].row], new),
           \A r \in Rows : work'[r].active <=> (work[r].active \/ r \in new)
    PROVE  ActiveInv' /\ active' \in Seq(Rows)
<1> DEFINE s == [i \in DOMAIN items |-> items[i].row]
           f == Filter(s, new)
<1>1. /\ active \in Seq(Rows) /\ \A i, j \in DOMAIN active : active[i] = active[j] => i = j
      /\ \A r \in Rows : work[r].active <=> r \in Active
  BY DEF BatchInv, TypeOK, ActiveInv
<1>2. s \in Seq(Rows) /\ (\A i, j \in DOMAIN s : s[i] = s[j] => i = j)
      /\ ToSet(s) = ItemRows
  <2>1. items \in Seq([row : Rows, count : Nat \ {0}])
        /\ \A i, j \in DOMAIN items : items[i].row = items[j].row => i = j
    BY DEF BatchInv, TypeOK, ItemsInv
  <2>2. DOMAIN items = 1..Len(items) /\ Len(items) \in Nat
    BY <2>1
  <2>3. \A i \in DOMAIN items : items[i].row \in Rows
    BY ItemFacts DEF ItemRows
  <2>4. DOMAIN s = DOMAIN items /\ \A i \in DOMAIN items : s[i] = items[i].row
    OBVIOUS
  <2>5. s \in [1..Len(items) -> Rows]
    BY <2>2, <2>3
  <2>6. s \in Seq(Rows)
    BY <2>2, <2>5
  <2>7. ToSet(s) = ItemRows
    BY <2>4 DEF ItemRows, ToSet
  <2> HIDE DEF s
  <2> QED BY <2>1, <2>4, <2>6, <2>7
<1> HIDE DEF s
<1>3. /\ f \in Seq(Rows) /\ ToSet(f) = new
      /\ \A i, j \in DOMAIN f : f[i] = f[j] => i = j
  BY <1>2, FilterInside
<1>4. active' = active \o f
  BY DEF s
<1> HIDE DEF f
<1>5. /\ active' \in Seq(Rows) /\ Len(active) \in Nat /\ Len(f) \in Nat
      /\ DOMAIN active = 1..Len(active) /\ DOMAIN f = 1..Len(f)
      /\ DOMAIN active' = 1..(Len(active) + Len(f))
      /\ \A i \in 1..Len(active) : active'[i] = active[i]
      /\ \A i \in 1..Len(f) : active'[Len(active) + i] = f[i]
  <2>1. active \in Seq(Rows) /\ f \in Seq(Rows)
    BY <1>1, <1>3
  <2>2. /\ active' \in Seq(Rows) /\ Len(active') = Len(active) + Len(f)
        /\ \A i \in 1..(Len(active) + Len(f)) :
              active'[i] = IF i <= Len(active) THEN active[i] ELSE f[i - Len(active)]
    <3> DEFINE c == active \o f
    <3>1. /\ c \in Seq(Rows) /\ Len(c) = Len(active) + Len(f)
          /\ \A i \in 1..Len(active) + Len(f) :
                c[i] = IF i <= Len(active) THEN active[i] ELSE f[i - Len(active)]
      BY <2>1, ConcatProperties, Zenon
    <3>2. active' = c
      BY <1>4
    <3> QED BY <3>1, <3>2, Zenon
  <2>3. /\ Len(active) \in Nat /\ Len(f) \in Nat
        /\ DOMAIN active = 1..Len(active) /\ DOMAIN f = 1..Len(f)
        /\ DOMAIN active' = 1..(Len(active) + Len(f))
    BY <2>1, <2>2
  <2>4. \A i \in 1..Len(active) : active'[i] = active[i]
    BY <2>2, <2>3
  <2>5. ASSUME NEW i \in 1..Len(f) PROVE active'[Len(active) + i] = f[i]
    <3>1. /\ Len(active) + i \in 1..(Len(active) + Len(f)) /\ ~(Len(active) + i <= Len(active))
          /\ (Len(active) + i) - Len(active) = i
      BY <2>3
    <3> QED BY <2>2, <3>1
  <2> QED BY <2>2, <2>3, <2>4, <2>5
<1>6. \A i \in DOMAIN active, j \in DOMAIN f : active[i] # f[j]
  <2>1. ASSUME NEW i \in DOMAIN active, NEW j \in DOMAIN f, active[i] = f[j]
        PROVE  FALSE
    <3>1. f[j] \in new /\ f[j] \in ItemRows /\ active[i] \in Active
      BY <1>3 DEF Active, ToSet
    <3>2. f[j] \in Rows
      BY <1>3
    <3> QED BY <1>1, <2>1, <3>1, <3>2
  <2> QED BY <2>1
<1>7. \A i, j \in DOMAIN active' : active'[i] = active'[j] => i = j
  <2>1. SUFFICES ASSUME NEW i \in DOMAIN active', NEW j \in DOMAIN active', active'[i] = active'[j]
                 PROVE  i = j
    OBVIOUS
  <2> DEFINE n == Len(active)
  <2>2. ASSUME NEW k \in DOMAIN active', ~(k \in 1..n)
        PROVE  k - n \in 1..Len(f) /\ active'[k] = f[k - n]
    <3>1. k - n \in 1..Len(f) /\ k = n + (k - n)
      BY <1>5, <2>2
    <3> QED BY <1>5, <3>1
  <2>3. CASE i \in 1..n /\ j \in 1..n
    BY <1>1, <1>5, <2>1, <2>3
  <2>4. CASE i \in 1..n /\ ~(j \in 1..n)
    BY <1>5, <1>6, <2>1, <2>2, <2>4
  <2>5. CASE ~(i \in 1..n) /\ j \in 1..n
    BY <1>5, <1>6, <2>1, <2>2, <2>5
  <2>6. CASE ~(i \in 1..n) /\ ~(j \in 1..n)
    <3>1. i - n = j - n
      BY <1>3, <1>5, <2>1, <2>2, <2>6
    <3> QED BY <1>5, <3>1
  <2> QED BY <2>3, <2>4, <2>5, <2>6
<1>8. ToSet(active') = Active \cup new
  <2>1. ASSUME NEW k \in DOMAIN active' PROVE active'[k] \in Active \cup new
    <3>1. CASE k \in 1..Len(active)
      BY <1>5, <3>1 DEF Active, ToSet
    <3>2. CASE ~(k \in 1..Len(active))
      <4>1. k - Len(active) \in 1..Len(f) /\ k = Len(active) + (k - Len(active))
        BY <1>5, <3>2
      <4> QED BY <1>3, <1>5, <4>1 DEF ToSet
    <3> QED BY <3>1, <3>2
  <2>2. ASSUME NEW x \in Active PROVE x \in ToSet(active')
    <3>1. PICK k \in DOMAIN active : x = active[k]
      BY DEF Active, ToSet
    <3>2. k \in DOMAIN active' /\ active'[k] = x
      BY <1>5, <3>1
    <3> QED BY <3>2 DEF ToSet
  <2>3. ASSUME NEW x \in new PROVE x \in ToSet(active')
    <3>1. PICK k \in DOMAIN f : x = f[k]
      BY <1>3 DEF ToSet
    <3>2. Len(active) + k \in DOMAIN active' /\ active'[Len(active) + k] = x
      BY <1>5, <3>1
    <3> QED BY <3>2 DEF ToSet
  <2> QED BY <2>1, <2>2, <2>3 DEF ToSet
<1>9. \A r \in Rows : work'[r].active <=> r \in Active'
  BY <1>1, <1>8 DEF Active
<1> QED BY <1>5, <1>7, <1>9 DEF ActiveInv

LEMMA PrefillStep ==
    ASSUME BatchInv, load' = load, Prefill
    PROVE  BatchInv'
<1>1. PICK bad \in SUBSET ItemRows :
         /\ \A r \in ItemRows \ bad : ~Lost(r)
         /\ IF bad = {} THEN UNCHANGED faults ELSE PrefillFault
         /\ work' = [r \in Rows |-> IF r \in bad THEN Discarded(work[r])
                                    ELSE IF r \in ItemRows THEN Advanced(r) ELSE work[r]]
         /\ active' = active \o Filter([i \in DOMAIN items |-> items[i].row],
                                       { r \in ItemRows \ bad : Advanced(r).active })
         /\ idle' = IF Allocated(ItemRows \ bad) > Available THEN 0 ELSE idle
  BY DEF Prefill
<1>2. EndStep(TRUE) /\ ratio' = ratio /\ stage = "pack"
  BY DEF Prefill, Packed
<1> DEFINE good == ItemRows \ bad
<1>3. good \subseteq Rows /\ bad \subseteq Rows
  BY ItemFacts
<1>4. ASSUME NEW r \in Rows
      PROVE  /\ work'[r] \in Row /\ RowInv(work'[r], Prompt(r))
             /\ (work'[r].active <=> (work[r].active \/ (r \in good /\ Advanced(r).active)))
  <2> DEFINE w == work[r]
  <2>1. w \in Row /\ Prompt(r) \in Nat \ {0} /\ RowInv(w, Prompt(r))
    BY RowFacts
  <2>2. w.held \in Nat
    BY <2>1 DEF Row
  <2>3. CASE r \in bad
    <3>1. work'[r] = Discarded(w) /\ r \notin good
      BY <1>1, <2>3
    <3>2. w.prefill
      BY <2>3, ItemFacts
    <3> HIDE DEF w
    <3>3. /\ Discarded(w) \in Row /\ RowInv(Discarded(w), Prompt(r))
          /\ Discarded(w).held = 0 /\ ~Discarded(w).active /\ ~w.active
      BY <2>1, <3>2, DiscardedKeeps, PrefillInactive
    <3> QED BY <2>2, <3>1, <3>3 DEF w
  <2>4. CASE r \in good
    <3>1. work'[r] = Advanced(r)
      BY <1>1, <2>4
    <3>2. /\ Advanced(r) \in Row /\ RowInv(Advanced(r), Prompt(r))
          /\ Advanced(r).held = w.held + CountOf(r) /\ ~w.active
      BY <1>1, <1>2, <2>4, AdvancedKeeps
    <3> HIDE DEF w, good
    <3> QED BY <2>4, <3>1, <3>2 DEF w
  <2>5. CASE r \notin bad /\ r \notin good
    <3>1. work'[r] = w
      BY <1>1, <2>5
    <3> HIDE DEF good
    <3> QED BY <2>1, <2>2, <2>5, <3>1
  <2> QED BY <2>3, <2>4, <2>5
<1>5. RowsKept
  <2>1. DOMAIN work' = Rows /\ work' = [r \in Rows |-> work'[r]]
    BY <1>1
  <2> QED BY <1>4, <2>1, MapKeepsRows
<1>9. ActiveInv' /\ active' \in Seq(Rows)
  <2> DEFINE new == { r \in ItemRows \ bad : Advanced(r).active }
  <2>1. new \in SUBSET ItemRows
        /\ active' = active \o Filter([i \in DOMAIN items |-> items[i].row], new)
    BY <1>1
  <2>2. \A r \in Rows : work'[r].active <=> (work[r].active \/ r \in new)
    BY <1>4
  <2>3. \A r \in ItemRows : ~work[r].active
    BY ItemFacts, RowFacts, PrefillInactive
  <2> HIDE DEF new
  <2> QED BY <2>1, <2>2, <2>3, ActiveJoined
<1>10. ratio' \in 1..Scale /\ idle' \in Nat
  BY <1>1, <1>2 DEF BatchInv, TypeOK
<1>11. faults' \in 0..MaxFaults
  BY <1>1, PrefillFaultBounded DEF BatchInv, TypeOK
<1> QED BY <1>2, <1>5, <1>9, <1>10, <1>11, EndStepKeeps

(***************************************************************************)
(* The specification.                                                      *)
(***************************************************************************)
LEMMA InitBatchInv == Init => BatchInv
<1> SUFFICES ASSUME Init PROVE BatchInv
  OBVIOUS
<1>1. load \in Loads /\ work = [r \in Rows |-> NewWork] /\ active = <<>> /\ items = <<>> /\ stage = "idle"
  BY DEF Init
<1>2. \A r \in Rows : Prompt(r) \in Nat \ {0}
  BY <1>1, LoadType
<1>3. \A r \in Rows : work[r] \in Row /\ RowInv(work[r], Prompt(r))
  BY <1>1, <1>2, NewWorkKeeps
<1>4. \A r \in Rows : work[r].held = 0 /\ ~work[r].active
  BY <1>1 DEF NewWork
<1>5. work \in [Rows -> Row]
  BY <1>1, <1>3
<1>6. TypeOK
  BY <1>1, <1>5, BatchAssumption DEF Init, TypeOK
<1>7. ActiveInv /\ ItemsInv
  BY <1>1, <1>4 DEF ActiveInv, ItemsInv, Active, ToSet
<1> QED BY <1>3, <1>6, <1>7 DEF BatchInv

LEMMA NextBatchInv == BatchInv /\ [Next]_vars => BatchInv'
<1> SUFFICES ASSUME BatchInv, [Next]_vars PROVE BatchInv'
  OBVIOUS
<1>1. CASE UNCHANGED vars
  <2>1. /\ load' = load /\ work' = work /\ active' = active /\ items' = items /\ stage' = stage
        /\ decode_next' = decode_next /\ ratio' = ratio /\ idle' = idle /\ eligible' = eligible
        /\ todo' = todo /\ cancelled' = cancelled /\ stalls' = stalls /\ faults' = faults
    BY <1>1 DEF vars
  <2>2. RowsKept /\ ActiveInv' /\ active' \in Seq(Rows)
    BY <2>1, SameRowsKeepRows, ActiveSame
  <2>3. TypeOK'
    BY <2>1 DEF BatchInv, TypeOK
  <2>4. ItemsInv'
    <3>1. Batch' = Batch /\ \A r : Uncached(r)' = Uncached(r)
      BY <2>1, UncachedSame DEF Batch
    <3> QED BY <2>1, <3>1 DEF BatchInv, ItemsInv, Uncached, ReplayLength, Prompt
  <2> QED BY <2>1, <2>2, <2>3, <2>4, Combine
<1>2. ASSUME Step PROVE BatchInv'
  <2>1. load' = load
    BY <1>2 DEF Step
  <2>2. CASE BeginStep
    <3>1. PICK list \in SetToAllKPermutations(Live \ cancelled) :
             BeginDecode(list) \/ BeginPrefill(list) \/ BeginNothing(list) \/ BeginThrows(list)
      BY <2>2 DEF BeginStep
    <3>2. list \in Seq(Rows)
      BY ListType
    <3> QED BY <2>1, <3>1, <3>2, BeginDecodeStep, BeginPrefillStep, BeginNothingStep,
           BeginThrowsStep
  <2>3. CASE Operate
    BY <2>1, <2>3, RetractStep, DecodeStep, DecodeOutOfMemoryStep, RetractThrowsStep,
       DecodeDiesStep, PackStep, PrefillStep, PrefillThrowsStep, StepThrowsStep DEF Operate
  <2>4. CASE \E r \in Rows : Resume(r)
    BY <2>1, <2>4, GenerateStep, ProgressStep, ScheduleStep, AcceptStep, WaitStep, FinishStep,
       FinishThrowsStep DEF Resume
  <2>5. CASE EndResume
    BY <2>1, <2>5, EndResumeStep
  <2> QED BY <1>2, <2>2, <2>3, <2>4, <2>5 DEF Step
<1>3. ASSUME NEW r \in Rows, Cancel(r), UNCHANGED load PROVE BatchInv'
  BY <1>3, CancelStep
<1> QED BY <1>1, <1>2, <1>3 DEF Next

LEMMA InvHeld == BatchInv => HeldByOccupants
<1> SUFFICES ASSUME BatchInv, NEW r \in Rows, work[r].held > 0 PROVE r \in Occupants
  BY DEF HeldByOccupants
<1> DEFINE w == work[r]
           p == Prompt(r)
<1>1. w \in Row /\ p \in Nat \ {0} /\ RowInv(w, p) /\ w.held > 0
  BY RowFacts
<1> HIDE DEF w, p
<1>2. w.at \notin {"accepted", "done"} /\ w.admitted /\ ~w.failure
  BY <1>1 DEF Row, RowInv, RestingInv, FailedInv
<1> QED BY <1>2 DEF w, Occupants, Batch

LEMMA InvPositions == BatchInv => PositionsMatch
<1> SUFFICES ASSUME BatchInv, NEW r \in Occupants
             PROVE  /\ work[r].active => Stripped(r) \/ work[r].held = work[r].cache_length
                    /\ work[r].active /\ work[r].decode =>
                          Stripped(r) \/ work[r].held = ReplayLength(r)
                    /\ ~work[r].active =>
                          work[r].held = IF work[r].replay_offset >= 0 THEN work[r].replay_offset
                                         ELSE work[r].prefill_offset
  BY DEF PositionsMatch
<1> DEFINE w == work[r]
           p == Prompt(r)
<1>1. r \in Rows /\ w.admitted /\ ~w.failure /\ w.at \notin {"accepted", "done"}
  BY DEF Occupants, Batch
<1>2. w \in Row /\ p \in Nat \ {0} /\ RowInv(w, p) /\ TypeOK
  BY <1>1, RowFacts DEF BatchInv
<1>3. w.produced > 0 => ReplayLength(r) = p + w.produced - 1
  BY <1>1, <1>2, ReplayLengthIs
<1>7. Stripped(r) <=> w.active /\ w.held = 0
  BY DEF Stripped
<1> HIDE DEF w, p
<1>4. w.active => w.held = 0 \/ w.held = w.cache_length
  BY <1>1, <1>2 DEF Row, Places, RowInv, PrefillingInv, DecodingInv
<1>5. w.active /\ w.decode => w.produced > 0 /\ (w.held = 0 \/ w.held = p + w.produced - 1)
  BY <1>1, <1>2 DEF Row, Places, RowInv, PrefillingInv, DecodingInv
<1>6. ~w.active => w.held = IF w.replay_offset >= 0 THEN w.replay_offset ELSE w.prefill_offset
  BY <1>1, <1>2 DEF Row, Places, RowInv, PrefillingInv, DecodingInv
<1> QED BY <1>3, <1>4, <1>5, <1>6, <1>7 DEF w

LEMMA InvWaiters == BatchInv => WaitersServed
<1> SUFFICES ASSUME BatchInv, NEW r \in Batch
             PROVE  /\ work[r].active <=> r \in Active
                    /\ ~work[r].failure /\ work[r].at \in {"prefill", "decode"} /\ ~work[r].result =>
                          (work[r].active /\ work[r].decode) # work[r].prefill
  BY DEF WaitersServed
<1> DEFINE w == work[r]
           p == Prompt(r)
<1>1. r \in Rows
  BY DEF Batch
<1>2. w \in Row /\ p \in Nat \ {0} /\ RowInv(w, p) /\ (w.active <=> r \in Active)
  BY <1>1, RowFacts DEF BatchInv, ActiveInv
<1> HIDE DEF w, p
<1>3. ~w.failure /\ w.at \in {"prefill", "decode"} /\ ~w.result =>
         ~((w.active /\ w.decode) <=> w.prefill)
  BY <1>2 DEF Row, Places, RowInv, PrefillingInv, DecodingInv
<1>4. w.active \in BOOLEAN /\ w.decode \in BOOLEAN /\ w.prefill \in BOOLEAN
  BY <1>2 DEF Row
<1>5. ~w.failure /\ w.at \in {"prefill", "decode"} /\ ~w.result =>
         (w.active /\ w.decode) # w.prefill
  BY <1>3, <1>4, Zenon
<1> QED BY <1>2, <1>5 DEF w

\* can_admit() turns away only a row that the whole device has no room for.
LEMMA RefusedTooLarge ==
    ASSUME BatchInv, NEW r \in Rows, r \in Batch, work[r].prefill, Refused(r)
    PROVE  RoomFor(Wanted(r) + 1) > Capacity
<1> DEFINE w == work[r]
           p == Prompt(r)
<1>1. w \in Row /\ p \in Nat \ {0} /\ RowInv(w, p) /\ TypeOK /\ w.prefill
  BY RowFacts DEF BatchInv
<1>2. ~w.admitted /\ ~w.failure /\ Occupants = {} /\ ~(Cost(r, 1) <= Capacity - Used)
  BY DEF Refused, can_admit, FitsAlone
<1>3. \A t \in Rows : work[t].held = 0
  <2>1. \A t \in Rows : ~(work[t].held > 0)
    BY <1>2, InvHeld DEF HeldByOccupants
  <2>2. \A t \in Rows : work[t].held \in Nat
    BY <1>1 DEF TypeOK, Row
  <2> QED BY <2>1, <2>2
<1>4. Used = 0
  <2> DEFINE f == [t \in Rows |-> RoomFor(work[t].held)]
  <2>1. \A t \in Rows : f[t] = 0
    BY <1>3, NoRoom
  <2>2. IsFiniteSet(Rows) /\ f \in [Rows -> Nat] /\ Used = SumFunction(f)
    BY <1>3, NoRoom, BatchAssumption DEF Used
  <2> HIDE DEF f
  <2> QED BY <2>1, <2>2, SumZero
<1>5. /\ Uncached(r) \in Nat \ {0} /\ Capacity \in Nat
      /\ w.replay_offset >= 0 => /\ Uncached(r) = p + w.produced - 1 - w.replay_offset
                                 /\ ReplayLength(r) = p + w.produced - 1
      /\ w.replay_offset < 0 => Uncached(r) = p - w.prefill_offset
  BY <1>1, UncachedPositive, BatchAssumption
<1>6. Wanted(r) = IF w.replay_offset >= 0 THEN ReplayLength(r) ELSE p
  BY DEF Wanted
<1>7. w.held = 0
  BY <1>3
<1>8. w.replay_offset >= 0 => w.replay_offset = 0
  <2> HIDE DEF w, p
  <2> QED BY <1>1, <1>2, <1>7 DEF Row, Places, RowInv, RestingInv, PrefillingInv, DecodingInv
<1>9. w.replay_offset < 0 => w.prefill_offset = 0
  <2> HIDE DEF w, p
  <2> QED BY <1>1, <1>2, <1>7 DEF Row, Places, RowInv, RestingInv, PrefillingInv, DecodingInv
<1>10. Uncached(r) = Wanted(r)
  <2>1. w.produced \in Nat /\ w.replay_offset \in Int /\ w.prefill_offset \in Nat
    BY <1>1 DEF Row
  <2> HIDE DEF w, p
  <2> QED BY <1>1, <1>5, <1>6, <1>8, <1>9, <2>1
<1>11. Cost(r, 1) = IF RoomFor(Wanted(r) + 1) = 0 THEN 0
                    ELSE IF Copies THEN RoomFor(Wanted(r) + 1) ELSE RoomFor(Wanted(r) + 1) - 0
  <2>1. 0 + (Wanted(r) + 1) = Wanted(r) + 1
    BY <1>5, <1>10
  <2> QED BY <1>3, <1>10, <2>1, NoRoom DEF Cost, Growth
<1>12. RoomFor(Wanted(r) + 1) \in Nat
  <2> DEFINE n == Wanted(r) + 1
  <2>1. n \in Nat /\ MaxPositions \in Nat /\ Room \in [0..MaxPositions -> Nat]
    BY <1>5, <1>10, BatchAssumption
  <2> HIDE DEF n
  <2>2. Min({n, MaxPositions}) \in 0..MaxPositions
    BY <2>1, MinOfTwo
  <2>3. RoomFor(n) \in Nat
    BY <2>1, <2>2 DEF RoomFor
  <2> QED BY <2>3 DEF n
<1> QED BY <1>2, <1>4, <1>5, <1>11, <1>12

LEMMA StepRefuses ==
    ASSUME BatchInv, Next, NEW r \in Rows, stage = "idle", work'[r].failure, ~work[r].failure
    PROVE  RoomFor(Wanted(r) + 1) > Capacity
<1>1. ~Operate /\ ~EndResume /\ ~(\E t \in Rows : Resume(t))
  BY DEF Operate, Retract, Decode, DecodeOutOfMemory, RetractThrows, DecodeDies, Decoding, Pack, Prefill, PrefillThrows, StepThrows, Packed,
         EndResume, Resume, Generate, ReportProgress, SchedulePrefill, AcceptToken, Wait, Finish,
         FinishThrows, Resuming
<1>2. ~(\E t \in Rows : Cancel(t))
  BY DEF Cancel
<1>3. BeginStep
  BY <1>1, <1>2 DEF Next, Step
<1>4. PICK list \in SetToAllKPermutations(Live \ cancelled) :
         BeginDecode(list) \/ BeginPrefill(list) \/ BeginNothing(list) \/ BeginThrows(list)
  BY <1>3 DEF BeginStep
<1>5. \E decide : Begin(list, decide)
  <2>1. ~BeginThrows(list)
    <3>1. SUFFICES ASSUME BeginThrows(list) PROVE ~work'[r].failure
      OBVIOUS
    <3>2. PICK gone : Complete(work, gone)
      BY <3>1 DEF BeginThrows
    <3>3. work'[r] \in {Released(work[r]), work[r]}
      BY <3>2 DEF Complete
    <3>4. ~Released(work[r]).failure
      BY DEF Released, NewWork
    <3> QED BY <3>3, <3>4
  <2> QED BY <1>4, <2>1 DEF BeginDecode, BeginPrefill, BeginNothing
<1>6. PICK decide : Begin(list, decide)
  BY <1>5
<1>7. work'[r] = IF r \in Examined(list) /\ Refused(r)
                 THEN [work[r] EXCEPT !.failure = TRUE, !.prefill = FALSE]
                 ELSE IF decide = "pack" /\ \E f \in FirstAdmitted(list) : r = list[f]
                 THEN [work[r] EXCEPT !.admitted = TRUE]
                 ELSE work[r]
  BY <1>6 DEF Begin
<1>8. [work[r] EXCEPT !.admitted = TRUE].failure <=> work[r].failure
  BY RowFacts DEF Row
<1>9. r \in Examined(list) /\ Refused(r)
  BY <1>7, <1>8
<1>10. r \in Batch /\ work[r].prefill
  BY <1>9 DEF Examined
<1> QED BY <1>9, <1>10, RefusedTooLarge

(***************************************************************************)
(* The theorems.                                                           *)
(***************************************************************************)
\* continuous_batch.h:78-444: every operation of the batch and every resumption of a
\* coroutine keeps the invariant, those that throw half-way included.
THEOREM BatchInvariant == Spec => []BatchInv
<1>1. Init => BatchInv
  BY InitBatchInv
<1>2. BatchInv /\ [Next]_vars => BatchInv'
  BY NextBatchInv
<1> QED BY <1>1, <1>2, PTL DEF Spec

\* The variables keep their types; in particular the new-token ratio stays in
\* (0, 1] through decodes, retractions and an empty batch.
THEOREM TypeCorrect == Spec => []TypeOK
<1>1. BatchInv => TypeOK
  BY DEF BatchInv
<1> QED BY <1>1, BatchInvariant, PTL

\* continuous_batch.h:134-164, 385-387, 419-444: only a row that is still being served
\* holds cache, whichever way the others failed or left.
THEOREM MemoryHeldByOccupants == Spec => []HeldByOccupants
<1> QED BY InvHeld, BatchInvariant, PTL

\* continuous_batch.h:294-300, 369-392: the device's cache of a row is as long as the batch
\* believes, through chunks, decodes, retraction and replay.
THEOREM CachePositions == Spec => []PositionsMatch
<1> QED BY InvPositions, BatchInvariant, PTL

\* continuous_batch.h:112-118, 253-276, 373-401: a row that waits is served in one way and in
\* one only: by a decode on the active list, by a prefill or a replay off it.
THEOREM EveryWaiterServed == Spec => []WaitersServed
<1> QED BY InvWaiters, BatchInvariant, PTL

\* continuous_batch.h:78-97: whatever a cache of a given length occupies and however it
\* grows, a row is turned away only if the empty device has no room for what it has to
\* cache before its next token.
THEOREM RefusalsJustified == Spec => RefusedOnlyIfTooLarge
<1>1. BatchInv /\ [Next]_vars =>
         [\A r \in Rows : stage = "idle" /\ work'[r].failure /\ ~work[r].failure
             => RoomFor(Wanted(r) + 1) > Capacity]_vars
  <2>1. BatchInv /\ Next => \A r \in Rows :
           stage = "idle" /\ work'[r].failure /\ ~work[r].failure
             => RoomFor(Wanted(r) + 1) > Capacity
    BY StepRefuses
  <2> QED BY <2>1
<1> QED BY <1>1, BatchInvariant, PTL DEF Spec, RefusedOnlyIfTooLarge
==============================================================================
