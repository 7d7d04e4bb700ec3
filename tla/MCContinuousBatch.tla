------------------------- MODULE MCContinuousBatch -------------------------
(* The instances of ContinuousBatch that TLC checks: three rows whose      *)
(* caches double and outgrow the device together, one of which may be too  *)
(* long for it from the start.                                             *)
EXTENDS ContinuousBatch

Load(p, n) == [prompt |-> p, limit |-> n]

ThreeLoads ==
    { [r \in Rows |-> CASE r = "a" -> Load(2, 3) [] r = "b" -> Load(3, 4) [] OTHER -> c] :
        c \in { Load(1, 3), Load(6, 1) } }

\* Buffers of 2, 4 and 8 tokens.
Doubling ==
    [n \in 0..MaxPositions |-> IF n = 0 THEN 0 ELSE IF n <= 2 THEN 2 ELSE IF n <= 4 THEN 4 ELSE 8]
=============================================================================
