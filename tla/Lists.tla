------------------------------- MODULE Lists --------------------------------
(***************************************************************************)
(* std::erase_if on a vector, as a recursive function: the elements of a   *)
(* sequence that are in S, in their order.  It is SelectSeq with a set for *)
(* the test, in a form that can be reasoned about.                         *)
(***************************************************************************)
EXTENDS Integers, Sequences

Filter(s, S) ==
    LET kept[i \in 0..Len(s)] ==
          IF i = 0 THEN <<>>
          ELSE IF s[i] \in S THEN Append(kept[i - 1], s[i]) ELSE kept[i - 1]
    IN  kept[Len(s)]
=============================================================================
