----------------------------- MODULE MCSequence -----------------------------
(* An instance of Sequence. *)
EXTENDS Sequence

MCNameLength == [p \in Participants |-> CASE p = "a" -> 1 [] p = "b" -> 6 [] OTHER -> 3]
MCTimes == {<<1, 1, 2>>, <<1, 2, 3>>}
MCCrashes == {<<>>, [t \in {1, 2} |-> IF t = 1 THEN {"c"} ELSE {"a", "b"}]}
=============================================================================
