--------------------------- MODULE MCExpertCache ---------------------------
(* Instances of ExpertCache: the slots, the experts asked for, what the        *)
(* background filling is to read, and the symmetry of the slots, which         *)
(* nothing but their place in a list tells apart.                              *)
EXTENDS ExpertCache, TLC

CONSTANTS e1, e2, s1, s2, s3, s4

Slots2 == <<s1, s2>>
Slots4 == <<s1, s2, s3, s4>>
SlotSymmetry == Permutations(Slots)

(* Two together, and one asked for twice; a cache with room for all of them is
   asked for the two alone. *)
SomeAsks(n) == {<<e1, e2>>} \cup (IF n = 4 THEN {} ELSE {<<e2, e2>>})
Both(n) == {<<e1, e2>>}

NoWarm == <<>>
WarmTwo == <<<<0, e1>>, <<1, e2>>>>
=============================================================================
