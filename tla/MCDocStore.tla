----------------------------- MODULE MCDocStore -----------------------------
(* DocStore with interchangeable kinds and interchangeable ids: both are only
   compared.                                                               *)
EXTENDS DocStore, TLC

NameSymmetry == Permutations(Kinds) \cup Permutations(Ids)
=============================================================================
