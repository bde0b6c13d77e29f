------------------------------ MODULE MCUploads -----------------------------
(* Uploads with interchangeable ids: nothing tells one upload from another
   but the order they were made in. *)
EXTENDS Uploads, TLC

IdSymmetry == Permutations(Ids)
=============================================================================
