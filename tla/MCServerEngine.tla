--------------------------- MODULE MCServerEngine ---------------------------
(* Small instances of ServerEngine for TLC.                                *)
EXTENDS ServerEngine, TLC

(* A job is only an address: the choice of a free one does not matter. *)
JobSymmetry == Permutations(Jobs)

=============================================================================
