--------------------------- MODULE MCAcquisition ---------------------------
(* Small instances of Acquisition for TLC.                                 *)
EXTENDS Acquisition, TLC

CONSTANTS
  j1, j2,       (* threads                                                  *)
  t1, t2,       (* tabs                                                     *)
  c1, c2,       (* cases                                                    *)
  data, system  (* partitions, in the order of the handler                  *)

MCRank == [p \in Partitions |-> IF p = data THEN 0 ELSE 1]

Symmetry == Permutations(Jobs) \union Permutations(Tabs)
=============================================================================
