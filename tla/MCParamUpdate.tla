--------------------------- MODULE MCParamUpdate ---------------------------
(***************************************************************************)
(* Two set commands of one family, of any kind, with values 0 and 1.       *)
(***************************************************************************)
EXTENDS ParamUpdate, TLC

CONSTANTS admin1, admin2

Symmetry == Permutations({admin1, admin2})
=============================================================================
