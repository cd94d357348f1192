---------------------------- MODULE MCConfigStore ----------------------------
(***************************************************************************)
(* Two terminals set options while a third runs commands.                  *)
(***************************************************************************)
EXTENDS ConfigStore, TLC

CONSTANTS setter1, setter2, user1

\* config set with one option, a switch of networks with a new wallet, and
\* what an older version saved.
MCOptions ==
  { [network |-> "testnet", endpoint |-> Unset, wallet |-> Unset],
    [network |-> "finney",  endpoint |-> Unset, wallet |-> "w1"],
    [network |-> Unset, endpoint |-> "custom", wallet |-> Unset],
    [network |-> Unset, endpoint |-> Unset, wallet |-> "w1"],
    [network |-> "finney", endpoint |-> "finney", wallet |-> "w1"] }

Symmetry == Permutations({setter1, setter2})
=============================================================================
