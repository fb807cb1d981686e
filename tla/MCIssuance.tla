---------------------------- MODULE MCIssuance ----------------------------
(***************************************************************************)
(* Two requests, one web process and one resume run.                       *)
(***************************************************************************)
EXTENDS IssuanceDelivery, TLC

RequestSymmetry == Permutations(Requests)

MCHashes == [req : Requests, nonce : 0 .. 2, gas : GasLimits]
=============================================================================
