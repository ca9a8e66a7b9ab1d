----------------------------- MODULE MCCandidacy -----------------------------
(***************************************************************************)
(* Instances of Candidacy for TLC.  Requests and names are interchangeable *)
(* and no liveness is checked, so both are taken as symmetric.             *)
(***************************************************************************)
EXTENDS Candidacy, TLC

Symmetry == Permutations(Requests) \union Permutations(Names)
=============================================================================
