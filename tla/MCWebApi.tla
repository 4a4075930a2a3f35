----------------------------- MODULE MCWebApi ------------------------------
(***************************************************************************)
(* WebApi with requests, and guilds, that can be exchanged for each other. *)
(***************************************************************************)
EXTENDS WebApi, TLC

Symmetry == Permutations(Callers) \cup Permutations(Guilds)
=============================================================================
