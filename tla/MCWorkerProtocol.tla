---------------------------- MODULE MCWorkerProtocol ---------------------------
(* Instances of WorkerProtocol for TLC. *)
EXTENDS WorkerProtocol, TLC

GuildSymmetry == Permutations(Guilds)
=============================================================================
