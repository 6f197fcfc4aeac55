------------------------------- MODULE MCBlocks -------------------------------
(* TLC instances of Blocks and of its refinement of Actors. *)
EXTENDS BlocksActors, TLC

(* Messages are interchangeable: sound for runs without liveness.          *)
Symmetry == Permutations(Msg)
=============================================================================
