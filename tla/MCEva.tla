------------------------------- MODULE MCEva -------------------------------
(* Instance of Eva for model checking. *)
EXTENDS Eva
=============================================================================
