--------------------------- MODULE MCInstallation ---------------------------
(***************************************************************************)
(* Installation with two processes that may run init and one that serves,  *)
(* so that inits overlap each other and a start.                           *)
(***************************************************************************)
EXTENDS Installation, TLC

(* One secret, and one init, is as good as another. *)
Symmetry == Permutations(Secret) \cup Permutations(Initers)
=============================================================================
