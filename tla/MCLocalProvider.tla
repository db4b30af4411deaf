-------------------------- MODULE MCLocalProvider --------------------------
(***************************************************************************)
(* LocalProvider on small instances.                                       *)
(***************************************************************************)
EXTENDS LocalProvider, TLC

\* Processes are interchangeable, and so are workspaces.
Symmetry == Permutations(Child) \cup Permutations(Name)
=============================================================================
