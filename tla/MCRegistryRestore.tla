--------------------------- MODULE MCRegistryRestore ---------------------------
(***************************************************************************)
(* Instances of RegistryRestore for TLC.                                   *)
(***************************************************************************)
EXTENDS RegistryRestore, TLC

\* Instances, slots and allocation UUIDs are interchangeable: the order in which
\* restore_registry visits the slots is left open.
Symmetry == Permutations(Instances) \cup Permutations(Slots) \cup Permutations(Allocs)
=============================================================================
