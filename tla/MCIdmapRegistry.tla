--------------------------- MODULE MCIdmapRegistry ---------------------------
(***************************************************************************)
(* Instances of IdmapRegistry for TLC.                                     *)
(***************************************************************************)
EXTENDS IdmapRegistry, TLC

\* Hosts, tokens, instances, slots and allocation UUIDs are interchangeable: nothing
\* in the code orders them.
Symmetry == Permutations(Hosts) \cup Permutations(Tokens)
              \cup Permutations(Instances) \cup Permutations(Slots)
              \cup Permutations(Allocs)
=============================================================================
