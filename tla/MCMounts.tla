------------------------------ MODULE MCMounts ------------------------------
(* Mounts for TLC.                                                         *)
EXTENDS Mounts, TLC

Symmetry == Permutations(MountPoints)

\* next_node_id after 861 rounds of mount and unmount: one tree fits below
\* 2^16, the next one does not.
AfterManyMounts == 2 + 861 * 76
=============================================================================
