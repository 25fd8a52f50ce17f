---------------------------- MODULE MCNodeCache ----------------------------
(* Small instances of NodeCache for TLC.                                   *)
EXTENDS NodeCache, TLC

\* Two ids that differ in the mount only: two instances of the file system
\* with the same node id.
MCKeys == {[mnt |-> m, pid |-> 7, objectid |-> 0, base |-> 2] : m \in {1, 2}}

\* One id: every thread contends for the same node.
MCOneKey == {[mnt |-> 1, pid |-> 7, objectid |-> 0, base |-> 2]}

Symmetry == Permutations(Threads) \cup Permutations(Nodes) \cup Permutations(Vnodes)
=============================================================================
