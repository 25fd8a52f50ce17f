------------------------------- MODULE Mounts -------------------------------
(***************************************************************************)
(* Mounting and unmounting of procfs (kext/procfs_vfsops.c) and the tree   *)
(* of structure nodes that all mounts share (kext/procfs_structure.c).     *)
(*                                                                         *)
(* A mount or unmount of one mount structure holds that structure's        *)
(* mnt_rwlock; Serialised says whether operations on different mount       *)
(* structures exclude each other as well, which the comments in            *)
(* procfs_vfsops.c take for granted.  A tree is a generation number; of    *)
(* its nodes only the base ids matter, and of the cached pfsnodes of a     *)
(* mount only the trees their node_structure_node points into.             *)
(***************************************************************************)
EXTENDS Integers, FiniteSets

CONSTANTS
    MountPoints,    \* the VFS mount structures
    Serialised,     \* whether mounts and unmounts exclude each other
    IdMod,          \* 2^16, the modulus of next_node_id
    TreeIds,        \* ids one tree takes from next_node_id (76)
    FirstNodeId,    \* next_node_id at the beginning of the history
    MaxTrees,       \* bound: trees built in the history
    MaxMounts       \* bound: mount operations in the history

RootId == 1         \* PROCFS_ROOT_NODE_BASE_ID

\* next_node_id starts after the root's id and moves on by whole trees.
ASSUME NodeIdAssumption ==
    /\ IdMod \in Nat \ {0} /\ TreeIds \in Nat \ {0} /\ MaxTrees \in Nat /\ MaxMounts \in Nat
    /\ FirstNodeId \in 0 .. (IdMod - 1)
    /\ (FirstNodeId - (RootId + 1)) % TreeIds = 0

ASSUME SerialisedAssumption == Serialised \in BOOLEAN

ASSUME MountPointsAssumption == IsFiniteSet(MountPoints)

Trees == 1 .. MaxTrees
NoTree == 0

VARIABLES
    procfs_mount_id,
    mounted_instance_count,
    root_node,      \* the current tree, or NoTree
    next_node_id,
    trees,          \* number of trees built so far
    live,           \* trees whose memory is allocated
    complete,       \* trees all of whose nodes have been added
    firstId,        \* the first id of each tree
    buckets,        \* pfsnode_hash_buckets has been allocated
    pc,             \* progress of the operation on each mount structure
    pmnt_id,        \* id of each mount, 0 when it has no pfsmount_t
    mntfrom,        \* the number in f_mntfromname
    refs            \* trees the cached pfsnodes of each mount point into

treeVars == <<root_node, next_node_id, trees, live, complete, firstId>>
vars == <<procfs_mount_id, mounted_instance_count, treeVars, buckets, pc, pmnt_id,
          mntfrom, refs>>

TypeOK ==
    /\ procfs_mount_id \in 0 .. MaxMounts
    /\ mounted_instance_count \in Int
    /\ root_node \in Trees \cup {NoTree}
    /\ next_node_id \in 0 .. (IdMod - 1)
    /\ trees \in 0 .. MaxTrees
    /\ live \subseteq Trees
    /\ complete \subseteq Trees \cup {NoTree}
    /\ firstId \in [Trees -> 0 .. (IdMod - 1)]
    /\ buckets \in BOOLEAN
    /\ pc \in [MountPoints -> {"none", "id", "count", "name", "init", "build", "hash",
                               "mounted", "flushed", "freed", "uncounted", "released"}]
    /\ pmnt_id \in [MountPoints -> 0 .. MaxMounts]
    /\ mntfrom \in [MountPoints -> Int]
    /\ refs \in [MountPoints -> SUBSET (Trees \cup {NoTree})]

Init ==
    /\ procfs_mount_id = 0
    /\ mounted_instance_count = 0
    /\ root_node = NoTree
    /\ next_node_id = FirstNodeId
    /\ trees = 0
    /\ live = {}
    /\ complete = {}
    /\ firstId = [g \in Trees |-> 0]
    /\ buckets = FALSE
    /\ pc = [m \in MountPoints |-> "none"]
    /\ pmnt_id = [m \in MountPoints |-> 0]
    /\ mntfrom = [m \in MountPoints |-> 0]
    /\ refs = [m \in MountPoints |-> {}]

Step(m, from, to) == pc[m] = from /\ pc' = [pc EXCEPT ![m] = to]

\* No operation on another mount structure is under way, if that matters.
MayBegin(m) ==
    Serialised => \A n \in MountPoints \ {m} : pc[n] \in {"none", "mounted"}

-----------------------------------------------------------------------------
(* procfs_mount                                                            *)

\* The pfsmount_t is allocated (without memory nothing happens) and the
\* mount id is incremented ...
TakeId(m) ==
    /\ MayBegin(m)
    /\ procfs_mount_id < MaxMounts
    /\ Step(m, "none", "id")
    /\ procfs_mount_id' = procfs_mount_id + 1
    /\ UNCHANGED <<mounted_instance_count, treeVars, buckets, pmnt_id, mntfrom, refs>>

IdOf == procfs_mount_id

\* ... and read again.
SetId(m) ==
    /\ Step(m, "id", "count")
    /\ pmnt_id' = [pmnt_id EXCEPT ![m] = IdOf]
    /\ UNCHANGED <<procfs_mount_id, mounted_instance_count, treeVars, buckets, mntfrom, refs>>

CountMount(m) ==
    /\ Step(m, "count", "name")
    /\ mounted_instance_count' = mounted_instance_count + 1
    /\ UNCHANGED <<procfs_mount_id, treeVars, buckets, pmnt_id, mntfrom, refs>>

\* populate_statfs_info: the first instance is "proc", the others "proc<n>".
SetName(m) ==
    /\ Step(m, "name", "init")
    /\ mntfrom' = [mntfrom EXCEPT ![m] = mounted_instance_count]
    /\ UNCHANGED <<procfs_mount_id, mounted_instance_count, treeVars, buckets, pmnt_id, refs>>

\* The first id that next_node_id++ hands out.
NextBaseId == next_node_id

\* procfs_structure_init: the root node is allocated, unless there is one.
StartTree(m) ==
    /\ root_node = NoTree
    /\ trees < MaxTrees
    /\ Step(m, "init", "build")
    /\ trees' = trees + 1
    /\ root_node' = trees + 1
    /\ live' = live \cup {trees + 1}
    /\ firstId' = [firstId EXCEPT ![trees + 1] = NextBaseId]
    /\ UNCHANGED <<procfs_mount_id, mounted_instance_count, next_node_id, complete,
                   buckets, pmnt_id, mntfrom, refs>>

\* next_node_id when a tree is complete.
LastNodeId == (next_node_id + TreeIds) % IdMod

\* The other nodes are added below root_node.
BuildTree(m) ==
    /\ Step(m, "build", "hash")
    /\ complete' = complete \cup {root_node}
    /\ next_node_id' = LastNodeId
    /\ UNCHANGED <<procfs_mount_id, mounted_instance_count, root_node, trees, live, firstId,
                   buckets, pmnt_id, mntfrom, refs>>

KeepTree(m) ==
    /\ root_node # NoTree
    /\ Step(m, "init", "hash")
    /\ UNCHANGED <<procfs_mount_id, mounted_instance_count, treeVars, buckets, pmnt_id,
                   mntfrom, refs>>

SetUpHash(m) ==
    /\ Step(m, "hash", "mounted")
    /\ buckets' = TRUE
    /\ UNCHANGED <<procfs_mount_id, mounted_instance_count, treeVars, pmnt_id, mntfrom, refs>>

-----------------------------------------------------------------------------
(* Use of a mount                                                          *)

\* procfs_root does not find the root in the cache and makes a node for the
\* current tree.  Lookups take the trees of the nodes that are there.
MakeRoot(m) ==
    /\ pc[m] = "mounted"
    /\ refs' = [refs EXCEPT ![m] = @ \cup {root_node}]
    /\ UNCHANGED <<procfs_mount_id, mounted_instance_count, treeVars, buckets, pc, pmnt_id,
                   mntfrom>>

\* The last nodes that point into tree g are reclaimed.
Reclaim(m) ==
    /\ pc[m] = "mounted"
    /\ \E g \in refs[m] : refs' = [refs EXCEPT ![m] = @ \ {g}]
    /\ UNCHANGED <<procfs_mount_id, mounted_instance_count, treeVars, buckets, pc, pmnt_id,
                   mntfrom>>

-----------------------------------------------------------------------------
(* procfs_unmount                                                          *)

\* vflush(FORCECLOSE) reclaims every vnode of the mount.
Flush(m) ==
    /\ MayBegin(m)
    /\ Step(m, "mounted", "flushed")
    /\ refs' = [refs EXCEPT ![m] = {}]
    /\ UNCHANGED <<procfs_mount_id, mounted_instance_count, treeVars, buckets, pmnt_id, mntfrom>>

FreeMount(m) ==
    /\ Step(m, "flushed", "freed")
    /\ pmnt_id' = [pmnt_id EXCEPT ![m] = 0]
    /\ UNCHANGED <<procfs_mount_id, mounted_instance_count, treeVars, buckets, mntfrom, refs>>

Uncounted == mounted_instance_count - 1

Uncount(m) ==
    /\ Step(m, "freed", "uncounted")
    /\ mounted_instance_count' = Uncounted
    /\ UNCHANGED <<procfs_mount_id, treeVars, buckets, pmnt_id, mntfrom, refs>>

\* Mutant of release_node: the tree is forgotten but not freed.
MutRelease == live

\* The whole tree of root_node is freed.
release_node == live \ {root_node}

\* procfs_structure_free, called at the end of every unmount.
FreeTree(m) ==
    /\ root_node # NoTree
    /\ Step(m, "uncounted", "released")
    /\ live' = release_node
    /\ UNCHANGED <<procfs_mount_id, mounted_instance_count, root_node, next_node_id, trees,
                   complete, firstId, buckets, pmnt_id, mntfrom, refs>>

NoRoot == NoTree

ForgetTree(m) ==
    /\ Step(m, "released", "none")
    /\ root_node' = NoRoot
    /\ UNCHANGED <<procfs_mount_id, mounted_instance_count, next_node_id, trees, live,
                   complete, firstId, buckets, pmnt_id, mntfrom, refs>>

NoTreeToFree(m) ==
    /\ root_node = NoTree
    /\ Step(m, "uncounted", "none")
    /\ UNCHANGED <<procfs_mount_id, mounted_instance_count, treeVars, buckets, pmnt_id,
                   mntfrom, refs>>

-----------------------------------------------------------------------------
MountStep(m) ==
    \/ TakeId(m) \/ SetId(m) \/ CountMount(m) \/ SetName(m)
    \/ StartTree(m) \/ BuildTree(m) \/ KeepTree(m) \/ SetUpHash(m)

UnmountStep(m) ==
    \/ Flush(m) \/ FreeMount(m) \/ Uncount(m)
    \/ FreeTree(m) \/ ForgetTree(m) \/ NoTreeToFree(m)

Next ==
    \E m \in MountPoints : MountStep(m) \/ UnmountStep(m) \/ MakeRoot(m) \/ Reclaim(m)

Spec == Init /\ [][Next]_vars

-----------------------------------------------------------------------------
\* A mounted instance can be used: there is a complete tree for procfs_root to
\* take and no cached node points into a tree that has been freed.  This is
\* what "Should only be called while unmounting the last instance of the file
\* system" (procfs_structure_free) is for.
TreeUsable ==
    \A m \in MountPoints :
        pc[m] = "mounted" =>
            /\ root_node \in live \cap complete
            /\ refs[m] \subseteq live

\* When nothing is mounted the memory of every tree has been given back.
NoTreeLeak ==
    (\A m \in MountPoints : pc[m] = "none") => live = {}

\* The base ids of a tree are unique, the root's fixed id among them, however
\* often trees were built before: next_node_id is not reset and has 16 bits.
BaseIdsUnique ==
    \A g \in live \cap complete :
        LET ids == {(firstId[g] + i) % IdMod : i \in 0 .. (TreeIds - 1)}
        IN  RootId \notin ids /\ Cardinality(ids) = TreeIds

\* pmnt_id, the mount's part of every node id and of the fsid, identifies the
\* mount: no two mounts that have one share it.
MountIdsUnique ==
    \A m, n \in MountPoints : m # n /\ pmnt_id[m] # 0 => pmnt_id[m] # pmnt_id[n]

\* Between operations, mounted_instance_count is the number of mounts.
InstancesCounted ==
    (\A m \in MountPoints : pc[m] \in {"none", "mounted"}) =>
        mounted_instance_count = Cardinality({m \in MountPoints : pc[m] = "mounted"})

\* "each mount of the file system has a unique name as seen by the mount(1)
\* command" (procfs_mount, populate_statfs_info).
NamesUnique ==
    \A m, n \in MountPoints :
        m # n /\ pc[m] = "mounted" /\ pc[n] = "mounted" => mntfrom[m] # mntfrom[n]
=============================================================================
