---------------------------- MODULE MountsProofs ----------------------------
(***************************************************************************)
(* What serialised mounts and unmounts guarantee, for any number of mount  *)
(* structures: no tree is leaked.  Instances are counted without that.     *)
(***************************************************************************)
EXTENDS Mounts, FiniteSetTheorems, TLAPS

\* An operation on m is under way.
Working(m) == pc[m] \notin {"none", "mounted"}

\* One operation at a time.
ExclusiveInv == \A m, n \in MountPoints : Working(m) /\ Working(n) => m = n

\* The only tree in memory is the current one, and it is there for a mount.
TreeInv ==
    /\ live \subseteq {root_node}
    /\ \A m \in MountPoints : pc[m] = "released" => live = {}
    /\ root_node # NoTree =>
         \E m \in MountPoints : pc[m] \in {"build", "hash", "mounted", "flushed", "freed",
                                           "uncounted", "released"}
    /\ root_node = NoTree => live = {}

Inv == TypeOK /\ ExclusiveInv /\ TreeInv

\* The type invariant is preserved by every step.
LEMMA TypeStep ==
    ASSUME TypeOK, [Next]_vars
    PROVE  TypeOK'
<1>1. LastNodeId \in 0 .. (IdMod - 1)
  BY NodeIdAssumption DEF TypeOK, LastNodeId
<1>2. CASE UNCHANGED vars
  BY <1>2 DEF TypeOK, vars, treeVars
<1>3. ASSUME NEW m \in MountPoints, MountStep(m)
      PROVE  TypeOK'
  <2>1. CASE TakeId(m) \/ SetId(m) \/ CountMount(m) \/ SetName(m)
    BY <2>1, NodeIdAssumption DEF TypeOK, treeVars, Step, IdOf, TakeId, SetId, CountMount, SetName
  <2>2. CASE StartTree(m)
    <3>1. trees + 1 \in Trees /\ trees + 1 \in 0 .. MaxTrees
      BY <2>2, NodeIdAssumption DEF TypeOK, StartTree, Trees
    <3>2. QED
      BY <2>2, <3>1 DEF TypeOK, Step, StartTree, NextBaseId
  <2>3. CASE BuildTree(m) \/ KeepTree(m) \/ SetUpHash(m)
    BY <1>1, <2>3 DEF TypeOK, treeVars, Step, BuildTree, KeepTree, SetUpHash
  <2>4. QED
    BY <1>3, <2>1, <2>2, <2>3 DEF MountStep
<1>4. ASSUME NEW m \in MountPoints, UnmountStep(m)
      PROVE  TypeOK'
  BY <1>4, NodeIdAssumption DEF TypeOK, treeVars, Step, Uncounted, release_node, NoRoot,
       UnmountStep, Flush, FreeMount, Uncount, FreeTree, ForgetTree, NoTreeToFree
<1>5. ASSUME NEW m \in MountPoints, MakeRoot(m) \/ Reclaim(m)
      PROVE  TypeOK'
  BY <1>5 DEF TypeOK, treeVars, MakeRoot, Reclaim
<1>6. QED
  BY <1>2, <1>3, <1>4, <1>5 DEF Next

\* The invariant holds when the kext is loaded.
LEMMA InvInit == Init => Inv
<1> SUFFICES ASSUME Init PROVE Inv
  OBVIOUS
<1>1. 0 \in 0 .. MaxMounts /\ 0 \in 0 .. MaxTrees /\ 0 \in 0 .. (IdMod - 1) /\ 0 \in Int
  BY NodeIdAssumption
<1>2. TypeOK
  BY <1>1, NodeIdAssumption DEF Init, TypeOK
<1>3. ExclusiveInv /\ TreeInv
  BY DEF Init, ExclusiveInv, Working, TreeInv
<1>4. QED
  BY <1>2, <1>3 DEF Inv

\* Serialised operations preserve the invariant.
LEMMA InvStep ==
    ASSUME Serialised, Inv, [Next]_vars
    PROVE  Inv'
<1> USE DEF Inv
<1>0. TypeOK'
  BY TypeStep
<1>1. CASE UNCHANGED vars
  BY <1>0, <1>1 DEF vars, treeVars, ExclusiveInv, Working, TreeInv
<1>2. ASSUME NEW m \in MountPoints, TakeId(m)
      PROVE  Inv'
  BY <1>0, <1>2 DEF TypeOK, treeVars, Step, MayBegin, TakeId, ExclusiveInv, Working, TreeInv
<1>3. ASSUME NEW m \in MountPoints, SetId(m)
      PROVE  Inv'
  BY <1>0, <1>3 DEF TypeOK, treeVars, Step, SetId, IdOf, ExclusiveInv, Working, TreeInv
<1>4. ASSUME NEW m \in MountPoints, CountMount(m) \/ SetName(m)
      PROVE  Inv'
  BY <1>0, <1>4 DEF TypeOK, treeVars, Step, CountMount, SetName, ExclusiveInv, Working, TreeInv
<1>5. ASSUME NEW m \in MountPoints, StartTree(m)
      PROVE  Inv'
  <2>1. ExclusiveInv'
    BY <1>5 DEF TypeOK, Step, StartTree, ExclusiveInv, Working
  <2>2. TreeInv'
    BY <1>5, NodeIdAssumption DEF TypeOK, Step, StartTree, ExclusiveInv, Working, TreeInv, NoTree
  <2>3. QED
    BY <1>0, <2>1, <2>2
<1>6. ASSUME NEW m \in MountPoints, BuildTree(m) \/ KeepTree(m) \/ SetUpHash(m)
      PROVE  Inv'
  <2>1. ExclusiveInv'
    BY <1>6 DEF TypeOK, treeVars, Step, BuildTree, KeepTree, SetUpHash, ExclusiveInv, Working
  <2>2. TreeInv'
    BY <1>6 DEF TypeOK, treeVars, Step, BuildTree, KeepTree, SetUpHash, TreeInv
  <2>3. QED
    BY <1>0, <2>1, <2>2
<1>7. ASSUME NEW m \in MountPoints, Flush(m) \/ FreeMount(m) \/ Uncount(m)
      PROVE  Inv'
  <2>1. ExclusiveInv'
    BY <1>7 DEF TypeOK, treeVars, Step, MayBegin, Flush, FreeMount, Uncount, ExclusiveInv,
         Working
  <2>2. TreeInv'
    BY <1>7 DEF TypeOK, treeVars, Step, Flush, FreeMount, Uncount, TreeInv
  <2>3. QED
    BY <1>0, <2>1, <2>2
<1>8. ASSUME NEW m \in MountPoints, FreeTree(m) \/ ForgetTree(m) \/ NoTreeToFree(m)
      PROVE  Inv'
  <2>1. ExclusiveInv'
    BY <1>8 DEF TypeOK, treeVars, Step, FreeTree, ForgetTree, NoTreeToFree, ExclusiveInv,
         Working
  <2>2. TreeInv'
    BY <1>8 DEF TypeOK, treeVars, Step, FreeTree, ForgetTree, NoTreeToFree, ExclusiveInv,
         Working, TreeInv, release_node, NoRoot
  <2>3. QED
    BY <1>0, <2>1, <2>2
<1>9. ASSUME NEW m \in MountPoints, MakeRoot(m) \/ Reclaim(m)
      PROVE  Inv'
  BY <1>0, <1>9 DEF treeVars, MakeRoot, Reclaim, ExclusiveInv, Working,
       TreeInv
<1>10. QED
  BY <1>1, <1>2, <1>3, <1>4, <1>5, <1>6, <1>7, <1>8, <1>9 DEF Next, MountStep, UnmountStep

\* Serialised unmounts give back every tree (procfs_structure_free).
THEOREM TreesAreFreed ==
    ASSUME Serialised
    PROVE  Spec => []NoTreeLeak
<1>1. Inv => NoTreeLeak
  BY DEF Inv, NoTreeLeak, TreeInv
<1>2. ASSUME Inv, [Next]_vars PROVE Inv'
  BY <1>2, InvStep
<1>3. QED
  BY <1>1, <1>2, InvInit, PTL DEF Spec

\* The variables of mounts and trees keep their types: next_node_id wraps, and
\* mount ids stay in their range.
THEOREM TypeCorrect == Spec => []TypeOK
<1>1. Init => TypeOK
  BY InvInit DEF Inv
<1>2. QED
  BY <1>1, TypeStep, PTL DEF Spec

-----------------------------------------------------------------------------
(* The number of instances                                                 *)

\* The operations between CountMount and Uncount.
Counted == {m \in MountPoints : pc[m] \in {"name", "init", "build", "hash", "mounted",
                                           "flushed", "freed"}}

CountInv == mounted_instance_count = Cardinality(Counted)

\* Every step counts one in, one out, or none.
LEMMA CountStep ==
    ASSUME TypeOK, CountInv, [Next]_vars
    PROVE  CountInv'
<1>0. IsFiniteSet(Counted)
  BY MountPointsAssumption, FS_Subset DEF Counted
<1>1. CASE UNCHANGED vars
  BY <1>1 DEF vars, CountInv, Counted
<1>2. ASSUME NEW m \in MountPoints, CountMount(m)
      PROVE  CountInv'
  <2>1. Counted' = Counted \cup {m} /\ m \notin Counted
    BY <1>2 DEF CountMount, Step, Counted, TypeOK
  <2>2. QED
    BY <1>0, <1>2, <2>1, FS_AddElement DEF CountMount, CountInv
<1>3. ASSUME NEW m \in MountPoints, Uncount(m)
      PROVE  CountInv'
  <2>1. Counted' = Counted \ {m} /\ m \in Counted
    BY <1>3 DEF Uncount, Step, Counted, TypeOK
  <2>2. QED
    BY <1>0, <1>3, <2>1, FS_RemoveElement DEF Uncount, Uncounted, CountInv
<1>4. ASSUME NEW m \in MountPoints,
             \/ TakeId(m) \/ SetId(m) \/ SetName(m) \/ StartTree(m) \/ BuildTree(m)
             \/ KeepTree(m) \/ SetUpHash(m) \/ MakeRoot(m) \/ Reclaim(m) \/ Flush(m)
             \/ FreeMount(m) \/ FreeTree(m) \/ ForgetTree(m) \/ NoTreeToFree(m)
      PROVE  CountInv'
  <2>1. Counted' = Counted
    BY <1>4 DEF TakeId, SetId, SetName, StartTree, BuildTree, KeepTree, SetUpHash, MakeRoot,
                Reclaim, Flush, FreeMount, FreeTree, ForgetTree, NoTreeToFree, Step, Counted,
                TypeOK
  <2>2. mounted_instance_count' = mounted_instance_count
    BY <1>4 DEF TakeId, SetId, SetName, StartTree, BuildTree, KeepTree, SetUpHash, MakeRoot,
                Reclaim, Flush, FreeMount, FreeTree, ForgetTree, NoTreeToFree
  <2>3. QED
    BY <2>1, <2>2 DEF CountInv
<1>5. QED
  BY <1>1, <1>2, <1>3, <1>4 DEF Next, MountStep, UnmountStep

\* mounted_instance_count is the number of instances between the operations of
\* procfs_mount and procfs_unmount, also of those that overlap.
THEOREM InstancesAreCounted == Spec => []InstancesCounted
<1>1. Init => CountInv
  <2>1. ASSUME Init PROVE Counted = {}
    BY <2>1 DEF Init, Counted
  <2>2. QED
    BY <2>1, FS_EmptySet DEF Init, CountInv
<1>2. TypeOK /\ CountInv => InstancesCounted
  <2> SUFFICES ASSUME CountInv, \A m \in MountPoints : pc[m] \in {"none", "mounted"}
               PROVE  mounted_instance_count = Cardinality({m \in MountPoints : pc[m] = "mounted"})
    BY DEF InstancesCounted
  <2>1. Counted = {m \in MountPoints : pc[m] = "mounted"}
    BY DEF Counted
  <2>2. QED
    BY <2>1 DEF CountInv
<1>3. QED
  BY <1>1, <1>2, CountStep, TypeCorrect, PTL DEF Spec
=============================================================================
