---------------------------- MODULE NodeCacheInv ----------------------------
(***************************************************************************)
(* The inductive invariant of NodeCache, its typing theorem and the proof  *)
(* that the steps of procfsnode_find up to the marking of a node as being  *)
(* attached preserve the invariant.                                        *)
(***************************************************************************)
EXTENDS NodeCache, TLAPS

-----------------------------------------------------------------------------
(* The types, and the strengthening: what the gaps in which the lock is    *)
(* dropped rely on.                                                        *)

\* The conjuncts of TypeOK for the pfsnodes, for the callers and for the
\* vnodes.
HeapTypes ==
    /\ heap \in SUBSET Nodes
    /\ hash \in SUBSET Nodes
    /\ nodeKey \in [Nodes -> Keys \cup {NULL}]
    /\ nodeVnode \in [Nodes -> Vnodes \cup {NULL}]
    /\ attaching \in [Nodes -> BOOLEAN]
    /\ waiting \in [Nodes -> BOOLEAN]

LocalTypes ==
    /\ pc \in [Threads -> Locations]
    /\ want \in [Threads -> Keys \cup {NULL}]
    /\ target \in [Threads -> Nodes \cup {NULL}]
    /\ new \in [Threads -> Nodes \cup {NULL}]
    /\ tvnode \in [Threads -> Vnodes \cup {NULL}]
    /\ tvid \in [Threads -> Nat]
    /\ error \in [Threads -> Errors]

VnodeTypes ==
    /\ vstate \in [Vnodes -> VnodeStates]
    /\ vid \in [Vnodes -> Nat]
    /\ fsnode \in [Vnodes -> Nodes \cup {NULL}]
    /\ fsref \in [Vnodes -> BOOLEAN]

\* The local variables at each place of procfsnode_find.
LocalsAt(t) ==
    /\ pc[t] # "idle" => want[t] \in Keys
    /\ pc[t] \in {"sleep", "getvid", "create", "attach"} => target[t] \in Nodes
    /\ pc[t] = "getvid" => tvnode[t] \in Vnodes
    /\ pc[t] \in {"idle", "malloc", "using"} => new[t] = NULL
    /\ pc[t] \notin {"attach", "finish"} => error[t] = "none"
    /\ pc[t] \in {"idle", "malloc"} => target[t] = NULL
    /\ pc[t] = "finish" /\ error[t] # "none" => target[t] = NULL
    /\ pc[t] = "finish" /\ error[t] = "none" =>
          target[t] \in Nodes /\ tvnode[t] \in Vnodes
    /\ pc[t] = "using" => target[t] \in Nodes /\ tvnode[t] \in Vnodes

LocalsInv == \A t \in Threads : LocalsAt(t)

\* Only allocated nodes are hashed, and a hashed node has an id.
HashInv ==
    /\ hash \subseteq heap
    /\ \A n \in hash : nodeKey[n] \in Keys

\* new_pfsnode is allocated and private, until it is hashed as the target.
NewInv ==
    \A t \in Threads :
        new[t] # NULL =>
            /\ new[t] \in heap
            /\ new[t] \in hash => /\ new[t] = target[t]
                                  /\ pc[t] \in {"create", "attach", "finish"}
            /\ \A u \in Threads \ {t} : new[u] # new[t]

\* Between vnode_create and the second critical section the vnode belongs to
\* the creating thread only.
CreatedInv ==
    \A t \in Threads :
        pc[t] = "attach" /\ error[t] = "none" =>
            /\ tvnode[t] \in Vnodes
            /\ vstate[tvnode[t]] = "live"
            /\ fsnode[tvnode[t]] = target[t]
            /\ \A n \in hash : nodeVnode[n] # tvnode[t]
            /\ \A u \in Threads \ {t} :
                  pc[u] = "attach" /\ error[u] = "none" => tvnode[u] # tvnode[t]

\* If the vnode id read under the lock is still the vnode's, and the node was
\* not reclaimed, the vnode is still the one of the node that was found.
VidAt(t) ==
    pc[t] = "getvid" =>
        /\ tvid[t] <= vid[tvnode[t]]
        /\ tvid[t] = vid[tvnode[t]] =>
              /\ vstate[tvnode[t]] \in {"live", "dying", "unlinked"}
              /\ vstate[tvnode[t]] \in {"live", "dying"} =>
                    /\ target[t] \in hash
                    /\ nodeKey[target[t]] = want[t]
                    /\ nodeVnode[target[t]] = tvnode[t]
                    /\ ~attaching[target[t]]

VidInv == \A t \in Threads : VidAt(t)

\* A vnode that is live and not in the hands of its creator, or that is being
\* terminated, is linked to a hashed node.
LinkInv ==
    \A v \in Vnodes :
        \/ vstate[v] \in {"free", "unlinked"}
        \/ vstate[v] = "live" /\ \E t \in Threads :
              pc[t] = "attach" /\ error[t] = "none" /\ tvnode[t] = v
        \/ /\ vstate[v] \in {"live", "dying"}
           /\ fsnode[v] \in hash
           /\ nodeVnode[fsnode[v]] = v
           /\ ~attaching[fsnode[v]]

\* A node is marked as being attached only while some thread attaches to it.
AttachingInv ==
    \A n \in hash :
        attaching[n] => \E t \in Threads : pc[t] \in {"create", "attach"} /\ target[t] = n

Inv ==
    /\ TypeOK /\ LocalsInv /\ HashInv /\ NewInv /\ CreatedInv /\ VidInv
    /\ LinkInv /\ AttachingInv
    /\ UniqueNode /\ ResultIsCurrent /\ AttachIsExclusive /\ SleeperIsWoken
    /\ HashedNodeHasVnode

\* What a step has to establish, under names that the steps of the proofs
\* leave folded.
TypeKept == TypeOK'
Kept == Inv'

-----------------------------------------------------------------------------
(* Lemmas about the hash table.                                            *)

\* The comparison of the four fields that ends the walk of a bucket in
\* procfsnode_find finds the nodes with the id, and no others.
LEMMA MatchesIsEquality ==
    ASSUME NEW k \in Keys, HashInv
    PROVE  Matches(k) = {n \in hash : nodeKey[n] = k}
<1>1. ASSUME NEW n \in hash
      PROVE  SameId(n, k) <=> nodeKey[n] = k
  BY <1>1, KeysAssumption, SMTT(90) DEF HashInv, SameId
<1> QED BY <1>1, Zenon DEF Matches

\* Every field of the cache, the locals of the callers and the vnodes keep
\* their types through every step of find, put and reclaim.
LEMMA TypeStep == TypeOK /\ [Next]_vars => TypeKept
<1> SUFFICES ASSUME TypeOK, [Next]_vars PROVE TypeKept
  BY Zenon
<1> USE DEF TypeOK, TypeKept, Goto, Locations, Errors, VnodeStates
<1>1. ASSUME NEW t \in Threads, Call(t) PROVE TypeKept
  <2>1. PICK k \in Keys : want' = [want EXCEPT ![t] = k]
    BY <1>1, Zenon DEF Call
  <2> QED BY <1>1, <2>1, Zenon DEF Call, heapVars, vnodeVars
<1>2. ASSUME NEW t \in Threads, Miss(t) PROVE TypeKept
  BY <1>2, Zenon DEF Miss, heapVars, vnodeVars
<1>3. ASSUME NEW t \in Threads, Malloc(t) PROVE TypeKept
  <2>1. PICK n \in Nodes : heap' = heap \cup {n} /\ new' = [new EXCEPT ![t] = n]
    BY <1>3, Zenon DEF Malloc
  <2> QED BY <1>3, <2>1, Zenon DEF Malloc, vnodeVars
<1>4. ASSUME NEW t \in Threads, MallocFails(t) PROVE TypeKept
  BY <1>4, Zenon DEF MallocFails, heapVars, vnodeVars
<1>5. ASSUME NEW t \in Threads, WaitForAttach(t) PROVE TypeKept
  <2>1. PICK n \in Nodes : AskWakeup(n) /\ target' = [target EXCEPT ![t] = n]
    BY <1>5, Zenon DEF WaitForAttach, Matches
  <2> QED BY <1>5, <2>1, Zenon DEF WaitForAttach, AskWakeup, vnodeVars
<1>6. ASSUME NEW t \in Threads, FoundVnode(t) PROVE TypeKept
  <2>1. PICK n \in Nodes :
          /\ nodeVnode[n] # NULL /\ target' = [target EXCEPT ![t] = n]
          /\ tvnode' = [tvnode EXCEPT ![t] = nodeVnode[n]]
          /\ tvid' = [tvid EXCEPT ![t] = vid[nodeVnode[n]]]
    BY <1>6, Zenon DEF FoundVnode, Matches
  <2>2. nodeVnode[n] \in Vnodes /\ vid[nodeVnode[n]] \in Nat
    BY <2>1, Zenon
  <2> QED BY <1>6, <2>1, <2>2, Zenon DEF FoundVnode, heapVars, vnodeVars
<1>7. ASSUME NEW t \in Threads, GetWithVid(t) PROVE TypeKept
  BY <1>7, Zenon DEF GetWithVid, heapVars, vnodeVars
<1>8. ASSUME NEW t \in Threads, GetWithVidFails(t) PROVE TypeKept
  BY <1>8, Zenon DEF GetWithVidFails, heapVars, vnodeVars
<1>9. ASSUME NEW t \in Threads, StartAttach(t) PROVE TypeKept
  <2>1. PICK n \in Nodes :
          /\ hash' = hash \cup {n}
          /\ nodeKey' = [nodeKey EXCEPT ![n] = want[t]]
          /\ nodeVnode' = [nodeVnode EXCEPT ![n] = NULL]
          /\ attaching' = [attaching EXCEPT ![n] = TRUE]
          /\ waiting' = [waiting EXCEPT ![n] = @ /\ n \in hash]
          /\ target' = [target EXCEPT ![t] = n]
    BY <1>9, Zenon DEF StartAttach
  <2> QED BY <1>9, <2>1, Zenon DEF StartAttach, vnodeVars
<1>10. ASSUME NEW t \in Threads, CreateVnode(t) PROVE TypeKept
  <2>1. PICK v \in Vnodes :
          /\ vstate' = [vstate EXCEPT ![v] = "live"]
          /\ fsnode' = [fsnode EXCEPT ![v] = target[t]]
          /\ tvnode' = [tvnode EXCEPT ![t] = v]
    BY <1>10, Zenon DEF CreateVnode
  <2> QED BY <1>10, <2>1, Zenon DEF CreateVnode, heapVars
<1>11. ASSUME NEW t \in Threads, CreateVnodeFails(t) PROVE TypeKept
  BY <1>11, Zenon DEF CreateVnodeFails, heapVars, vnodeVars
<1>12. ASSUME NEW t \in Threads, AttachDone(t) PROVE TypeKept
  BY <1>12, Zenon DEF AttachDone, LinkVnode, vnode_addfsref, Wakeup
<1>13. ASSUME NEW t \in Threads, AttachFailed(t) PROVE TypeKept
  BY <1>13, Zenon DEF AttachFailed, ForgetNew, Wakeup, procfsnode_free_node, vnodeVars
<1>14. ASSUME NEW t \in Threads, Return(t) PROVE TypeKept
  BY <1>14, Zenon DEF Return, FreeUnused, vnodeVars
<1>15. ASSUME NEW t \in Threads, ReturnError(t) PROVE TypeKept
  BY <1>15, Zenon DEF ReturnError, FreeUnused, Forget, vnodeVars
<1>16. ASSUME NEW t \in Threads, Put(t) PROVE TypeKept
  BY <1>16, Zenon DEF Put, Forget, heapVars, vnodeVars
<1>17. ASSUME NEW v \in Vnodes, Terminate(v) PROVE TypeKept
  BY <1>17, Zenon DEF Terminate, heapVars, localVars
<1>18. ASSUME NEW v \in Vnodes, ReclaimNode(v) PROVE TypeKept
  BY <1>18, Zenon DEF ReclaimNode, procfsnode_free_node, localVars
<1>19. ASSUME NEW v \in Vnodes, ReclaimVnode(v) PROVE TypeKept
  <2>1. vid' \in [Vnodes -> Nat]
    BY <1>19 DEF ReclaimVnode
  <2> QED BY <1>19, <2>1, Zenon DEF ReclaimVnode, heapVars, localVars
<1>20. CASE UNCHANGED vars
  BY <1>20, Zenon DEF vars, heapVars, localVars, vnodeVars
<1> QED
  BY <1>1, <1>2, <1>3, <1>4, <1>5, <1>6, <1>7, <1>8, <1>9, <1>10, <1>11, <1>12, <1>13,
     <1>14, <1>15, <1>16, <1>17, <1>18, <1>19, <1>20, Zenon DEF
         Next, Find, Reclaim

\* The types of the cache, of the callers' locals and of the vnodes hold in
\* every state procfsnode_find and procfs_vnop_reclaim reach.
THEOREM TypeCorrect == Spec => []TypeOK
<1>1. Init => TypeOK
  BY DEF Init, TypeOK, Locations, Errors, VnodeStates
<1> QED BY <1>1, TypeStep, PTL DEF Spec, TypeKept

-----------------------------------------------------------------------------
(* Steps without effect on the table and the vnodes.                       *)

\* What ResultIsCurrent says of one thread.
ResultAt(t) ==
    pc[t] \in {"finish", "using"} /\ error[t] = "none" =>
        /\ target[t] \in hash \cap heap
        /\ nodeKey[target[t]] = want[t]
        /\ nodeVnode[target[t]] = tvnode[t]
        /\ ~attaching[target[t]]
        /\ vstate[tvnode[t]] = "live"
        /\ fsnode[tvnode[t]] = target[t]
        /\ fsref[tvnode[t]]

\* Thread t changes its locals and the node it allocated only, and nobody
\* relies on it at the place where it is or gets to.
LocalStep(t) ==
    /\ UNCHANGED <<hash, nodeKey, nodeVnode, attaching, waiting, vnodeVars>>
    /\ hash \subseteq heap'
    /\ \A u \in Threads \ {t} :
          /\ pc'[u] = pc[u] /\ want'[u] = want[u] /\ target'[u] = target[u]
          /\ new'[u] = new[u] /\ tvnode'[u] = tvnode[u] /\ tvid'[u] = tvid[u]
          /\ error'[u] = error[u]
    /\ \/ pc[t] \notin {"sleep", "create", "attach"} /\ pc'[t] \notin {"sleep", "create", "attach"}
       \/ /\ pc[t] = "create" /\ pc'[t] = "attach" /\ error'[t] # "none"
          /\ want'[t] = want[t] /\ target'[t] = target[t]

\* The locals are right where the thread gets to.
MoveOK(t) == LocalStep(t) /\ LocalsAt(t)' /\ VidAt(t)' /\ ResultAt(t)'

\* Such a step of procfsnode_find or vnode_put preserves the invariant.
LEMMA LocalMove ==
    ASSUME Inv, NEW t \in Threads, TypeKept, MoveOK(t), NewInv'
    PROVE  Kept
<1>0. LocalStep(t) /\ LocalsAt(t)' /\ VidAt(t)' /\ ResultAt(t)'
  BY Zenon DEF MoveOK
<1> USE <1>0 DEF Inv, LocalStep, vnodeVars
<1>1. LocalsInv'
  BY SMTT(60) DEF LocalsInv, LocalsAt
<1>2. HashInv' /\ UniqueNode' /\ HashedNodeHasVnode'
  BY Zenon DEF HashInv, UniqueNode, HashedNodeHasVnode
<1>4. CreatedInv'
  BY SMTT(60) DEF CreatedInv
<1>5. VidInv'
  BY SMTT(60) DEF VidInv, VidAt
<1>6. LinkInv'
  BY SMTT(60) DEF LinkInv
<1>7. AttachingInv'
  BY SMTT(60) DEF AttachingInv
<1>8. ResultIsCurrent'
  BY SMTT(60) DEF ResultIsCurrent, ResultAt
<1>9. AttachIsExclusive'
  BY SMTT(60) DEF AttachIsExclusive
<1>10. SleeperIsWoken'
  BY SMTT(60) DEF SleeperIsWoken
<1> QED BY <1>1, <1>2, <1>4, <1>5, <1>6, <1>7, <1>8, <1>9, <1>10, Zenon DEF Kept, TypeKept

\* Most steps of procfsnode_find, and vnode_put.
OwnStep(t) ==
    \/ Call(t) \/ Miss(t) \/ Malloc(t) \/ MallocFails(t) \/ FoundVnode(t)
    \/ GetWithVid(t) \/ GetWithVidFails(t) \/ CreateVnodeFails(t)
    \/ Return(t) \/ ReturnError(t) \/ Put(t)

\* They are such steps.
LEMMA OwnStepIsLocal ==
    ASSUME Inv, NEW t \in Threads, OwnStep(t)
    PROVE  MoveOK(t) /\ NewInv'
<1>0. LocalTypes /\ LocalsAt(t) /\ hash \subseteq heap /\ NewInv
  BY Zenon DEF Inv, TypeOK, LocalTypes, LocalsInv, HashInv
<1>10. ASSUME MoveOK(t), heap' = heap, new'[t] = NULL PROVE NewInv'
  BY <1>0, <1>10, SMTT(60) DEF MoveOK, LocalStep, NewInv
<1>11. ASSUME MoveOK(t), heap' = heap, new'[t] = new[t],
              pc[t] \notin {"create", "attach", "finish"}
       PROVE  NewInv'
  BY <1>0, <1>11, SMTT(60) DEF MoveOK, LocalStep, NewInv
<1>12. ASSUME MoveOK(t), heap' \in {heap, heap \ {new[t]}}, new'[t] = NULL PROVE NewInv'
  BY <1>0, <1>12, SMTT(60) DEF MoveOK, LocalStep, NewInv
<1>1. CASE Call(t)
  <2>1. LocalStep(t) /\ LocalsAt(t)' /\ VidAt(t)' /\ ResultAt(t)'
    BY <1>0, <1>1, Zenon
      DEF Call, LocalTypes, LocalsAt, Goto, heapVars, vnodeVars, LocalStep, VidAt,
          ResultAt
  <2> QED BY <1>1, <1>11, <2>1, Zenon DEF Call, heapVars, MoveOK
<1>2. CASE Miss(t)
  <2>1. LocalStep(t) /\ LocalsAt(t)' /\ VidAt(t)' /\ ResultAt(t)'
    BY <1>0, <1>2, Zenon
      DEF Miss, LocalTypes, LocalsAt, Goto, heapVars, vnodeVars, LocalStep, VidAt,
          ResultAt
  <2> QED BY <1>2, <1>11, <2>1, Zenon DEF Miss, heapVars, MoveOK
<1>3. CASE MallocFails(t)
  <2>1. LocalStep(t) /\ LocalsAt(t)' /\ VidAt(t)' /\ ResultAt(t)'
    BY <1>0, <1>3, Zenon
      DEF MallocFails, LocalTypes, LocalsAt, Goto, heapVars, vnodeVars, LocalStep,
          VidAt, ResultAt
  <2> QED BY <1>3, <1>11, <2>1, Zenon DEF MallocFails, heapVars, MoveOK
<1>4. CASE FoundVnode(t)
  <2>1. Matches(want[t]) = {n \in hash : nodeKey[n] = want[t]}
    BY <1>0, <1>4, MatchesIsEquality, Zenon DEF FoundVnode, Inv, LocalsAt
  <2>2. PICK n \in hash :
          /\ nodeKey[n] = want[t] /\ ~attaching[n] /\ nodeVnode[n] # NULL
          /\ target' = [target EXCEPT ![t] = n]
          /\ tvnode' = [tvnode EXCEPT ![t] = nodeVnode[n]]
          /\ tvid' = [tvid EXCEPT ![t] = vid[nodeVnode[n]]]
    BY <1>4, <2>1, Zenon DEF FoundVnode
  <2>3. n \in Nodes /\ nodeVnode[n] \in Vnodes /\ vid[nodeVnode[n]] \in Nat
    BY <2>2, Zenon DEF Inv, TypeOK
  <2>6. vstate[nodeVnode[n]] \in {"live", "dying"}
    BY <2>2, Zenon DEF Inv, HashedNodeHasVnode
  <2>8. pc[t] = "top" /\ pc'[t] = "getvid" /\ \A u \in Threads \ {t} : pc'[u] = pc[u]
    BY <1>0, <1>4, Zenon DEF FoundVnode, Goto, LocalTypes
  <2>9. \A u \in Threads \ {t} :
           target'[u] = target[u] /\ tvnode'[u] = tvnode[u] /\ tvid'[u] = tvid[u]
    BY <1>0, <2>2, Zenon DEF LocalTypes
  <2>4. LocalStep(t) /\ ResultAt(t)'
    BY <1>0, <1>4, <2>8, <2>9, Zenon DEF FoundVnode, heapVars, vnodeVars, LocalStep, ResultAt
  <2>7. LocalsAt(t)'
    BY <1>0, <1>4, <2>2, <2>3, Zenon DEF FoundVnode, Goto, LocalTypes, LocalsAt
  <2>5. VidAt(t)'
    BY <1>0, <1>4, <2>2, <2>3, <2>6 DEF FoundVnode, heapVars, vnodeVars, LocalTypes, VidAt
  <2> QED BY <1>4, <1>11, <2>4, <2>5, <2>7, Zenon DEF FoundVnode, heapVars, MoveOK
<1>5. CASE GetWithVid(t)
  <2>1. LocalStep(t) /\ LocalsAt(t)' /\ VidAt(t)' /\ ResultAt(t)'
    BY <1>0, <1>5, SMTT(60)
      DEF GetWithVid, SameVnode, Inv, VidInv, HashedNodeHasVnode, LocalTypes, LocalsAt,
          Goto, heapVars, vnodeVars, LocalStep, VidAt, ResultAt
  <2> QED BY <1>5, <1>11, <2>1, Zenon DEF GetWithVid, heapVars, MoveOK
<1>6. CASE GetWithVidFails(t)
  <2>1. LocalStep(t) /\ LocalsAt(t)' /\ VidAt(t)' /\ ResultAt(t)'
    BY <1>0, <1>6, Zenon
      DEF GetWithVidFails, LocalTypes, LocalsAt, Goto, heapVars, vnodeVars, LocalStep,
          VidAt, ResultAt
  <2>2. new'[t] = NULL
    BY <1>0, <1>6, Zenon DEF GetWithVidFails, LocalTypes
  <2> QED BY <1>6, <1>10, <2>1, <2>2, Zenon DEF GetWithVidFails, heapVars, MoveOK
<1>7. CASE Put(t)
  <2>1. LocalStep(t) /\ LocalsAt(t)' /\ VidAt(t)' /\ ResultAt(t)'
    BY <1>0, <1>7, Zenon
      DEF Put, Forget, LocalTypes, LocalsAt, Goto, heapVars, vnodeVars, LocalStep,
          VidAt, ResultAt
  <2> QED BY <1>7, <1>11, <2>1, Zenon DEF Put, heapVars, MoveOK
<1>8. CASE CreateVnodeFails(t)
  <2>1. LocalStep(t) /\ LocalsAt(t)' /\ VidAt(t)' /\ ResultAt(t)'
    BY <1>0, <1>8, Zenon
      DEF CreateVnodeFails, LocalTypes, LocalsAt, Goto, heapVars, vnodeVars, LocalStep,
          VidAt, ResultAt
  <2>2. NewInv'
    BY <1>0, <1>8, <2>1, SMTT(60)
      DEF CreateVnodeFails, NewInv, LocalTypes, LocalsAt, Goto, heapVars, vnodeVars,
          LocalStep, VidAt, ResultAt
  <2> QED BY <2>1, <2>2, Zenon DEF MoveOK
<1>9. CASE Malloc(t)
  <2>1. PICK n \in Nodes \ heap : heap' = heap \cup {n} /\ new' = [new EXCEPT ![t] = n]
    BY <1>0, <1>9, Zenon
      DEF Malloc, LocalTypes, LocalsAt, Goto, heapVars, vnodeVars, LocalStep, VidAt,
          ResultAt
  <2>2. LocalStep(t) /\ LocalsAt(t)' /\ VidAt(t)' /\ ResultAt(t)'
    BY <1>0, <1>9, <2>1, Zenon
      DEF Malloc, LocalTypes, LocalsAt, Goto, heapVars, vnodeVars, LocalStep, VidAt,
          ResultAt
  <2>3. NewInv'
    BY <1>0, <1>9, <2>1, <2>2, SMTT(60)
      DEF Malloc, NewInv, LocalTypes, LocalsAt, Goto, heapVars, vnodeVars, LocalStep,
          VidAt, ResultAt
  <2> QED BY <2>2, <2>3, Zenon DEF MoveOK
<1>15. ASSUME pc[t] = "finish", FreeUnused(t)
       PROVE  /\ heap' \in {heap, heap \ {new[t]}} /\ hash \subseteq heap'
              /\ new'[t] = NULL /\ \A u \in Threads \ {t} : new'[u] = new[u]
  <2>1. hash \subseteq Nodes
    BY Zenon DEF Inv, TypeOK
  <2>2. new[t] # target[t] => new[t] \notin hash
    BY <1>0, <2>1, NullAssumption, Zenon DEF NewInv
  <2> QED BY <1>0, <1>15, <2>2, Zenon DEF FreeUnused, LocalTypes
<1>13. CASE Return(t)
  <2>1. LocalStep(t) /\ LocalsAt(t)' /\ VidAt(t)'
    BY <1>0, <1>13, <1>15, Zenon
      DEF Return, FreeUnused, vnodeVars, Goto, LocalTypes, LocalsAt, LocalStep, VidAt
  <2>2. ResultAt(t)'
    BY <1>0, <1>13, <1>15, Zenon
    DEF Return, FreeUnused, Inv, ResultIsCurrent, Goto, vnodeVars, LocalTypes, ResultAt
  <2> QED BY <1>12, <1>13, <1>15, <2>1, <2>2, Zenon DEF Return, MoveOK
<1>14. CASE ReturnError(t)
  <2>1. LocalStep(t) /\ LocalsAt(t)' /\ VidAt(t)' /\ ResultAt(t)'
    BY <1>0, <1>14, <1>15, Zenon
      DEF ReturnError, FreeUnused, Forget, vnodeVars, Goto, LocalTypes, LocalsAt,
          LocalStep, VidAt, ResultAt
  <2> QED BY <1>12, <1>14, <1>15, <2>1, Zenon DEF ReturnError, MoveOK
<1> QED BY <1>1, <1>2, <1>3, <1>4, <1>5, <1>6, <1>7, <1>8, <1>9, <1>13, <1>14, Zenon
        DEF OwnStep

-----------------------------------------------------------------------------
(* The other steps.                                                        *)

\* A step of the kernel on a vnode leaves the table and the callers alone.
LEMMA TableStays ==
    ASSUME Inv, UNCHANGED <<heapVars, localVars>>
    PROVE  /\ HashInv' /\ UniqueNode' /\ AttachingInv' /\ LocalsInv' /\ NewInv'
           /\ SleeperIsWoken' /\ AttachIsExclusive'
<1> USE DEF heapVars, localVars
<1>1. HashInv' /\ UniqueNode' /\ AttachingInv'
  BY Zenon DEF Inv, HashInv, UniqueNode, AttachingInv
<1>2. LocalsInv'
  BY Zenon DEF Inv, LocalsInv, LocalsAt
<1>3. NewInv'
  BY Zenon DEF Inv, NewInv
<1>4. SleeperIsWoken' /\ AttachIsExclusive'
  BY Zenon DEF Inv, SleeperIsWoken, AttachIsExclusive
<1> QED BY <1>1, <1>2, <1>3, <1>4, Zenon

\* A thread that has a result, or is about to get it, has a node and a vnode.
HasResult ==
    \A t \in Threads :
        pc[t] = "getvid" \/ (pc[t] \in {"finish", "using"} /\ error[t] = "none") =>
            target[t] \in Nodes /\ tvnode[t] \in Vnodes

\* What procfsnode_find returns without an error is a node and a vnode.
LEMMA ResultTypes == Inv => HasResult
BY Zenon DEF Inv, LocalsInv, LocalsAt, HasResult

\* A thread that finds a node being attached asks for a wakeup and sleeps.
LEMMA WaitForAttachKeeps ==
    ASSUME Inv, TypeKept, NEW t \in Threads, WaitForAttach(t)
    PROVE  Kept
<1>t. HeapTypes /\ LocalTypes /\ VnodeTypes
  BY Zenon DEF Inv, TypeOK, HeapTypes, LocalTypes, VnodeTypes
<1> USE DEF Goto, heapVars, vnodeVars, localVars
<1>0. Matches(want[t]) = {n \in hash : nodeKey[n] = want[t]}
  BY MatchesIsEquality, Zenon DEF WaitForAttach, Inv, LocalsInv, LocalsAt
<1>p. PICK n \in hash : /\ attaching[n] /\ AskWakeup(n)
                        /\ target' = [target EXCEPT ![t] = n]
  BY <1>0, Zenon DEF WaitForAttach
<1>a. /\ UNCHANGED <<heap, hash, nodeKey, nodeVnode, attaching, vnodeVars,
                     want, new, tvnode, tvid, error>>
      /\ pc[t] = "top" /\ pc'[t] = "sleep" /\ target'[t] = n
      /\ \A u \in Threads \ {t} : pc'[u] = pc[u] /\ target'[u] = target[u]
  BY <1>t, <1>p, Zenon DEF WaitForAttach, LocalTypes
<1>b. n \in Nodes /\ waiting'[n] /\ \A m \in hash : waiting[m] => waiting'[m]
  BY <1>t, <1>p, Zenon DEF AskWakeup, HeapTypes
<1>1. HashInv' /\ UniqueNode' /\ HashedNodeHasVnode'
  BY <1>a, Zenon DEF Inv, HashInv, UniqueNode, HashedNodeHasVnode
<1>2. AttachingInv'
  BY <1>a DEF Inv, AttachingInv
<1>3. LinkInv'
  BY <1>a DEF Inv, LinkInv
<1>4. LocalsInv'
  BY <1>a, <1>b DEF Inv, LocalsInv, LocalsAt
<1>5. NewInv'
  BY <1>a, Zenon DEF Inv, NewInv
<1>6. AttachIsExclusive'
  BY <1>a DEF Inv, AttachIsExclusive
<1>7. ResultIsCurrent' /\ CreatedInv'
  BY <1>a DEF Inv, ResultIsCurrent, CreatedInv
<1>8. VidInv'
  BY <1>a DEF Inv, VidInv, VidAt
<1>9. SleeperIsWoken'
  BY <1>a, <1>b, <1>p DEF Inv, SleeperIsWoken, AttachingInv
<1> QED BY <1>1, <1>2, <1>3, <1>4, <1>5, <1>6, <1>7, <1>8, <1>9, Zenon
      DEF Inv, Kept, TypeKept

\* A thread hashes the node it allocated and marks it as being attached: the
\* first disjunct of Attachable never happens, as a hashed node has a vnode.
LEMMA StartAttachKeeps ==
    ASSUME Inv, TypeKept, NEW t \in Threads, StartAttach(t)
    PROVE  Kept
<1>t. HeapTypes /\ LocalTypes /\ VnodeTypes
  BY Zenon DEF Inv, TypeOK, HeapTypes, LocalTypes, VnodeTypes
<1> USE DEF Goto, heapVars, vnodeVars, localVars
<1>r. HasResult
  BY ResultTypes, Zenon
<1>0. Matches(want[t]) = {n \in hash : nodeKey[n] = want[t]} /\ want[t] \in Keys
  BY MatchesIsEquality, Zenon DEF StartAttach, Inv, LocalsInv, LocalsAt
<1>p. PICK n \in Nodes : /\ Attachable(t, n)
                         /\ hash' = hash \cup {n}
                         /\ nodeKey' = [nodeKey EXCEPT ![n] = want[t]]
                         /\ nodeVnode' = [nodeVnode EXCEPT ![n] = NULL]
                         /\ attaching' = [attaching EXCEPT ![n] = TRUE]
                         /\ waiting' = [waiting EXCEPT ![n] = @ /\ n \in hash]
                         /\ target' = [target EXCEPT ![t] = n]
  BY Zenon DEF StartAttach
<1>a. /\ UNCHANGED <<heap, vnodeVars, want, new, tvnode, tvid, error>>
      /\ pc[t] = "top" /\ pc'[t] = "create" /\ target'[t] = n
      /\ \A u \in Threads \ {t} : pc'[u] = pc[u] /\ target'[u] = target[u]
  BY <1>t, <1>p, Zenon DEF StartAttach, LocalTypes
<1>b. /\ hash' = hash \cup {n} /\ nodeKey'[n] = want[t] /\ nodeVnode'[n] = NULL /\ attaching'[n]
      /\ \A m \in Nodes \ {n} :
            /\ nodeKey'[m] = nodeKey[m] /\ nodeVnode'[m] = nodeVnode[m]
            /\ attaching'[m] = attaching[m] /\ waiting'[m] = waiting[m]
      /\ hash \subseteq Nodes
  BY <1>t, <1>p, Zenon DEF HeapTypes
<1>c. n = new[t] /\ \A m \in hash : nodeKey[m] # want[t]
  BY <1>0, <1>p, Zenon DEF Attachable, Inv, HashedNodeHasVnode
<1>d. /\ n \in heap /\ n \notin hash /\ n # NULL
      /\ \A u \in Threads \ {t} : new[u] # n
  BY <1>a, <1>c, NullAssumption, Zenon DEF Inv, NewInv
<1>1. HashInv'
  BY <1>0, <1>a, <1>b, <1>d, Zenon DEF Inv, HashInv
<1>2. UniqueNode'
  BY <1>b, <1>c DEF Inv, UniqueNode
<1>3. HashedNodeHasVnode'
  <2>1. ASSUME NEW m \in hash', ~attaching'[m]
        PROVE  /\ m \in hash /\ ~attaching[m] /\ nodeVnode'[m] = nodeVnode[m]
    BY <1>b, <2>1, Zenon
  <2>2. ASSUME NEW m \in hash', ~attaching'[m]
        PROVE  /\ nodeVnode[m] # NULL /\ vstate[nodeVnode[m]] \in {"live", "dying"}
               /\ fsnode[nodeVnode[m]] = m /\ fsref[nodeVnode[m]]
    BY <2>1, <2>2, Zenon DEF Inv, HashedNodeHasVnode
  <2> QED BY <1>a, <2>1, <2>2, Zenon DEF HashedNodeHasVnode
<1>4. AttachingInv'
  <2> SUFFICES ASSUME NEW m \in hash', attaching'[m]
               PROVE  \E u \in Threads : pc'[u] \in {"create", "attach"} /\ target'[u] = m
    BY Zenon DEF AttachingInv
  <2>1. CASE m = n
    BY <1>a, <2>1, Zenon
  <2>2. CASE m # n
    <3>1. PICK u \in Threads : pc[u] \in {"create", "attach"} /\ target[u] = m
      BY <1>b, <2>2, Zenon DEF Inv, AttachingInv
    <3> QED BY <1>a, <3>1, Zenon
  <2> QED BY <2>1, <2>2, Zenon
<1>5. LocalsInv'
  BY <1>a, Zenon DEF Inv, LocalsInv, LocalsAt
<1>6. NewInv'
  <2> SUFFICES ASSUME NEW u \in Threads, new[u] # NULL
               PROVE  /\ new[u] \in heap
                      /\ new[u] \in hash' => /\ new[u] = target'[u]
                                             /\ pc'[u] \in {"create", "attach", "finish"}
                      /\ \A w \in Threads \ {u} : new[w] # new[u]
    BY <1>a, Zenon DEF NewInv
  <2>1. /\ new[u] \in heap
        /\ new[u] \in hash => new[u] = target[u] /\ pc[u] \in {"create", "attach", "finish"}
        /\ \A w \in Threads \ {u} : new[w] # new[u]
    BY Zenon DEF Inv, NewInv
  <2> QED BY <1>a, <1>b, <1>c, <1>d, <2>1, Zenon
<1>7. SleeperIsWoken'
  BY <1>a, <1>b, <1>d DEF Inv, SleeperIsWoken
<1>8. CreatedInv'
  BY <1>a, <1>b, NullAssumption DEF Inv, CreatedInv
<1>9. VidInv'
  BY <1>r, <1>a, <1>b, <1>d DEF HasResult, Inv, VidInv, VidAt
<1>10. LinkInv'
  BY <1>a, <1>b, <1>d DEF Inv, LinkInv
<1>11. ResultIsCurrent'
  BY <1>r, <1>a, <1>b, <1>d DEF HasResult, Inv, ResultIsCurrent
<1>12. AttachIsExclusive'
  BY <1>a, <1>b, <1>d DEF Inv, AttachIsExclusive
<1> QED BY <1>1, <1>2, <1>3, <1>4, <1>5, <1>6, <1>7, <1>8, <1>9, <1>10, <1>11, <1>12,
           Zenon DEF Inv, Kept, TypeKept

=============================================================================
