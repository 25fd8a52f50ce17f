-------------------------- MODULE NodeCacheProofs --------------------------
(***************************************************************************)
(* Safety of the node cache, for every number of threads, ids, pfsnodes    *)
(* and vnodes and every MaxVid: the invariant of NodeCacheInv is inductive *)
(* and implies the safety properties of NodeCache.                         *)
(***************************************************************************)
EXTENDS NodeCacheInv

\* The vnode the create callback makes is nobody else's.
LEMMA CreateVnodeKeeps ==
    ASSUME Inv, TypeKept, NEW t \in Threads, CreateVnode(t)
    PROVE  Kept
<1>t. HeapTypes /\ LocalTypes /\ VnodeTypes
  BY Zenon DEF Inv, TypeOK, HeapTypes, LocalTypes, VnodeTypes
<1> USE DEF Goto, heapVars, vnodeVars, localVars
<1>r. HasResult
  BY ResultTypes, Zenon
<1>p. PICK v \in Vnodes : /\ vstate[v] = "free" /\ vstate' = [vstate EXCEPT ![v] = "live"]
                          /\ fsnode' = [fsnode EXCEPT ![v] = target[t]]
                          /\ tvnode' = [tvnode EXCEPT ![t] = v]
  BY Zenon DEF CreateVnode
<1>a. /\ UNCHANGED <<heapVars, vid, fsref, want, target, new, tvid, error>>
      /\ pc[t] = "create" /\ pc'[t] = "attach" /\ tvnode'[t] = v
      /\ \A u \in Threads \ {t} : pc'[u] = pc[u] /\ tvnode'[u] = tvnode[u]
  BY <1>t, <1>p, Zenon DEF CreateVnode, LocalTypes
<1>b. /\ vstate'[v] = "live" /\ fsnode'[v] = target[t]
      /\ \A w \in Vnodes \ {v} : vstate'[w] = vstate[w] /\ fsnode'[w] = fsnode[w]
  BY <1>t, <1>p, Zenon DEF VnodeTypes
<1>c. error[t] = "none" /\ want[t] \in Keys /\ target[t] \in Nodes
  BY <1>a DEF Inv, LocalsInv, LocalsAt
<1>d. \A n \in hash : nodeVnode[n] # v
  BY <1>p, NullAssumption DEF Inv, HashedNodeHasVnode, AttachingInv, AttachIsExclusive
<1>1. HashInv' /\ UniqueNode'
  BY <1>a, Zenon DEF Inv, HashInv, UniqueNode
<1>2. HashedNodeHasVnode'
  <2>1. \A n \in hash : nodeVnode[n] \in Vnodes \cup {NULL}
    BY <1>t, Zenon DEF HeapTypes
  <2> QED BY <1>a, <1>b, <1>d, <2>1 DEF Inv, HashedNodeHasVnode
<1>10. AttachingInv'
  BY <1>a DEF Inv, AttachingInv
<1>3. LinkInv'
  BY <1>a, <1>b, <1>c, <1>p DEF Inv, LinkInv
<1>4. LocalsInv'
  BY <1>a, <1>c DEF Inv, LocalsInv, LocalsAt
<1>5. NewInv' /\ SleeperIsWoken'
  BY <1>a DEF Inv, NewInv, SleeperIsWoken
<1>6. AttachIsExclusive'
  BY <1>a DEF Inv, AttachIsExclusive
<1>7. ResultIsCurrent'
  BY <1>r, <1>a, <1>b, <1>p DEF HasResult, Inv, ResultIsCurrent
<1>8. VidInv'
  BY <1>r, <1>a, <1>b, <1>p DEF HasResult, Inv, VidInv, VidAt
<1>9. CreatedInv'
  BY <1>a, <1>b, <1>c, <1>d, <1>p DEF Inv, CreatedInv
<1> QED BY <1>1, <1>2, <1>3, <1>4, <1>5, <1>6, <1>7, <1>8, <1>9, <1>10, Zenon
      DEF Inv, Kept, TypeKept

\* The second critical section links the vnode and wakes the sleepers.
LEMMA AttachDoneKeeps ==
    ASSUME Inv, TypeKept, NEW t \in Threads, AttachDone(t)
    PROVE  Kept
<1>t. HeapTypes /\ LocalTypes /\ VnodeTypes
  BY Zenon DEF Inv, TypeOK, HeapTypes, LocalTypes, VnodeTypes
<1> USE DEF Goto, heapVars, vnodeVars, localVars
<1>r. HasResult
  BY ResultTypes, Zenon
<1> DEFINE m == target[t]
           v == tvnode[t]
<1>a. /\ UNCHANGED <<heap, hash, nodeKey, vstate, vid, fsnode,
                     want, target, new, tvnode, tvid, error>>
      /\ pc[t] = "attach" /\ error[t] = "none" /\ pc'[t] = "finish"
      /\ \A u \in Threads \ {t} :
            pc'[u] = IF waiting[m] /\ pc[u] = "sleep" /\ target[u] = m THEN "top" ELSE pc[u]
  BY Zenon DEF AttachDone, Wakeup, Sleepers
<1>d. /\ m \in hash /\ m \in heap /\ nodeKey[m] = want[t] /\ attaching[m] /\ nodeVnode[m] = NULL
      /\ v \in Vnodes /\ vstate[v] = "live" /\ fsnode[v] = m /\ \A n \in hash : nodeVnode[n] # v
      /\ hash \subseteq Nodes /\ want[t] \in Keys
  BY <1>t, <1>a DEF Inv, HeapTypes, AttachIsExclusive, CreatedInv, LocalsInv, LocalsAt
<1>b. /\ ~attaching'[m] /\ ~waiting'[m] /\ nodeVnode'[m] = v
      /\ \A n \in Nodes \ {m} : /\ attaching'[n] = attaching[n] /\ waiting'[n] = waiting[n]
                                /\ nodeVnode'[n] = nodeVnode[n]
  BY <1>t, <1>d, Zenon DEF AttachDone, LinkVnode, HeapTypes
<1>c. fsref'[v] /\ \A w \in Vnodes \ {v} : fsref'[w] = fsref[w]
  BY <1>t, <1>d, Zenon DEF AttachDone, vnode_addfsref, VnodeTypes
<1>e. \A u \in Threads \ {t} : pc[u] \in {"create", "attach"} => target[u] # m
  BY <1>a, Zenon DEF Inv, AttachIsExclusive
<1>1. HashInv' /\ UniqueNode'
  BY <1>a, Zenon DEF Inv, HashInv, UniqueNode
<1>2. AttachingInv'
  BY <1>a, <1>b, <1>d DEF Inv, AttachingInv
<1>3. NewInv'
  BY <1>a DEF Inv, NewInv
<1>4. SleeperIsWoken'
  BY <1>a, <1>b, <1>d DEF Inv, SleeperIsWoken
<1>5. AttachIsExclusive'
  BY <1>a, <1>b, <1>d, <1>e DEF Inv, AttachIsExclusive
<1>6. CreatedInv'
  BY <1>a, <1>b, <1>d DEF Inv, CreatedInv
<1>7. LocalsInv'
  BY <1>a, <1>d DEF Inv, LocalsInv, LocalsAt
<1>8. VidInv'
  BY <1>r, <1>a, <1>b, <1>d DEF HasResult, Inv, VidInv, VidAt
<1>9. LinkInv'
  BY <1>a, <1>b, <1>d DEF Inv, LinkInv
<1>10. ResultIsCurrent'
  BY <1>r, <1>a, <1>b, <1>c, <1>d DEF HasResult, Inv, ResultIsCurrent
<1>11. HashedNodeHasVnode'
  BY <1>t, <1>a, <1>b, <1>c, <1>d, NullAssumption DEF Inv, HeapTypes, HashedNodeHasVnode
<1> QED BY <1>1, <1>2, <1>3, <1>4, <1>5, <1>6, <1>7, <1>8, <1>9, <1>10, <1>11, Zenon
      DEF Inv, Kept, TypeKept

\* After a failed create the node is unhashed and freed, and the sleepers
\* start over.
LEMMA AttachFailedKeeps ==
    ASSUME Inv, TypeKept, NEW t \in Threads, AttachFailed(t)
    PROVE  Kept
<1>t. HeapTypes /\ LocalTypes /\ VnodeTypes
  BY Zenon DEF Inv, TypeOK, HeapTypes, LocalTypes, VnodeTypes
<1> USE DEF Goto, heapVars, vnodeVars, localVars
<1>r. HasResult
  BY ResultTypes, Zenon
<1> DEFINE m == target[t]
<1>a. /\ UNCHANGED <<want, tvnode, tvid, error>>
      /\ pc[t] = "attach" /\ error[t] # "none" /\ pc'[t] = "finish"
      /\ target'[t] = NULL /\ new'[t] = NULL
      /\ \A u \in Threads \ {t} :
            /\ target'[u] = target[u] /\ new'[u] = new[u]
            /\ pc'[u] = IF waiting[m] /\ pc[u] = "sleep" /\ target[u] = m THEN "top" ELSE pc[u]
  BY <1>t, Zenon DEF LocalTypes, AttachFailed, Wakeup, Sleepers, ForgetNew
<1>b. /\ hash' = hash \ {m} /\ heap' = heap \ {m}
      /\ \A n \in Nodes \ {m} :
            /\ nodeKey'[n] = nodeKey[n] /\ nodeVnode'[n] = nodeVnode[n]
            /\ attaching'[n] = attaching[n] /\ waiting'[n] = waiting[n]
      /\ hash \subseteq Nodes
  BY <1>t, Zenon DEF HeapTypes, AttachFailed, procfsnode_free_node
<1>c. UNCHANGED vnodeVars
  BY Zenon DEF AttachFailed
<1>d. m \in hash /\ attaching[m] /\ nodeVnode[m] = NULL
  BY <1>a, Zenon DEF Inv, AttachIsExclusive
<1>n. m # NULL
  BY <1>b, <1>d, NullAssumption, Zenon
<1>1. HashInv' /\ UniqueNode'
  BY <1>b DEF Inv, HashInv, UniqueNode
<1>2. HashedNodeHasVnode'
  BY <1>b, <1>c DEF Inv, HashedNodeHasVnode
<1>3. AttachingInv'
  BY <1>a, <1>b DEF Inv, AttachingInv
<1>4. LinkInv'
  BY <1>a, <1>b, <1>c, <1>d DEF Inv, LinkInv
<1>5. LocalsInv'
  BY <1>a DEF Inv, LocalsInv, LocalsAt
<1>6. CreatedInv'
  BY <1>a, <1>b, <1>c DEF Inv, CreatedInv
<1>7. NewInv'
  <2>1. \A u \in Threads \ {t} : new[u] # m
    <3> SUFFICES ASSUME NEW u \in Threads \ {t}, new[u] = m PROVE FALSE
      BY Zenon
    <3>1. target[u] = m /\ pc[u] \in {"create", "attach", "finish"}
      BY <1>d, <1>n, Zenon DEF Inv, NewInv
    <3>2. pc[u] = "finish" /\ error[u] = "none"
      BY <1>a, <1>n, <3>1, Zenon DEF Inv, AttachIsExclusive, LocalsInv, LocalsAt
    <3> QED BY <1>d, <3>1, <3>2, Zenon DEF Inv, ResultIsCurrent
  <2> QED BY <1>a, <1>b, <2>1 DEF Inv, NewInv
<1>8. VidInv'
  <2> SUFFICES ASSUME NEW u \in Threads PROVE VidAt(u)'
    BY Zenon DEF VidInv
  <2>1. VidAt(u)
    BY Zenon DEF Inv, VidInv
  <2> QED BY <1>r, <1>a, <1>b, <1>c, <1>d, <2>1 DEF HasResult, VidAt
<1>9. ResultIsCurrent'
  BY <1>r, <1>a, <1>b, <1>c, <1>d DEF HasResult, Inv, ResultIsCurrent
<1>10. AttachIsExclusive'
  BY <1>a, <1>b DEF Inv, AttachIsExclusive
<1>11. SleeperIsWoken'
  BY <1>a, <1>b DEF Inv, SleeperIsWoken, AttachIsExclusive
<1> QED BY <1>1, <1>2, <1>3, <1>4, <1>5, <1>6, <1>7, <1>8, <1>9, <1>10, <1>11,
           Zenon DEF Inv, Kept, TypeKept

\* The kernel takes a vnode on which nobody has an iocount.
LEMMA TerminateKeeps ==
    ASSUME Inv, TypeKept, NEW v \in Vnodes, Terminate(v)
    PROVE  Kept
<1>t. HeapTypes /\ LocalTypes /\ VnodeTypes
  BY Zenon DEF Inv, TypeOK, HeapTypes, LocalTypes, VnodeTypes
<1> USE DEF Goto, heapVars, vnodeVars, localVars
<1>r. HasResult
  BY ResultTypes, Zenon
<1>0. UNCHANGED <<heapVars, localVars>>
  BY Zenon DEF Terminate
<1>1. /\ UNCHANGED <<vid, fsnode, fsref>>
      /\ vstate[v] = "live" /\ vstate'[v] = "dying"
      /\ \A w \in Vnodes \ {v} : vstate'[w] = vstate[w]
  BY <1>t, Zenon DEF VnodeTypes, Terminate
<1>2. \A t \in Threads : ~HasIocount(t, v)
  BY Zenon DEF Terminate
<1>3. HashedNodeHasVnode'
  BY <1>t, <1>0, <1>1 DEF Inv, HeapTypes, HashedNodeHasVnode
<1>4. LinkInv'
  BY <1>0, <1>1, <1>2 DEF Inv, LinkInv, HasIocount
<1>5. ResultIsCurrent'
  BY <1>r, <1>0, <1>1, <1>2 DEF HasResult, Inv, ResultIsCurrent, HasIocount
<1>6. CreatedInv'
  BY <1>0, <1>1, <1>2 DEF Inv, CreatedInv, HasIocount
<1>7. VidInv'
  BY <1>r, <1>0, <1>1 DEF HasResult, Inv, VidInv, VidAt
<1> QED BY <1>0, <1>3, <1>4, <1>5, <1>6, <1>7, TableStays, Zenon DEF Inv, Kept, TypeKept

\* procfs_vnop_reclaim unhashes and frees the node of the vnode.
LEMMA ReclaimNodeKeeps ==
    ASSUME Inv, TypeKept, NEW v \in Vnodes, ReclaimNode(v)
    PROVE  Kept
<1>t. HeapTypes /\ LocalTypes /\ VnodeTypes
  BY Zenon DEF Inv, TypeOK, HeapTypes, LocalTypes, VnodeTypes
<1> USE DEF Goto, heapVars, vnodeVars, localVars
<1>r. HasResult
  BY ResultTypes, Zenon
<1> DEFINE m == fsnode[v]
<1>a. UNCHANGED localVars
  BY Zenon DEF ReclaimNode
<1>b. /\ hash' = hash \ {m} /\ heap' = heap \ {m}
      /\ \A n \in Nodes \ {m} :
            /\ nodeKey'[n] = nodeKey[n] /\ nodeVnode'[n] = nodeVnode[n]
            /\ attaching'[n] = attaching[n] /\ waiting'[n] = waiting[n]
      /\ hash \subseteq Nodes
  BY <1>t, Zenon DEF HeapTypes, ReclaimNode, procfsnode_free_node
<1>c. /\ UNCHANGED <<vid, fsnode, fsref>>
      /\ vstate[v] = "dying" /\ vstate'[v] = "unlinked"
      /\ \A w \in Vnodes \ {v} : vstate'[w] = vstate[w]
  BY <1>t, Zenon DEF VnodeTypes, ReclaimNode
<1>d. m \in hash /\ nodeVnode[m] = v /\ ~attaching[m]
  BY <1>c, Zenon DEF Inv, LinkInv
<1>1. HashInv' /\ UniqueNode'
  BY <1>b DEF Inv, HashInv, UniqueNode
<1>2. HashedNodeHasVnode'
  BY <1>t, <1>b, <1>c, <1>d DEF Inv, HeapTypes, HashedNodeHasVnode
<1>3. AttachingInv'
  BY <1>a, <1>b DEF Inv, AttachingInv
<1>4. LinkInv'
  BY <1>a, <1>b, <1>c, <1>d DEF Inv, LinkInv
<1>5. LocalsInv'
  BY <1>a, Zenon DEF Inv, LocalsInv, LocalsAt
<1>6. CreatedInv'
  BY <1>a, <1>b, <1>c DEF Inv, CreatedInv
<1>7. NewInv'
  BY <1>a, <1>b, <1>c, <1>d DEF Inv, LocalsInv, LocalsAt, NewInv, AttachIsExclusive,
         ResultIsCurrent
<1>8. VidInv'
  <2> SUFFICES ASSUME NEW t \in Threads PROVE VidAt(t)'
    BY Zenon DEF VidInv
  <2>1. VidAt(t)
    BY Zenon DEF Inv, VidInv
  <2> QED BY <1>r, <1>a, <1>b, <1>c, <1>d, <2>1 DEF HasResult, VidAt
<1>9. ResultIsCurrent'
  BY <1>r, <1>a, <1>b, <1>c, <1>d DEF HasResult, Inv, ResultIsCurrent
<1>10. AttachIsExclusive'
  BY <1>a, <1>b, <1>d DEF Inv, AttachIsExclusive
<1>11. SleeperIsWoken'
  BY <1>a, <1>b, <1>d DEF Inv, SleeperIsWoken, AttachIsExclusive
<1> QED BY <1>1, <1>2, <1>3, <1>4, <1>5, <1>6, <1>7, <1>8, <1>9, <1>10, <1>11,
           Zenon DEF Inv, Kept, TypeKept

\* The kernel gives the vnode a new id and reuses it.
LEMMA ReclaimVnodeKeeps ==
    ASSUME Inv, TypeKept, NEW v \in Vnodes, ReclaimVnode(v)
    PROVE  Kept
<1>t. HeapTypes /\ LocalTypes /\ VnodeTypes
  BY Zenon DEF Inv, TypeOK, HeapTypes, LocalTypes, VnodeTypes
<1> USE DEF Goto, heapVars, vnodeVars, localVars
<1>r. HasResult
  BY ResultTypes, Zenon
<1>0. UNCHANGED <<heapVars, localVars>>
  BY Zenon DEF ReclaimVnode
<1>1. /\ vstate[v] = "unlinked" /\ vstate'[v] = "free"
      /\ \A w \in Vnodes \ {v} : /\ vstate'[w] = vstate[w] /\ vid'[w] = vid[w]
                                 /\ fsnode'[w] = fsnode[w] /\ fsref'[w] = fsref[w]
  BY <1>t, Zenon DEF VnodeTypes, ReclaimVnode
<1>2. vid[v] \in Nat /\ vid'[v] = vid[v] + 1
  BY <1>t, Zenon DEF VnodeTypes, ReclaimVnode
<1>3. HashedNodeHasVnode'
  BY <1>t, <1>0, <1>1 DEF Inv, HeapTypes, HashedNodeHasVnode
<1>4. LinkInv'
  BY <1>0, <1>1 DEF Inv, LinkInv
<1>5. ResultIsCurrent'
  BY <1>r, <1>0, <1>1 DEF HasResult, Inv, ResultIsCurrent
<1>6. CreatedInv'
  BY <1>0, <1>1 DEF Inv, CreatedInv
<1>7. VidInv'
  BY <1>t, <1>r, <1>0, <1>1, <1>2 DEF HasResult, Inv, LocalTypes, VidInv, VidAt
<1> QED BY <1>0, <1>3, <1>4, <1>5, <1>6, <1>7, TableStays, Zenon DEF Inv, Kept, TypeKept

\* Every step of every thread and every reclaim preserves the invariant.
LEMMA InvStep == Inv /\ [Next]_vars => Inv'
<1> SUFFICES ASSUME Inv, [Next]_vars PROVE Kept
  BY Zenon DEF Kept
<1>0. TypeKept
  BY TypeStep, Zenon DEF Inv
<1>1. ASSUME NEW t \in Threads, OwnStep(t) PROVE Kept
  BY <1>0, <1>1, OwnStepIsLocal, LocalMove, Zenon
<1>2. ASSUME NEW t \in Threads, WaitForAttach(t) PROVE Kept
  BY <1>0, <1>2, WaitForAttachKeeps, Zenon
<1>3. ASSUME NEW t \in Threads, StartAttach(t) PROVE Kept
  BY <1>0, <1>3, StartAttachKeeps, Zenon
<1>4. ASSUME NEW t \in Threads, CreateVnode(t) PROVE Kept
  BY <1>0, <1>4, CreateVnodeKeeps, Zenon
<1>5. ASSUME NEW t \in Threads, AttachDone(t) PROVE Kept
  BY <1>0, <1>5, AttachDoneKeeps, Zenon
<1>6. ASSUME NEW t \in Threads, AttachFailed(t) PROVE Kept
  BY <1>0, <1>6, AttachFailedKeeps, Zenon
<1>7. ASSUME NEW v \in Vnodes, Terminate(v) PROVE Kept
  BY <1>0, <1>7, TerminateKeeps, Zenon
<1>8. ASSUME NEW v \in Vnodes, ReclaimNode(v) PROVE Kept
  BY <1>0, <1>8, ReclaimNodeKeeps, Zenon
<1>9. ASSUME NEW v \in Vnodes, ReclaimVnode(v) PROVE Kept
  BY <1>0, <1>9, ReclaimVnodeKeeps, Zenon
<1>10. CASE UNCHANGED vars
  <2> USE DEF heapVars, localVars, vnodeVars
  <2>0. UNCHANGED <<heapVars, localVars>> /\ UNCHANGED vnodeVars
    BY <1>10, Zenon DEF vars
  <2>1. CreatedInv'
    BY <2>0, Zenon DEF Inv, CreatedInv
  <2>2. LinkInv'
    BY <2>0, Zenon DEF Inv, LinkInv
  <2>3. VidInv'
    BY <2>0, Zenon DEF Inv, VidInv, VidAt
  <2>4. ResultIsCurrent' /\ HashedNodeHasVnode'
    BY <2>0, Zenon DEF Inv, ResultIsCurrent, HashedNodeHasVnode
  <2> QED BY <1>0, <2>0, <2>1, <2>2, <2>3, <2>4, TableStays, Zenon DEF Inv, Kept, TypeKept
<1> QED BY <1>1, <1>2, <1>3, <1>4, <1>5, <1>6, <1>7, <1>8, <1>9, <1>10, Zenon
        DEF Next, Find, Reclaim, OwnStep

\* The invariant holds in the initial states.
LEMMA InvInit == Init => Inv
<1> SUFFICES ASSUME Init PROVE Inv
  BY Zenon
<1>1. TypeOK
  BY Zenon DEF Init, TypeOK, Locations, Errors, VnodeStates
<1>2. LocalsInv /\ HashInv /\ NewInv /\ CreatedInv /\ VidInv /\ LinkInv /\ AttachingInv
  BY Zenon DEF Init, LocalsInv, LocalsAt, HashInv, NewInv, CreatedInv, VidInv,
         VidAt, LinkInv, AttachingInv
<1>3. UniqueNode /\ ResultIsCurrent /\ AttachIsExclusive /\ SleeperIsWoken /\ HashedNodeHasVnode
  BY Zenon DEF Init, UniqueNode, ResultIsCurrent, AttachIsExclusive, SleeperIsWoken,
         HashedNodeHasVnode
<1> QED BY <1>1, <1>2, <1>3, Zenon DEF Inv

\* The strengthened invariant holds in every reachable state: the gaps in
\* which procfsnode_find drops the lock are safe.
THEOREM Invariance == Spec => []Inv
BY InvInit, InvStep, PTL DEF Spec

\* "There must only ever be one procnfsnode instance (and hence one vnode) for
\* each (node_mnt_id, node_id) combination" (procfs.h).
THEOREM OneNodePerId == Spec => []UniqueNode
<1>1. Inv => UniqueNode
  BY Zenon DEF Inv
<1> QED BY <1>1, Invariance, PTL

\* A caller of procfsnode_find uses a hashed pfsnode that has the id it asked
\* for and a live vnode, until it drops its iocount.
THEOREM ResultsAreCurrent == Spec => []ResultIsCurrent
<1>1. Inv => ResultIsCurrent
  BY Zenon DEF Inv
<1> QED BY <1>1, Invariance, PTL

\* Only one thread attaches a vnode to a pfsnode.
THEOREM AttachesAreExclusive == Spec => []AttachIsExclusive
<1>1. Inv => AttachIsExclusive
  BY Zenon DEF Inv
<1> QED BY <1>1, Invariance, PTL

\* No thread sleeps on a pfsnode that nobody is going to wake it from.
THEOREM NoLostWakeup == Spec => []SleeperIsWoken
<1>1. Inv => SleeperIsWoken
  BY Zenon DEF Inv
<1> QED BY <1>1, Invariance, PTL

\* A hashed pfsnode that is not being attached is linked to its vnode.
THEOREM HashedNodesHaveVnodes == Spec => []HashedNodeHasVnode
<1>1. Inv => HashedNodeHasVnode
  BY Zenon DEF Inv
<1> QED BY <1>1, Invariance, PTL

\* The OSFree of an unused new_pfsnode is neither a double free nor a free of
\* memory that is hashed or that another thread uses.
THEOREM FreesAreSafe == Spec => []FreeIsSafe
<1>1. Inv => FreeIsSafe
  <2> SUFFICES ASSUME Inv,
                      NEW t \in Threads, new[t] # NULL, new[t] # target[t]
               PROVE  /\ new[t] \in heap \ hash
                      /\ \A u \in Threads \ {t} :
                            /\ new[u] # new[t]
                            /\ pc[u] \notin {"top", "malloc", "getvid"} => target[u] # new[t]
    BY Zenon DEF FreeIsSafe
  <2>1. new[t] \in heap \ hash /\ \A u \in Threads \ {t} : new[u] # new[t]
    BY Zenon DEF Inv, NewInv
  <2>2. ASSUME NEW u \in Threads \ {t}, pc[u] \notin {"top", "malloc", "getvid"}
        PROVE  target[u] # new[t]
    BY <2>1, <2>2 DEF Inv, TypeOK, Locations, LocalsInv, LocalsAt, ResultIsCurrent,
           AttachIsExclusive, SleeperIsWoken
  <2> QED BY <2>1, <2>2, Zenon
<1> QED BY <1>1, Invariance, PTL

\* procfs_vnop_reclaim frees a pfsnode that is hashed and is the vnode's own.
THEOREM ReclaimsAreSafe == Spec => []ReclaimIsSafe
<1>1. Inv => ReclaimIsSafe
  BY Zenon DEF Inv, LinkInv, HashInv, ReclaimIsSafe
<1> QED BY <1>1, Invariance, PTL
=============================================================================
