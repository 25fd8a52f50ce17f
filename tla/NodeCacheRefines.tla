-------------------------- MODULE NodeCacheRefines --------------------------
(***************************************************************************)
(* The hash table protocol of NodeCache implements the table of NodeTable, *)
(* for every number of threads, ids, pfsnodes and vnodes and every MaxVid: *)
(* a step of the protocol is a step of NodeTable or leaves the bindings,   *)
(* the calls and the holds alone.                                          *)
(***************************************************************************)
EXTENDS NodeCacheProofs

\* A vnode in use can still be recycled once, and a thread outside
\* procfsnode_find asks for no id.
MapInv ==
    /\ \A v \in Vnodes : /\ vid[v] <= MaxVid
                         /\ vstate[v] # "free" => vid[v] < MaxVid
    /\ \A t \in Threads : pc[t] = "idle" => want[t] = NULL

\* The bindings and the holds that the refinement mapping gives NodeTable.
AbsBound == [k \in Keys |-> BoundVnode(k)]
Holding(t) == pc[t] \in {"finish", "using"} /\ error[t] = "none"
HoldOf(t) == IF Holding(t) THEN <<tvnode[t], vid[tvnode[t]]>> ELSE NULL
AbsHold == [t \in Threads |-> HoldOf(t)]

\* A step that the callers of procfsnode_find cannot see.
Invisible == UNCHANGED <<AbsBound, want, AbsHold>>

\* The pfsnodes that give id k a vnode.
Linked(k) == {n \in hash : nodeKey[n] = k /\ nodeVnode[n] # NULL}

\* The binding of an id is the incarnation of the vnode of the only pfsnode
\* that is hashed under it.
BoundIsLinked ==
    \A k \in Keys :
        /\ Linked(k) = {} => BoundVnode(k) = NULL
        /\ \A n \in Linked(k) : BoundVnode(k) = <<nodeVnode[n], vid[nodeVnode[n]]>>

-----------------------------------------------------------------------------
(* What a step leaves alone.                                               *)

\* A step of thread t changes no other thread, except that it may wake it, and
\* no vnode id; a vnode it takes can still be recycled, and it asks for no id
\* when it is out of procfsnode_find.
AloneStep(t) ==
    /\ \A u \in Threads \ {t} :
          /\ tvnode'[u] = tvnode[u] /\ error'[u] = error[u] /\ want'[u] = want[u]
          /\ pc'[u] = pc[u] \/ (pc[u] = "sleep" /\ pc'[u] = "top")
    /\ pc'[t] = "idle" => want'[t] = NULL
    /\ vid' = vid
    /\ \A v \in Vnodes : vstate'[v] = vstate[v] \/ vid[v] < MaxVid

\* procfsnode_find and vnode_put are made of such steps.
LEMMA ThreadsStepAlone ==
    ASSUME Inv, NEW t \in Threads, Call(t) \/ Find(t) \/ Put(t)
    PROVE  AloneStep(t)
<1>0. LocalTypes /\ VnodeTypes
  BY Zenon DEF Inv, TypeOK, LocalTypes, VnodeTypes
<1> USE DEF Goto, vnodeVars
<1>1. CASE Call(t)
  BY <1>0, <1>1, Zenon DEF Call, LocalTypes, AloneStep
<1>2. CASE Miss(t)
  BY <1>0, <1>2, Zenon DEF Miss, LocalTypes, AloneStep
<1>3. CASE Malloc(t)
  BY <1>0, <1>3, Zenon DEF Malloc, LocalTypes, AloneStep
<1>4. CASE MallocFails(t)
  BY <1>0, <1>4, Zenon DEF MallocFails, LocalTypes, AloneStep
<1>5. CASE WaitForAttach(t)
  BY <1>0, <1>5, Zenon DEF WaitForAttach, LocalTypes, AloneStep
<1>6. CASE FoundVnode(t)
  BY <1>0, <1>6, Zenon DEF FoundVnode, LocalTypes, AloneStep
<1>7. CASE GetWithVid(t)
  BY <1>0, <1>7, Zenon DEF GetWithVid, LocalTypes, AloneStep
<1>8. CASE GetWithVidFails(t)
  BY <1>0, <1>8, Zenon DEF GetWithVidFails, LocalTypes, AloneStep
<1>9. CASE StartAttach(t)
  BY <1>0, <1>9, Zenon DEF StartAttach, LocalTypes, AloneStep
<1>10. CASE CreateVnode(t)
  <2>1. PICK v \in Vnodes : /\ vid[v] < MaxVid /\ vstate' = [vstate EXCEPT ![v] = "live"]
                            /\ tvnode' = [tvnode EXCEPT ![t] = v]
    BY <1>10, Zenon DEF CreateVnode
  <2>2. \A w \in Vnodes : vstate'[w] = vstate[w] \/ vid[w] < MaxVid
    BY <1>0, <2>1, Zenon DEF VnodeTypes
  <2> QED BY <1>0, <1>10, <2>1, <2>2, Zenon DEF CreateVnode, LocalTypes, AloneStep
<1>11. CASE CreateVnodeFails(t)
  BY <1>0, <1>11, Zenon DEF CreateVnodeFails, LocalTypes, AloneStep
<1>12. CASE AttachDone(t)
  BY <1>12, Zenon DEF AttachDone, Wakeup, Sleepers, AloneStep
<1>13. CASE AttachFailed(t)
  BY <1>13, Zenon DEF AttachFailed, Wakeup, Sleepers, AloneStep
<1>14. CASE Return(t)
  BY <1>0, <1>14, Zenon DEF Return, FreeUnused, LocalTypes, AloneStep
<1>15. CASE ReturnError(t)
  BY <1>0, <1>15, Zenon DEF ReturnError, FreeUnused, Forget, LocalTypes, AloneStep
<1>16. CASE Put(t)
  BY <1>0, <1>16, Zenon DEF Put, Forget, LocalTypes, AloneStep
<1> QED BY <1>1, <1>2, <1>3, <1>4, <1>5, <1>6, <1>7, <1>8, <1>9, <1>10, <1>11, <1>12,
           <1>13, <1>14, <1>15, <1>16, Zenon DEF Find

\* The iocounts of the other threads stay what they are.
LEMMA OthersHold ==
    ASSUME NEW t \in Threads, AloneStep(t)
    PROVE  \A u \in Threads \ {t} : HoldOf(u)' = HoldOf(u)
<1> SUFFICES ASSUME NEW u \in Threads \ {t} PROVE HoldOf(u)' = HoldOf(u)
  BY Zenon
<1>1. /\ tvnode'[u] = tvnode[u] /\ error'[u] = error[u] /\ vid' = vid
      /\ pc'[u] = pc[u] \/ (pc[u] = "sleep" /\ pc'[u] = "top")
  BY Zenon DEF AloneStep
<1>2. CASE pc'[u] = pc[u]
  BY <1>1, <1>2, Zenon DEF HoldOf, Holding
<1>3. CASE pc[u] = "sleep" /\ pc'[u] = "top"
  <2>1. ~Holding(u) /\ ~Holding(u)'
    BY <1>3, Zenon DEF Holding
  <2> QED BY <2>1, Zenon DEF HoldOf
<1> QED BY <1>1, <1>2, <1>3, Zenon

\* The mapping's invariant is preserved by find, put and reclaim.
LEMMA MapInvStep == Inv /\ MapInv /\ [Next]_vars => MapInv'
<1> SUFFICES ASSUME Inv, MapInv, [Next]_vars PROVE MapInv'
  BY Zenon
<1>0. vid \in [Vnodes -> Nat] /\ vstate \in [Vnodes -> VnodeStates]
  BY Zenon DEF Inv, TypeOK
<1>1. ASSUME NEW t \in Threads, Call(t) \/ Find(t) \/ Put(t) PROVE MapInv'
  <2>1. AloneStep(t)
    BY <1>1, ThreadsStepAlone, Zenon
  <2>2. ASSUME NEW u \in Threads, pc'[u] = "idle" PROVE want'[u] = NULL
    BY <2>1, <2>2, Zenon DEF AloneStep, MapInv
  <2>3. vid' = vid /\ \A v \in Vnodes : vstate'[v] = vstate[v] \/ vid[v] < MaxVid
    BY <2>1, Zenon DEF AloneStep
  <2> QED BY <2>2, <2>3, Zenon DEF MapInv
<1>2. ASSUME NEW v \in Vnodes, Terminate(v) PROVE MapInv'
  <2>1. /\ UNCHANGED <<pc, want, vid>> /\ vstate[v] # "free"
        /\ \A w \in Vnodes \ {v} : vstate'[w] = vstate[w]
    BY <1>0, <1>2, Zenon DEF Terminate, localVars
  <2> QED BY <2>1, Zenon DEF MapInv
<1>3. ASSUME NEW v \in Vnodes, ReclaimNode(v) PROVE MapInv'
  <2>1. /\ UNCHANGED <<pc, want, vid>> /\ vstate[v] # "free"
        /\ \A w \in Vnodes \ {v} : vstate'[w] = vstate[w]
    BY <1>0, <1>3, Zenon DEF ReclaimNode, localVars
  <2> QED BY <2>1, Zenon DEF MapInv
<1>4. ASSUME NEW v \in Vnodes, ReclaimVnode(v) PROVE MapInv'
  <2>1. UNCHANGED <<pc, want>> /\ vstate[v] # "free" /\ vstate'[v] = "free"
    BY <1>0, <1>4, Zenon DEF ReclaimVnode, localVars
  <2>2. \A w \in Vnodes \ {v} : vstate'[w] = vstate[w] /\ vid'[w] = vid[w]
    BY <1>0, <1>4, Zenon DEF ReclaimVnode
  <2>3. vid'[v] = vid[v] + 1 /\ vid[v] \in Nat
    BY <1>0, <1>4, Zenon DEF ReclaimVnode
  <2>4. vid'[v] <= MaxVid
    <3>1. vid[v] < MaxVid
      BY <2>1, Zenon DEF MapInv
    <3> QED BY <2>3, <3>1, MaxVidAssumption
  <2> QED BY <2>1, <2>2, <2>4, Zenon DEF MapInv
<1>5. CASE UNCHANGED vars
  BY <1>5, Zenon DEF vars, localVars, vnodeVars, MapInv
<1> QED BY <1>1, <1>2, <1>3, <1>4, <1>5, Zenon DEF Next, Reclaim

\* BoundVnode's CHOOSE has no choice: an id has at most one pfsnode.
LEMMA BoundByNode == Inv => BoundIsLinked
<1> SUFFICES ASSUME Inv, NEW k \in Keys
             PROVE  /\ Linked(k) = {} => BoundVnode(k) = NULL
                    /\ \A n \in Linked(k) :
                          BoundVnode(k) = <<nodeVnode[n], vid[nodeVnode[n]]>>
  BY Zenon DEF BoundIsLinked
<1>1. {n \in Matches(k) : nodeVnode[n] # NULL} = Linked(k)
  <2>1. Matches(k) = {n \in hash : nodeKey[n] = k}
    BY MatchesIsEquality, Zenon DEF Inv
  <2> QED BY <2>1, Zenon DEF Linked
<1>2. \A m, n \in Linked(k) : m = n
  BY Zenon DEF Inv, UniqueNode, Linked
<1>3. ASSUME NEW n \in Linked(k)
      PROVE  (CHOOSE m \in Linked(k) : TRUE) = n
  BY <1>2, Zenon
<1>4. ASSUME Linked(k) = {} PROVE BoundVnode(k) = NULL
  BY <1>1, <1>4, Zenon DEF BoundVnode
<1>5. ASSUME NEW n \in Linked(k)
      PROVE  BoundVnode(k) = <<nodeVnode[n], vid[nodeVnode[n]]>>
  BY <1>1, <1>3, <1>5, Zenon DEF BoundVnode
<1> QED BY <1>4, <1>5, Zenon

\* An id whose pfsnode and vnode do not change keeps its binding.
LEMMA BindingKept ==
    ASSUME BoundIsLinked, BoundIsLinked', NEW k \in Keys,
           Linked(k)' = Linked(k),
           \A n \in Linked(k) : /\ nodeVnode'[n] = nodeVnode[n]
                                /\ vid'[nodeVnode[n]] = vid[nodeVnode[n]]
    PROVE  BoundVnode(k)' = BoundVnode(k)
<1>1. CASE Linked(k) = {}
  BY <1>1, Zenon DEF BoundIsLinked
<1>2. CASE Linked(k) # {}
  <2>1. PICK n \in Linked(k) : TRUE
    BY <1>2, Zenon
  <2>2. BoundVnode(k) = <<nodeVnode[n], vid[nodeVnode[n]]>>
    BY <2>1, Zenon DEF BoundIsLinked
  <2>3. BoundVnode(k)' = <<nodeVnode[n], vid[nodeVnode[n]]>>'
    BY <2>1, Zenon DEF BoundIsLinked
  <2> QED BY <2>1, <2>2, <2>3, Zenon
<1> QED BY <1>1, <1>2, Zenon

\* A step that leaves the table and the vnode ids alone leaves the bindings
\* alone.
LEMMA BindingsKept ==
    ASSUME BoundIsLinked, BoundIsLinked', UNCHANGED <<hash, nodeKey, nodeVnode, vid>>
    PROVE  AbsBound' = AbsBound
<1>1. ASSUME NEW k \in Keys PROVE BoundVnode(k)' = BoundVnode(k)
  <2>1. Linked(k)' = Linked(k)
    BY Zenon DEF Linked
  <2> QED BY <2>1, BindingKept, Zenon
<1> QED BY <1>1, Zenon DEF AbsBound

-----------------------------------------------------------------------------
(* The steps of procfsnode_find.                                           *)

\* A step of procfsnode_find that leaves the table alone and does not give
\* the thread a hold, or take it, is invisible to the callers.
LEMMA QuietStep ==
    ASSUME BoundIsLinked, BoundIsLinked', NEW t \in Threads, AloneStep(t),
           UNCHANGED <<hash, nodeKey, nodeVnode, want>>, HoldOf(t)' = HoldOf(t)
    PROVE  Invisible
<1>1. AbsHold' = AbsHold
  BY OthersHold, Zenon DEF AbsHold
<1>2. AbsBound' = AbsBound
  BY BindingsKept, Zenon DEF AloneStep
<1> QED BY <1>1, <1>2, Zenon DEF Invisible

\* The steps before a call gets its result, except vnode_getwithvid and those
\* that change the table, are such steps.
LEMMA QuietFind ==
    ASSUME Inv, BoundIsLinked, BoundIsLinked', NEW t \in Threads,
           \/ Miss(t) \/ Malloc(t) \/ MallocFails(t) \/ WaitForAttach(t)
           \/ FoundVnode(t) \/ GetWithVidFails(t)
           \/ CreateVnode(t) \/ CreateVnodeFails(t) \/ Return(t)
    PROVE  Invisible
<1>0. LocalTypes
  BY Zenon DEF Inv, TypeOK, LocalTypes
<1>1. AloneStep(t)
  BY ThreadsStepAlone, Zenon DEF Find
<1> DEFINE Still == UNCHANGED <<hash, nodeKey, nodeVnode, want>>
           Free == Still /\ ~Holding(t) /\ ~Holding(t)'
<1> USE DEF Goto, heapVars, LocalTypes, Holding
<1>2. ASSUME Miss(t) PROVE Free
  BY <1>0, <1>2, Zenon DEF Miss
<1>3. ASSUME Malloc(t) PROVE Free
  BY <1>0, <1>3, Zenon DEF Malloc
<1>4. ASSUME MallocFails(t) PROVE Free
  BY <1>0, <1>4, Zenon DEF MallocFails
<1>5. ASSUME WaitForAttach(t) PROVE Free
  BY <1>0, <1>5, Zenon DEF WaitForAttach
<1>6. ASSUME FoundVnode(t) PROVE Free
  BY <1>0, <1>6, Zenon DEF FoundVnode
<1>7. ASSUME GetWithVidFails(t) PROVE Free
  BY <1>0, <1>7, Zenon DEF GetWithVidFails
<1>8. ASSUME CreateVnode(t) PROVE Free
  BY <1>0, <1>8, Zenon DEF CreateVnode
<1>9. ASSUME CreateVnodeFails(t) PROVE Free
  BY <1>0, <1>9, Zenon DEF CreateVnodeFails
<1>10. ASSUME Return(t) PROVE Still /\ HoldOf(t)' = HoldOf(t)
  <2>1. /\ Holding(t) /\ Holding(t)' /\ tvnode' = tvnode /\ vid' = vid /\ Still
    BY <1>0, <1>10, Zenon DEF Return, FreeUnused, vnodeVars
  <2> QED BY <2>1, Zenon DEF HoldOf
<1>11. ASSUME Free PROVE Still /\ HoldOf(t)' = HoldOf(t)
  BY <1>11, Zenon DEF HoldOf
<1>12. Still /\ HoldOf(t)' = HoldOf(t)
  BY <1>2, <1>3, <1>4, <1>5, <1>6, <1>7, <1>8, <1>9, <1>10, <1>11, Zenon
<1> QED BY <1>1, <1>12, QuietStep, Zenon

\* Hashing a pfsnode that has no vnode yet, and freeing it when vnode_create
\* failed, are invisible as well.
LEMMA QuietTable ==
    ASSUME Inv, BoundIsLinked, BoundIsLinked', NEW t \in Threads,
           StartAttach(t) \/ AttachFailed(t)
    PROVE  Invisible
<1>0. LocalTypes /\ HeapTypes
  BY Zenon DEF Inv, TypeOK, LocalTypes, HeapTypes
<1>1. AloneStep(t)
  BY ThreadsStepAlone, Zenon DEF Find
<1>2. want' = want /\ vid' = vid /\ ~Holding(t) /\ ~Holding(t)'
  <2>1. CASE StartAttach(t)
    BY <1>0, <2>1, Zenon DEF StartAttach, Goto, vnodeVars, LocalTypes, Holding
  <2>2. CASE AttachFailed(t)
    BY <2>2, Zenon DEF AttachFailed, vnodeVars, Holding
  <2> QED BY <2>1, <2>2, Zenon
<1>3. AbsHold' = AbsHold
  BY <1>1, <1>2, OthersHold, Zenon DEF AbsHold, HoldOf
<1>4. \E n \in Nodes :
        /\ n \in hash => nodeVnode[n] = NULL
        /\ hash' \ {n} = hash \ {n} /\ nodeVnode'[n] = NULL
        /\ \A m \in Nodes \ {n} : nodeKey'[m] = nodeKey[m] /\ nodeVnode'[m] = nodeVnode[m]
  <2>1. CASE StartAttach(t)
    <3>1. PICK n \in Nodes : /\ Attachable(t, n)
                             /\ hash' = hash \cup {n}
                             /\ nodeKey' = [nodeKey EXCEPT ![n] = want[t]]
                             /\ nodeVnode' = [nodeVnode EXCEPT ![n] = NULL]
      BY <2>1, Zenon DEF StartAttach
    <3>2. n \in hash => nodeVnode[n] = NULL
      <4>1. pc[t] = "top"
        BY <2>1, Zenon DEF StartAttach
      <4>2. n = new[t] => n \notin hash
        BY <4>1, NullAssumption, Zenon DEF Inv, NewInv
      <4> QED BY <3>1, <4>2, Zenon DEF Attachable
    <3>3. /\ nodeVnode'[n] = NULL
          /\ \A m \in Nodes \ {n} : nodeKey'[m] = nodeKey[m] /\ nodeVnode'[m] = nodeVnode[m]
      BY <1>0, <3>1, Zenon DEF HeapTypes
    <3> QED BY <3>1, <3>2, <3>3, Zenon
  <2>2. CASE AttachFailed(t)
    <3>1. target[t] \in Nodes /\ nodeVnode[target[t]] = NULL
      BY <2>2, Zenon DEF AttachFailed, Inv, LocalsInv, LocalsAt, AttachIsExclusive
    <3>2. /\ hash' = hash \ {target[t]} /\ nodeVnode'[target[t]] = NULL
          /\ \A m \in Nodes \ {target[t]} : /\ nodeKey'[m] = nodeKey[m]
                                            /\ nodeVnode'[m] = nodeVnode[m]
      BY <1>0, <2>2, <3>1, Zenon DEF AttachFailed, procfsnode_free_node, HeapTypes
    <3> QED BY <3>1, <3>2, Zenon
  <2> QED BY <2>1, <2>2, Zenon
<1>5. ASSUME NEW k \in Keys PROVE BoundVnode(k)' = BoundVnode(k)
  <2>1. hash \subseteq Nodes
    BY <1>0, Zenon DEF HeapTypes
  <2>2. hash' \subseteq Nodes
    BY <1>4, <2>1, Zenon
  <2>3. Linked(k)' = Linked(k) /\ \A n \in Linked(k) : nodeVnode'[n] = nodeVnode[n]
    BY <1>4, <2>1, <2>2, Zenon DEF Linked
  <2> QED BY <1>2, <2>3, BindingKept, Zenon
<1>6. AbsBound' = AbsBound
  BY <1>5, Zenon DEF AbsBound
<1> QED BY <1>2, <1>3, <1>6, Zenon DEF Invisible

\* Entering procfsnode_find is a request for an id.
LEMMA CallRequests ==
    ASSUME Inv, MapInv, BoundIsLinked, BoundIsLinked', NEW t \in Threads, Call(t)
    PROVE  Table!Request(t)
<1>0. LocalTypes
  BY Zenon DEF Inv, TypeOK, LocalTypes
<1>1. want[t] = NULL /\ \E k \in Keys : want' = [want EXCEPT ![t] = k]
  BY Zenon DEF Call, MapInv
<1>2. AbsBound' = AbsBound
  BY BindingsKept, Zenon DEF Call, heapVars, vnodeVars
<1>3. ~Holding(t) /\ ~Holding(t)'
  BY <1>0, Zenon DEF Call, Goto, LocalTypes, Holding
<1>4. AbsHold' = AbsHold
  BY <1>3, ThreadsStepAlone, OthersHold, Zenon DEF AbsHold, HoldOf
<1> QED BY <1>1, <1>2, <1>4, Zenon DEF Table!Request, AbsBound, AbsHold, HoldOf, Holding

\* When vnode_getwithvid succeeds, the call holds the incarnation that is
\* bound to its id at that moment, although the lock is not held.
LEMMA GetWithVidAcquires ==
    ASSUME Inv, MapInv, BoundIsLinked, BoundIsLinked', NEW t \in Threads, GetWithVid(t)
    PROVE  Table!Acquire(t)
<1> DEFINE i == <<tvnode[t], vid[tvnode[t]]>>
<1>0. LocalTypes /\ VnodeTypes
  BY Zenon DEF Inv, TypeOK, LocalTypes, VnodeTypes
<1>1. /\ pc[t] = "getvid" /\ pc'[t] = "finish" /\ vstate[tvnode[t]] = "live"
      /\ vid[tvnode[t]] = tvid[t]
      /\ UNCHANGED <<hash, nodeKey, nodeVnode, vid, want, tvnode, error>>
  BY <1>0, Zenon DEF GetWithVid, SameVnode, Goto, heapVars, vnodeVars, LocalTypes
<1>2. want[t] \in Keys /\ want[t] # NULL /\ tvnode[t] \in Vnodes /\ error[t] = "none"
  BY <1>1, NullAssumption, Zenon DEF Inv, LocalsInv, LocalsAt
<1>3. target[t] \in Linked(want[t]) /\ nodeVnode[target[t]] = tvnode[t]
  <2>1. /\ target[t] \in hash /\ nodeKey[target[t]] = want[t]
        /\ nodeVnode[target[t]] = tvnode[t]
    BY <1>1, Zenon DEF Inv, VidInv, VidAt
  <2> QED BY <1>2, <2>1, NullAssumption, Zenon DEF Linked
<1>4. AbsBound[want[t]] = i
  BY <1>2, <1>3, Zenon DEF BoundIsLinked, AbsBound
<1>5. i # NULL
  <2>1. vid[tvnode[t]] \in Nat /\ vid[tvnode[t]] <= MaxVid
    BY <1>0, <1>2, Zenon DEF VnodeTypes, MapInv
  <2>2. vid[tvnode[t]] \in 0 .. MaxVid
    BY <2>1, MaxVidAssumption
  <2> QED BY <1>2, <2>2, IncarnationAssumption, Zenon
<1>6. AbsBound' = AbsBound
  BY <1>1, BindingsKept, Zenon
<1>7. HoldOf(t) = NULL /\ HoldOf(t)' = i
  BY <1>1, <1>2, Zenon DEF HoldOf, Holding
<1>8. AbsHold' = [AbsHold EXCEPT ![t] = i] /\ AbsHold[t] = NULL
  <2>1. \A u \in Threads \ {t} : HoldOf(u)' = HoldOf(u)
    BY ThreadsStepAlone, OthersHold, Zenon DEF Find
  <2> QED BY <1>7, <2>1, Zenon DEF AbsHold
<1>9. /\ want[t] # NULL /\ AbsHold[t] = NULL /\ AbsBound[want[t]] # NULL
      /\ AbsHold' = [AbsHold EXCEPT ![t] = AbsBound[want[t]]]
      /\ UNCHANGED <<AbsBound, want>>
  BY <1>1, <1>2, <1>4, <1>5, <1>6, <1>8, Zenon
<1> QED BY <1>9, Zenon DEF Table!Acquire, Table!Pending, AbsBound, AbsHold, HoldOf, Holding

\* Setting node_vnode in the second critical section binds the id, which had
\* no vnode, to an incarnation that no other id is bound to.
LEMMA AttachDoneBinds ==
    ASSUME Inv, MapInv, BoundIsLinked, BoundIsLinked', NEW t \in Threads, AttachDone(t)
    PROVE  Table!Bind(t)
<1> DEFINE m == target[t]
           i == <<tvnode[t], vid[tvnode[t]]>>
<1>0. HeapTypes /\ VnodeTypes
  BY Zenon DEF Inv, TypeOK, HeapTypes, VnodeTypes
<1>1. /\ pc[t] = "attach" /\ pc'[t] = "finish" /\ error[t] = "none"
      /\ UNCHANGED <<hash, nodeKey, vid, want, tvnode, error>>
  BY Zenon DEF AttachDone, Wakeup
<1>2. want[t] \in Keys /\ want[t] # NULL /\ tvnode[t] \in Vnodes
  BY <1>1, NullAssumption, Zenon DEF Inv, LocalsInv, LocalsAt, CreatedInv
<1>3. m \in hash /\ nodeKey[m] = want[t] /\ nodeVnode[m] = NULL
  BY <1>1, Zenon DEF Inv, AttachIsExclusive
<1>4. /\ nodeVnode'[m] = tvnode[t] /\ \A n \in hash \ {m} : nodeVnode'[n] = nodeVnode[n]
  BY <1>0, <1>3, Zenon DEF AttachDone, LinkVnode, HeapTypes
<1>5. i \in Vnodes \X (0 .. MaxVid) /\ i # NULL
  <2>1. vid[tvnode[t]] \in Nat /\ vid[tvnode[t]] <= MaxVid
    BY <1>0, <1>2, Zenon DEF VnodeTypes, MapInv
  <2>2. vid[tvnode[t]] \in 0 .. MaxVid
    BY <2>1, MaxVidAssumption
  <2> QED BY <1>2, <2>2, IncarnationAssumption, Zenon
<1>6. Linked(want[t]) = {}
  BY <1>3, Zenon DEF Inv, UniqueNode, Linked
<1>7. AbsBound[want[t]] = NULL
  BY <1>2, <1>6, Zenon DEF BoundIsLinked, AbsBound
<1>8. ASSUME NEW k \in Keys PROVE AbsBound[k] # i
  <2>1. CASE Linked(k) = {}
    BY <2>1, <1>5, Zenon DEF BoundIsLinked, AbsBound
  <2>2. ASSUME NEW n \in Linked(k) PROVE AbsBound[k] # i
    <3>1. nodeVnode[n] # tvnode[t]
      BY <1>1, Zenon DEF Inv, CreatedInv, Linked
    <3>2. AbsBound[k] = <<nodeVnode[n], vid[nodeVnode[n]]>>
      BY Zenon DEF BoundIsLinked, AbsBound
    <3> QED BY <3>1, <3>2
  <2> QED BY <2>1, <2>2, Zenon
<1>9. AbsBound' = [AbsBound EXCEPT ![want[t]] = i]
  <2>1. m \in Linked(want[t])'
    BY <1>1, <1>2, <1>3, <1>4, NullAssumption, Zenon DEF Linked
  <2>2. BoundVnode(want[t])' = i
    <3>1. \A n \in Linked(want[t])' :
             BoundVnode(want[t])' = <<nodeVnode'[n], vid'[nodeVnode'[n]]>>
      BY <1>1, <1>2, Zenon DEF BoundIsLinked
    <3> QED BY <1>1, <1>4, <2>1, <3>1, Zenon
  <2>3. ASSUME NEW k \in Keys, k # want[t] PROVE BoundVnode(k)' = BoundVnode(k)
    <3>1. Linked(k)' = Linked(k) /\ \A n \in Linked(k) : nodeVnode'[n] = nodeVnode[n]
      BY <1>1, <1>3, <1>4, <2>3, Zenon DEF Linked
    <3> QED BY <1>1, <3>1, BindingKept, Zenon
  <2> QED BY <2>2, <2>3, <1>1, <1>2, Zenon DEF AbsBound
<1>10. HoldOf(t) = NULL /\ HoldOf(t)' = i
  BY <1>1, Zenon DEF HoldOf, Holding
<1>11. AbsHold' = [AbsHold EXCEPT ![t] = i] /\ AbsHold[t] = NULL
  <2>1. \A u \in Threads \ {t} : HoldOf(u)' = HoldOf(u)
    BY ThreadsStepAlone, OthersHold, Zenon DEF Find
  <2> QED BY <1>10, <2>1, Zenon DEF AbsHold
<1>12. /\ want[t] # NULL /\ AbsHold[t] = NULL /\ AbsBound[want[t]] = NULL
       /\ \E j \in Vnodes \X (0 .. MaxVid) :
             /\ \A k \in Keys : AbsBound[k] # j
             /\ AbsBound' = [AbsBound EXCEPT ![want[t]] = j]
             /\ AbsHold' = [AbsHold EXCEPT ![t] = j]
       /\ UNCHANGED want
  BY <1>1, <1>2, <1>5, <1>7, <1>8, <1>9, <1>11, Zenon
<1> QED BY <1>12, Zenon DEF Table!Bind, Table!Pending, AbsBound, AbsHold, HoldOf, Holding

\* Returning an error, and vnode_put, end the call.
LEMMA LeavesTable ==
    ASSUME Inv, MapInv, BoundIsLinked, BoundIsLinked', NEW t \in Threads,
           ReturnError(t) \/ Put(t)
    PROVE  Table!Leave(t)
<1>0. LocalTypes
  BY Zenon DEF Inv, TypeOK, LocalTypes
<1>1. /\ pc[t] \in {"finish", "using"} /\ pc'[t] = "idle"
      /\ want' = [want EXCEPT ![t] = NULL] /\ UNCHANGED <<hash, nodeKey, nodeVnode, vid>>
  <2>1. CASE ReturnError(t)
    BY <1>0, <2>1, Zenon DEF ReturnError, FreeUnused, Forget, Goto, vnodeVars, LocalTypes
  <2>2. CASE Put(t)
    BY <1>0, <2>2, Zenon DEF Put, Forget, Goto, heapVars, vnodeVars, LocalTypes
  <2> QED BY <2>1, <2>2, Zenon
<1>2. want[t] # NULL
  BY <1>1, NullAssumption, Zenon DEF Inv, LocalsInv, LocalsAt
<1>3. AbsBound' = AbsBound
  BY <1>1, BindingsKept, Zenon
<1>4. HoldOf(t)' = NULL
  BY <1>1, Zenon DEF HoldOf, Holding
<1>5. AbsHold' = [AbsHold EXCEPT ![t] = NULL]
  <2>1. \A u \in Threads \ {t} : HoldOf(u)' = HoldOf(u)
    BY ThreadsStepAlone, OthersHold, Zenon DEF Find
  <2> QED BY <1>4, <2>1, Zenon DEF AbsHold
<1> QED BY <1>1, <1>2, <1>3, <1>5, Zenon DEF Table!Leave, AbsBound, AbsHold, HoldOf, Holding

-----------------------------------------------------------------------------
(* The steps on a vnode.                                                   *)

\* procfs_vnop_reclaim dissolves the binding of the pfsnode it frees, and no
\* call holds the incarnation at that moment.
LEMMA ReclaimUnbinds ==
    ASSUME Inv, MapInv, BoundIsLinked, BoundIsLinked', NEW v \in Vnodes, ReclaimNode(v)
    PROVE  \E k \in Keys : Table!Unbind(k)
<1> DEFINE f == fsnode[v]
           key == nodeKey[f]
           i == <<v, vid[v]>>
<1>0. HeapTypes /\ VnodeTypes
  BY Zenon DEF Inv, TypeOK, HeapTypes, VnodeTypes
<1>1. vstate[v] = "dying" /\ UNCHANGED <<vid, want, pc, error, tvnode>>
  BY Zenon DEF ReclaimNode, localVars
<1>2. f \in hash /\ f \in Nodes /\ nodeVnode[f] = v /\ key \in Keys
  <2>1. f \in hash /\ nodeVnode[f] = v
    BY <1>1, Zenon DEF Inv, LinkInv
  <2> QED BY <1>0, <2>1, Zenon DEF HeapTypes, Inv, HashInv
<1>3. f \in Linked(key) /\ \A n \in Linked(key) : n = f
  BY <1>2, NullAssumption, Zenon DEF Inv, UniqueNode, Linked
<1>4. AbsBound[key] = i
  BY <1>2, <1>3, Zenon DEF BoundIsLinked, AbsBound
<1>5. i # NULL
  <2>1. vid[v] \in Nat /\ vid[v] <= MaxVid
    BY <1>0, Zenon DEF VnodeTypes, MapInv
  <2>2. vid[v] \in 0 .. MaxVid
    BY <2>1, MaxVidAssumption
  <2> QED BY <2>2, IncarnationAssumption, Zenon
<1>6. ASSUME NEW t \in Threads PROVE AbsHold[t] # i
  <2>1. CASE Holding(t)
    <3>1. tvnode[t] # v
      BY <1>1, <2>1, Zenon DEF Holding, Inv, ResultIsCurrent
    <3>2. AbsHold[t] = <<tvnode[t], vid[tvnode[t]]>>
      BY <2>1, Zenon DEF AbsHold, HoldOf
    <3> QED BY <3>1, <3>2
  <2>2. CASE ~Holding(t)
    BY <2>2, <1>5, Zenon DEF AbsHold, HoldOf
  <2> QED BY <2>1, <2>2, Zenon
<1>7. /\ hash' = hash \ {f} /\ hash \subseteq Nodes
      /\ \A n \in Nodes \ {f} : nodeKey'[n] = nodeKey[n] /\ nodeVnode'[n] = nodeVnode[n]
  BY <1>0, Zenon DEF ReclaimNode, procfsnode_free_node, HeapTypes
<1>8. \A k \in Keys : Linked(k)' = Linked(k) \ {f}
  BY <1>7, Zenon DEF Linked
<1>9. PICK k0 \in Keys : k0 = key
  BY <1>2, Zenon
<1>10. BoundVnode(k0)' = NULL
  <2>1. Linked(k0)' = {}
    BY <1>3, <1>8, <1>9, Zenon
  <2> QED BY <2>1, Zenon DEF BoundIsLinked
<1>11. ASSUME NEW k \in Keys, k # k0 PROVE BoundVnode(k)' = BoundVnode(k)
  <2>1. f \notin Linked(k)
    BY <1>9, <1>11, Zenon DEF Linked
  <2>2. \A n \in Linked(k) : nodeVnode'[n] = nodeVnode[n]
    BY <1>7, <2>1, Zenon DEF Linked
  <2>3. Linked(k)' = Linked(k)
    BY <1>8, <2>1, Zenon
  <2> QED BY <1>1, <2>2, <2>3, BindingKept, Zenon
<1>12. AbsBound' = [AbsBound EXCEPT ![k0] = NULL]
  BY <1>10, <1>11, Zenon DEF AbsBound
<1>13. AbsHold' = AbsHold
  BY <1>1, Zenon DEF AbsHold, HoldOf, Holding
<1>14. /\ AbsBound[k0] # NULL /\ \A t \in Threads : AbsHold[t] # AbsBound[k0]
       /\ UNCHANGED <<want, AbsHold>>
  BY <1>1, <1>4, <1>5, <1>6, <1>9, <1>13, Zenon
<1>15. Table!Unbind(k0)
  BY <1>12, <1>14, Zenon DEF Table!Unbind, AbsBound, AbsHold, HoldOf, Holding
<1> QED BY <1>15, Zenon

\* The kernel's other steps on a vnode are invisible: no binding and no hold
\* is on a vnode whose v_id changes.
LEMMA QuietVnode ==
    ASSUME Inv, BoundIsLinked, BoundIsLinked', NEW v \in Vnodes,
           Terminate(v) \/ ReclaimVnode(v)
    PROVE  Invisible
<1>0. HeapTypes /\ VnodeTypes
  BY Zenon DEF Inv, TypeOK, HeapTypes, VnodeTypes
<1>1. \A w \in Vnodes : vid'[w] = vid[w] \/ (w = v /\ vstate[v] = "unlinked")
  BY <1>0, Zenon DEF Terminate, ReclaimVnode, VnodeTypes
<1>2. UNCHANGED <<hash, nodeKey, nodeVnode, want, pc, error, tvnode>>
  BY Zenon DEF Terminate, ReclaimVnode, heapVars, localVars
<1>3. ASSUME NEW k \in Keys PROVE BoundVnode(k)' = BoundVnode(k)
  <2>1. Linked(k)' = Linked(k)
    BY <1>2, Zenon DEF Linked
  <2>2. ASSUME NEW n \in Linked(k) PROVE vid'[nodeVnode[n]] = vid[nodeVnode[n]]
    <3>1. n \in Nodes /\ n \in hash /\ nodeVnode[n] # NULL
      BY <1>0, Zenon DEF HeapTypes, Linked
    <3>2. ~attaching[n]
      <4> SUFFICES ASSUME attaching[n] PROVE FALSE
        BY Zenon
      <4>1. PICK u \in Threads : pc[u] \in {"create", "attach"} /\ target[u] = n
        BY <3>1, Zenon DEF Inv, AttachingInv
      <4>2. nodeVnode[target[u]] = NULL
        BY <4>1, Zenon DEF Inv, AttachIsExclusive
      <4> QED BY <3>1, <4>1, <4>2, Zenon
    <3>3. nodeVnode[n] \in Vnodes /\ vstate[nodeVnode[n]] \in {"live", "dying"}
      <4>1. nodeVnode[n] \in Vnodes
        BY <1>0, <3>1, Zenon DEF HeapTypes
      <4> QED BY <3>1, <3>2, <4>1, Zenon DEF Inv, HashedNodeHasVnode
    <3> QED BY <1>1, <3>3, Zenon
  <2> QED BY <1>2, <2>1, <2>2, BindingKept, Zenon
<1>4. ASSUME NEW t \in Threads PROVE HoldOf(t)' = HoldOf(t)
  <2>1. CASE Holding(t)
    <3>1. tvnode[t] \in Vnodes /\ vstate[tvnode[t]] = "live"
      <4>1. tvnode[t] \in Vnodes
        BY <2>1, ResultTypes, Zenon DEF Holding, HasResult
      <4> QED BY <2>1, <4>1, Zenon DEF Holding, Inv, ResultIsCurrent
    <3>2. vid'[tvnode[t]] = vid[tvnode[t]]
      BY <1>1, <3>1, Zenon
    <3> QED BY <1>2, <3>2, Zenon DEF HoldOf, Holding
  <2>2. CASE ~Holding(t)
    BY <1>2, <2>2, Zenon DEF HoldOf, Holding
  <2> QED BY <2>1, <2>2, Zenon
<1> QED BY <1>2, <1>3, <1>4, Zenon DEF Invisible, AbsBound, AbsHold

\* Every step of the hash table protocol is a step of NodeTable or invisible.
LEMMA TableStep ==
    Inv /\ MapInv /\ BoundIsLinked /\ BoundIsLinked' /\ [Next]_vars
        => [Table!Next]_(Table!vars)
<1> SUFFICES ASSUME Inv, MapInv, BoundIsLinked, BoundIsLinked', [Next]_vars
             PROVE  Table!Next \/ Invisible
  BY DEF Invisible, Table!vars, AbsBound, AbsHold, HoldOf, Holding
<1>1. ASSUME NEW t \in Threads, Call(t) \/ Put(t) PROVE Table!Next
  BY <1>1, CallRequests, LeavesTable, Zenon DEF Table!Next
<1>2. ASSUME NEW t \in Threads, Find(t) PROVE Table!Next \/ Invisible
  <2>1. CASE GetWithVid(t)
    BY <2>1, GetWithVidAcquires, Zenon DEF Table!Next
  <2>2. CASE AttachDone(t)
    BY <2>2, AttachDoneBinds, Zenon DEF Table!Next
  <2>3. CASE ReturnError(t)
    BY <2>3, LeavesTable, Zenon DEF Table!Next
  <2>4. CASE StartAttach(t) \/ AttachFailed(t)
    BY <2>4, QuietTable, Zenon
  <2> QED BY <1>2, <2>1, <2>2, <2>3, <2>4, QuietFind, Zenon DEF Find
<1>3. ASSUME NEW v \in Vnodes, Terminate(v) \/ Reclaim(v) PROVE Table!Next \/ Invisible
  <2>1. CASE ReclaimNode(v)
    BY <2>1, ReclaimUnbinds, Zenon DEF Table!Next
  <2> QED BY <1>3, <2>1, QuietVnode, Zenon DEF Reclaim
<1>4. CASE UNCHANGED vars
  <2>1. UNCHANGED <<hash, nodeKey, nodeVnode, vid, want, pc, error, tvnode>>
    BY <1>4, Zenon DEF vars, heapVars, localVars, vnodeVars
  <2>2. AbsHold' = AbsHold
    BY <2>1, Zenon DEF AbsHold, HoldOf, Holding
  <2> QED BY <2>1, <2>2, BindingsKept, Zenon DEF Invisible
<1> QED BY <1>1, <1>2, <1>3, <1>4, Zenon DEF Next

\* "There must only ever be one procnfsnode instance (and hence one vnode) for
\* each" id (procfs.h), as a specification: for every number of threads, ids,
\* pfsnodes and vnodes the hash table protocol implements a table that binds an
\* id to one vnode incarnation at a time, gives a call the incarnation bound at
\* one moment of the call, and unbinds only what nobody holds.
THEOREM CacheImplementsTable == Spec => ImplementsTable
<1>1. Init => Table!Init
  <2> SUFFICES ASSUME Init PROVE Table!Init
    BY Zenon
  <2>1. \A k \in Keys : Matches(k) = {}
    BY Zenon DEF Init, Matches
  <2>2. \A k \in Keys : BoundVnode(k) = NULL
    BY <2>1, Zenon DEF BoundVnode
  <2> QED BY <2>2 DEF Init, Table!Init
<1>2. Init => MapInv
  BY MaxVidAssumption DEF Init, MapInv
<1> QED
  BY <1>1, <1>2, Invariance, MapInvStep, BoundByNode, TableStep, PTL
     DEF Spec, ImplementsTable, Table!Spec
=============================================================================
