----------------------------- MODULE NodeCache -----------------------------
(***************************************************************************)
(* The pfsnode cache of kext/procfs_node.c: a hash table that holds at     *)
(* most one pfsnode (and so one vnode) for every (mount, node id), filled  *)
(* by procfsnode_find() and emptied by procfs_vnop_reclaim().              *)
(*                                                                         *)
(* Granularity.  The hash table and the fields of the hashed pfsnodes are  *)
(* only read and written with pfsnode_hash_mutex held, so one critical     *)
(* section (from lck_mtx_lock or the return of msleep to the next unlock   *)
(* or msleep) is one action.  What the code does without the mutex         *)
(* (OSMalloc, vnode_getwithvid, the create callback, OSFree, vnode_put) is *)
(* an action of its own, so every interleaving the mutex allows is there.  *)
(*                                                                         *)
(* The vnode layer is outside the repository.  It is modelled from the way *)
(* the code uses it: vnode_create returns a vnode with an iocount, a vnode *)
(* is terminated only when nobody holds an iocount on it, its v_id changes *)
(* when it is recycled, and vnode_getwithvid fails once termination began. *)
(***************************************************************************)
EXTENDS Integers

CONSTANTS
    Threads,    \* kernel threads that call procfsnode_find
    Keys,       \* the (node_mnt_id, node_id) combinations that are looked up
    Nodes,      \* addresses OSMalloc can return for a pfsnode_t
    Vnodes,     \* vnodes of the kernel's vnode pool
    NULL,       \* the null pointer
    MaxVid      \* bound: number of times one vnode is recycled

ASSUME KeysAssumption ==
    Keys \subseteq [mnt : Nat, pid : Int, objectid : Nat, base : Nat]

ASSUME NullAssumption == NULL \notin Nodes \cup Vnodes \cup Keys

\* An incarnation of a vnode is the vnode with its v_id; NULL is none.
ASSUME IncarnationAssumption ==
    \A v \in Vnodes : \A i \in 0 .. MaxVid : NULL # <<v, i>>

ASSUME MaxVidAssumption == MaxVid \in Nat

VARIABLES
    \* The heap and the hash table.
    heap,       \* pfsnodes obtained from OSMalloc and not yet given to OSFree
    hash,       \* pfsnodes linked into a hash bucket
    nodeKey,    \* node_mnt_id and node_id
    nodeVnode,  \* node_vnode
    attaching,  \* node_attaching_vnode
    waiting,    \* node_thread_waiting_attach
    \* The local variables of procfsnode_find.
    pc,         \* where the thread is
    want,       \* mount_id and node_id, the arguments
    target,     \* target_pfsnode
    new,        \* new_pfsnode
    tvnode,     \* target_vnode
    tvid,       \* vid
    error,      \* error
    \* The vnodes.
    vstate,     \* "free", "live", "dying" (being terminated), "unlinked"
    vid,        \* v_id
    fsnode,     \* v_data: the pfsnode the vnode points to
    fsref       \* whether the file system reference is held

heapVars   == <<heap, hash, nodeKey, nodeVnode, attaching, waiting>>
localVars  == <<pc, want, target, new, tvnode, tvid, error>>
vnodeVars  == <<vstate, vid, fsnode, fsref>>
vars       == <<heapVars, localVars, vnodeVars>>

Locations == {"idle", "top", "malloc", "sleep", "getvid", "create", "attach",
              "finish", "using"}
Errors == {"none", "ENOMEM", "vnode_create"}
VnodeStates == {"free", "live", "dying", "unlinked"}

TypeOK ==
    /\ heap \in SUBSET Nodes
    /\ hash \in SUBSET Nodes
    /\ nodeKey \in [Nodes -> Keys \cup {NULL}]
    /\ nodeVnode \in [Nodes -> Vnodes \cup {NULL}]
    /\ attaching \in [Nodes -> BOOLEAN]
    /\ waiting \in [Nodes -> BOOLEAN]
    /\ pc \in [Threads -> Locations]
    /\ want \in [Threads -> Keys \cup {NULL}]
    /\ target \in [Threads -> Nodes \cup {NULL}]
    /\ new \in [Threads -> Nodes \cup {NULL}]
    /\ tvnode \in [Threads -> Vnodes \cup {NULL}]
    /\ tvid \in [Threads -> Nat]
    /\ error \in [Threads -> Errors]
    /\ vstate \in [Vnodes -> VnodeStates]
    /\ vid \in [Vnodes -> Nat]
    /\ fsnode \in [Vnodes -> Nodes \cup {NULL}]
    /\ fsref \in [Vnodes -> BOOLEAN]

\* Before the first call the table is empty and every vnode is in the free
\* pool.  The fields of a pfsnode that is not hashed and the local variables
\* of a thread that is not in the function are never read; they are NULL.
Init ==
    /\ heap = {}
    /\ hash = {}
    /\ nodeKey = [n \in Nodes |-> NULL]
    /\ nodeVnode = [n \in Nodes |-> NULL]
    /\ attaching = [n \in Nodes |-> FALSE]
    /\ waiting = [n \in Nodes |-> FALSE]
    /\ pc = [t \in Threads |-> "idle"]
    /\ want = [t \in Threads |-> NULL]
    /\ target = [t \in Threads |-> NULL]
    /\ new = [t \in Threads |-> NULL]
    /\ tvnode = [t \in Threads |-> NULL]
    /\ tvid = [t \in Threads |-> 0]
    /\ error = [t \in Threads |-> "none"]
    /\ vstate = [v \in Vnodes |-> "free"]
    /\ vid = [v \in Vnodes |-> 0]
    /\ fsnode = [v \in Vnodes |-> NULL]
    /\ fsref = [v \in Vnodes |-> FALSE]

-----------------------------------------------------------------------------
(* The hash table.                                                         *)

\* The comparison that ends the walk of the bucket.  The bucket itself is a
\* function of the same four fields, so it is left out.
SameId(n, k) ==
    /\ nodeKey[n].mnt = k.mnt
    /\ nodeKey[n].pid = k.pid
    /\ nodeKey[n].objectid = k.objectid
    /\ nodeKey[n].base = k.base

Matches(k) == {n \in hash : SameId(n, k)}

\* procfsnode_free_node, called with the lock: unhash and free the node.
procfsnode_free_node(n) ==
    /\ hash' = hash \ {n}
    /\ heap' = heap \ {n}
    /\ nodeKey' = [nodeKey EXCEPT ![n] = NULL]
    /\ nodeVnode' = [nodeVnode EXCEPT ![n] = NULL]
    /\ attaching' = [attaching EXCEPT ![n] = FALSE]
    /\ waiting' = [waiting EXCEPT ![n] = FALSE]

-----------------------------------------------------------------------------
(* procfsnode_find                                                         *)

Goto(t, loc) == pc' = [pc EXCEPT ![t] = loc]

\* A caller (procfs_vnop_lookup, procfs_root) enters the function.
Call(t) ==
    /\ pc[t] = "idle"
    /\ \E k \in Keys : want' = [want EXCEPT ![t] = k]
    /\ Goto(t, "top")
    /\ UNCHANGED <<heapVars, vnodeVars, target, new, tvnode, tvid, error>>

\* No node has the id and none was allocated yet: unlock and allocate one.
Miss(t) ==
    /\ pc[t] = "top"
    /\ Matches(want[t]) = {}
    /\ new[t] = NULL
    /\ target' = [target EXCEPT ![t] = NULL]
    /\ Goto(t, "malloc")
    /\ UNCHANGED <<heapVars, vnodeVars, want, new, tvnode, tvid, error>>

\* OSMalloc succeeds: go around the loop again.
Malloc(t) ==
    /\ pc[t] = "malloc"
    /\ \E n \in Nodes \ heap :
          /\ heap' = heap \cup {n}
          /\ new' = [new EXCEPT ![t] = n]
    /\ Goto(t, "top")
    /\ UNCHANGED <<hash, nodeKey, nodeVnode, attaching, waiting, vnodeVars,
                   want, target, tvnode, tvid, error>>

\* OSMalloc fails: leave the loop without the lock.
MallocFails(t) ==
    /\ pc[t] = "malloc"
    /\ error' = [error EXCEPT ![t] = "ENOMEM"]
    /\ Goto(t, "finish")
    /\ UNCHANGED <<heapVars, vnodeVars, want, target, new, tvnode, tvid>>

AskWakeup(n) == waiting' = [waiting EXCEPT ![n] = TRUE]

\* Another thread is creating the vnode of the node: ask for a wakeup and
\* sleep on the node's address.
WaitForAttach(t) ==
    /\ pc[t] = "top"
    /\ \E n \in Matches(want[t]) :
          /\ attaching[n]
          /\ AskWakeup(n)
          /\ target' = [target EXCEPT ![t] = n]
    /\ Goto(t, "sleep")
    /\ UNCHANGED <<heap, hash, nodeKey, nodeVnode, attaching, vnodeVars,
                   want, new, tvnode, tvid, error>>

\* The node has a vnode: remember the vnode's id and unlock.
FoundVnode(t) ==
    /\ pc[t] = "top"
    /\ \E n \in Matches(want[t]) :
          /\ ~attaching[n]
          /\ nodeVnode[n] # NULL
          /\ target' = [target EXCEPT ![t] = n]
          /\ tvnode' = [tvnode EXCEPT ![t] = nodeVnode[n]]
          /\ tvid' = [tvid EXCEPT ![t] = vid[nodeVnode[n]]]
    /\ Goto(t, "getvid")
    /\ UNCHANGED <<heapVars, vnodeVars, want, new, error>>

\* Mutant of SameVnode: vnode_get, which does not compare the vnode's id.
MutAnyVnode(t) == vstate[tvnode[t]] = "live"

\* vnode_getwithvid succeeds: the vnode is not being terminated and has not
\* been recycled since its id was read.
SameVnode(t) == vstate[tvnode[t]] = "live" /\ vid[tvnode[t]] = tvid[t]

\* vnode_getwithvid, without the lock.  On success the thread has an iocount
\* and leaves the loop.
GetWithVid(t) ==
    /\ pc[t] = "getvid"
    /\ SameVnode(t)
    /\ tvid' = [tvid EXCEPT ![t] = 0]
    /\ Goto(t, "finish")
    /\ UNCHANGED <<heapVars, vnodeVars, want, target, new, tvnode, error>>

\* vnode_getwithvid fails: relock and redo everything.
GetWithVidFails(t) ==
    /\ pc[t] = "getvid"
    /\ ~SameVnode(t)
    /\ target' = [target EXCEPT ![t] = NULL]
    /\ new' = [new EXCEPT ![t] = NULL]
    /\ tvnode' = [tvnode EXCEPT ![t] = NULL]
    /\ tvid' = [tvid EXCEPT ![t] = 0]
    /\ Goto(t, "top")
    /\ UNCHANGED <<heapVars, vnodeVars, want, error>>

\* Mutant of Attachable: the allocated node is used without a second lookup.
MutNoSecondLookup(t, n) ==
    \/ n \in Matches(want[t]) /\ ~attaching[n] /\ nodeVnode[n] = NULL
    \/ n = new[t]

\* Mutant of Attachable: node_attaching_vnode is not tested.
MutIgnoreAttaching(t, n) ==
    \/ n \in Matches(want[t]) /\ nodeVnode[n] = NULL
    \/ Matches(want[t]) = {} /\ n = new[t]

\* The node to which thread t attaches a vnode: a hashed node without one,
\* or the node it allocated, when no hashed node has the id.
Attachable(t, n) ==
    \/ n \in Matches(want[t]) /\ ~attaching[n] /\ nodeVnode[n] = NULL
    \/ Matches(want[t]) = {} /\ n = new[t]

\* Clear and hash the allocated node (a no-op for a node that is hashed),
\* mark it as being attached and unlock.
StartAttach(t) ==
    /\ pc[t] = "top"
    /\ \E n \in Nodes :
          /\ Attachable(t, n)
          /\ hash' = hash \cup {n}
          /\ nodeKey' = [nodeKey EXCEPT ![n] = want[t]]
          /\ nodeVnode' = [nodeVnode EXCEPT ![n] = NULL]
          /\ attaching' = [attaching EXCEPT ![n] = TRUE]
          /\ waiting' = [waiting EXCEPT ![n] = @ /\ n \in hash]
          /\ target' = [target EXCEPT ![t] = n]
    /\ Goto(t, "create")
    /\ UNCHANGED <<heap, vnodeVars, want, new, tvnode, tvid, error>>

\* The create callback makes a vnode that points to the node and returns it
\* with an iocount.
CreateVnode(t) ==
    /\ pc[t] = "create"
    /\ \E v \in Vnodes :
          /\ vstate[v] = "free"
          /\ vid[v] < MaxVid
          /\ vstate' = [vstate EXCEPT ![v] = "live"]
          /\ fsnode' = [fsnode EXCEPT ![v] = target[t]]
          /\ tvnode' = [tvnode EXCEPT ![t] = v]
    /\ Goto(t, "attach")
    /\ UNCHANGED <<heapVars, vid, fsref, want, target, new, tvid, error>>

\* The create callback fails.
CreateVnodeFails(t) ==
    /\ pc[t] = "create"
    /\ error' = [error EXCEPT ![t] = "vnode_create"]
    /\ Goto(t, "attach")
    /\ UNCHANGED <<heapVars, vnodeVars, want, target, new, tvnode, tvid>>

\* wakeup(n): every thread that sleeps on the address of n is at the top of
\* the loop again, once it gets the lock.
Sleepers(n) == {u \in Threads : pc[u] = "sleep" /\ target[u] = n}

\* Mutant of Wakeup: the flag is reset and nobody is woken.
MutNoWakeup(t, n) == pc' = [pc EXCEPT ![t] = "finish"]

Wakeup(t, n) ==
    pc' = [u \in Threads |->
             IF u = t THEN "finish"
             ELSE IF waiting[n] /\ u \in Sleepers(n) THEN "top"
             ELSE pc[u]]

\* Mutant of LinkVnode: the back pointer is not set.
MutNoLink(n, v) == UNCHANGED nodeVnode

LinkVnode(n, v) == nodeVnode' = [nodeVnode EXCEPT ![n] = v]

vnode_addfsref(v) == fsref' = [fsref EXCEPT ![v] = TRUE]

\* Relock, clear the flags and wake the waiters; then link the vnode and take
\* the file system reference.
AttachDone(t) ==
    /\ pc[t] = "attach"
    /\ error[t] = "none"
    /\ attaching' = [attaching EXCEPT ![target[t]] = FALSE]
    /\ waiting' = [waiting EXCEPT ![target[t]] = FALSE]
    /\ LinkVnode(target[t], tvnode[t])
    /\ vnode_addfsref(tvnode[t])
    /\ Wakeup(t, target[t])
    /\ UNCHANGED <<heap, hash, nodeKey, vstate, vid, fsnode,
                   want, target, new, tvnode, tvid, error>>

\* Mutant of ForgetNew: the pointer is not cleared ("To avoid double free").
MutKeepNew(t) == UNCHANGED new

ForgetNew(t) == new' = [new EXCEPT ![t] = NULL]

\* The same when there is no vnode: unhash and free the node.
AttachFailed(t) ==
    /\ pc[t] = "attach"
    /\ error[t] # "none"
    /\ Wakeup(t, target[t])
    /\ procfsnode_free_node(target[t])
    /\ target' = [target EXCEPT ![t] = NULL]
    /\ ForgetNew(t)
    /\ UNCHANGED <<vnodeVars, want, tvnode, tvid, error>>

\* The frame of procfsnode_find and the caller's results are gone.
Forget(t) ==
    /\ Goto(t, "idle")
    /\ want' = [want EXCEPT ![t] = NULL]
    /\ target' = [target EXCEPT ![t] = NULL]
    /\ tvnode' = [tvnode EXCEPT ![t] = NULL]
    /\ error' = [error EXCEPT ![t] = "none"]

\* OSFree of the allocated node, if it was not used.
FreeUnused(t) ==
    /\ heap' = IF new[t] # target[t] THEN heap \ {new[t]} ELSE heap
    /\ new' = [new EXCEPT ![t] = NULL]
    /\ UNCHANGED <<hash, nodeKey, nodeVnode, attaching, waiting, vnodeVars, tvid>>

\* Return the node and its vnode to the caller, which uses them.
Return(t) ==
    /\ pc[t] = "finish"
    /\ error[t] = "none"
    /\ FreeUnused(t)
    /\ Goto(t, "using")
    /\ UNCHANGED <<want, target, tvnode, error>>

\* Return an error.
ReturnError(t) ==
    /\ pc[t] = "finish"
    /\ error[t] # "none"
    /\ FreeUnused(t)
    /\ Forget(t)

\* The caller is done with the vnode and drops the iocount: vnode_put.
Put(t) ==
    /\ pc[t] = "using"
    /\ Forget(t)
    /\ UNCHANGED <<heapVars, vnodeVars, new, tvid>>

-----------------------------------------------------------------------------
(* Reclaiming a vnode.                                                     *)

\* Whether thread t has an iocount on vnode v.
HasIocount(t, v) ==
    /\ tvnode[t] = v
    /\ error[t] = "none"
    /\ pc[t] \in {"attach", "finish", "using"}

\* The kernel terminates a vnode nobody has an iocount on: it recycles the
\* vnode, or vflush in procfs_unmount forces it out.
Terminate(v) ==
    /\ vstate[v] = "live"
    /\ \A t \in Threads : ~HasIocount(t, v)
    /\ vstate' = [vstate EXCEPT ![v] = "dying"]
    /\ UNCHANGED <<heapVars, localVars, vid, fsnode, fsref>>

\* procfs_vnop_reclaim, with the lock: unhash and free the pfsnode.
ReclaimNode(v) ==
    /\ vstate[v] = "dying"
    /\ procfsnode_free_node(fsnode[v])
    /\ vstate' = [vstate EXCEPT ![v] = "unlinked"]
    /\ UNCHANGED <<localVars, vid, fsnode, fsref>>

\* The rest of it, without the lock: drop the reference and the link.  The
\* kernel then gives the vnode a new v_id and reuses it.
ReclaimVnode(v) ==
    /\ vstate[v] = "unlinked"
    /\ fsref' = [fsref EXCEPT ![v] = FALSE]
    /\ fsnode' = [fsnode EXCEPT ![v] = NULL]
    /\ vid' = [vid EXCEPT ![v] = @ + 1]
    /\ vstate' = [vstate EXCEPT ![v] = "free"]
    /\ UNCHANGED <<heapVars, localVars>>

-----------------------------------------------------------------------------
Find(t) ==
    \/ Miss(t) \/ Malloc(t) \/ MallocFails(t)
    \/ WaitForAttach(t) \/ FoundVnode(t)
    \/ GetWithVid(t) \/ GetWithVidFails(t)
    \/ StartAttach(t) \/ CreateVnode(t) \/ CreateVnodeFails(t)
    \/ AttachDone(t) \/ AttachFailed(t) \/ Return(t) \/ ReturnError(t)

Reclaim(v) == ReclaimNode(v) \/ ReclaimVnode(v)

Next ==
    \/ \E t \in Threads : Call(t) \/ Find(t) \/ Put(t)
    \/ \E v \in Vnodes : Terminate(v) \/ Reclaim(v)

Spec == Init /\ [][Next]_vars

\* A thread that can run does run (the mutex is not held across a sleep), a
\* reclaim that began is finished.  Nobody has to call, nobody has to put the
\* vnode, and the kernel does not have to terminate it.
Fairness ==
    /\ \A t \in Threads : WF_vars(Find(t))
    /\ \A v \in Vnodes : WF_vars(Reclaim(v))

FairSpec == Spec /\ Fairness
-----------------------------------------------------------------------------
(* Properties.                                                             *)

\* "There must only ever be one procnfsnode instance (and hence one vnode)
\* for each (node_mnt_id, node_id) combination" (procfs.h): the lock is
\* dropped to allocate, to create and to get the vnode, and no interleaving
\* of these gaps puts a second node for an id into the hash table.
UniqueNode ==
    \A m, n \in hash : nodeKey[m] = nodeKey[n] => m = n

\* A thread that has procfsnode_find's results, or is about to get them, has
\* the node and the vnode of the id it asked for, linked to each other, hashed
\* and not being reclaimed: an iocount protects the pfsnode until vnode_put.
ResultIsCurrent ==
    \A t \in Threads :
        pc[t] \in {"finish", "using"} /\ error[t] = "none" =>
            /\ target[t] \in hash \cap heap
            /\ nodeKey[target[t]] = want[t]
            /\ nodeVnode[target[t]] = tvnode[t]
            /\ ~attaching[target[t]]
            /\ vstate[tvnode[t]] = "live"
            /\ fsnode[tvnode[t]] = target[t]
            /\ fsref[tvnode[t]]

\* The node a thread attaches a vnode to while it does not hold the lock
\* stays in the hash table, marked as being attached, under its id, and no
\* other thread attaches to it.
AttachIsExclusive ==
    \A t \in Threads :
        pc[t] \in {"create", "attach"} =>
            /\ target[t] \in hash \cap heap
            /\ nodeKey[target[t]] = want[t]
            /\ attaching[target[t]]
            /\ nodeVnode[target[t]] = NULL
            /\ \A u \in Threads \ {t} :
                  pc[u] \in {"create", "attach"} => target[u] # target[t]

\* No lost wakeup: a thread sleeps only on a hashed node whose waiting flag is
\* set and to which some thread is attaching a vnode, which will wake it.
SleeperIsWoken ==
    \A t \in Threads :
        pc[t] = "sleep" =>
            /\ target[t] \in hash
            /\ waiting[target[t]]
            /\ \E u \in Threads : pc[u] \in {"create", "attach"} /\ target[u] = target[t]

\* Between critical sections a hashed node that is not being attached is
\* linked, both ways, to a vnode that procfs_vnop_reclaim has not seen yet and
\* that has the file system reference reclaim is going to drop.
HashedNodeHasVnode ==
    \A n \in hash :
        ~attaching[n] =>
            /\ nodeVnode[n] # NULL
            /\ vstate[nodeVnode[n]] \in {"live", "dying"}
            /\ fsnode[nodeVnode[n]] = n
            /\ fsref[nodeVnode[n]]

\* OSFree at the end of procfsnode_find gets memory that is allocated, that
\* is not in the hash table and that no other thread refers to.  (A pointer at
\* the top of the loop or before vnode_getwithvid may dangle: it is not used.)
FreeIsSafe ==
    \A t \in Threads :
        new[t] # NULL /\ new[t] # target[t] =>
            /\ new[t] \in heap \ hash
            /\ \A u \in Threads \ {t} :
                  /\ new[u] # new[t]
                  /\ pc[u] \notin {"top", "malloc", "getvid"} => target[u] # new[t]

\* Reclaim frees the pfsnode of the vnode exactly once: the node a vnode being
\* terminated points to is still hashed and is the vnode's own.
ReclaimIsSafe ==
    \A v \in Vnodes :
        vstate[v] = "dying" =>
            /\ fsnode[v] \in hash \cap heap
            /\ nodeVnode[fsnode[v]] = v
            /\ ~attaching[fsnode[v]]

\* "Newly allocated node. Will be freed if not used" (the comment on
\* new_pfsnode): every allocated pfsnode is in the hash table or is the
\* new_pfsnode of a running call.
NoLeak ==
    \A n \in heap : n \in hash \/ \E t \in Threads : new[t] = n

\* A sleeping thread is woken, whether the attach succeeds or fails and
\* whatever becomes of the node it sleeps on.  Once no new calls come in, every
\* running call returns: no thread waits for another forever, and none retries
\* forever on a vnode that is being reclaimed.  (While calls keep coming, a
\* thread that is woken can find the next attach in progress each time; nothing
\* in the code prevents that.)
FindReturns ==
    /\ \A t \in Threads : pc[t] = "sleep" ~> pc[t] # "sleep"
    /\ <>[][\A t \in Threads : ~Call(t)]_vars
         => \A t \in Threads : pc[t] \notin {"idle", "using"} ~> pc[t] \in {"idle", "using"}

-----------------------------------------------------------------------------
(* Refinement.                                                             *)

\* The incarnation of the vnode that the hash table holds for an id.
BoundVnode(k) ==
    LET linked == {n \in Matches(k) : nodeVnode[n] # NULL} IN
    IF linked = {} THEN NULL
    ELSE LET v == nodeVnode[CHOOSE n \in linked : TRUE] IN <<v, vid[v]>>

Table == INSTANCE NodeTable WITH
    Incarnations <- Vnodes \X (0 .. MaxVid),
    bound <- [k \in Keys |-> BoundVnode(k)],
    call <- want,
    hold <- [t \in Threads |->
                IF pc[t] \in {"finish", "using"} /\ error[t] = "none"
                THEN <<tvnode[t], vid[tvnode[t]]>> ELSE NULL]

\* The hash table protocol implements the table that binds an id to one vnode
\* incarnation at a time: a call linearises where node_vnode is set under the
\* lock, or where vnode_getwithvid succeeds without it.
ImplementsTable == Table!Spec
=============================================================================
