----------------------------- MODULE NodeTable -----------------------------
(***************************************************************************)
(* What procfsnode_find promises its callers, without the hash table, the  *)
(* mutex, the memory and the sleeping: a table that binds an id to at most *)
(* one incarnation of a vnode.  A call either fails, or ends with a hold   *)
(* on the incarnation that is bound to the id at that moment, which it may *)
(* bind itself; a binding is dissolved only when nobody holds it.          *)
(***************************************************************************)
CONSTANTS
    Threads,        \* callers
    Keys,           \* (mount id, node id) combinations
    Incarnations,   \* vnode identities; a recycled vnode is a new one
    NULL

VARIABLES
    bound,  \* the incarnation that is bound to each key, or NULL
    call,   \* the key each thread asks for or holds, or NULL
    hold    \* the incarnation each thread holds, or NULL

vars == <<bound, call, hold>>

Init ==
    /\ bound = [k \in Keys |-> NULL]
    /\ call = [t \in Threads |-> NULL]
    /\ hold = [t \in Threads |-> NULL]

Pending(t) == call[t] # NULL /\ hold[t] = NULL

Request(t) ==
    /\ call[t] = NULL
    /\ \E k \in Keys : call' = [call EXCEPT ![t] = k]
    /\ UNCHANGED <<bound, hold>>

\* The id has no vnode: create one and hold it.
Bind(t) ==
    /\ Pending(t)
    /\ bound[call[t]] = NULL
    /\ \E i \in Incarnations :
          /\ \A k \in Keys : bound[k] # i
          /\ bound' = [bound EXCEPT ![call[t]] = i]
          /\ hold' = [hold EXCEPT ![t] = i]
    /\ UNCHANGED call

\* The id has a vnode: hold it.
Acquire(t) ==
    /\ Pending(t)
    /\ bound[call[t]] # NULL
    /\ hold' = [hold EXCEPT ![t] = bound[call[t]]]
    /\ UNCHANGED <<bound, call>>

\* The call fails, or a hold is released.
Leave(t) ==
    /\ call[t] # NULL
    /\ call' = [call EXCEPT ![t] = NULL]
    /\ hold' = [hold EXCEPT ![t] = NULL]
    /\ UNCHANGED bound

Unbind(k) ==
    /\ bound[k] # NULL
    /\ \A t \in Threads : hold[t] # bound[k]
    /\ bound' = [bound EXCEPT ![k] = NULL]
    /\ UNCHANGED <<call, hold>>

Next ==
    \/ \E t \in Threads : Request(t) \/ Bind(t) \/ Acquire(t) \/ Leave(t)
    \/ \E k \in Keys : Unbind(k)

Spec == Init /\ [][Next]_vars
=============================================================================
