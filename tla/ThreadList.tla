----------------------------- MODULE ThreadList -----------------------------
(***************************************************************************)
(* The list of the threads of a process, for the task directory, for       *)
(* status and for sizes (procfs_get_thread_ids_for_task and                *)
(* procfs_release_thread_ids).  p_uthlist is walked twice without its      *)
(* lock, to count and to collect, while threads are made and exit.         *)
(*                                                                         *)
(* A thread is the address of its uthread; its struct thread, with the id, *)
(* is the memory just below.  A uthread that left the list keeps its link  *)
(* as long as its memory is left alone; the memory of either can be        *)
(* unmapped, which procfs_kptr_ok notices, or used for something else,     *)
(* after which the link is any address.                                    *)
(***************************************************************************)
EXTENDS Integers, Sequences, FiniteSets, SequencesExt

CONSTANTS
    MaxUthreads,    \* bound: the number of addresses that uthreads have
    MaxChanges,     \* bound: threads made, threads exited, memory reused in a call
    MAX_THREADS     \* PROCFS_MAX_THREADS, scaled down

NULL == 0

Uthreads == 1..MaxUthreads

\* The list of k threads.  Addresses are only compared for equality, and
\* between calls nothing has one: the threads are numbered in their order.
InOrder(k) == [i \in 1..k |-> i]

VARIABLES
    p_uthlist,      \* the threads, in the order in which they were made
    uu_list,        \* the link of each uthread
    mapped,         \* uthreads whose memory is mapped
    thread_mapped,  \* uthreads whose struct thread is mapped
    pc,             \* "idle", "count", "alloc", "collect" or "done"
    uth,            \* where the walk is
    count, ids,     \* of the first pass, of the second
    room,           \* ids that memory is allocated for, -1 if it is not
    kept,           \* threads that are there since the walk began
    gone,           \* threads that exited since then
    reused,         \* BOOLEAN: memory of one of them was unmapped or used again
    changes         \* what happened since then, up to MaxChanges

walkVars == <<pc, uth, count, ids, room>>
memoryVars == <<uu_list, mapped, thread_mapped>>
vars == <<p_uthlist, memoryVars, walkVars, kept, gone, reused, changes>>

\* Each uthread of the list l is linked to the next one.
Links(l) ==
    [a \in Uthreads |-> IF \E i \in 1..Len(l) - 1 : l[i] = a
                        THEN l[1 + CHOOSE i \in DOMAIN l : l[i] = a] ELSE NULL]

TAILQ_FIRST == IF p_uthlist = <<>> THEN NULL ELSE Head(p_uthlist)

Init ==
    /\ \E k \in 0..MaxUthreads : p_uthlist = InOrder(k)
    /\ uu_list = Links(p_uthlist)
    /\ mapped = Uthreads /\ thread_mapped = Uthreads
    /\ pc = "idle" /\ uth = NULL /\ count = 0 /\ ids = <<>> /\ room = -1
    /\ kept = {} /\ gone = {} /\ reused = FALSE /\ changes = 0

-----------------------------------------------------------------------------
(* The two passes                                                          *)

\* Without the size of struct thread (procfs_thread_size_init) there is no list.
Start ==
    /\ pc = "idle"
    /\ pc' \in {"count", "done"} /\ uth' = TAILQ_FIRST
    /\ kept' = Range(p_uthlist) /\ gone' = {} /\ reused' = FALSE /\ changes' = 0
    /\ UNCHANGED <<p_uthlist, memoryVars, count, ids, room>>

procfs_kptr_ok(a, mem) == a \in mem

Count ==
    /\ pc = "count"
    /\ IF uth # NULL /\ count < MAX_THREADS /\ procfs_kptr_ok(uth, mapped)
       THEN count' = count + 1 /\ uth' = uu_list[uth] /\ UNCHANGED pc
       ELSE pc' = (IF count = 0 THEN "done" ELSE "alloc") /\ UNCHANGED <<count, uth>>
    /\ UNCHANGED <<p_uthlist, memoryVars, ids, room, kept, gone, reused, changes>>

\* OSMalloc; without memory there is no list.
Alloc ==
    /\ pc = "alloc"
    /\ \/ pc' = "collect" /\ room' = count /\ uth' = TAILQ_FIRST /\ UNCHANGED count
       \/ pc' = "done" /\ count' = 0 /\ UNCHANGED <<uth, room>>
    /\ UNCHANGED <<p_uthlist, memoryVars, ids, kept, gone, reused, changes>>

\* Mutant of Room: the array is taken to be full one thread too early.
MutRoom == Len(ids) + 1 < count

\* There is room for another id.
Room == Len(ids) < count

\* A uthread without its struct thread is passed over and takes no room.
Collect ==
    /\ pc = "collect"
    /\ IF uth # NULL /\ Room /\ procfs_kptr_ok(uth, mapped)
       THEN /\ ids' = IF procfs_kptr_ok(uth, thread_mapped) THEN Append(ids, uth) ELSE ids
            /\ uth' = uu_list[uth] /\ UNCHANGED pc
       ELSE pc' = "done" /\ UNCHANGED <<ids, uth>>
    /\ UNCHANGED <<p_uthlist, memoryVars, count, room, kept, gone, reused, changes>>

\* The ids are used and procfs_release_thread_ids frees the memory of Len(ids)
\* of them.  What memory of exited threads has in it no longer matters.
Release ==
    /\ pc = "done"
    /\ pc' = "idle" /\ uth' = NULL /\ count' = 0 /\ ids' = <<>> /\ room' = -1
    /\ kept' = {} /\ gone' = {} /\ reused' = FALSE /\ changes' = 0
    /\ p_uthlist' = InOrder(Len(p_uthlist))
    /\ uu_list' = Links(InOrder(Len(p_uthlist)))
    /\ mapped' = Uthreads /\ thread_mapped' = Uthreads

-----------------------------------------------------------------------------
(* The threads, during a call: Init has every list that one can begin with *)

Change ==
    /\ pc \in {"count", "alloc", "collect"}
    /\ changes < MaxChanges /\ changes' = changes + 1

\* TAILQ_INSERT_TAIL of a new thread, in memory that may have been one before
Create ==
    /\ Change
    /\ \E a \in Uthreads \ Range(p_uthlist) :
        /\ p_uthlist' = Append(p_uthlist, a)
        /\ uu_list' = [x \in Uthreads |-> IF x = a THEN NULL
                                          ELSE IF p_uthlist # <<>> /\ x = Last(p_uthlist) THEN a
                                          ELSE uu_list[x]]
        /\ mapped' = mapped \cup {a} /\ thread_mapped' = thread_mapped \cup {a}
        /\ reused' = (reused \/ a \in gone)
        /\ UNCHANGED <<walkVars, kept, gone>>

\* TAILQ_REMOVE; the uthread keeps its link
Exit ==
    /\ Change
    /\ \E a \in Range(p_uthlist) :
        /\ p_uthlist' = SelectSeq(p_uthlist, LAMBDA x : x # a)
        /\ uu_list' = [x \in Uthreads |-> IF Contains(p_uthlist, x) /\ uu_list[x] = a
                                          THEN uu_list[a] ELSE uu_list[x]]
        /\ kept' = kept \ {a} /\ gone' = gone \cup {a}
        /\ UNCHANGED <<mapped, thread_mapped, walkVars, reused>>

\* Memory of a thread that exited is unmapped or used for something else.
Reuse ==
    /\ Change
    /\ \E a \in gone \ Range(p_uthlist) :
        /\ \/ mapped' = mapped \ {a} /\ UNCHANGED <<uu_list, thread_mapped>>
           \/ thread_mapped' = thread_mapped \ {a} /\ UNCHANGED <<uu_list, mapped>>
           \/ /\ \E x \in Uthreads \cup {NULL} : uu_list' = [uu_list EXCEPT ![a] = x]
              /\ UNCHANGED <<mapped, thread_mapped>>
        /\ reused' = TRUE
        /\ UNCHANGED <<p_uthlist, walkVars, kept, gone>>

Pass == Count \/ Alloc \/ Collect

Next == Start \/ Pass \/ Release \/ Create \/ Exit \/ Reuse

Spec == Init /\ [][Next]_vars /\ WF_vars(Pass)

-----------------------------------------------------------------------------
(* Properties                                                              *)

\* The array is not overrun.  As long as the memory of exited threads is left
\* alone, each thread that stays is in the list, although threads are made and
\* exit between the passes and in them; and if none exits, it is there once and
\* the memory that is freed is the memory that was allocated.
ThreadsListed ==
    /\ room # -1 => Len(ids) <= room
    /\ (pc = "done" /\ room # -1 /\ ~reused /\ count < MAX_THREADS) =>
          /\ \A a \in kept : \E i \in DOMAIN ids : ids[i] = a
          /\ gone = {} => IsInjective(ids) /\ Len(ids) = room

\* A circle of uthreads that are passed over, in memory that was used again.
Circle ==
    \E as \in (SUBSET (mapped \ thread_mapped)) \ {{}} : \A a \in as : uu_list[a] \in as

\* Both passes end, whatever the links lead to: the first visits at most
\* MAX_THREADS, the second ends with the room for ids.  What takes no room is
\* not counted, so the second pass can go round in a Circle.
PassesEnd == pc \in {"count", "alloc", "collect"} ~> (pc = "done" \/ Circle)

=============================================================================
