------------------------------- MODULE FdList -------------------------------
(***************************************************************************)
(* The list of the descriptors of a process, for the fd directory and its  *)
(* size (procfs_get_fd_list, with proc_fdlist of lib/kern.c).  It is asked *)
(* for twice, each time under proc_fdlock: for the memory it needs and for *)
(* the descriptors.  The process opens and closes files in between.        *)
(***************************************************************************)
EXTENDS Integers, Sequences, FiniteSets, FiniteSetsExt

CONSTANT MaxFd      \* bound: descriptors are 0..MaxFd - 1

VARIABLES
    fd_ofiles,      \* each descriptor: "free", "reserved" (being opened) or "open"
    pc,             \* "idle", "alloc" or "done"
    capacity,       \* of the first call
    fds,            \* of the second call, in the order of the list
    kept            \* descriptors that are open since the first call

vars == <<fd_ofiles, pc, capacity, fds, kept>>

Fds == 0..MaxFd - 1

Init ==
    /\ fd_ofiles \in [Fds -> {"free", "reserved", "open"}]
    /\ pc = "idle" /\ capacity = 0 /\ fds = <<>> /\ kept = {}

Open == {fd \in Fds : fd_ofiles[fd] = "open"}

\* Mutant of Upper: the descriptors that are open now are counted.
MutUpper == Cardinality(Open)

\* fd_afterlast, the end of the part of the table that is in use.
Upper == Max({0} \cup {fd + 1 : fd \in {x \in Fds : fd_ofiles[x] # "free"}})

\* proc_fdlist without a buffer; nothing is to be listed if it gives 0.
Ask ==
    /\ pc = "idle"
    /\ capacity' = Upper /\ kept' = Open
    /\ pc' = IF Upper = 0 THEN "done" ELSE "alloc"
    /\ UNCHANGED <<fd_ofiles, fds>>

\* The open descriptors in their order, as many as there is room for.
Listed(room) ==
    SelectSeq([i \in 1..MaxFd |-> i - 1],
              LAMBDA fd : fd \in Open /\ Cardinality({x \in Open : x < fd}) < room)

\* There is memory, and the second call fills it; or there is none.
Fill ==
    /\ pc = "alloc" /\ pc' = "done"
    /\ fds' = Listed(capacity)
    /\ UNCHANGED <<fd_ofiles, capacity, kept>>

NoMemory ==
    /\ pc = "alloc" /\ pc' = "done"
    /\ kept' = {}
    /\ UNCHANGED <<fd_ofiles, capacity, fds>>

procfs_release_fd_list ==
    /\ pc = "done" /\ pc' = "idle"
    /\ capacity' = 0 /\ fds' = <<>> /\ kept' = {}
    /\ UNCHANGED fd_ofiles

\* The process opens a file, in two steps, or closes one.
Change ==
    \E fd \in Fds :
        /\ fd_ofiles' = [fd_ofiles EXCEPT ![fd] = CASE @ = "free" -> "reserved"
                                                    [] @ = "reserved" -> "open"
                                                    [] @ = "open" -> "free"]
        /\ kept' = kept \ {fd}
        /\ UNCHANGED <<pc, capacity, fds>>

Next == Ask \/ Fill \/ NoMemory \/ procfs_release_fd_list \/ Change

Spec == Init /\ [][Next]_vars

-----------------------------------------------------------------------------
\* The second call stays within the memory, and lists every descriptor that
\* stays open during both, however many are opened before it in the table: the
\* first call asks for the end of the table and not for the number of open
\* descriptors.
FdsListed ==
    pc = "done" => Len(fds) <= capacity /\ \A fd \in kept : \E i \in DOMAIN fds : fds[i] = fd

=============================================================================
