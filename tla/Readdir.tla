------------------------------ MODULE Readdir -------------------------------
(***************************************************************************)
(* Reading a procfs directory with a sequence of VNOP_READDIR calls        *)
(* (kext/procfs_vnops.c), while the processes, threads, descriptors or     *)
(* sysctl nodes that the directory lists come and go.                      *)
(*                                                                         *)
(* A position in a directory is the number of bytes of the entries before  *)
(* it.  Every call starts at the first entry and copies out those at or    *)
(* after the offset that the previous call left behind.  Entries are       *)
(* numbers: 1 .. NFixed are the children of the structure node with names  *)
(* of their own, the others are the items that its last child stands for,  *)
(* in the order in which the kernel lists them.  Of a name only its length *)
(* counts.                                                                 *)
(***************************************************************************)
EXTENDS Integers, Sequences, FiniteSets, Functions

CONSTANTS
    Kinds,          \* the kinds of directory that are read
    FixedLens,      \* lengths of the names of the fixed entries
    NItems,         \* items that can exist
    NameLens,       \* lengths of the items' names
    Buffers,        \* sizes of the caller's buffer
    MaxList,        \* PROCFS_MAX_PROCS, PROCFS_MAX_THREADS
    MaxChanges      \* bound: changes of the directory during the read

\* sizeof(struct direntry) - sizeof(d_name)
DirentHeader == 24

\* The name of n bytes, its NUL included, is padded to a multiple of 8.
calc_dirent_size(n) == DirentHeader + ((n + 1 + 7) \div 8) * 8

NFixed == Len(FixedLens)
Fixed == 1 .. NFixed
Items == (NFixed + 1) .. (NFixed + NItems)

\* A buffer takes any one entry.
ASSUME BufferAssumption ==
    /\ FixedLens \in Seq(Nat) /\ NItems \in Nat /\ MaxList \in Nat /\ MaxChanges \in Nat
    /\ NameLens \subseteq Nat /\ Buffers \subseteq Nat
    /\ \A b \in Buffers, n \in NameLens \cup Range(FixedLens) : calc_dirent_size(n) <= b

\* "proc" is the root, "procname" is /proc/byname, "thread" and "fd" are those
\* directories of a process, "pid" a directory of a process with fixed entries
\* only, and "sysctl" a directory below /proc/sys.
ASSUME KindAssumption ==
    Kinds \subseteq {"proc", "procname", "thread", "fd", "pid", "sysctl"}

VARIABLES
    kind,           \* of the directory that is read
    checked,        \* check_access, where the directory has a process
    owner,          \* the directory's process, for the kinds that have one:
                    \* "accessible" to the caller, "private" or "gone"
    alive,          \* items that exist and that the caller may see
    len,            \* length of each item's name
    changes,        \* number of changes so far
    initial,        \* items that existed when the read began
    shrunk,         \* an item, or the access to the process, went away, or an
                    \* item got a shorter name
    grown,          \* an item, or the access, was added or got a longer name
    admitted,       \* access that was refused was given later in the read
    torn,           \* a sysctl node was added or removed in the middle of a call
    phase,          \* where the call is, "idle" between calls
    offset,         \* startpos: what the previous call set
    nextpos,
    resid,          \* uio_resid
    i,              \* the loop's index, over the fixed entries or over the list
    list,           \* the items found, in order
    cursor,         \* pid that procfs_get_pids looks at, bound of the other lists
    copied,         \* numentries
    returned,       \* entries that the caller has received
    finished,       \* the caller is done
    failed          \* a call failed, or had no memory for its list

dirVars == <<alive, len, owner, changes, shrunk, grown, admitted, torn>>
callVars == <<phase, offset, nextpos, resid, i, list, cursor, copied, returned,
              finished, failed>>
vars == <<kind, checked, initial, dirVars, callVars>>

HasOwner == kind \in {"thread", "fd", "pid"}

\* procfs_check_can_access_proc_pid refuses: the entry is passed over.
Denied == checked /\ HasOwner /\ owner # "accessible"

Init ==
    /\ kind \in Kinds
    /\ checked \in BOOLEAN
    /\ owner \in {"accessible", "private"}
    /\ ~HasOwner => ~checked
    /\ ~checked => owner = "accessible"     \* access does not matter
    /\ alive \in SUBSET Items
    /\ kind = "pid" => alive = {}
    /\ initial = alive
    /\ len \in [Items -> NameLens]
    /\ changes = 0 /\ shrunk = FALSE /\ grown = FALSE /\ admitted = FALSE /\ torn = FALSE
    /\ phase = "idle"
    /\ offset = 0 /\ nextpos = 0 /\ resid = 0 /\ i = 0 /\ cursor = 0 /\ copied = 0
    /\ list = <<>> /\ returned = <<>>
    /\ finished = FALSE /\ failed = FALSE

Size(e) == calc_dirent_size(IF e \in Fixed THEN FixedLens[e] ELSE len[e])

\* The elements of a set of numbers from the least to the greatest.
InOrder(S) ==
    CHOOSE s \in [1 .. Cardinality(S) -> S] :
        Range(s) = S /\ \A a, b \in 1 .. Cardinality(S) : a < b => s[a] < s[b]

-----------------------------------------------------------------------------
(* The directory changes                                                   *)

Change ==
    /\ ~finished
    /\ changes < MaxChanges
    /\ changes' = changes + 1
    /\ torn' = (torn \/ (kind = "sysctl" /\ phase = "items"))
    /\ UNCHANGED <<kind, checked, initial, callVars>>

\* A thread is added at the end of p_uthlist; pids, descriptors and sysctl
\* nodes are added anywhere.
ItemComes ==
    /\ Change
    /\ kind # "pid"
    /\ \E e \in Items \ alive :
        /\ kind = "thread" => \A d \in alive \cup initial : d < e
        /\ alive' = alive \cup {e}
    /\ grown' = TRUE
    /\ UNCHANGED <<len, owner, shrunk, admitted>>

ItemGoes ==
    /\ Change
    /\ \E e \in alive : alive' = alive \ {e}
    /\ shrunk' = TRUE
    /\ UNCHANGED <<len, owner, grown, admitted>>

\* exec gives a process another name, which /proc/byname shows.
Rename ==
    /\ Change
    /\ kind = "procname"
    /\ \E e \in alive, n \in NameLens :
        /\ n # len[e]
        /\ len' = [len EXCEPT ![e] = n]
        /\ shrunk' = (shrunk \/ n < len[e])
        /\ grown' = (grown \/ n > len[e])
    /\ UNCHANGED <<alive, owner, admitted>>

OwnerExits ==
    /\ Change
    /\ HasOwner /\ owner # "gone"
    /\ owner' = "gone"
    /\ shrunk' = TRUE
    /\ UNCHANGED <<alive, len, grown, admitted>>

\* The credentials of the process change, or its pid is given to another one,
\* which may have items of the same names.
OwnerChanges ==
    /\ Change
    /\ HasOwner
    /\ owner' \in (IF checked THEN {"accessible", "private"} ELSE {"accessible"}) \ {owner}
    /\ shrunk' = (shrunk \/ Denied')
    /\ grown' = (grown \/ ~Denied')
    /\ admitted' = (admitted \/ (Denied /\ ~Denied'))
    /\ UNCHANGED <<alive, len>>

-----------------------------------------------------------------------------
(* A call of procfs_vnop_readdir or procfs_sysctl_readdir                  *)

BeginCall ==
    /\ phase = "idle" /\ ~finished
    /\ resid' \in Buffers
    /\ phase' = "walk" /\ nextpos' = 0 /\ i' = 1 /\ copied' = 0 /\ list' = <<>> /\ cursor' = 0
    /\ UNCHANGED <<kind, checked, initial, dirVars, offset, returned, finished, failed>>

NextOffset == nextpos

\* The caller goes on until a call reports the end, fails or returns nothing.
EndCall(eof, error) ==
    /\ phase' = "idle"
    /\ offset' = NextOffset
    /\ finished' = (eof \/ error \/ copied = 0)
    /\ failed' = (failed \/ error)
    /\ UNCHANGED <<kind, checked, initial, dirVars, nextpos, resid, i, list, cursor, copied,
                   returned>>

\* Children of the structure node.
Children == IF kind = "pid" THEN NFixed ELSE NFixed + 1

Walking == phase = "walk" /\ i <= Children /\ (resid > 0 \/ kind = "sysctl")

\* Mutant of Hide: the loop continues without moving on to the next child.
MutHide == Walking /\ Denied /\ UNCHANGED vars

Hide ==
    /\ Walking /\ Denied
    /\ i' = i + 1
    /\ UNCHANGED <<kind, checked, initial, dirVars, phase, offset, nextpos, resid, list, cursor,
                   copied, returned, finished, failed>>

\* The items: procfs_sysctl_child_at looks at the sysctl nodes as they are now.
Listing == IF kind = "sysctl" THEN InOrder(alive) ELSE list

\* The loop is at entry e.  /proc/byname needs the process once more for its
\* name.
AtEntry(e) ==
    \/ Walking /\ ~Denied /\ i <= NFixed /\ e = i
    \/ /\ phase = "items" /\ i <= Len(Listing) /\ e = Listing[i]
       /\ kind = "procname" => e \in alive
       /\ kind = "sysctl" => resid > 0

\* Mutant of Reached: an entry that begins at the offset is taken as read.
MutReached == nextpos > offset

\* Mutant of Reached: entries are copied whatever the offset.
MutReachedAlways == TRUE

Reached == nextpos >= offset

\* procfs_copyout_dirent has space for the whole entry.
Fits(e) == Size(e) <= resid

Skip ==
    /\ \E e \in Fixed \cup Items :
        AtEntry(e) /\ ~Reached /\ nextpos' = nextpos + Size(e)
    /\ i' = i + 1
    /\ UNCHANGED <<kind, checked, initial, dirVars, phase, offset, resid, list, cursor, copied,
                   returned, finished, failed>>

Copy ==
    /\ \E e \in Fixed \cup Items :
        /\ AtEntry(e) /\ Reached /\ Fits(e)
        /\ nextpos' = nextpos + Size(e)
        /\ resid' = resid - Size(e)
        /\ returned' = Append(returned, e)
    /\ i' = i + 1
    /\ copied' = copied + 1
    /\ UNCHANGED <<kind, checked, initial, dirVars, phase, offset, list, cursor, finished,
                   failed>>

CopyFails ==
    /\ \E e \in Fixed \cup Items : AtEntry(e) /\ Reached /\ Fits(e)
    /\ EndCall(FALSE, TRUE)

\* Mutant of EofWhenFull: the flag is set whenever the loop ends.
MutEofWhenFull == TRUE

\* snode, or more, still says that there are entries.
EofWhenFull == FALSE

\* The entry does not fit.
Full ==
    /\ \E e \in Fixed \cup Items : AtEntry(e) /\ Reached /\ ~Fits(e)
    /\ EndCall(EofWhenFull, FALSE)

\* The buffer is used up to the last byte.
UsedUp ==
    /\ resid = 0
    /\ \/ phase = "walk" /\ i <= Children /\ kind # "sysctl"
       \/ phase = "items" /\ kind = "sysctl"
    /\ EndCall(EofWhenFull, FALSE)

\* All children were handled.
WalkEnds ==
    /\ phase = "walk" /\ i > Children
    /\ EndCall(TRUE, FALSE)

\* The child that stands for the items.
AtItems == Walking /\ ~Denied /\ i = NFixed + 1

ReachItems ==
    /\ AtItems
    /\ HasOwner => owner # "gone"
    /\ phase' = (CASE kind \in {"proc", "procname"} -> "enum"
                   [] kind \in {"thread", "fd"} -> "count"
                   [] kind = "sysctl" -> "items")
    /\ i' = 1
    /\ cursor' = NFixed + 1
    /\ UNCHANGED <<kind, checked, initial, dirVars, offset, nextpos, resid, list, copied,
                   returned, finished, failed>>

\* ENOENT
OwnerMissing ==
    /\ AtItems
    /\ HasOwner /\ owner = "gone"
    /\ EndCall(FALSE, TRUE)

\* procfs_get_pids asks for one pid after the other.
GetPid ==
    /\ phase = "enum" /\ cursor \in Items /\ Len(list) < MaxList
    /\ list' = IF cursor \in alive THEN Append(list, cursor) ELSE list
    /\ cursor' = cursor + 1
    /\ UNCHANGED <<kind, checked, initial, dirVars, phase, offset, nextpos, resid, i, copied,
                   returned, finished, failed>>

GotPids ==
    /\ phase = "enum" /\ (cursor \notin Items \/ Len(list) = MaxList)
    /\ phase' = "items"
    /\ UNCHANGED <<kind, checked, initial, dirVars, offset, nextpos, resid, i, list, cursor,
                   copied, returned, finished, failed>>

\* The first pass over the threads counts them; proc_fdlist without a buffer
\* returns the number of the last descriptor in use.
ListBound ==
    IF kind = "thread" THEN Len(InOrder(alive))
    ELSE IF alive = {} THEN 0 ELSE InOrder(alive)[Len(InOrder(alive))] - NFixed

CountItems ==
    /\ phase = "count"
    /\ phase' = "collect"
    /\ cursor' = IF kind = "thread" /\ ListBound > MaxList THEN MaxList ELSE ListBound
    /\ UNCHANGED <<kind, checked, initial, dirVars, offset, nextpos, resid, i, list, copied,
                   returned, finished, failed>>

\* The second pass takes at most as many.
CollectItems ==
    /\ phase = "collect"
    /\ phase' = "items"
    /\ LET found == InOrder(alive)
       IN  list' = SubSeq(found, 1, IF Len(found) < cursor THEN Len(found) ELSE cursor)
    /\ UNCHANGED <<kind, checked, initial, dirVars, offset, nextpos, resid, i, cursor, copied,
                   returned, finished, failed>>

\* Without memory procfs_get_pids and procfs_get_fd_list leave an empty list,
\* as if there were no items; procfs_get_thread_ids_for_task fails.
ListFails ==
    /\ (phase = "enum" /\ cursor = NFixed + 1) \/ phase = "collect"
    /\ \/ kind = "thread" /\ EndCall(FALSE, TRUE)
       \/ /\ kind # "thread"
          /\ phase' = "items" /\ failed' = TRUE
          /\ UNCHANGED <<kind, checked, initial, dirVars, offset, nextpos, resid, i, list,
                         cursor, copied, returned, finished>>

\* The process is gone when /proc/byname needs its name.
Gone ==
    /\ phase = "items" /\ kind = "procname"
    /\ i <= Len(list) /\ list[i] \notin alive
    /\ i' = i + 1
    /\ UNCHANGED <<kind, checked, initial, dirVars, phase, offset, nextpos, resid, list, cursor,
                   copied, returned, finished, failed>>

\* All items were handled.  The loops over threads and descriptors leave snode
\* where it is, so that these directories never report their end.
ItemsEnd ==
    /\ phase = "items" /\ i > Len(Listing)
    /\ kind = "sysctl" => resid > 0
    /\ EndCall(kind \notin {"thread", "fd"}, FALSE)

-----------------------------------------------------------------------------
CallStep ==
    \/ BeginCall \/ Hide \/ Skip \/ Copy \/ CopyFails \/ Full \/ UsedUp \/ WalkEnds
    \/ ReachItems \/ OwnerMissing \/ GetPid \/ GotPids \/ CountItems \/ CollectItems
    \/ ListFails \/ Gone \/ ItemsEnd

DirStep == ItemComes \/ ItemGoes \/ Rename \/ OwnerExits \/ OwnerChanges

Next == CallStep \/ DirStep

Spec == Init /\ [][Next]_vars

\* The caller goes on reading and its calls make progress.
FairSpec == Spec /\ WF_vars(CallStep)

-----------------------------------------------------------------------------
Done == finished /\ ~failed

\* The fixed entries are returned exactly once and in order, in whatever pieces
\* the directory is read and whatever happens to the items meanwhile: this is
\* why the child that stands for the items has to be the last.  The access to
\* the directory's process, which is checked for every entry, may be lost but
\* not given meanwhile: entries that were hidden take no bytes, and what comes
\* after them is at their place.
FixedOnce ==
    ~admitted =>
        /\ \A k \in DOMAIN returned :
            IF k <= NFixed THEN returned[k] = k ELSE returned[k] \in Items
        /\ Done /\ ~Denied => Len(returned) >= NFixed

\* As long as nothing went away or became shorter, the entries that are yet to
\* come stay at or behind the offset: whatever existed when the read began is
\* returned, unless access was refused at first.  Below /proc/sys this also
\* takes that nothing is added in the middle of a call, which works on the
\* nodes themselves and not on a list.
NoSkipUnlessShrunk ==
    Done /\ ~shrunk /\ ~torn /\ ~Denied /\ ~admitted => initial \subseteq Range(returned)

\* As long as nothing was added or became longer, the entries that were returned
\* stay before the offset: none is returned twice.  Here too the nodes below
\* /proc/sys must stay during a call: when one that was copied goes, the next is
\* jumped over, not counted, and may be longer than the one that went.
NoRepeatUnlessGrown ==
    ~grown /\ ~torn => IsInjective(returned)

\* A caller with a buffer for one entry gets to the end of the directory, also
\* of the ones that never report their end.
ReadEnds == <>finished
=============================================================================
