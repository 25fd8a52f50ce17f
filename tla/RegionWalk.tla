----------------------------- MODULE RegionWalk -----------------------------
(***************************************************************************)
(* The walk over the regions of a process (procfs_map_render for map and   *)
(* maps, procfs_task_vm_sizes for the sizes in stat, statm and taskinfo).  *)
(* Each region is asked for by itself, with mach_vm_region, and the        *)
(* process maps, unmaps, splits and joins regions between two calls.       *)
(*                                                                         *)
(* A line of the text is the region it shows; the string buffer is the     *)
(* text buffer of TextBuffer, which Sbuf implements.  mach_vm_region is    *)
(* external: it gives the first region that ends after the address.        *)
(***************************************************************************)
EXTENDS Integers, Sequences, FiniteSets, FiniteSetsExt

CONSTANTS
    Top,            \* bound: the number of pages of the address space
    MAX_REGIONS     \* PROCFS_MAP_MAX_REGIONS, scaled down

VARIABLES
    map,            \* the regions of the process, disjoint
    addr, n,        \* where the walk is, regions seen
    text, failed,   \* the string buffer
    vsize,          \* pages of the regions seen
    pc,             \* "idle", "walk" or "done"
    kept            \* regions that are there since the walk began

walkVars == <<addr, n, text, failed, vsize, pc>>
vars == <<map, walkVars, kept>>

Lines == INSTANCE TextBuffer WITH Pieces <- {}

Region == {r \in [start : 0..Top - 1, end : 1..Top] : r.start < r.end}

Meet(r, q) == r.start < q.end /\ q.start < r.end

Init ==
    /\ map \in {m \in SUBSET Region : \A r, q \in m : r # q => ~Meet(r, q)}
    /\ addr = 0 /\ n = 0 /\ vsize = 0 /\ Lines!Init
    /\ pc = "idle" /\ kept = {}

Start ==
    /\ pc = "idle"
    /\ pc' = "walk" /\ addr' = 0 /\ n' = 0 /\ vsize' = 0 /\ Lines!Clear
    /\ kept' = map
    /\ UNCHANGED map

mach_vm_region(a) ==
    LET after == {r \in map : r.end > a}
    IN  {r \in after : \A q \in after : r.start <= q.start}

\* Mutant of NextAddr: the walk goes on one page after the start.
MutNextAddr(r) == (r.start + 1) % Top

\* addr + size, which is 0 at the end of the address space.
NextAddr(r) == r.end % Top

\* The address wrapped.
Ended(next, r) == next <= r.start

Visit ==
    /\ pc = "walk" /\ n < MAX_REGIONS
    /\ \E r \in mach_vm_region(addr) :
          /\ failed \/ Lines!Append_(<<r>>) \/ Lines!Refuse
          /\ failed => UNCHANGED <<text, failed>>
          /\ vsize' = vsize + (r.end - r.start)
          /\ IF Ended(NextAddr(r), r)
             THEN pc' = "done" /\ UNCHANGED <<addr, n>>
             ELSE addr' = NextAddr(r) /\ n' = n + 1 /\ UNCHANGED pc
    /\ UNCHANGED <<map, kept>>

\* No region is left, or the limit is reached.
Finish ==
    /\ pc = "walk"
    /\ mach_vm_region(addr) = {} \/ n = MAX_REGIONS
    /\ pc' = "done"
    /\ UNCHANGED <<map, addr, n, text, failed, vsize, kept>>

\* The text is copied out and the buffer deleted.
Return ==
    /\ pc = "done"
    /\ pc' = "idle" /\ addr' = 0 /\ n' = 0 /\ vsize' = 0 /\ Lines!Clear
    /\ kept' = {}
    /\ UNCHANGED map

-----------------------------------------------------------------------------
(* The process                                                             *)

Remap(m) == map' = m /\ kept' = kept \cap m /\ UNCHANGED walkVars

Allocate ==
    \E r \in Region : (\A q \in map : ~Meet(r, q)) /\ Remap(map \cup {r})

Deallocate == \E r \in map : Remap(map \ {r})

\* A part of a region gets other attributes.
Clip ==
    \E r \in map, a \in 1..Top - 1 :
        /\ r.start < a /\ a < r.end
        /\ Remap((map \ {r}) \cup {[r EXCEPT !.end = a], [r EXCEPT !.start = a]})

\* Neighbours with the same attributes become one.
Simplify ==
    \E r, q \in map :
        /\ r.end = q.start
        /\ Remap((map \ {r, q}) \cup {[start |-> r.start, end |-> q.end]})

Walk == Start \/ Visit \/ Finish \/ Return
Process == Allocate \/ Deallocate \/ Clip \/ Simplify

Next == Walk \/ Process

Spec == Init /\ [][Next]_vars /\ WF_vars(Visit \/ Finish)

-----------------------------------------------------------------------------
(* Properties                                                              *)

\* A region that stays as it is during the walk has a line, whatever is mapped,
\* unmapped, split and joined around it; the ends of the lines increase, so it
\* has one line only, and its size is counted.  Lines are missing at the end of
\* the text when memory for it ran out or there are more regions than the limit.
StayingListed ==
    /\ \A i, j \in DOMAIN text : i < j => text[i].end < text[j].end
    /\ (pc = "done" /\ n < MAX_REGIONS) =>
          /\ ~failed => \A r \in kept : \E i \in DOMAIN text : text[i] = r
          /\ vsize >= FoldSet(LAMBDA r, sum : sum + r.end - r.start, 0, kept)

\* The walk ends although the regions change all the time.
WalkEnds == pc = "walk" ~> pc = "done"

=============================================================================
