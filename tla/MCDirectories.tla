--------------------------- MODULE MCDirectories ---------------------------
(***************************************************************************)
(* The two sides of a procfs directory, for TLC: reading it in several     *)
(* calls (Readdir), and the names and node ids in it (Lookup).  They share *)
(* no state, so a behaviour is one of the two, chosen at the start; the    *)
(* variables of the other stay as they are.                                *)
(***************************************************************************)
EXTENDS Readdir, StructureTree

CONSTANTS
    Pids, Tids, Fds, Comms, Current, OddNames, IntMod,
    MaxProcChanges      \* bound: changes of the processes

VARIABLES
    side,               \* "read" or "walk"
    procs, mine, comm, tids, fds, checks, trail, procChanges

L == INSTANCE Lookup WITH checked <- checks, changes <- procChanges,
                          MaxChanges <- MaxProcChanges

readVars == vars
walkVars == <<procs, mine, comm, tids, fds, checks, trail, procChanges>>

AllKinds == {"proc", "procname", "thread", "fd", "pid", "sysctl"}

\* A short name and one that takes 8 bytes more, as ".." and "partitions".
TwoLens == <<2, 10>>
OneLen == <<1>>

\* Names as in Lookup!Spelled.
Digits(zeros, num, tail) == [text |-> "", zeros |-> zeros, num |-> num, tail |-> tail]
Text(text) == [text |-> text, zeros |-> 0, num |-> -1, tail |-> ""]

\* Numbers that are no id, other spellings of numbers that may be, an id with
\* another command's name, no name at all.
AnyNames ==
    {Digits(0, 77, ""), Digits(1, 1, ""), Digits(1, 5, ""),
     Digits(0, IntMod + 1, ""), Digits(0, IntMod + 300, ""), Digits(0, IntMod - 1, ""),
     Digits(0, 1, "x"), Digits(0, 300, "sh"), Digits(0, 300, "zsh"), Digits(1, 300, "sh"),
     Text("nothing")}

\* The names of the nodes that stand for processes, threads and descriptors.
Placeholders == {Text("__Process__"), Text("__Thread__"), Text("__File__")}

NotRead ==
    /\ kind = "pid" /\ checked = FALSE /\ owner = "gone" /\ alive = {} /\ initial = {}
    /\ len = <<>> /\ changes = 0 /\ shrunk = FALSE /\ grown = FALSE /\ admitted = FALSE
    /\ torn = FALSE /\ phase = "off" /\ offset = 0 /\ nextpos = 0 /\ resid = 0 /\ i = 0
    /\ cursor = 0 /\ copied = 0 /\ list = <<>> /\ returned = <<>> /\ finished = FALSE
    /\ failed = FALSE

NotWalked ==
    /\ procs = {} /\ mine = {} /\ comm = <<>> /\ tids = <<>> /\ fds = <<>>
    /\ checks = FALSE /\ trail = <<>> /\ procChanges = 0

DirectoriesInit ==
    \/ side = "read" /\ Init /\ NotWalked
    \/ side = "walk" /\ NotRead /\ L!Init

ReadOnly == side = "read" /\ UNCHANGED <<side, walkVars>>
WalkOnly == side = "walk" /\ UNCHANGED <<side, readVars>>

DirectoriesNext ==
    \/ ReadOnly /\ Next
    \/ WalkOnly /\ L!Next

\* As in Readdir!FairSpec, the caller goes on reading.
DirectoriesSpec ==
    /\ DirectoriesInit /\ [][DirectoriesNext]_<<side, readVars, walkVars>>
    /\ WF_<<side, readVars, walkVars>>(ReadOnly /\ CallStep)

-----------------------------------------------------------------------------
\* Readdir!ReadEnds: who reads a directory gets to its end.
DirectoryEnds == side = "read" ~> finished

\* Lookup!ListedIsFound: what readdir lists, lookup finds.
ListedIsFound == side = "walk" => L!ListedIsFound

\* Lookup!FoundIsListed: what lookup finds under any spelling, readdir lists.
FoundIsListed == side = "walk" => L!FoundIsListed

\* Lookup!LinksLead: the links to processes lead to their directories.
LinksLead == side = "walk" => L!LinksLead

\* Lookup!DotDotIsParent: ".." leads back, to a directory that is in the cache.
DotDotIsParent == side = "walk" => L!DotDotIsParent

\* Lookup!ProcessNodesHavePid: nodes of a process have a pid.
ProcessNodesHavePid == side = "walk" => L!ProcessNodesHavePid

\* Lookup!DirentTypesMatch: the types of entries are those of the vnodes.
DirentTypesMatch == side = "walk" => L!DirentTypesMatch
=============================================================================
