------------------------------- MODULE Lookup -------------------------------
(***************************************************************************)
(* Names and node ids: looking a name up in a procfs directory, listing    *)
(* the directory, getting the attributes and the link target of what was   *)
(* found (kext/procfs_vnops.c, procfs_structure.c, procfs_subr.c,          *)
(* procfs_sysctl.c), while processes come and go.                          *)
(*                                                                         *)
(* A caller walks through the file system one component at a time.  A node *)
(* id is the structure node's base id with a pid and an object id.  A name *)
(* is a literal text, or a decimal number, written with any number of      *)
(* leading zeros, followed by a tail.  What a lookup finds is looked up in *)
(* the node cache (NodeCache) under its id, so the id stands for the node. *)
(***************************************************************************)
EXTENDS Integers, Sequences, FiniteSets, SequencesExt, StructureTree

CONSTANTS
    Pids, Tids, Fds,    \* ids that processes, threads and descriptors can have: they
                        \* fit an int, and pids are at most PROCFS_MAX_PID (99999)
    Comms,              \* names of commands, not ""
    Current,            \* the caller's process
    OddNames,           \* names that the caller tries besides those listed
    IntMod,             \* 2^32, the modulus of int
    MaxChanges          \* bound: changes of the processes

NoPid == -1             \* PRNODE_NO_PID
NoObject == 0           \* PRNODE_NO_OBJECTID

-----------------------------------------------------------------------------
(* The nodes                                                                *)

Bases == DOMAIN Structure
RootBase == 1
Type(base) == Structure[base].type
Children(base) == {b \in Bases : Structure[b].parent = base}

\* The sysctl tree: object 0 is its root; of the others 1 and 2 are nodes.
SysNames == [oid \in 1 .. 3 |-> <<"kern", "ipc", "maxfiles">>[oid]]
procfs_sysctl_children(oid) == CASE oid = 0 -> {1} [] oid = 1 -> {2, 3} [] OTHER -> {}
procfs_sysctl_is_node(oid) == oid \in 0 .. 2

\* The type of the vnode for a node.
procfs_allocvp(node) ==
    LET type == Type(node.base)
    IN  CASE type = "PFSsysctl" ->
                IF procfs_sysctl_is_node(node.obj) THEN "VDIR" ELSE "VREG"
          [] type \in {"PFSroot", "PFSproc", "PFSthread", "PFSdir", "PFSfd"} -> "VDIR"
          [] type \in {"PFSprocnamedir", "PFScurproc", "PFSproclink"} -> "VLNK"
          [] OTHER -> "VREG"

Node(base, pid, obj) == [base |-> base, pid |-> pid, obj |-> obj]
NoNode == Node(0, NoPid, NoObject)      \* ENOENT
Root == Node(RootBase, NoPid, NoObject)

\* A name: num is -1 without digits, as large as there are digits otherwise.
Spelled(text, zeros, num, tail) == [text |-> text, zeros |-> zeros, num |-> num, tail |-> tail]
Literal(text) == Spelled(text, 0, -1, "")
Number(n) == Spelled("", 0, n, "")
ProcessName(p, comm) == Spelled("", 0, p, comm)

-----------------------------------------------------------------------------
VARIABLES
    procs,          \* processes that exist
    mine,           \* those the caller may access
    comm,           \* name of each process
    tids,           \* threads of each process
    fds,            \* open descriptors of each process
    checked,        \* check_access: not root and no "noprocperms"
    trail,          \* directories from the root to where the caller is
    changes

procVars == <<procs, mine, comm, tids, fds>>
vars == <<procVars, checked, trail, changes>>

Init ==
    /\ procs = Pids
    /\ mine = {Current}
    /\ comm \in [Pids -> Comms]
    /\ tids = [p \in Pids |-> Tids]
    /\ fds = [p \in Pids |-> Fds]
    /\ checked \in BOOLEAN
    /\ trail = <<Root>>
    /\ changes = 0

Here == Last(trail)

MayAccess(p) == ~checked \/ p \in mine

-----------------------------------------------------------------------------
(* procfs_vnop_lookup                                                      *)

\* Decimal digits at the start of a name, in an int that wraps; -1 without
\* any.  Zeros before them make no difference.
procfs_atoi(name) ==
    LET v == name.num % IntMod
    IN  IF name.num = -1 THEN -1 ELSE IF v >= IntMod \div 2 THEN v - IntMod ELSE v

\* *endp: what follows the digits.
AllDigits(name) == name.num # -1 /\ name.tail = ""

SysctlLookup(dir, name) ==
    LET found == {oid \in procfs_sysctl_children(dir.obj) : Literal(SysNames[oid]) = name}
    IN  IF found = {} THEN NoNode ELSE Node(dir.base, NoPid, Min(found))

\* Mutant of SameProcessName: the number at the start decides.
MutSameProcessName(name, p) == TRUE

\* A name in /proc/byname has to be the whole name of the process.
SameProcessName(name, p) == name = ProcessName(p, comm[p])

\* The thread ids of the process are searched.
IsThread(id, p) == id \in tids[p]

\* The child that stands for processes, threads or descriptors takes the id
\* from the name.
IdLookup(dir, base, name) ==
    LET id == procfs_atoi(name)
        type == Type(base)
        pid == IF type \in {"PFSproc", "PFSprocnamedir"} THEN id ELSE dir.pid
        valid == CASE type = "PFSfd" ->
                        id # -1 /\ pid \in procs /\ id \in fds[pid]
                   [] type = "PFSprocnamedir" ->
                        id # -1 /\ pid \in procs /\ SameProcessName(name, pid) /\ MayAccess(pid)
                   [] type = "PFSproc" ->
                        AllDigits(name) /\ id # -1 /\ pid \in procs /\ MayAccess(pid)
                   [] type = "PFSthread" ->
                        AllDigits(name) /\ id # -1 /\ pid \in procs /\ MayAccess(pid)
                            /\ IsThread(id, pid)
                   [] OTHER -> FALSE
    IN  IF valid
        THEN Node(base, pid, IF type \in {"PFSfd", "PFSthread"} THEN id ELSE dir.obj)
        ELSE NoNode

Dynamic == {"PFSproc", "PFSprocnamedir", "PFSthread", "PFSfd"}

\* A child of that name, or else the last child.
Find(dir, name) ==
    LET children == Children(dir.base)
        named == {b \in children : Literal(Structure[b].name) = name}
        ids == {b \in children : Type(b) \in Dynamic}
    IN  CASE Type(dir.base) = "PFSsysctl" -> SysctlLookup(dir, name)
          [] Type(dir.base) # "PFSsysctl" /\ named # {} -> Node(Min(named), dir.pid, dir.obj)
          [] Type(dir.base) # "PFSsysctl" /\ named = {} /\ ids # {} ->
                IdLookup(dir, Min(ids), name)
          [] OTHER -> NoNode

\* Mutant of ParentPid: the pid is dropped on the way up.
MutParentPid(node, parent) == NoPid

\* The node's pid, if the parent belongs to a process.
ParentPid(node, parent) == IF Structure[parent].process THEN node.pid ELSE NoPid

procfs_get_parent_node_id(node) ==
    LET up == Structure[node.base].parent
        parent == IF up = 0 THEN node.base ELSE up
    IN  Node(parent, ParentPid(node, parent),
             IF Structure[parent].thread THEN node.obj ELSE NoObject)

-----------------------------------------------------------------------------
(* procfs_vnop_readdir and procfs_sysctl_readdir: the entries              *)

\* Of a number below 2^21.
Bits(n) == {k \in 0 .. 20 : (n \div 2 ^ k) % 2 = 1}

PidShift == 8
ObjectShift == 24

\* The file id, as the set of its bits.
procfs_get_fileid(pid, obj, base) ==
    Bits(base)
        \cup (IF pid = NoPid THEN {} ELSE {k + PidShift : k \in Bits(pid)})
        \cup ({k + ObjectShift : k \in Bits(obj)} \cap (0 .. 63))

procfs_get_node_fileid(node) == procfs_get_fileid(node.pid, node.obj, node.base)

\* The dirent's type.  For processes, threads and descriptors the vnode type
\* VDIR (2) is stored, and that is DT_CHR.
DirentType(node) ==
    CASE Type(node.base) \in Dynamic -> "DT_CHR"
      [] procfs_allocvp(node) = "VDIR" -> "DT_DIR"
      [] procfs_allocvp(node) = "VREG" -> "DT_REG"
      [] procfs_allocvp(node) = "VLNK" -> "DT_LNK"

\* An entry, with the node that is listed.
EntryOf(name, node) == [name |-> name, node |-> node]

\* Entries of the last child.
ItemEntries(dir, base) ==
    CASE Type(base) = "PFSproc" ->
            {EntryOf(Number(p), Node(base, p, NoObject)) : p \in {q \in procs : MayAccess(q)}}
      [] Type(base) = "PFSprocnamedir" ->
            {EntryOf(ProcessName(p, comm[p]), Node(base, p, NoObject))
                : p \in {q \in procs : MayAccess(q)}}
      [] Type(base) = "PFSthread" ->
            {EntryOf(Number(t), Node(base, dir.pid, t))
                : t \in IF dir.pid \in procs THEN tids[dir.pid] ELSE {}}
      [] Type(base) = "PFSfd" ->
            {EntryOf(Number(f), Node(base, dir.pid, f))
                : f \in IF dir.pid \in procs THEN fds[dir.pid] ELSE {}}

\* All entries but "." and "..".  In the directories of a process a caller
\* without access sees none.
Listing(dir) ==
    CASE Type(dir.base) = "PFSsysctl" ->
            {EntryOf(Literal(SysNames[oid]), Node(dir.base, NoPid, oid))
                : oid \in procfs_sysctl_children(dir.obj)}
      [] dir.pid # NoPid /\ checked /\ ~(dir.pid \in procs /\ dir.pid \in mine) -> {}
      [] OTHER ->
            UNION {IF Type(b) \in Dynamic THEN ItemEntries(dir, b)
                   ELSE {EntryOf(Literal(Structure[b].name), Node(b, dir.pid, dir.obj))}
                       : b \in Children(dir.base)}

\* The dirent that is copied out.
Dirent(e) ==
    [name |-> e.name, fileid |-> procfs_get_node_fileid(e.node), dtype |-> DirentType(e.node)]

-----------------------------------------------------------------------------
(* procfs_vnop_getattr and procfs_vnop_readlink                            *)

\* Mutant of NoPidTypes: a type is missing.
MutNoPidTypes ==
    {"PFSroot", "PFScurproc", "PFSdir", "PFScpuinfo", "PFSversion", "PFSmeminfo", "PFSmtab",
     "PFSstat", "PFSvmstat", "PFSswaps", "PFSfilesystems", "PFSsysctl",
     "PFSloadavg"}

\* Nodes whose attributes do not need a process: getattr does not look for one,
\* or procfs_node_type_has_pid does not ask for it.
NoPidTypes ==
    {"PFSroot", "PFScurproc", "PFSdir", "PFScpuinfo", "PFSversion", "PFSmeminfo", "PFSmtab",
     "PFSstat", "PFSvmstat", "PFSuptime", "PFSswaps", "PFSfilesystems", "PFSsysctl",
     "PFSloadavg", "PFSpartitions"}

HasAttributes(node) == Type(node.base) \in NoPidTypes \/ node.pid \in procs

\* Mutant of LinkDirectory: the target of a /proc/byname entry lacks the "..".
MutLinkDirectory(dir, node) == dir

\* "curproc" leads to "<pid>", an entry of /proc/byname to "../<pid>".
LinkDirectory(dir, node) ==
    IF Type(node.base) = "PFSprocnamedir" THEN procfs_get_parent_node_id(dir) ELSE dir

LinkPid(node) == IF Type(node.base) = "PFScurproc" THEN Current ELSE node.pid

-----------------------------------------------------------------------------
(* The caller and the processes                                            *)

Names == {e.name : e \in Listing(Here)} \cup OddNames

\* A lookup that finds a directory.
Enter ==
    /\ \E name \in Names :
        LET node == Find(Here, name)
        IN  /\ node # NoNode
            /\ procfs_allocvp(node) = "VDIR"
            /\ trail' = Append(trail, node)
    /\ UNCHANGED <<procVars, checked, changes>>

\* A lookup of "..".  The parent is in the cache: it is a directory on the way.
Leave ==
    /\ \E k \in 1 .. (Len(trail) - 1) :
        /\ trail[k] = procfs_get_parent_node_id(Here)
        /\ trail' = SubSeq(trail, 1, k)
    /\ UNCHANGED <<procVars, checked, changes>>

Change ==
    /\ changes < MaxChanges
    /\ changes' = changes + 1
    /\ UNCHANGED <<checked, trail>>

Exit ==
    /\ Change
    /\ \E p \in procs \ {Current} : procs' = procs \ {p}
    /\ UNCHANGED <<mine, comm, tids, fds>>

\* A new process may get the pid of an earlier one.
Fork ==
    /\ Change
    /\ \E p \in Pids \ procs, owned \in BOOLEAN :
        /\ procs' = procs \cup {p}
        /\ mine' = IF owned THEN mine \cup {p} ELSE mine \ {p}
        /\ comm' = [comm EXCEPT ![p] = comm[Current]]
        /\ tids' = [tids EXCEPT ![p] = {}]
        /\ fds' = [fds EXCEPT ![p] = fds[Current]]

Exec ==
    /\ Change
    /\ \E p \in procs, c \in Comms : comm' = [comm EXCEPT ![p] = c]
    /\ UNCHANGED <<procs, mine, tids, fds>>

SetUid ==
    /\ Change
    /\ \E p \in procs \ {Current} :
        mine' = IF p \in mine THEN mine \ {p} ELSE mine \cup {p}
    /\ UNCHANGED <<procs, comm, tids, fds>>

CloseFd ==
    /\ Change
    /\ \E p \in procs : \E f \in fds[p] : fds' = [fds EXCEPT ![p] = @ \ {f}]
    /\ UNCHANGED <<procs, mine, comm, tids>>

ThreadEnds ==
    /\ Change
    /\ \E p \in procs : \E t \in tids[p] : tids' = [tids EXCEPT ![p] = @ \ {t}]
    /\ UNCHANGED <<procs, mine, comm, fds>>

Next ==
    \/ Enter \/ Leave
    \/ Exit \/ Fork \/ Exec \/ SetUid \/ CloseFd \/ ThreadEnds

Spec == Init /\ [][Next]_vars

-----------------------------------------------------------------------------
\* What procfs_vnop_readdir lists, procfs_vnop_lookup finds, with the file id
\* and, as long as the directory's process exists, the attributes.
ListedIsFound ==
    \A e \in Listing(Here) :
        LET node == Find(Here, e.name)
        IN  /\ node # NoNode
            /\ procfs_get_node_fileid(node) = Dirent(e).fileid
            /\ Here.pid \in procs \cup {NoPid} => HasAttributes(node)

\* What procfs_vnop_lookup finds is what procfs_vnop_readdir lists to a caller
\* who has access to the directory's process: no process, thread or descriptor
\* is found that is absent or hidden, however its number is spelled (with zeros
\* before it, a multiple of 2^32 more, characters after a descriptor's).  Of a
\* process in /proc/byname it takes the very name that is listed.
\* Excepted are the names of the structure nodes that stand for them, such as
\* "__Process__", which strcmp finds although they are not listed: OddNames has
\* none of them (see ProcessNodesHavePid).
FoundIsListed ==
    (Here.pid # NoPid => Here.pid \in procs /\ MayAccess(Here.pid)) =>
        LET listed == {e.name : e \in Listing(Here)}
            nodes == {Find(Here, name) : name \in listed}
        IN  \A name \in OddNames :
                LET node == Find(Here, name)
                IN  node # NoNode =>
                        /\ node \in nodes
                        /\ Type(node.base) = "PFSprocnamedir" => name \in listed

\* The targets of "curproc" and of the links in /proc/byname lead to the
\* directory of the process, when it is there.
LinksLead ==
    \A e \in Listing(Here) :
        LET node == Find(Here, e.name)
            target == Find(LinkDirectory(Here, node), Number(LinkPid(node)))
        IN  Type(node.base) \in {"PFScurproc", "PFSprocnamedir"} =>
                /\ target # NoNode
                /\ Type(target.base) = "PFSproc"
                /\ target.pid = LinkPid(node)

\* "returns the procfs node id for the node that would be the parent of the
\* given node" (procfs_get_parent_node_id): ".." leads back to the directory
\* from which the caller came.  Below /proc/sys, where all directories share one
\* structure node, it is the root.  Either way it is a directory on the way,
\* which the vnodes below it keep in the cache; it could not be created, as
\* vca_parentvp is NULLVP.
DotDotIsParent ==
    LET parent == procfs_get_parent_node_id(Here)
    IN  /\ parent \in ToSet(trail)
        /\ Len(trail) > 1 /\ ~(Type(Here.base) = "PFSsysctl" /\ Here.obj # NoObject) =>
             parent = trail[Len(trail) - 1]

\* "Returns whether a node of a given type must have an associated process id"
\* (procfs_node_type_has_pid): a node of such a type has one.
ProcessNodesHavePid ==
    \A k \in DOMAIN trail : Type(trail[k].base) \in NoPidTypes \/ trail[k].pid # NoPid

\* "each process is represented by a single directory" (README.md): the type of
\* an entry is that of the vnode that a lookup of its name returns.
DirentTypesMatch ==
    \A e \in Listing(Here) :
        Dirent(e).dtype =
            CASE procfs_allocvp(Find(Here, e.name)) = "VDIR" -> "DT_DIR"
              [] procfs_allocvp(Find(Here, e.name)) = "VREG" -> "DT_REG"
              [] procfs_allocvp(Find(Here, e.name)) = "VLNK" -> "DT_LNK"
=============================================================================
