----------------------------- MODULE FileReads -----------------------------
(***************************************************************************)
(* Reading the files of procfs.  procfs_vnop_read hands a read to the read *)
(* function of the node; every call makes the whole text anew and copies   *)
(* out the part at the reader's offset.                                    *)
(*                                                                         *)
(* A read function is given as the set of its PATHS.  A path is the        *)
(* sequence of the events of one execution, a branch being an event that   *)
(* happens only when its condition holds, and it ends in what the function *)
(* returns: an errno, "0", or "error" for the outcome of the copy.  A      *)
(* reader in a call has the set of paths that agree with what has happened *)
(* so far; the process that the file describes exits, is reaped and has    *)
(* its pid used again between any two events.                              *)
(*                                                                         *)
(* External, by how the code uses them: proc_find takes a reference and    *)
(* the process is not reaped while there is one; a zombie may be found or  *)
(* not; vnode_get and vnode_getwithvid take an iocount, and a vnode is not *)
(* recycled while it has one; the daemon answers by pid, and a request may *)
(* always fail; OSMalloc takes a reference of its tag and OSFree drops     *)
(* one, of the memory at NULL as well.                                     *)
(***************************************************************************)
EXTENDS Integers, Sequences, FiniteSets, SequencesExt

CONSTANTS
    Files,      \* the files that are read, among the names of Code
    MaxLen,     \* bound: longest text, or record of cpuinfo, in bytes
    PAGE_SIZE,  \* scaled down: more than a text, less than all of cpuinfo
    MaxLives    \* bound: processes that get the same pid one after the other

ASSUME BoundsAssumption ==
    MaxLen \in Nat \ {0} /\ PAGE_SIZE \in Nat \ 0..MaxLen /\ MaxLives \in Nat \ {0}

Outcomes == {"0", "error", "rc", "ESRCH", "ENOENT", "EACCES", "EBADF", "EINVAL", "EIO",
             "EISDIR", "ENOMEM", "ENOTSUP"}

\* Two pieces of code one after the other; the first may return.
A ** B ==
    LET done == {a \in A : a # <<>> /\ Last(a) \in Outcomes}
    IN  done \cup {a \o b : a \in A \ done, b \in B}

-----------------------------------------------------------------------------
(* Helpers of the read functions                                           *)

\* OSMalloc of the thread ids between two walks of the thread list.  Without
\* threads there are no ids, and what is freed is NULL.
procfs_get_task_thread_count ==
    {<<"look">>, <<"look", "tagrele">>, <<"look", "nomem">>,
     <<"look", "tagref", "alloc", "look", "free", "tagrele">>}

\* The descriptors of a process, listed and released again.
procfs_get_fd_list ==
    {<<"look">>, <<"look", "nomem">>, <<"look", "alloc", "look", "free">>}

\* The walk of the address space needs two kernel symbols.
procfs_task_vm_sizes == {<<"nosym">>, <<"sym", "look">>}

\* Without a process the fields keep their zeros.
procfs_pctx_get ==
    {<<"gone">>} \cup
    ({<<"find", "look">>} ** procfs_get_task_thread_count ** procfs_task_vm_sizes
     ** {<<"look", "rele">>})

\* A daemon that does not answer leaves the structure zeroed.
procfs_thread_info == {<<"ask">>, <<"noask">>}
procfs_task_info   == {<<"ask">>, <<"noask">>}

\* Counting the processes lists their pids; without memory for them NULL is
\* freed.
procfs_get_process_count ==
    {<<"nomem", "tagrele">>, <<"tagref", "alloc", "free", "tagrele">>}

\* proc_find, then the credentials of the process; on denial "no".
procfs_check_can_access_process(no) ==
    {<<"credref", "look", "credunref", "allow">>,
     <<"credref", "look", "credunref", "deny">> \o no}

\* The argument region of the process in memory that the caller frees.
procfs_read_procargs(some, none) ==
    ({<<"look", "alloc", "look">>} ** some) \cup
    ({<<"look">>, <<"look", "nomem">>, <<"look", "alloc", "look", "free">>} ** none)

\* fd must be an open vnode (or socket); the vnode and its id are taken down
\* under proc_fdlock, a socket gets a reference.
procfs_fd_vnode_info(bad) == {<<"look">> \o bad, <<"look", "vcapture">>}
procfs_fd_socket(bad)     == {<<"look">> \o bad, <<"look", "sock_retain">>}

\* The context made for vn_stat is released whether that fails or not.
fill_vnodeinfo(bad) == {<<"ctxref", "vlook", "ctxrele">>, <<"ctxref", "vlook", "ctxrele">> \o bad}

\* proc_find or "no"
Find(no) == {<<"find">>, <<"gone", no>>}

\* An automatically extended buffer with the text of "body", copied out.
Sbuf(body) ==
    {<<"nomem", "ENOMEM">>, <<"sbuf_new">>} ** body
    ** {<<"copysbuf", "sbuf_delete", "error">>}

-----------------------------------------------------------------------------
(* The files of a process                                                  *)

procfs_read_pid_data == {<<"copy", "error">>}

procfs_read_ppid_data ==  \* pgid and sid alike
    Find("ESRCH") ** {<<"look", "copy", "rele", "error">>}

procfs_read_tty_data ==
    {<<"nosym", "ENOTSUP">>, <<"sym">>} ** Find("ESRCH") **
    {<<"look", "tty", "vlook", "copy", "vnode_put", "rele", "error">>,
     <<"look", "tty", "vlook", "vnode_put", "rele", "EIO">>,
     <<"look", "copy0", "rele", "error">>}

procfs_doprocstatus_linux ==
    procfs_pctx_get
    ** {<<"gone">>, <<"find", "credref", "look", "credunref", "rele">>}
    ** Sbuf({<<>>})

proc_pidshortbsdinfo == {<<"look", "credref", "look", "credunref", "look">>}

procfs_dostatus ==
    ({<<"linux">>} ** procfs_doprocstatus_linux) \cup
    ({<<"native">>} ** Find("0") ** proc_pidshortbsdinfo ** {<<"copy", "rele", "error">>})

\* Mutant of procfs_read_task_info: the reference is not dropped when the
\* daemon has answered.
MutTaskInfo ==
    Find("0") **
    ({<<"ask", "copy", "error">>} \cup
     ({<<"noask", "look">>} ** procfs_task_vm_sizes ** procfs_get_task_thread_count
      ** {<<"look", "copy", "rele", "error">>}))

procfs_read_task_info ==
    Find("0") **
    ({<<"ask", "copy", "rele", "error">>} \cup
     ({<<"noask", "look">>} ** procfs_task_vm_sizes ** procfs_get_task_thread_count
      ** {<<"look", "copy", "rele", "error">>}))

\* Mutant of procfs_read_thread_info: the reference is dropped before the
\* daemon is asked.
MutThreadInfo ==
    Find("0") **
    {<<"look", "rele", "ask", "copy", "error">>, <<"noask", "look", "copy", "rele", "error">>}

procfs_read_thread_info ==
    Find("0") ** {<<"ask">>, <<"noask", "look">>} ** {<<"copy", "rele", "error">>}

procfs_dolimit ==
    Find("ESRCH") ** {<<"look", "rele", "EIO">>, <<"look", "rele", "copy", "error">>}

procfs_domem ==
    Find("ESRCH") ** procfs_check_can_access_process(<<"rele", "EACCES">>) **
    {<<"look", "rele", "EIO">>, <<"look", "nomem", "rele", "ENOMEM">>,
     <<"look", "alloc", "look", "copypages", "free", "rele", "error">>}

procfs_map_render ==
    Find("ESRCH") ** procfs_check_can_access_process(<<"rele", "EACCES">>) **
    {<<"nosym", "rele", "ENOTSUP">>, <<"sym", "look", "rele", "EIO">>,
     <<"sym", "look", "nomem", "rele", "ENOMEM">>,
     <<"sym", "look", "sbuf_new", "look", "rele", "copysbuf", "sbuf_delete", "error">>}

procfs_doprocargs ==
    Find("ESRCH") **
    ({<<"nouser", "look", "copy">>} \cup
     ({<<"user">>} ** procfs_read_procargs({<<"copymem", "free">>}, {<<"look", "copy">>})))
    ** {<<"rele", "error">>}

procfs_doenviron ==
    Find("ESRCH") **
    ({<<"nouser", "copy0">>} \cup
     ({<<"user">>} ** procfs_read_procargs({<<"copymem", "free">>}, {<<"copy0">>})))
    ** {<<"rele", "error">>}

procfs_doauxv_linux ==
    Find("ESRCH") **
    {<<"nomem", "rele", "ENOMEM">>,
     <<"sbuf_new", "credref", "look", "credunref", "copysbuf", "sbuf_delete", "rele", "error">>}

procfs_doauxv == ({<<"linux">>} ** procfs_doauxv_linux) \cup ({<<"native">>} ** procfs_doenviron)

procfs_doregs_linux ==
    Find("ESRCH") ** {<<"nouser", "rele", "ESRCH">>, <<"user", "rele">>}
    ** Sbuf({<<"ask">>, <<"noask">>})

\* Without a daemon ENOTSUP, or the error that the daemon answers.
procfs_doregs ==
    ({<<"linux">>} ** procfs_doregs_linux) \cup
    ({<<"native">>} ** Find("ESRCH")
     ** {<<"nouser", "rele", "ESRCH">>, <<"user", "rele">>}
     ** {<<"noask", "ENOTSUP">>, <<"noask", "rc">>, <<"ask", "copy", "error">>})

\* The floating-point registers; on x86_64 the text says that there are none.
procfs_dofpregs_linux ==
    Find("ESRCH") ** {<<"nouser", "rele", "ESRCH">>, <<"user", "rele">>}
    ** Sbuf({<<>>, <<"ask">>, <<"noask">>})

procfs_dofpregs ==
    ({<<"linux">>} ** procfs_dofpregs_linux) \cup
    ({<<"native">>} ** Find("ESRCH")
     ** {<<"nouser", "rele", "ESRCH">>, <<"user", "rele">>}
     ** {<<"noask", "ENOTSUP">>, <<"noask", "rc">>, <<"ask", "copy", "error">>})

procfs_docomm == procfs_pctx_get ** {<<"copy", "error">>}    \* statm alike

procfs_doprocstat == procfs_pctx_get ** procfs_task_info ** {<<"copy", "error">>}

-----------------------------------------------------------------------------
(* The files of a thread and of a descriptor, and the links                *)

\* The name that the daemon gives, or the one of the process.
procfs_dothreadcomm ==
    {<<"ask", "copy", "error">>, <<"ask0", "name", "copy", "error">>,
     <<"noask", "name", "copy", "error">>}

procfs_dothreadstat ==  \* status and sched alike
    procfs_thread_info ** procfs_pctx_get ** {<<"copy", "error">>}

\* Mutant of procfs_read_fd_data: the vnode is taken without its id.
MutFdData ==
    Find("ESRCH") **
    {<<"look", "rele", "EBADF">>,
     <<"look", "vcapture", "vnode_get", "vlook", "copy", "vnode_put", "rele", "error">>}

procfs_read_fd_data ==
    Find("ESRCH") ** procfs_fd_vnode_info(<<"rele", "EBADF">>)
    ** {<<"vstale", "rele", "ENOENT">>, <<"vnode_getwithvid">>}
    ** fill_vnodeinfo(<<"vnode_put", "rele", "rc">>)
    ** {<<"vlook", "copy", "vnode_put", "rele", "error">>}

procfs_read_socket_data ==
    Find("ESRCH") ** procfs_fd_socket(<<"rele", "EBADF">>)
    ** {<<"slook", "sock_release", "copy", "rele", "error">>}

\* exe, cwd and root: the vnode pointer is read without a lock.
procfs_proclink_path ==
    Find("ESRCH") **
    {<<"look", "vcapture", "vnode_get", "vlook", "vnode_put", "rele">>,
     <<"look", "vcapture", "vnode_get", "vlook", "vnode_put", "rele", "ENOENT">>,
     <<"look", "rele">>,
     <<"look", "rele", "ENOENT">>}

procfs_vnop_readlink == procfs_proclink_path ** {<<"copy", "error">>}

-----------------------------------------------------------------------------
(* The files of the root directory                                         *)

\* sbuf_new on an array of the caller cannot fail.
procfs_domeminfo == {<<"copy", "error">>}

procfs_douptime == {<<"copy", "error">>}

procfs_dostat ==
    {<<"nomem", "ENOMEM">>, <<"sbuf_new", "nomem", "sbuf_delete", "ENOMEM">>,
     <<"sbuf_new", "alloc", "free">>}
    ** procfs_get_process_count ** {<<"copysbuf", "sbuf_delete", "error">>}

procfs_dovmstat == {<<"asksys">>, <<"noask">>} ** Sbuf({<<>>})

\* The disks that IOKit lists, or the mounted ones if there is no list.
procfs_dopartitions ==
    Sbuf({<<"nomem">>, <<"tagref", "alloc", "free", "tagrele">>})

procfs_domtab        == Sbuf({<<>>})
procfs_doswaps       == Sbuf({<<>>})
procfs_dofilesystems == Sbuf({<<>>})

\* version and cpuinfo copy from the start of the page
procfs_doversion == {<<"alloc", "page", "free", "error">>}

procfs_docpuinfo == {<<"alloc", "pages", "free", "0">>}

procfs_doloadavg ==
    {<<"alloc">>} ** {<<"asksys">>, <<"noask">>} ** procfs_get_process_count
    ** {<<"page", "free", "error">>}

\* The oid of the node is used, then looked for in the tree.
procfs_sysctl_read ==
    {<<"EISDIR">>, <<"unlisted", "ENOENT">>, <<"listed", "copy0", "error">>,
     <<"listed", "copy", "error">>}

\* The note of a process is for writing.
procfs_donote == {<<"EINVAL">>}

-----------------------------------------------------------------------------
(* Attributes                                                              *)

procfs_fd_node_size ==
    {<<"gone">>} \cup ({<<"find">>} ** procfs_get_fd_list ** {<<"rele">>})

procfs_thread_node_size ==
    {<<"gone">>} \cup ({<<"find">>} ** procfs_get_task_thread_count ** {<<"rele">>})

procfs_process_node_size == {<<"gone">>, <<"find", "rele">>}

\* The size of a directory adds up those of what it can contain.
procfs_get_node_size_attr ==
    {<<>>} \cup procfs_fd_node_size \cup procfs_thread_node_size

\* The process of the node is held to the end; the credentials are those of
\* the caller.
procfs_vnop_getattr ==
    Find("ENOENT") ** procfs_get_node_size_attr
    ** {<<"look", "credref", "rele", "credunref", "0">>}

-----------------------------------------------------------------------------
(* The reader                                                              *)

Code ==
    [pid |-> procfs_read_pid_data, ppid |-> procfs_read_ppid_data,
     tty |-> procfs_read_tty_data, status |-> procfs_dostatus,
     taskinfo |-> procfs_read_task_info, threadinfo |-> procfs_read_thread_info,
     limit |-> procfs_dolimit, mem |-> procfs_domem, map |-> procfs_map_render,
     cmdline |-> procfs_doprocargs, environ |-> procfs_doenviron,
     auxv |-> procfs_doauxv, regs |-> procfs_doregs,
     fpregs |-> procfs_dofpregs, comm |-> procfs_docomm,
     procstat |-> procfs_doprocstat, threadcomm |-> procfs_dothreadcomm,
     threadstat |-> procfs_dothreadstat, fd |-> procfs_read_fd_data,
     socket |-> procfs_read_socket_data, link |-> procfs_vnop_readlink,
     meminfo |-> procfs_domeminfo, uptime |-> procfs_douptime, stat |-> procfs_dostat,
     vmstat |-> procfs_dovmstat, partitions |-> procfs_dopartitions,
     mtab |-> procfs_domtab, swaps |-> procfs_doswaps, filesystems |-> procfs_dofilesystems,
     version |-> procfs_doversion, cpuinfo |-> procfs_docpuinfo,
     loadavg |-> procfs_doloadavg, sysctl |-> procfs_sysctl_read,
     note |-> procfs_donote, attributes |-> procfs_vnop_getattr]

ASSUME FilesAssumption == Files \subseteq DOMAIN Code

\* Bound: no reader gets more bytes than the longest text has, the records of
\* two CPUs in cpuinfo.
MaxGot == 2 * MaxLen

Uses(f, e) == \E p \in Code[f] : Contains(p, e)

\* Files whose text has always the same length: integers and structures.
Fixed == {"pid", "ppid", "taskinfo", "threadinfo", "fd", "socket"}

\* Files copied from the start of the page at every offset.
Paged == {f \in DOMAIN Code : Uses(f, "page") \/ Uses(f, "pages")}

Resources == {"proc", "mem", "tag", "sbuf", "vnode", "sock", "cred", "ctx"}

Acquires ==
    [find |-> "proc", alloc |-> "mem", tagref |-> "tag", sbuf_new |-> "sbuf", tty |-> "vnode",
     vnode_get |-> "vnode", vnode_getwithvid |-> "vnode", sock_retain |-> "sock",
     credref |-> "cred", ctxref |-> "ctx"]

Releases ==
    [rele |-> "proc", free |-> "mem", tagrele |-> "tag", sbuf_delete |-> "sbuf", vnode_put |-> "vnode",
     sock_release |-> "sock", credunref |-> "cred", ctxrele |-> "ctx"]

\* What an event uses, and so has to be held.
Needs ==
    [look |-> "proc", user |-> "proc", nouser |-> "proc", copymem |-> "mem", page |-> "mem",
     pages |-> "mem", copypages |-> "mem", copysbuf |-> "sbuf", vlook |-> "vnode",
     slook |-> "sock"]

VARIABLES
    file,       \* the file that is open, in Files
    rest,       \* paths of the call in progress, {} between calls
    got,        \* bytes read so far: for each the place in the text it is from
    first,      \* length of the text at the first copy, -1 before it
    steady,     \* BOOLEAN: the text had this length at every copy
    cut,        \* BOOLEAN: a copy was cut short, by the reader's buffer or a fault
    moved,      \* bytes copied by this call, -1 before the copy
    error,      \* outcome of the copy, "0", "EIO" or "EFAULT"
    res,        \* outcome of the last call: "none", "more", "eof" or an errno
    holds,      \* [Resources -> Int]: references and memory held by the call
    stray,      \* BOOLEAN: something was used that the call did not hold
    who,        \* processes that this call looked at, a subset of 1..MaxLives
    life, inc,  \* the process: "live", "zombie" or "gone", and which it is
    linux,      \* BOOLEAN: procfs_linux_mode
    sym,        \* BOOLEAN: the kernel symbols are resolved
    vnode,      \* which file the vnode belongs to, 1 or 2
    vcap, vseen \* and when the descriptor was read, was described; 0: not yet

callVars   == <<rest, moved, error, who, vcap, vseen>>
readerVars == <<got, first, steady, cut, res>>
worldVars  == <<life, inc, linux, vnode>>
vars == <<file, callVars, readerVars, holds, stray, worldVars, sym>>

Init ==
    /\ file \in Files
    /\ rest = {} /\ moved = -1 /\ error = "0" /\ who = {} /\ vcap = 0 /\ vseen = 0
    /\ got = <<>> /\ first = -1 /\ steady = TRUE /\ cut = FALSE /\ res = "none"
    /\ holds = [r \in Resources |-> 0] /\ stray = FALSE
    /\ life = "live" /\ inc = 1 /\ vnode = 1
    /\ linux \in BOOLEAN /\ (linux => Uses(file, "linux"))
    /\ sym \in BOOLEAN /\ (sym \/ Uses(file, "sym"))

\* The branches that the state of the world allows.
May(e) ==
    /\ e \in {"find", "ask", "ask0"} => life # "gone"
    /\ e = "gone" => life # "live"
    /\ e = "user" => life = "live"
    /\ e = "linux" => linux
    /\ e = "native" => ~linux
    /\ e = "sym" => sym
    /\ e = "nosym" => ~sym
    /\ e = "vnode_getwithvid" => vcap = vnode
    /\ e = "vstale" => vcap # vnode

\* procfs_vnop_read: the read function of the node is called.
procfs_vnop_read ==
    /\ rest = {} /\ res \in {"none", "more"} /\ Len(got) <= MaxGot
    /\ rest' = Code[file]
    /\ moved' = -1 /\ error' = "0" /\ who' = {} /\ vcap' = 0 /\ vseen' = 0
    /\ holds' = [holds EXCEPT !["tag"] = 0]    \* bound: counted in each call anew
    /\ UNCHANGED <<file, readerVars, stray, worldVars, sym>>

Follow(e) ==
    /\ May(e)
    /\ \E p \in rest : Head(p) = e
    /\ rest' = {Tail(p) : p \in {q \in rest : Head(q) = e}}
    /\ stray' = (stray \/ (e \in DOMAIN Needs /\ holds[Needs[e]] <= 0))

Copies == {"copy", "copy0", "copymem", "copysbuf", "copypages", "page", "pages"}

\* What the process, the vnode or the daemon is asked for.
Event ==
    \E e \in {Head(p) : p \in rest} \ (Outcomes \cup Copies) :
        /\ Follow(e)
        /\ holds' = IF e \in DOMAIN Acquires THEN [holds EXCEPT ![Acquires[e]] = @ + 1]
                    ELSE IF e \in DOMAIN Releases THEN [holds EXCEPT ![Releases[e]] = @ - 1]
                    ELSE holds
        /\ who' = IF \/ e \in {"look", "user", "nouser", "ask"}
                     \/ e = "name" /\ life # "gone"
                  THEN who \cup {inc} ELSE who
        /\ vcap' = IF e = "vcapture" THEN vnode ELSE vcap
        /\ vseen' = IF e = "vlook" THEN vnode ELSE vseen
        /\ UNCHANGED <<file, moved, error, readerVars, worldVars, sym>>

\* A text of n bytes, of which "bytes" reach the reader, who has room for
\* "want".
Copied(n, bytes, want) ==
    LET part == SubSeq(bytes, 1, Min({want, Len(bytes)}))
    IN  /\ got' = got \o part
        /\ moved' = Len(part)
        /\ first' = IF first = -1 THEN n ELSE first
        /\ steady' = (steady /\ first \in {-1, n})
        /\ cut' = (cut \/ Len(part) < Len(bytes))

\* Mutant of procfs_copy_data: the offset shortens the text but the copy
\* starts at its first byte.
MutCopyData(n, want) ==
    LET off == Len(got)
    IN  /\ Copied(n, [i \in 1..Max({0, n - off}) |-> i], want)
        /\ error' = IF n >= off THEN "0" ELSE "EIO"

\* Mutant of procfs_copy_data: the offset is left out.
MutCopyStart(n, want) == Copied(n, [i \in 1..n |-> i], want) /\ error' = "0"

\* Mutant of procfs_copy_data: the end of the text is an error.
MutCopyEnd(n, want) ==
    LET off == Len(got)
    IN  /\ Copied(n, [i \in 1..Max({0, n - off}) |-> off + i], want)
        /\ error' = IF n > off THEN "0" ELSE "EIO"

procfs_copy_data(n, want) ==
    LET off == Len(got)
    IN  /\ Copied(n, [i \in 1..Max({0, n - off}) |-> off + i], want)
        /\ error' = IF n >= off THEN "0" ELSE "EIO"

\* A record of each CPU is copied from its start, shortened by the offset
\* within the page: off - trunc_page(off).
PageCopy(records, n, want) ==
    LET left == Max({0, n - (Len(got) % PAGE_SIZE)})
        bytes == [i \in 1..records * left |-> ((i - 1) \div left) * n + ((i - 1) % left) + 1]
    IN  Copied(records * n, bytes, want) /\ UNCHANGED error

\* Memory of the process from the address of the offset: n resident bytes.
MemCopy(n, want) ==
    /\ Copied(Len(got) + n, [i \in 1..n |-> Len(got) + i], want)
    /\ error' = IF n = 0 THEN "EIO" ELSE "0"

Copy ==
    \E e \in {Head(p) : p \in rest}, n \in 0..MaxLen, want \in 1..2 * MaxLen :
        /\ \/ /\ e \in {"copy", "copymem", "copysbuf"}
              /\ file \in Fixed => n = MaxLen
              /\ procfs_copy_data(n, want)
           \/ e = "copy0" /\ n = 0 /\ procfs_copy_data(n, want)
           \/ e = "page" /\ n > 0 /\ PageCopy(1, n, want)
           \/ e = "pages" /\ n > 0 /\ PageCopy(2, n, want)
           \/ e = "copypages" /\ Len(got) + n <= MaxLen /\ MemCopy(n, want)
        /\ Follow(e)
        /\ UNCHANGED <<file, res, who, vcap, vseen, holds, worldVars, sym>>

\* The reader's buffer is not mapped: uiomove fails.
Fault ==
    \E e \in {Head(p) : p \in rest} \cap Copies :
        /\ moved' = 0 /\ cut' = TRUE /\ error' = "EFAULT"
        /\ Follow(e)
        /\ UNCHANGED <<file, got, first, steady, res, who, vcap, vseen, holds, worldVars, sym>>

\* The end of the read function.
Return ==
    \E p \in rest :
        /\ Head(p) \in Outcomes
        /\ LET rc == IF Head(p) = "error" THEN error ELSE Head(p)
           IN  res' = IF rc # "0" THEN rc ELSE IF moved > 0 THEN "more" ELSE "eof"
        /\ rest' = {}
        /\ UNCHANGED <<file, moved, error, who, vcap, vseen, got, first, steady, cut,
                       holds, stray, worldVars, sym>>

\* The reader closes the file, at the end, on an error or before.
Close ==
    /\ rest = {} /\ res # "none"
    /\ got' = <<>> /\ first' = -1 /\ steady' = TRUE /\ cut' = FALSE /\ res' = "none"
    /\ moved' = -1 /\ error' = "0" /\ who' = {} /\ vcap' = 0 /\ vseen' = 0
    /\ UNCHANGED <<file, rest, holds, stray, worldVars, sym>>

readerStep == Event \/ Copy \/ Fault \/ Return

-----------------------------------------------------------------------------
(* The rest of the system                                                  *)

AboutProcess == Uses(file, "find") \/ Uses(file, "ask") \/ Uses(file, "name")

Exit ==
    /\ AboutProcess /\ life = "live"
    /\ life' = "zombie"
    /\ UNCHANGED <<file, callVars, readerVars, holds, stray, inc, linux, vnode, sym>>

\* A process that is referenced is not reaped.
Reap ==
    /\ life = "zombie" /\ holds.proc <= 0
    /\ life' = "gone"
    /\ UNCHANGED <<file, callVars, readerVars, holds, stray, inc, linux, vnode, sym>>

\* The pid is given to a new process.
Fork ==
    /\ life = "gone" /\ inc < MaxLives
    /\ life' = "live" /\ inc' = inc + 1
    /\ UNCHANGED <<file, callVars, readerVars, holds, stray, linux, vnode, sym>>

procfs_linux_sysctl ==
    /\ Uses(file, "linux")
    /\ linux' = ~linux
    /\ UNCHANGED <<file, callVars, readerVars, holds, stray, life, inc, vnode, sym>>

\* A vnode without an iocount is recycled for another file.
Recycle ==
    /\ Uses(file, "vcapture") /\ holds.vnode <= 0 /\ vnode = 1
    /\ vnode' = 2
    /\ UNCHANGED <<file, callVars, readerVars, holds, stray, life, inc, linux, sym>>

Next ==
    \/ procfs_vnop_read \/ Event \/ Copy \/ Fault \/ Return \/ Close
    \/ Exit \/ Reap \/ Fork \/ procfs_linux_sysctl \/ Recycle

\* The thread that reads goes on, in a call (every wait of a read function
\* ends, the request to the daemon by a timeout: see CtlBridge) and to the next
\* one, unless it closes the file.
Spec == Init /\ [][Next]_vars /\ WF_vars(readerStep) /\ WF_vars(procfs_vnop_read)

-----------------------------------------------------------------------------
(* Properties                                                              *)

Idle == rest = {}

\* Every reference, iocount, buffer and block that a read function takes is
\* given back exactly once on every path, the error paths included: nothing is
\* held between calls, and nothing is given back that is not held, with one
\* exception: OSFree of NULL, for a list that was not allocated, drops a
\* reference of the tag that no OSMalloc took (none that one took is kept).
\* Nor does a read function look at a process, a vnode, a socket or a buffer
\* that it does not hold at that moment: before proc_find, or after proc_rele,
\* vnode_put, the release of the socket, sbuf_delete or OSFree.
Balanced ==
    /\ \A r \in Resources \ {"tag"} : holds[r] >= 0 /\ (Idle => holds[r] = 0)
    /\ Idle => holds["tag"] <= 0
    /\ ~stray

\* Files whose read function finds the pid more than once, letting it go in
\* between: the parts of their text can be about two processes.
Refound == {"status", "regs", "fpregs", "procstat", "threadstat"}

\* The bytes of one call, or the attributes, are about one process, however the
\* process exits and its pid is used again meanwhile: what is asked by pid is
\* asked while the reference of proc_find keeps the pid from being used again.
OneProcess ==
    (AboutProcess /\ file \notin Refound /\ (moved > 0 \/ file = "attributes")) =>
        Cardinality(who) <= 1

\* The text of a file that is copied by pages is less than a page, as it always
\* is but for cpuinfo: at the first byte of a page the text begins again.
WithinPage == file \in Paged => first < PAGE_SIZE

\* What is read piece by piece is the text: each byte arrives at the place it
\* has in the text (procfs_copy_data), unless the file is one that starts at
\* the first byte again at every offset and the reader's buffer was too small
\* or not mapped, or the text changed, or is longer than a page.
InPlace ==
    (WithinPage /\ (file \in Paged => ~cut /\ steady)) => \A k \in DOMAIN got : got[k] = k

\* The end of the file is where the text ends: a reader that gets 0 bytes from
\* a text that did not change since its first piece has all of it.  And
\* procfs_copy_data fails only for a reader beyond the end, who gets there only
\* when the text has become shorter since an earlier piece.
EofIsEnd ==
    /\ (res = "eof" /\ moved = 0 /\ steady /\ WithinPage /\ ~(file \in Paged /\ cut)) =>
          Len(got) = first
    /\ (error = "EIO" /\ file # "mem") => ~steady

\* The text of a descriptor describes the file that the descriptor had when it
\* was read, although the vnode is not held at first: the vnode's id is
\* compared when the iocount is taken.
FdIsCaptured == (file = "fd" /\ vseen # 0) => vseen = vcap

\* A reader that goes on reading until a call returns no bytes comes to an
\* end: every call returns, whatever happens to the process, to the daemon and
\* to memory, and the offset moves every call towards the end of a text.  The
\* exception is a reader who gets to the second page of cpuinfo: at the first
\* byte of a page there is always more.
CatEnds ==
    (~Idle \/ res = "more")
        ~> ((Idle /\ res # "more") \/ (file \in Paged /\ Len(got) >= PAGE_SIZE))

=============================================================================
