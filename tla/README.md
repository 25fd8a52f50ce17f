# A TLA+ model of procfs_kext

procfs_kext is a `/proc` file system for macOS: a kernel extension, a user-space
daemon (`procfsd`) that answers what the kernel cannot, and a few tools. This
directory holds TLA+ modules for its stateful parts, TLC configurations that check
them on small instances, and proofs, checked by TLAPS, of the main results for every
value of the constants. `PROJECT.json` maps each definition to the lines it models and
lists runs, mutants, findings and hazards.

## Inventory

| Part | Source | Module | What is hard about it |
|---|---|---|---|
| Node cache | `procfs_node.c`, `procfs_vnop_reclaim` | NodeCache, NodeTable | the mutex is dropped to allocate, to create a vnode and to take a reference; vnodes are recycled |
| Control bridge | `procfs_ctl.c`, `procfs_ctl.h` | CtlBridge | late replies, timeouts, a daemon that dies, wrap of the sequence number |
| Daemon | `tools/procfsd.c` | CtlBridge, Boot | order of staging and loading, retries, reconnection |
| Mounts and structure tree | `procfs_vfsops.c`, `procfs_structure.c` | Mounts, StructureTree | state shared by mounts, 16-bit ids |
| Start and stop | `procfs.c`, `procfs_ctl.c`, `procfs_linux.c` | KextLifecycle, Boot | stop while readers, daemon, timer and mounts are there |
| Kernel symbols | `procfs_ksyms.c`, `klookup.c`, `symbols.c` | Klookup, Boot | a staged file that outlives reboots and updates |
| Directory reading | `procfs_vnop_readdir`, lists in `procfs_subr.c` | Readdir, ThreadList, FdList | the list changes between and during calls |
| Lookup and ids | `procfs_vnop_lookup`, `procfs_subr.c`, `procfs_node.c` | Lookup, StructureTree | lookup, readdir, getattr and readlink have to agree |
| File reading | `procfs_copy_data`, the read functions of all files | FileReads | the process exits and its pid is used again between two steps; many ways out |
| What texts are made of | `procfs_map.c`, `procfs_cmdline.c`, `lib/kern.c` | RegionWalk, ThreadList, FdList, ProcArgs | walks over what the process changes meanwhile |
| String buffers | `lib/sbuf.c` | Sbuf, TextBuffer | growth, failures, who owns the memory |
| Load average | `procfs_linux.c` | LoadAvg, KextLifecycle | unsigned differences, fixed point |

Vnode operations meet in the node cache: `Lookup` computes an id and `NodeCache` turns
it into a vnode. The ids contain the mount id and the base ids that `Mounts` hands out.
Files are read by `FileReads`, whose texts are put together in a string buffer (`Sbuf`)
from the walks; some of them ask the daemon through `CtlBridge`. The bridge's lock and
registration belong to `KextLifecycle`, which `Boot` composes with the daemon's
bootstrap and the symbols of `Klookup`.

## Modules

**NodeTable** is the abstract specification of the cache: an id is bound to at most
one incarnation of a vnode, and unbound only when nobody holds it.

**NodeCache** models `procfsnode_find` as one action per stretch of code between two
points where the mutex is taken or released. `heap` and `hash` are the allocated and
the hashed pfsnodes, `attaching` and `waiting` the flags `node_attaching_vnode` and
`node_thread_waiting_attach`; `new`, `target`, `tvnode` and `tvid` are the locals of
each thread. `Terminate`, `ReclaimNode` and `ReclaimVnode` are the kernel's
termination and `procfs_vnop_reclaim`. Vnodes (`vnode_create`, `vnode_getwithvid`) are
external. `ImplementsTable` is the refinement of NodeTable.

**CtlBridge** models `procfs_ctl_request`, the three callbacks of the control and the
loop of `procfsd`. The unlocked test, the slot allocation, the enqueue without the
lock, the sleep and the release are separate actions; a call that finds no daemon
returns at once and is a stuttering step. A request has an identity (`id`) besides its
number, so that a reply given to the wrong request is visible. Nothing in the code keeps
a second daemon away, and there may be several.

**Mounts** models `procfs_mount`, `procfs_root`, `procfs_unmount`,
`procfs_structure_init` and `procfs_structure_free` in steps. `Serialised` says
whether operations on different mount structures exclude each other.

**KextLifecycle** models `procfs_start` and `procfs_stop` call by call, with readers,
the daemon, mounts and the timer of the load average running meanwhile. Use of freed
memory is a last state. Three things are never given back, in the model as in the code:
klookup's memory tag, the hash table of the first mount, and a thread call that was armed
again after it was cancelled, which `thread_call_free` refuses. `Gone` ends with the
variables of the kext; what it leaves behind is not followed into the next load.

**Klookup** has what `procfs_ksyms` writes and what `klookup_resolve` and
`resolve_symbols` make of it as operators: a file is a function from symbols to
numbers, the slide is computed from one anchor (`_version`) and tested with the other.
A file may be cut off inside its last number, and the kext may read nothing of it, for
want of memory or because of an error (`kl_slurp`).

**Boot** extends both and adds `procfsd_bootstrap`, the mount thread and the connection
loop, launchd, `kmutil`, an operator who loads, unloads, mounts and arms by hand, and
reboots, after which the slide and perhaps the kernel build are others while the
staged file is the old one.

**Readdir** models a read of one directory as a sequence of `VNOP_READDIR` calls, with
the real sizes of directory entries. Items come, go and are renamed between and, since
the lists are built in steps, during calls; the process that a directory belongs to exits,
and access to it, which is checked for every entry, is lost and given (`OwnerChanges`).

**StructureTree** is the table that `procfs_structure_init` builds. **Lookup** models name
lookup, listing, node ids, file ids, parents and link targets over it as operators, and a
caller who walks while processes change. A name is how it is spelled: a text, or zeros, a
number of any size and what follows it, so that `procfs_atoi` and the tests of its end have
something to convert. One lookup is one step here; what happens inside the cache is in
NodeCache.

**FileReads** gives each read function as the set of its paths: the sequences of
proc_find, proc_rele, vnode_get, requests to the daemon, allocations, copies and so on
that one execution can go through, each ending in what the function returns. The
actions take the next event of a path, and between two events the process exits, is
reaped and its pid is used again, vnodes are recycled, and `procfs_linux` is switched.
A text is its length and the places of its bytes; its contents are left out. The memory
tag is a resource of its own, because OSFree of NULL drops a reference of it. Files that
copy by pages shorten their text by the offset within the page.

**Sbuf** models the operations of `sbuf.c`, with `sbuf_vprintf` in steps: it tries, grows
and tries again, or drops a piece that `vsnprintf` cannot format. `live` is the heap and
`wild` a write outside the block. It implements **TextBuffer**: whole pieces appended in
order, none after one that failed.

**RegionWalk** (`procfs_map_render`, `procfs_task_vm_sizes`), **ThreadList**
(`procfs_get_thread_ids_for_task`) and **FdList** (`procfs_get_fd_list`, `proc_fdlist`)
are walks in steps over lists that change meanwhile. In ThreadList, the links of an exited
thread stay, are unmapped or become anything, and its struct thread is unmapped apart from
it. **ProcArgs** is the scan of `procfs_read_procargs`, over regions laid out as the
kernel does it and, for the end of the scan and the bounds of the spans, over any bytes;
the key "executable_path=" is two bytes, between which the read can end. **LoadAvg** is
`la_sample`, CPU by CPU, with the moduli of its unsigned types.

Modules called `MC...` give constants to TLC. **MCCtlBridge** has two casts, three readers
with one daemon and two readers with two. **MCDirectories** and **MCHelpers** put
modules that share no state into one specification, in which a behaviour is one of them,
chosen at the start. Modules with `Inv`, `Proofs` or `Refines` in the name hold theorems.
Operators called `Mut...` are plausible mistakes, used to see that each property can fail.

## Runs

| Run | Bounds | States | Shows |
|---|---|---|---|
| node_cache_safety | 3 threads, 2 nodes, 2 vnodes, each recycled up to twice, the same node id on 2 mounts | 454,858 | `UniqueNode`, `ResultIsCurrent`, `AttachIsExclusive`, `SleeperIsWoken`, `FreeIsSafe`, `ReclaimIsSafe` |
| node_cache_spec | 3 threads, 1 vnode, 1 id | 64,439 | NodeCache implements NodeTable (`ImplementsTable`); sleepers wake and lookups return once no new ones begin (`FindReturns`) |
| ctl | 3 threads and 1 daemon, or 2 threads and 2 daemons; 2 slots, 2 units, queues of 1, 2 requests, numbers modulo 4 from 2 | 342,593 | `OwnReply`, `SlotOwnership`, `SleeperIsPending`, `NumbersDiffer`, `ConnectedIsServed`; requests return (`RequestReturns`) |
| mounts_serial | 2 mount structures, 4 mounts, next_node_id near its wrap | 1,114 | `NoTreeLeak` |
| boot | 1 reader, 2 builds of 3 symbols, 1 reboot, files cut in line 3 | 304,330 | `MountedIsServed`, `UnloadReleases`, `SymbolsAreRight`, `StagedBeforeLoad`; mount and daemon come (`ServiceComes`) |
| directories | 2 fixed entries, 3 items, 2 changes, all kinds, a buffer of 72 bytes; 2 processes with 1 thread and 2 descriptors each, 11 odd spellings, 3 changes | 554,214 | what an offset guarantees (`FixedOnce`, `NoSkipUnlessShrunk`, `NoRepeatUnlessGrown`), reads end (`DirectoryEnds`), the operations agree (`ListedIsFound`, `FoundIsListed`, `LinksLead`, `DotDotIsParent`) |
| files | every file, texts and cpuinfo records of up to 3 bytes, pages of 4, a pid used twice | 147,731 | `Balanced`, `OneProcess`, `InPlace`, `EofIsEnd`, `FdIsCaptured`; readers come to an end (`CatEnds`) |
| helpers | buffers of 1 to 8 bytes, 3 blocks, pieces of 1 to 3 characters; 4 pages, 3 uthreads, 4 descriptors; regions of 5 bytes; 2 CPUs, 2 ticks | 367,514 | `MemoryIsOwned`, `ImplementsText`, `StayingListed`, `SpansAreExact`, `LoadIsRecent`, `LoopsEnd` |

Three threads are one that attaches, one that sleeps and one that interferes; with two
slots they make the slots run out. Two requests are an earlier one whose answer is late
and a later one that has its slot; two daemons are one that leaves and one that stays. A
first number of 2 modulo 4 makes the counter wrap, and skip 0, with requests in flight. A
file cut in its third line has both anchors (`CutLines`; in `boot_symbols` it is cut in
any line). A buffer of 72 bytes takes a short and a long entry exactly, and not two long
ones. Vnodes are recycled twice because with one recycling no v_id that was read can be
stale. `IntMod` stands for 2^32, which TLC's integers cannot hold. The real base-id
arithmetic (76 ids a tree, modulo 65536) is used as it is. The spellings are a free
number, numbers with zeros before them, numbers beyond `IntMod` that wrap to a pid and to
-1, a descriptor with a letter behind it, and names of `byname`, listed and not. Two
records of cpuinfo are longer than a page, every other text is shorter. Three bytes are a
text with a first, a middle and a last piece. The sizes in Sbuf are scaled so that both
ways of growing (doubling below a page, whole pages above), the refusal at `INT_MAX` and
an allocation that fails all happen. In the tables of symbols the two builds have
different distances between their anchors.

Fairness:

- a thread that can run runs, since mutexes are held only for short stretches
  (NodeCache, CtlBridge), and a reclaim that began ends;
- `msleep` in the bridge has a timeout, so every wait of a read function ends;
- a caller of readdir or read goes on, or closes the file;
- launchd keeps procfsd alive and its two threads are scheduled; a start or stop of the
  kext that began goes on (Boot);
- a thread inside a loop goes on (Sbuf, RegionWalk, ThreadList, ProcArgs).

Nothing is assumed of the daemon's answers, of new calls, of the operator or of the
kernel's choice of vnodes to recycle. Deadlock is not checked where the system may stop:
at the bound on mounts, at the end of a directory, and after a use of freed memory.

Exceptions that the properties name, because the code promises no more: `status`, `regs`,
`fpregs`, `stat` of a process and `stat` of a thread find the pid more than once in a call
(`Refound`); `version`, `loadavg` and `cpuinfo` copy from the start of their page at every
offset (`Paged`), and a `cpuinfo` longer than a page begins again with every page
(`WithinPage`); OSFree of NULL drops a reference of the memory tag that none took; access
that is given while a directory is read uncovers entries that took no bytes before
(`admitted`); the placeholders in the structure tree (`__Process__`) are
found by their names; a thread list may be incomplete when the memory of an exited thread was used
again, and its second pass may go round in such memory (`Circle`); an argument region that
was read to the middle of the key leaves a part of it in `environ` (`CutKey`); builds with
the same distance between the anchors are not told apart (`SameAnchors`).

### Disagreements between code and documentation

Four runs have one property each, which TLC finds violated:

| Run | What happens |
|---|---|
| node_cache_leak | an allocated pfsnode is forgotten on the retry after a failed `vnode_getwithvid` |
| mounts_shared | unmounting one instance frees the tree of all |
| kext_daemon | the daemon's disconnect takes the bridge's lock after an unload freed it |
| boot_symbols | a staged file cut short is installed, and a shortened number in it is taken for an address |

TLC reports these properties violated too. They have no run; the configuration named
here shows them with the change given.

| Property | Configuration and change | What happens |
|---|---|---|
| `RefusedOnlyWithoutDaemon` | CtlBridge | the disconnect of one daemon disables the other |
| `NamesUnique` | MountsShared, three mount structures, 4 mounts and trees | two mounts have the same name |
| `MountIdsUnique` | MountsSerial, `Serialised = FALSE` | mounts that overlap get the same id |
| `BaseIdsUnique` | MountsSerial | the 863rd tree gets the id of the root again |
| `SamplerStopped` | KextLifecycleDaemon | the sampler may run after it was stopped |
| `RequestHasLock` | KextLifecycleDaemon | a reader takes the bridge's lock after it was freed |
| `NoSkipUnlessShrunk` | Directories, `MaxList = 2` | processes beyond the room of the list (1024) are missing |
| `ProcessNodesHavePid`, `FoundIsListed` | Directories, `OddNames <- Placeholders` | the placeholders of processes, threads and descriptors can be looked up, and are not listed |
| `DirentTypesMatch` | Directories | entries carry vnode types instead of dirent types |
| `DotDotIsParent` without its exception | Directories | ".." below `/proc/sys` leads to the root |
| `FixedOnce` without `~admitted` | Directories | a process that becomes accessible between two calls: "." was hidden, and is passed over |
| `Balanced` with the tag counted like the rest | FileReads | OSFree of NULL, for a list of no threads or without memory for pids |
| `InPlace` without `WithinPage` | FileReads | after a page of `cpuinfo` its first bytes come again |
| `CatEnds` without its exception | FileReads | `cpuinfo` has more bytes at the first byte of every page (TLC stops at its bound on bytes) |
| `LoopsEnd` without `Circle` | Helpers | the second pass over the threads goes round, although `procfs_subr.c:373` says "the walk is iteration-capped" |
| `SpansAreExact` without `CutKey` | Helpers | `environ` ends with a part of "executable_path=" |
| `LoadIsRecent` without `steady` | Helpers | the load exceeds the number of CPUs after one of them stops answering |

Met while modelling, in the models as the code has it, and not the subject of a property:

- `procfs_vnops.c:1034-1037` says getattr takes the owner "from the credentials of the
  process that corresponds to the pfsnode_t"; the lines after it take those of the caller.
- `cpuinfo` ignores the error of `uiomove` and returns 0.
- `procfs_fd.c:208-214`: the vnode behind `exe`, `cwd` and `root` is taken without
  comparing its id, so that a recycled one is accepted.
- `procfs_release_thread_ids` frees the size of the ids collected, although room for the
  ids counted was allocated.
- `status`, `taskinfo` and `threadinfo` report the end of the file, not `ESRCH`, when the
  process goes between two pieces.
- An empty first argument is taken for padding after the path, and an environment string
  "executable_path=" ends `environ` (`procfs_cmdline.c`).
- `sbuf_finish` clears the mark of a failed append, so a shortened text is copied out as
  if it were whole.
- A stop that fails at `vfs_fsremove` leaves the kext loaded without sampler, sysctl and
  bridge.
- An unload leaves behind klookup's memory tag and the hash table of the first mount, and
  may leave a thread call armed.
- The README in `src/` says that `procfs_ksyms` runs during `make install`; the Makefile
  does not call it. It runs from procfsd.
- `procfs_atoi` overflows for long numbers, which then stand for other ids, and the number
  of a descriptor may have anything after it: what is found is a listed node all the same
  (`FoundIsListed`). File ids of two descriptors can be equal from pid 65536 on, as the
  comment of `procfs_get_fileid` allows.
- Without memory for the list of pids, readdir reports the end of the directory.
- `procfsd` takes a `recv` of 0 bytes for a short request and goes on without connecting
  again.

## Proofs

- **NodeCacheInv, NodeCacheProofs**: type correctness and the six
  invariants of the run, for any sets of threads, nodes, vnodes and ids. The invariants
  alone are not inductive: `Inv` adds what the code relies on while it does not hold the
  mutex. `NewInv`: a new node is private. `CreatedInv`: a new vnode belongs to its creator.
  `VidInv`: if the v_id read earlier is still the vnode's, the node that was found is
  still its node. `LinkInv` and `AttachingInv`: links and flags have an owner.
- **NodeCacheRefines**: NodeCache implements NodeTable, for the same sets. The mapping reads
  the bindings off the hash table; `BoundIsLinked`, a consequence of `Inv`, says that its
  CHOOSE has no choice. A call binds where `node_vnode` is set, acquires where
  `vnode_getwithvid` succeeds, `procfs_vnop_reclaim` unbinds, and every other step is
  invisible. `MapInv` keeps the incarnations below `MaxVid`.
- **CtlBridgeProofs**: type correctness, own replies, slot ownership, no
  lost wakeup, different numbers. The strengthening ties each number, in a slot, a queue
  or a daemon's hands, to the request's place in the history (`SeqOf`). It assumes
  (`SeqAssumption`) that fewer than `SeqMod` requests are numbered, that is, that no
  reply is late by 2^32 - 1 requests. `ConnectedServed`, for any number of daemons: while
  `g_ctl_connected` is set, `g_ctl_unit` is a unit that a daemon has open. Its strengthening
  (`UnitInv`) is that a unit is closing exactly while the daemon that has it closes.
- **MountsProofs**: type correctness, no leaked tree and the count of instances, assuming
  `Serialised`, that is, mounts and unmounts that do not overlap. Of mounts that overlap, and
  of mount ids, nothing is proved: the ids can collide.
- **BootProofs**: mounts are served and unloads release what start took (not what no code
  releases, see `UnloadReleases`), from `StageInv`, which says what is set up at each point
  of start and stop, first for KextLifecycle and then for Boot, whose steps are steps of
  KextLifecycle, a reboot, or leave the kext alone. Addresses are right and loads are
  staged, from `SymbolInv`, which says where the staged file and the addresses in use come
  from, the latter for a file that could be read; the argument is that a file passes the
  test of `klookup_resolve` only if its anchors have the running kernel's distance.
- **SbufProofs**: a buffer owns its memory, and Sbuf implements TextBuffer, for any sizes,
  pieces and heaps. `SbufInv` says that a buffer in use has room for its NUL, that its
  flags tell which of its blocks are on the heap, and that the heap has exactly those.

Only model-checked: liveness (out of the prover's reach), Readdir, Lookup, FileReads (its
paths are finite sets that TLC enumerates), the walks, the scan of the arguments (recursive
over data) and LoadAvg.

## Not modelled

The definitions stand for 6,200 of the 12,900 lines of C in `kext/`, `tools/`, `lib/`, `fs/` and
`test/`, comments and blank lines counted. `src/xnu` and `src/include` hold another 48,000
lines, kernel headers for the most part, which have no behaviour of their own to model.

- The contents of files: formatting and the values in them. No property is about them.
- `lib/cpu.c`: tables of strings for `cpuinfo`, without state.
- Attribute values, mount options, the command lines of the tools, and writing of notes,
  for which there is no write operation.
- How `procfs_ksyms` finds, decompresses and parses a kernel image; Klookup begins with the
  symbols it found.
- The IOKit entry point, the wrappers in `libkext` and `libreadfile`, and the unit tests that
  are the larger part of `sbuf.c`.
- Inside one lookup, the exit of the process it is about; and unmounting during lookups,
  which the kernel's own mount references exclude.
