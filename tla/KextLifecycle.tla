--------------------------- MODULE KextLifecycle ---------------------------
(***************************************************************************)
(* Loading and unloading of the kext (kext/procfs.c), with what start and  *)
(* stop set up and tear down: the hash lock, the file system entry, the    *)
(* kernel control of procfs_ctl.c and the load average sampler of          *)
(* procfs_linux.c.  Mounts, readers of daemon-backed nodes, the daemon and *)
(* the timer thread run at the same time.                                  *)
(*                                                                         *)
(* The kernel is external: a thread call that runs is not stopped by       *)
(* cancelling it and one that is armed is not freed, ctl_deregister        *)
(* refuses while a client is attached, and vfs_fsremove refuses while the  *)
(* file system is mounted.  Use of a lock or call after it was freed has   *)
(* no defined outcome: the state before it is what the invariants are      *)
(* about, and it is a last state here.                                     *)
(***************************************************************************)
EXTENDS Integers, FiniteSets

CONSTANT Readers    \* threads that read a daemon-backed node

VARIABLES
    kpc,            \* progress of procfs_start and procfs_stop
    kl_cpu_to_processor,        \* resolve_symbols found the function
    kl_tag,                     \* g_kl_tag, the memory tag of klookup.c
    tag, hash_mutex,            \* procfs_init
    hash_buckets,               \* pfsnode_hash_buckets, since the first mount
    fs_entry,                   \* procfs_vfs_table_ref, the VFS entry
    ctl_lock, ctl_ref,          \* g_ctl_lock, g_ctl_ref
    ctl_connected,              \* g_ctl_connected
    control,                    \* the kernel still has the control
    daemon,                     \* a daemon is attached to it
    sysctl,                     \* the procfs.linux sysctl
    la_call,                    \* "null" or "set"
    call,                       \* the thread call: "none", "idle" or "armed"
    timer,                      \* la_timer: "idle" or "run"
    mounted,                    \* an instance is mounted
    reader                      \* where each reader is in procfs_ctl_request

klVars    == <<kl_cpu_to_processor, kl_tag>>
coreVars  == <<klVars, tag, hash_mutex, hash_buckets, fs_entry>>
ctlVars   == <<ctl_lock, ctl_ref, ctl_connected, control, daemon>>
timerVars == <<la_call, call, timer>>
useVars   == <<mounted, reader>>
vars == <<kpc, coreVars, ctlVars, sysctl, timerVars, useVars>>

Init ==
    /\ kpc = "unloaded"
    /\ kl_cpu_to_processor = FALSE /\ kl_tag = FALSE
    /\ tag = FALSE /\ hash_mutex = FALSE /\ hash_buckets = FALSE /\ fs_entry = FALSE
    /\ ctl_lock = FALSE /\ ctl_ref = FALSE /\ ctl_connected = FALSE
    /\ control = FALSE /\ daemon = FALSE
    /\ sysctl = FALSE
    /\ la_call = "null" /\ call = "none" /\ timer = "idle"
    /\ mounted = FALSE
    /\ reader = [r \in Readers |-> "idle"]

Step(from, to) == kpc = from /\ kpc' = to

-----------------------------------------------------------------------------
(* procfs_start                                                            *)

\* resolve_symbols; what it finds is up to the file of staged symbols, which is
\* read if there is memory for klookup's tag.  Nothing frees the tag.
StartResolve ==
    /\ Step("unloaded", "init")
    /\ kl_tag' \in BOOLEAN /\ kl_cpu_to_processor' \in BOOLEAN
    /\ kl_cpu_to_processor' => kl_tag'
    /\ UNCHANGED <<tag, hash_mutex, hash_buckets, fs_entry, ctlVars, sysctl, timerVars, useVars>>

\* A kext that is not loaded has no variables.  What g_kl_tag and
\* pfsnode_hash_buckets pointed to stays allocated, and a thread call that is
\* still armed or runs meets code that is gone: neither is followed further.
Gone ==
    /\ kl_cpu_to_processor' = FALSE /\ kl_tag' = FALSE /\ hash_buckets' = FALSE
    /\ call' = "none" /\ timer' = "idle"

\* procfs_init: the memory tag, then the lock.
StartInit ==
    /\ Step("init", "fsadd")
    /\ tag' = TRUE /\ hash_mutex' = TRUE
    /\ UNCHANGED <<klVars, hash_buckets, fs_entry, ctlVars, sysctl, timerVars, useVars>>

\* There is no memory for the tag.
StartInitFails ==
    /\ Step("init", "unloaded")
    /\ Gone
    /\ UNCHANGED <<tag, hash_mutex, fs_entry, ctlVars, sysctl, la_call, useVars>>

StartFsAdd ==
    /\ Step("fsadd", "ctl_register")
    /\ fs_entry' = TRUE
    /\ UNCHANGED <<klVars, tag, hash_mutex, hash_buckets, ctlVars, sysctl, timerVars, useVars>>

\* Mutant of procfs_fini: the lock is not freed.
MutFini == tag' = FALSE /\ UNCHANGED hash_mutex

procfs_fini == tag' = FALSE /\ hash_mutex' = FALSE

StartFsAddFails ==
    /\ Step("fsadd", "unloaded")
    /\ procfs_fini /\ Gone
    /\ UNCHANGED <<fs_entry, ctlVars, sysctl, la_call, useVars>>

\* procfs_ctl_register; its result is ignored.  It fails while a control of
\* an earlier load is still there, or for want of memory.
StartCtl ==
    /\ ~control
    /\ Step("ctl_register", "sysctl")
    /\ ctl_lock' = TRUE /\ ctl_ref' = TRUE /\ control' = TRUE
    /\ UNCHANGED <<coreVars, ctl_connected, daemon, sysctl, timerVars, useVars>>

StartCtlFails ==
    /\ Step("ctl_register", "sysctl")
    /\ UNCHANGED <<coreVars, ctlVars, sysctl, timerVars, useVars>>

StartSysctl ==
    /\ Step("sysctl", "loadavg")
    /\ sysctl' = TRUE
    /\ UNCHANGED <<coreVars, ctlVars, timerVars, useVars>>

\* procfs_loadavg_start, unless there is no symbol or no memory.
StartLoadavg ==
    /\ kl_cpu_to_processor
    /\ Step("loadavg", "loaded")
    /\ la_call' = "set" /\ call' = "armed"
    /\ UNCHANGED <<coreVars, ctlVars, sysctl, timer, useVars>>

StartNoLoadavg ==
    /\ Step("loadavg", "loaded")
    /\ UNCHANGED <<coreVars, ctlVars, sysctl, timerVars, useVars>>

-----------------------------------------------------------------------------
(* procfs_stop                                                             *)

\* procfs_loadavg_stop: thread_call_cancel takes an armed call off the queue ...
StopCancel ==
    /\ Step("loaded", IF la_call = "set" THEN "free" ELSE "unsysctl")
    /\ call' = IF la_call = "set" /\ call = "armed" THEN "idle" ELSE call
    /\ UNCHANGED <<coreVars, ctlVars, sysctl, la_call, timer, useVars>>

ForgetCall == la_call' = "null"

\* ... and the call is freed and forgotten.  A call that la_timer armed again
\* since is not freed, and the result of thread_call_free is ignored.
StopFree ==
    /\ Step("free", "unsysctl")
    /\ call' = (IF call = "armed" THEN call ELSE "none") /\ ForgetCall
    /\ UNCHANGED <<coreVars, ctlVars, sysctl, timer, useVars>>

StopSysctl ==
    /\ Step("unsysctl", "ctl_deregister")
    /\ sysctl' = FALSE
    /\ UNCHANGED <<coreVars, ctlVars, timerVars, useVars>>

\* procfs_ctl_deregister: ctl_deregister fails if the daemon is attached,
\* which is ignored ...
StopDeregister ==
    /\ Step("ctl_deregister", "ctl_flag")
    /\ control' = (control /\ daemon)
    /\ ctl_ref' = FALSE
    /\ UNCHANGED <<coreVars, ctl_lock, ctl_connected, daemon, sysctl, timerVars, useVars>>

StopDisconnect ==
    /\ Step("ctl_flag", "ctl_free")
    /\ ctl_connected' = FALSE
    /\ UNCHANGED <<coreVars, ctl_lock, ctl_ref, control, daemon, sysctl, timerVars, useVars>>

\* ... and the lock is freed.
StopFreeLock ==
    /\ Step("ctl_free", "fsremove")
    /\ ctl_lock' = FALSE
    /\ UNCHANGED <<coreVars, ctl_ref, ctl_connected, control, daemon, sysctl, timerVars, useVars>>

\* Mutant of Removable: the result of vfs_fsremove is ignored.
MutRemovable == TRUE

\* vfs_fsremove succeeds.
Removable == ~mounted

StopFsRemove ==
    /\ Removable
    /\ Step("fsremove", "fini")
    /\ fs_entry' = FALSE
    /\ UNCHANGED <<klVars, tag, hash_mutex, hash_buckets, ctlVars, sysctl, timerVars, useVars>>

\* procfs_stop returns KERN_FAILURE and the kext stays.
StopFails ==
    /\ ~Removable
    /\ Step("fsremove", "loaded")
    /\ UNCHANGED <<coreVars, ctlVars, sysctl, timerVars, useVars>>

StopFini ==
    /\ Step("fini", "unloaded")
    /\ procfs_fini /\ Gone
    /\ UNCHANGED <<fs_entry, ctlVars, sysctl, la_call, useVars>>

-----------------------------------------------------------------------------
(* What goes on meanwhile                                                  *)

\* The first mount makes the hash table, which nothing frees.
Mount ==
    /\ fs_entry /\ ~mounted
    /\ mounted' = TRUE /\ hash_buckets' = TRUE
    /\ UNCHANGED <<kpc, klVars, tag, hash_mutex, fs_entry, ctlVars, sysctl, timerVars, reader>>

Unmount ==
    /\ mounted
    /\ \A r \in Readers : reader[r] = "idle"
    /\ mounted' = FALSE
    /\ UNCHANGED <<kpc, coreVars, ctlVars, sysctl, timerVars, reader>>

\* procfs_ctl_request finds a daemon and a control, without the lock ...
Check(r) ==
    /\ mounted /\ reader[r] = "idle"
    /\ ctl_connected /\ ctl_ref
    /\ reader' = [reader EXCEPT ![r] = "checked"]
    /\ UNCHANGED <<kpc, coreVars, ctlVars, sysctl, timerVars, mounted>>

\* ... takes a slot with the lock, sends the request and sleeps ...
Ask(r) ==
    /\ reader[r] = "checked"
    /\ ctl_lock
    /\ reader' = [reader EXCEPT ![r] = "asleep"]
    /\ UNCHANGED <<kpc, coreVars, ctlVars, sysctl, timerVars, mounted>>

\* ... and takes the lock again to collect the outcome and free the slot.
Answered(r) ==
    /\ reader[r] = "asleep"
    /\ ctl_lock
    /\ reader' = [reader EXCEPT ![r] = "idle"]
    /\ UNCHANGED <<kpc, coreVars, ctlVars, sysctl, timerVars, mounted>>

\* procfs_ctl_connect and procfs_ctl_disconnect take the lock.
DaemonConnects ==
    /\ control /\ ~daemon /\ ctl_lock
    /\ daemon' = TRUE /\ ctl_connected' = TRUE
    /\ UNCHANGED <<kpc, coreVars, ctl_lock, ctl_ref, control, sysctl, timerVars, useVars>>

DaemonLeaves ==
    /\ daemon /\ ctl_lock
    /\ daemon' = FALSE /\ ctl_connected' = FALSE
    /\ UNCHANGED <<kpc, coreVars, ctl_lock, ctl_ref, control, sysctl, timerVars, useVars>>

\* The deadline passes: la_timer runs, samples (LoadAvg) ...
TimerFires ==
    /\ call = "armed" /\ timer = "idle"
    /\ call' = "idle" /\ timer' = "run"
    /\ UNCHANGED <<kpc, coreVars, ctlVars, sysctl, la_call, useVars>>

\* ... and arms la_call again.
TimerRearms ==
    /\ timer = "run"
    /\ la_call = "set"
    /\ call' = "armed" /\ timer' = "idle"
    /\ UNCHANGED <<kpc, coreVars, ctlVars, sysctl, la_call, useVars>>

-----------------------------------------------------------------------------
Start ==
    \/ StartResolve \/ StartInit \/ StartInitFails \/ StartFsAdd \/ StartFsAddFails
    \/ StartCtl \/ StartCtlFails \/ StartSysctl \/ StartLoadavg \/ StartNoLoadavg

Stop ==
    \/ StopCancel \/ StopFree \/ StopSysctl \/ StopDeregister \/ StopDisconnect
    \/ StopFreeLock \/ StopFsRemove \/ StopFails \/ StopFini

Environment ==
    \/ Mount \/ Unmount \/ DaemonConnects \/ DaemonLeaves
    \/ TimerFires \/ TimerRearms
    \/ \E r \in Readers : Check(r) \/ Ask(r) \/ Answered(r)

Next == Start \/ Stop \/ Environment

Spec == Init /\ [][Next]_vars

-----------------------------------------------------------------------------
\* While an instance is mounted, vnode operations find the memory tag, the
\* hash lock, the hash table and the entry of the file system: a stop that
\* meets a mount gives up, in procfs_stop, before it frees them.  (The sampler,
\* the sysctl and the control are gone by then.)
MountedIsServed ==
    mounted => tag /\ hash_mutex /\ hash_buckets /\ fs_entry /\ kpc \notin {"unloaded", "fini"}

\* An unloaded kext, after any stop or a start that failed half way, has given
\* back what procfs_init, vfs_fsadd, procfs_sysctl_register and the lock of
\* procfs_ctl_register took.  It says nothing of what stop does not give back:
\* the klookup tag, the hash table of the first mount, a control that a daemon
\* is attached to, and a thread call that procfs_loadavg_stop could not free.
UnloadReleases ==
    kpc = "unloaded" => ~tag /\ ~hash_mutex /\ ~fs_entry /\ ~ctl_lock /\ ~ctl_ref /\ ~sysctl

\* "Stop the loadavg sampler before tearing anything else down" (procfs_stop):
\* past procfs_loadavg_stop la_timer neither runs nor will run.
SamplerStopped ==
    kpc \in {"unsysctl", "ctl_deregister", "ctl_flag", "ctl_free", "fsremove", "fini", "unloaded"}
        => timer = "idle" /\ call # "armed"

\* "If no daemon is connected ... the caller falls back" (procfs_ctl.c): a
\* caller that went past the check still finds the lock it is about to take.
RequestHasLock ==
    \A r \in Readers : reader[r] # "idle" => ctl_lock

\* "it reconnects automatically across kext load/unload" (procfsd.c): as long
\* as a daemon is attached, the lock its disconnect callback takes exists.
CallbackHasLock ==
    daemon => ctl_lock
=============================================================================
