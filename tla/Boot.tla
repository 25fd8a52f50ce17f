-------------------------------- MODULE Boot --------------------------------
(***************************************************************************)
(* From boot to a mounted /proc: the daemon procfsd stages the symbols,    *)
(* loads the kext if the machine is armed, mounts /proc from a thread of   *)
(* its own and attaches to the kernel control.  launchd starts it and      *)
(* keeps it alive.  An operator loads, unloads, mounts, unmounts and arms  *)
(* by hand at any time, the machine reboots with another slide, or into    *)
(* another kernel build with the staged file of the old one.               *)
(*                                                                         *)
(* The kext is the one of KextLifecycle, with the symbols of Klookup.      *)
(* There is one mount point, /proc.  launchd, kmutil and the operator are  *)
(* external.                                                               *)
(***************************************************************************)
EXTENDS KextLifecycle, Klookup

CONSTANTS
    Slides,     \* KASLR slides
    MaxBoots    \* bound: reboots in the history

ASSUME BootAssumption == Slides \subseteq Nat /\ MaxBoots \in Nat

VARIABLES
    boots,          \* reboots so far
    build, slide,   \* the running kernel
    staged,         \* /var/db/procfs.ksyms
    origin,         \* the build it is of, and whether it was written whole
    addr,           \* what resolve_symbols found
    used,           \* origin when it did
    armed,          \* /var/db/procfs.enabled exists
    slashproc,      \* /proc exists
    main,           \* progress of procfsd, "off" if it does not run
    thread,         \* its mount thread: "off", "run" or "failed"
    slurped,        \* klookup_resolve could read the file
    loader,         \* who loaded the kext: "nobody", "procfsd", this very process, or "other"
    fresh           \* this process of procfsd staged the file, whole

machineVars == <<boots, build, slide, slashproc>>
fileVars    == <<staged, origin, armed>>
symbolVars  == <<addr, used, slurped, loader>>
daemonVars  == <<main, thread, fresh>>
bootVars    == <<machineVars, fileVars, symbolVars, daemonVars>>

NoOrigin == [build |-> CHOOSE b \in Builds : TRUE, whole |-> FALSE]

BootInit ==
    /\ Init
    /\ boots = 0 /\ build \in Builds /\ slide \in Slides /\ slashproc = FALSE
    /\ staged = NoLines /\ origin = NoOrigin /\ armed = FALSE
    /\ addr = Nothing /\ used = NoOrigin /\ slurped = FALSE /\ loader = "nobody"
    /\ main = "off" /\ thread = "off" /\ fresh = FALSE

-----------------------------------------------------------------------------
(* procfsd                                                                 *)

\* Mutant of Sequel: the kext is loaded before the symbols are staged.
MutSequel(step) ==
    CASE step = "start" -> "load" [] step = "load" -> "stage"
      [] step = "stage" -> "threads" [] step = "threads" -> "connect"

\* The order of procfsd_bootstrap and main.
Sequel(step) ==
    CASE step = "start" -> "stage" [] step = "stage" -> "load"
      [] step = "load" -> "threads" [] step = "threads" -> "connect"

Launch ==
    /\ main = "off"
    /\ main' = Sequel("start") /\ fresh' = FALSE
    /\ UNCHANGED <<vars, machineVars, fileVars, symbolVars, thread>>

\* The stager ran: it replaced the file, at once with rename, or it failed and
\* did not.  It also fails if procfsd itself is installed in its place, which
\* main refuses to be.
WriteStaged(whole) ==
    /\ staged' \in IF whole THEN Staged(build) ELSE ShortFiles[build]
    /\ origin' = IF staged' = NoLines THEN NoOrigin ELSE [build |-> build, whole |-> whole]

Stage ==
    /\ main = "stage" /\ main' = Sequel("stage")
    /\ \/ \E whole \in BOOLEAN : WriteStaged(whole) /\ fresh' = whole
       \/ UNCHANGED <<staged, origin, fresh>>
    /\ UNCHANGED <<vars, machineVars, armed, symbolVars, thread>>

\* procfs_start begins, with what the file says now, if it can be read.
Load(who) ==
    /\ StartResolve
    /\ \E file \in kl_slurp(staged) :
          /\ ~kl_tag' => file = NoLines
          /\ addr' = LET kernel == Runtime(build, slide)
                     IN  resolve_symbols(file, kernel[VERSION], kernel[KPMAP])
          /\ slurped' = (file = staged)
    /\ kl_cpu_to_processor' = (addr'["_cpu_to_processor"] # 0)
    /\ used' = IF addr' = Nothing THEN NoOrigin ELSE origin
    /\ loader' = who

SkipLoad ==
    /\ main = "load" /\ ~armed /\ main' = Sequel("load")
    /\ UNCHANGED <<vars, machineVars, fileVars, symbolVars, thread, fresh>>

RunKmutil ==
    /\ main = "load" /\ armed /\ main' = "kmutil"
    /\ UNCHANGED <<vars, machineVars, fileVars, symbolVars, thread, fresh>>

KmutilLoads ==
    /\ main = "kmutil" /\ Load("procfsd")
    /\ UNCHANGED <<machineVars, fileVars, daemonVars>>

\* kmutil loaded the kext, or could not, or found it loaded.
KmutilEnds ==
    /\ main = "kmutil" /\ kpc \in {"unloaded", "loaded"} /\ main' = Sequel("load")
    /\ UNCHANGED <<vars, machineVars, fileVars, symbolVars, thread, fresh>>

StartThread ==
    /\ main = "threads" /\ main' = Sequel("threads")
    /\ thread' \in {"run", "failed"}
    /\ UNCHANGED <<vars, machineVars, fileVars, symbolVars, fresh>>

\* wait_connect
Connect ==
    /\ main = "connect" /\ DaemonConnects /\ main' = "serve"
    /\ UNCHANGED <<machineVars, fileVars, symbolVars, thread, fresh>>

\* Mutant of Retry: the thread ends when the mount fails.
MutRetry == "off"

Retry == "run"

\* procfsd_try_mount, every three seconds
TryMount ==
    /\ thread = "run" /\ armed /\ slashproc /\ ~mounted
    /\ \/ Mount /\ UNCHANGED thread
       \/ ~fs_entry /\ thread' = Retry /\ UNCHANGED vars
    /\ UNCHANGED <<machineVars, fileVars, symbolVars, main, fresh>>

\* The process ends; the kernel detaches its socket.
Die ==
    /\ main # "off" /\ main' = "off" /\ thread' = "off" /\ fresh' = FALSE
    /\ IF main = "serve" THEN DaemonLeaves ELSE UNCHANGED vars
    /\ loader' = IF loader = "procfsd" THEN "other" ELSE loader
    /\ UNCHANGED <<machineVars, fileVars, addr, used, slurped>>

-----------------------------------------------------------------------------
(* The kext, the operator and the machine                                  *)

\* The rest of start and stop; an unloaded kext has no addresses.
KextRuns ==
    /\ kpc # "unloaded" /\ (Start \/ Stop)
    /\ IF kpc' = "unloaded"
       THEN addr' = Nothing /\ used' = NoOrigin /\ slurped' = FALSE /\ loader' = "nobody"
       ELSE UNCHANGED symbolVars
    /\ UNCHANGED <<machineVars, fileVars, daemonVars>>

KextIsUsed ==
    /\ \/ Unmount \/ TimerFires \/ TimerRearms
       \/ \E r \in Readers : Check(r) \/ Ask(r) \/ Answered(r)
    /\ UNCHANGED bootVars

LoadByHand == Load("other") /\ UNCHANGED <<machineVars, fileVars, daemonVars>>

MountByHand == slashproc /\ Mount /\ UNCHANGED bootVars

\* The operator creates the flag, which is absent by default.
Arm ==
    /\ ~armed /\ armed' = TRUE
    /\ UNCHANGED <<vars, machineVars, staged, origin, symbolVars, daemonVars>>

\* Power fails, or the machine is restarted.  Files stay, and /proc is made of
\* synthetic.conf.
Reboot ==
    /\ boots < MaxBoots /\ boots' = boots + 1
    /\ build' \in Builds /\ slide' \in Slides /\ slashproc' = TRUE
    /\ kpc' = "unloaded"
    /\ kl_cpu_to_processor' = FALSE /\ kl_tag' = FALSE
    /\ tag' = FALSE /\ hash_mutex' = FALSE /\ hash_buckets' = FALSE /\ fs_entry' = FALSE
    /\ ctl_lock' = FALSE /\ ctl_ref' = FALSE /\ ctl_connected' = FALSE
    /\ control' = FALSE /\ daemon' = FALSE
    /\ sysctl' = FALSE
    /\ la_call' = "null" /\ call' = "none" /\ timer' = "idle"
    /\ mounted' = FALSE
    /\ reader' = [r \in Readers |-> "idle"]
    /\ addr' = Nothing /\ used' = NoOrigin /\ slurped' = FALSE /\ loader' = "nobody"
    /\ main' = "off" /\ thread' = "off" /\ fresh' = FALSE
    /\ UNCHANGED fileVars

-----------------------------------------------------------------------------
Procfsd ==
    \/ Launch \/ Stage \/ SkipLoad \/ RunKmutil \/ KmutilLoads \/ KmutilEnds
    \/ StartThread \/ Connect

BootNext ==
    \/ Procfsd \/ TryMount \/ Die \/ KextRuns \/ KextIsUsed
    \/ LoadByHand \/ MountByHand \/ Arm \/ Reboot

BootSpec == BootInit /\ [][BootNext]_<<vars, bootVars>>

\* A start or stop that has begun goes on.
KextGoesOn == KextRuns /\ kpc # "loaded"

\* launchd keeps the process alive, which is scheduled like its thread; a
\* start or stop that has begun goes on.
BootFairSpec ==
    /\ BootSpec
    /\ WF_<<vars, bootVars>>(Procfsd)
    /\ WF_<<vars, bootVars>>(TryMount)
    /\ WF_<<vars, bootVars>>(KextGoesOn)

-----------------------------------------------------------------------------
(* Properties                                                              *)

\* An address that resolve_symbols kept is the symbol's in the running kernel,
\* whatever file it met: none, one of another build or of an earlier boot.
\* Excepted are a build with the same distance between the two anchors, and a
\* file that was not written whole.
SymbolsAreRight ==
    \A y \in names :
        addr[y] # 0 /\ used.whole /\ (used.build = build \/ ~SameAnchors(used.build, build))
            => addr[y] = Runtime(build, slide)[y]

\* "stage the kernel symbols (so the kext's libklookup features work), then -
\* only if armed - load the kext" (procfsd_bootstrap): a kext that procfsd
\* loads has the symbols that the same process staged, every one of them, if
\* klookup_resolve could read the file.
StagedBeforeLoad ==
    loader = "procfsd" /\ fresh /\ slurped =>
        \A y \in names : addr[y] = Runtime(build, slide)[y]

\* An armed machine with /proc and a registered file system gets its mount,
\* and the daemon attaches to a control that stays, however often mounting and
\* connecting failed before.
ServiceComes ==
    /\ main \in {"connect", "serve"} /\ thread # "failed" /\ armed /\ slashproc /\ fs_entry
         ~> mounted \/ main = "off" \/ ~fs_entry
    /\ main # "off" /\ control /\ ctl_lock
         ~> daemon \/ main = "off" \/ ~control \/ ~ctl_lock

\* "If the staged file is missing or does not match the running kernel, every
\* lookup fails safely (NULL)" (klookup.c).
LookupsFailSafely ==
    \A y \in names : addr[y] # 0 => addr[y] = Runtime(build, slide)[y]

=============================================================================
