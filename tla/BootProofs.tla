----------------------------- MODULE BootProofs -----------------------------
(***************************************************************************)
(* Stop never pulls the file system away under a mount, and an unloaded    *)
(* kext has given back what stop releases, for any number of readers; the  *)
(* symbols that a load keeps are right for any kernels and slides.         *)
(***************************************************************************)
EXTENDS Boot, TLAPS

\* What is set up at which point of start and stop.
StageInv ==
    /\ mounted => fs_entry /\ hash_buckets
    /\ fs_entry <=> kpc \notin {"unloaded", "init", "fsadd", "fini"}
    /\ tag <=> kpc \notin {"unloaded", "init"}
    /\ hash_mutex <=> kpc \notin {"unloaded", "init"}
    /\ kpc \in {"unloaded", "init", "fsadd", "ctl_register", "fsremove", "fini"} => ~ctl_lock /\ ~ctl_ref
    /\ kpc \in {"ctl_flag", "ctl_free"} => ~ctl_ref
    /\ kpc \in {"unloaded", "init", "fsadd", "ctl_register", "sysctl", "ctl_deregister", "ctl_flag",
                "ctl_free", "fsremove", "fini"} => ~sysctl

\* The kext is not loaded: nothing is set up.
LEMMA StageInit == Init => StageInv
BY DEF Init, StageInv

\* Every step of start, stop and their environment preserves the invariant.
LEMMA StageStep ==
    ASSUME StageInv, [Next]_vars
    PROVE  StageInv'
<1> USE DEF vars, klVars, coreVars, ctlVars, timerVars, useVars, Step, procfs_fini, Gone, Removable
<1>1. CASE UNCHANGED vars
  BY <1>1 DEF StageInv
<1>2. CASE StartResolve \/ StartInit \/ StartInitFails
  BY <1>2 DEF StageInv, StartResolve, StartInit, StartInitFails
<1>3. CASE StartFsAdd \/ StartFsAddFails \/ StartCtl
  BY <1>3 DEF StageInv, StartFsAdd, StartFsAddFails, StartCtl
<1>4. CASE StartCtlFails \/ StartSysctl \/ StartLoadavg \/ StartNoLoadavg
  BY <1>4 DEF StageInv, StartCtlFails, StartSysctl, StartLoadavg, StartNoLoadavg
<1>5. CASE StopCancel \/ StopFree \/ StopSysctl \/ StopDeregister \/ StopDisconnect
  BY <1>5 DEF StageInv, StopCancel, StopFree, StopSysctl, StopDeregister, StopDisconnect
<1>6. CASE StopFreeLock \/ StopFsRemove \/ StopFails \/ StopFini
  BY <1>6 DEF StageInv, StopFreeLock, StopFsRemove, StopFails, StopFini
<1>7. CASE Mount \/ Unmount \/ DaemonConnects \/ DaemonLeaves
  BY <1>7 DEF StageInv, Mount, Unmount, DaemonConnects, DaemonLeaves
<1>8. CASE TimerFires \/ TimerRearms
  BY <1>8 DEF StageInv, TimerFires, TimerRearms
<1>9. ASSUME NEW r \in Readers, Check(r) \/ Ask(r) \/ Answered(r)
      PROVE  StageInv'
  BY <1>9 DEF StageInv, Check, Ask, Answered
<1>10. QED
  BY <1>1, <1>2, <1>3, <1>4, <1>5, <1>6, <1>7, <1>8, <1>9 DEF Next, Start, Stop, Environment

\* A mounted instance keeps the lock, the table and the tag its operations need.
THEOREM MountsAreServed == Spec => []MountedIsServed
<1>1. StageInv => MountedIsServed
  BY DEF StageInv, MountedIsServed
<1>2. QED
  BY <1>1, StageInit, StageStep, PTL DEF Spec

\* Whatever way the kext got unloaded, by procfs_stop or by a procfs_start that
\* failed, the tag, the locks, the entry of the file system and the sysctl are
\* given back.
THEOREM UnloadsRelease == Spec => []UnloadReleases
<1>1. StageInv => UnloadReleases
  BY DEF StageInv, UnloadReleases
<1>2. QED
  BY <1>1, StageInit, StageStep, PTL DEF Spec


-----------------------------------------------------------------------------
(* The whole machine                                                       *)

\* What the kext does in a step of the machine is a step of its own, or the
\* machine restarts.
LEMMA KextStep ==
    ASSUME [BootNext]_<<vars, bootVars>>
    PROVE  [Next]_vars \/ Reboot
<1>1. CASE UNCHANGED <<vars, bootVars>>
  BY <1>1
<1>2. CASE Procfsd
  BY <1>2 DEF Procfsd, Launch, Stage, SkipLoad, RunKmutil, KmutilLoads, KmutilEnds, StartThread,
              Connect, Load, Next, Start, Environment
<1>3. CASE TryMount \/ Die
  BY <1>3 DEF TryMount, Die, Next, Environment
<1>4. CASE KextRuns \/ KextIsUsed
  BY <1>4 DEF KextRuns, KextIsUsed, Next, Environment
<1>5. CASE LoadByHand \/ MountByHand \/ Arm
  BY <1>5 DEF LoadByHand, MountByHand, Arm, Load, Next, Start, Environment
<1>6. QED
  BY <1>1, <1>2, <1>3, <1>4, <1>5 DEF BootNext

\* The invariant of start and stop holds on a machine that restarts at any time.
LEMMA StageInvariance == BootSpec => []StageInv
<1>1. BootInit => StageInv
  BY StageInit DEF BootInit
<1>2. ASSUME StageInv, [BootNext]_<<vars, bootVars>> PROVE StageInv'
  <2>1. CASE Reboot
    BY <2>1 DEF Reboot, StageInv
  <2>2. QED
    BY <1>2, <2>1, KextStep, StageStep
<1>3. QED
  BY <1>1, <1>2, PTL DEF BootSpec

\* Whoever loads, unloads and mounts, procfsd and an operator at the same time,
\* a mounted /proc keeps what its operations need.
THEOREM ProcIsServed == BootSpec => []MountedIsServed
<1>1. StageInv => MountedIsServed
  BY DEF StageInv, MountedIsServed
<1>2. QED
  BY <1>1, StageInvariance, PTL

\* ... and an unloaded kext has given back what procfs_stop releases, however
\* often it was loaded, unloaded and interrupted by a restart.
THEOREM ProcIsReleased == BootSpec => []UnloadReleases
<1>1. StageInv => UnloadReleases
  BY DEF StageInv, UnloadReleases
<1>2. QED
  BY <1>1, StageInvariance, PTL

-----------------------------------------------------------------------------
(* The symbols                                                             *)

\* What a load keeps of the whole file of build b in the running kernel.
Kept(b) ==
    resolve_symbols(Link[b], Runtime(build, slide)[VERSION], Runtime(build, slide)[KPMAP])

Origins == [build : Builds, whole : BOOLEAN]

\* A whole file is the table of its build; the addresses come from the file;
\* what the running procfsd staged is still there when it loads.
SymbolInv ==
    /\ build \in Builds /\ slide \in Nat
    /\ origin \in Origins /\ used \in Origins
    /\ origin.whole => staged = Link[origin.build]
    /\ used.whole => addr = Kept(used.build)
    /\ fresh => staged = Link[build]
    /\ main \in {"off", "stage"} => ~fresh /\ loader # "procfsd"
    /\ loader = "procfsd" /\ fresh /\ slurped => addr = Kept(build)

\* Addresses that are kept of a whole file are right, unless the file is of
\* another build with the same distance between the anchors.
LEMMA KeptIsRight ==
    ASSUME SymbolInv, NEW b \in Builds, NEW y \in names,
           b = build \/ (~SameAnchors(b, build) /\ Kept(b)[y] # 0)
    PROVE  Kept(b)[y] = Runtime(build, slide)[y]
<1> DEFINE v == Link[build][VERSION] + slide
           k == Link[build][KPMAP] + slide
           shift == v - Link[b][VERSION]
<1>1. /\ VERSION \in Symbols /\ KPMAP \in Symbols /\ y \in Symbols /\ VERSION \in names
      /\ \A c \in Builds : /\ Link[c] \in [Symbols -> Nat]
                           /\ Link[c][VERSION] # 0 /\ Link[c][KPMAP] # 0
  BY LinkAssumption DEF names, VERSION, KPMAP
<1>2. Link[b][y] \in Nat /\ Link[b][VERSION] \in Nat /\ Link[b][KPMAP] \in Nat
  BY <1>1
<1>3. /\ Link[build][y] \in Nat /\ Link[build][VERSION] \in Nat /\ Link[build][KPMAP] \in Nat
      /\ slide \in Nat /\ build \in Builds
  BY <1>1 DEF SymbolInv
<1>4. /\ Runtime(build, slide)[VERSION] = v /\ Runtime(build, slide)[KPMAP] = k
      /\ Runtime(build, slide)[y] = IF Link[build][y] = 0 THEN 0 ELSE Link[build][y] + slide
  BY <1>1, <1>3 DEF Runtime
<1>5. Kept(b) = resolve_symbols(Link[b], v, k)
  BY <1>4 DEF Kept
<1>6. CASE b = build
  <2>1. Matches(Link[b], v, k)
    BY <1>3, <1>6 DEF Matches
  <2>2. klookup_resolve(Link[b], v, k)
          = [x \in names |-> IF Link[b][x] = 0 THEN 0 ELSE Link[b][x] + shift]
    BY <1>1, <1>6, <2>1 DEF klookup_resolve
  <2>3. klookup_resolve(Link[b], v, k)[VERSION] = v
    BY <1>1, <1>2, <1>3, <1>6, <2>2
  <2>4. Kept(b)[y] = IF Link[b][y] = 0 THEN 0 ELSE Link[b][y] + shift
    BY <1>1, <1>5, <2>2, <2>3 DEF resolve_symbols
  <2>5. shift = slide
    BY <1>2, <1>3, <1>6
  <2>6. QED
    BY <1>4, <1>6, <2>4, <2>5
<1>7. CASE ~SameAnchors(b, build) /\ Kept(b)[y] # 0
  <2>1. ~Matches(Link[b], v, k)
    BY <1>1, <1>2, <1>3, <1>7 DEF Matches, SameAnchors
  <2>2. klookup_resolve(Link[b], v, k) = Nothing
    BY <2>1 DEF klookup_resolve
  <2>3. Kept(b) = Nothing
    BY <1>5, <2>2 DEF resolve_symbols
  <2>4. QED
    BY <1>7, <2>3 DEF Nothing
<1>8. QED
  BY <1>6, <1>7

\* No file is staged and nothing is loaded at first.
LEMMA SymbolInit == BootInit => SymbolInv
<1> SUFFICES ASSUME BootInit PROVE SymbolInv
  OBVIOUS
<1>1. build \in Builds /\ slide \in Nat
  BY BootAssumption DEF BootInit
<1>2. NoOrigin \in Origins /\ ~NoOrigin.whole
  BY <1>1 DEF NoOrigin, Origins
<1>3. QED
  BY <1>1, <1>2 DEF BootInit, SymbolInv

\* A file that cannot be read gives no addresses (klookup_resolve).
LEMMA NoneOfNothing ==
    ASSUME NEW version, NEW kpmap
    PROVE  resolve_symbols(NoLines, version, kpmap) = Nothing
<1>1. NoLines[VERSION] = 0
  BY LinkAssumption DEF NoLines
<1>2. QED
  BY <1>1 DEF resolve_symbols, klookup_resolve

\* A load, by whomever, keeps what the file of that moment gives, or nothing.
LEMMA LoadKeeps ==
    ASSUME SymbolInv, NEW who, Load(who), UNCHANGED <<machineVars, fileVars, daemonVars>>,
           who = "procfsd" => main \notin {"off", "stage"}
    PROVE  SymbolInv'
<1>1. /\ build' = build /\ slide' = slide /\ staged' = staged /\ origin' = origin
      /\ fresh' = fresh /\ main' = main /\ loader' = who
      /\ used' = IF addr' = Nothing THEN NoOrigin ELSE origin
  BY DEF Load, machineVars, fileVars, daemonVars
<1> DEFINE Of(file) ==
             resolve_symbols(file, Runtime(build, slide)[VERSION], Runtime(build, slide)[KPMAP])
<1>2. /\ \A b : Kept(b)' = Kept(b)
      /\ \A b : Kept(b) = Of(Link[b])
  BY <1>1, Zenon DEF Kept
<1>3. PICK file \in kl_slurp(staged) : addr' = Of(file) /\ slurped' = (file = staged)
  BY Zenon DEF Load
<1>4. \/ addr' = Of(staged)
      \/ addr' = Nothing /\ ~slurped'
  <2>1. CASE file = staged
    BY <1>3, <2>1, Zenon
  <2>2. CASE file # staged
    <3>1. file = NoLines
      BY <2>2 DEF kl_slurp
    <3>2. QED
      BY <1>3, <2>2, <3>1, NoneOfNothing
  <2>3. QED
    BY <2>1, <2>2
<1>5. NoOrigin \in Origins /\ ~NoOrigin.whole
  BY DEF NoOrigin, Origins, SymbolInv
<1>6. used'.whole => origin.whole /\ used' = origin /\ addr' = Of(staged)
  BY <1>1, <1>4, <1>5
<1>7. (used.whole => addr = Kept(used.build))'
  BY <1>1, <1>2, <1>6 DEF SymbolInv
<1>8. fresh /\ slurped' => (addr = Kept(build))'
  BY <1>1, <1>2, <1>4 DEF SymbolInv
<1>9. used' \in Origins
  BY <1>1, <1>5 DEF SymbolInv
<1>10. QED
  BY <1>1, <1>7, <1>8, <1>9 DEF SymbolInv

\* Every step of procfsd, of the operator and of the machine preserves it.
LEMMA SymbolStep ==
    ASSUME SymbolInv, [BootNext]_<<vars, bootVars>>
    PROVE  SymbolInv'
<1> USE DEF bootVars, machineVars, fileVars, symbolVars, daemonVars
<1>0. /\ Sequel("start") = "stage" /\ Sequel("stage") = "load" /\ Sequel("load") = "threads"
      /\ Sequel("threads") = "connect"
  BY DEF Sequel
<1>1. CASE UNCHANGED <<boots, build, slide, slashproc, staged, origin, addr, used, slurped, loader,
                       fresh>>
           /\ (main' \in {"off", "stage"} => ~fresh /\ loader # "procfsd")
  BY <1>1 DEF SymbolInv, Kept
<1>2. CASE \/ UNCHANGED <<vars, bootVars>> \/ Launch \/ SkipLoad \/ RunKmutil \/ KmutilEnds
           \/ StartThread \/ Connect \/ TryMount \/ KextIsUsed \/ MountByHand \/ Arm
  <2>1. CASE UNCHANGED <<vars, bootVars>> \/ KextIsUsed \/ MountByHand \/ Arm \/ TryMount
    <3>1. UNCHANGED <<boots, build, slide, slashproc, staged, origin, addr, used, slurped, loader,
                      fresh, main>>
      BY <2>1 DEF KextIsUsed, MountByHand, Arm, TryMount
    <3>2. QED
      BY <1>1, <3>1 DEF SymbolInv
  <2>2. CASE Launch
    BY <1>0, <2>2 DEF Launch, SymbolInv, Kept
  <2>3. CASE SkipLoad \/ RunKmutil \/ KmutilEnds \/ StartThread \/ Connect
    BY <1>0, <1>1, <2>3 DEF SkipLoad, RunKmutil, KmutilEnds, StartThread, Connect
  <2>4. QED
    BY <1>2, <2>1, <2>2, <2>3
<1>3. CASE Stage
  <2>1. /\ build' = build /\ slide' = slide /\ addr' = addr /\ used' = used /\ loader' = loader
        /\ main' = "load" /\ ~fresh /\ loader # "procfsd"
    BY <1>0, <1>3 DEF Stage, SymbolInv
  <2>2. CASE UNCHANGED <<staged, origin, fresh>>
    BY <2>1, <2>2 DEF SymbolInv, Kept
  <2>3. ASSUME NEW whole \in BOOLEAN, WriteStaged(whole), fresh' = whole
        PROVE  SymbolInv'
    <3>1. whole => staged' = Link[build]
      BY <2>3 DEF WriteStaged, Staged
    <3>2. /\ origin' = NoOrigin \/ origin' = [build |-> build, whole |-> whole]
          /\ NoOrigin \in Origins /\ ~NoOrigin.whole
      BY <2>3 DEF WriteStaged, NoOrigin, Origins, SymbolInv
    <3>3. origin' \in Origins /\ (origin'.whole => staged' = Link[origin'.build])
      BY <3>1, <3>2 DEF Origins, SymbolInv
    <3>4. QED
      BY <2>1, <2>3, <3>1, <3>3 DEF SymbolInv, Kept
  <2>4. QED
    BY <1>3, <2>2, <2>3 DEF Stage
<1>4. CASE KmutilLoads
  BY <1>4, LoadKeeps DEF KmutilLoads
<1>5. CASE LoadByHand
  BY <1>5, LoadKeeps DEF LoadByHand
<1>6. NoOrigin \in Origins /\ ~NoOrigin.whole
  BY DEF NoOrigin, Origins, SymbolInv
<1>7. CASE Die
  BY <1>7 DEF Die, SymbolInv, Kept
<1>8. CASE KextRuns
  <2>1. CASE kpc' = "unloaded"
    BY <1>6, <1>8, <2>1 DEF KextRuns, SymbolInv
  <2>2. CASE kpc' # "unloaded"
    BY <1>1, <1>8, <2>2 DEF KextRuns, SymbolInv
  <2>3. QED
    BY <2>1, <2>2
<1>9. CASE Reboot
  BY <1>6, <1>9, BootAssumption DEF Reboot, SymbolInv
<1>10. QED
  BY <1>2, <1>3, <1>4, <1>5, <1>7, <1>8, <1>9 DEF BootNext, Procfsd

\* The addresses that resolve_symbols kept are those of the running kernel, for
\* any kernels, slides and histories of staging, loading and restarting.
THEOREM AddressesAreRight == BootSpec => []SymbolsAreRight
<1>1. SymbolInv => SymbolsAreRight
  BY KeptIsRight DEF SymbolInv, SymbolsAreRight, Origins
<1>2. QED
  BY <1>1, SymbolInit, SymbolStep, PTL DEF BootSpec

\* A kext that procfsd loads has every symbol that the same process staged, if
\* klookup_resolve could read the file.
THEOREM LoadsAreStaged == BootSpec => []StagedBeforeLoad
<1>1. SymbolInv => StagedBeforeLoad
  BY KeptIsRight DEF SymbolInv, StagedBeforeLoad
<1>2. QED
  BY <1>1, SymbolInit, SymbolStep, PTL DEF BootSpec
=============================================================================
