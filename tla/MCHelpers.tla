----------------------------- MODULE MCHelpers -----------------------------
(***************************************************************************)
(* What the read functions are made of, for TLC: the string buffer, the    *)
(* walk over the regions, the lists of threads and of descriptors, the     *)
(* scan of the argument region and the load average.  They share no state, *)
(* so a behaviour has one of them, chosen at the start; the variables of   *)
(* the others are 0, and a string buffer without text.                     *)
(***************************************************************************)
EXTENDS Sbuf

CONSTANTS
    Top, MAX_REGIONS,
    MaxUthreads, MaxChanges, MAX_THREADS,
    MaxFd,
    MaxBytes, MaxArgs, MaxWord,
    la_ncpu, FSCALE, la_cexp, Mod64, Mod32, MaxTicks

VARIABLES
    loop,                                                   \* which one
    map, addr, n, text, failed, vsize, rpc, rkept,          \* regions
    p_uthlist, uu_list, mapped, thread_mapped, tpc, uth, count, ids, room, tkept, gone,
    reused, changes,                                        \* threads
    fd_ofiles, fpc, capacity, fds, fkept,                   \* descriptors
    buf, argc, parts, apc, pos, got, argv_off, env_off, apple_off,
    ticks, la_busy, la_idle, la_primed, ldavg, lpc, i, busy, idle, now, before, steady, worked

R == INSTANCE RegionWalk WITH pc <- rpc, kept <- rkept
T == INSTANCE ThreadList WITH pc <- tpc, kept <- tkept
F == INSTANCE FdList WITH pc <- fpc, kept <- fkept
A == INSTANCE ProcArgs WITH pc <- apc
L == INSTANCE LoadAvg WITH pc <- lpc

regionVars == <<map, addr, n, text, failed, vsize, rpc, rkept>>
threadVars == <<p_uthlist, uu_list, mapped, thread_mapped, tpc, uth, count, ids, room, tkept,
                gone, reused, changes>>
fdVars     == <<fd_ofiles, fpc, capacity, fds, fkept>>
argVars    == <<buf, argc, parts, apc, pos, got, argv_off, env_off, apple_off>>
loadVars   == <<ticks, la_busy, la_idle, la_primed, ldavg, lpc, i, busy, idle, now, before,
                steady, worked>>
allVars    == <<loop, vars, regionVars, threadVars, fdVars, argVars, loadVars>>

OneDecay == <<3>>

MCPieces == {<<" ">>, <<"a", "b">>, <<"a", "b", "c">>}

NoRegions ==
    /\ map = 0 /\ addr = 0 /\ n = 0 /\ text = 0 /\ failed = 0 /\ vsize = 0 /\ rpc = "off"
    /\ rkept = 0

NoThreads ==
    /\ p_uthlist = 0 /\ uu_list = 0 /\ mapped = 0 /\ thread_mapped = 0 /\ tpc = "off"
    /\ uth = 0 /\ count = 0 /\ ids = 0 /\ room = 0 /\ tkept = 0 /\ gone = 0 /\ reused = 0 /\ changes = 0

NoFds ==
    /\ fd_ofiles = 0 /\ fpc = "off" /\ capacity = 0 /\ fds = 0 /\ fkept = 0

NoArgs ==
    /\ buf = 0 /\ argc = 0 /\ parts = 0 /\ apc = "off" /\ pos = 0 /\ got = 0 /\ argv_off = 0
    /\ env_off = 0 /\ apple_off = 0

NoLoad ==
    /\ ticks = 0 /\ la_busy = 0 /\ la_idle = 0 /\ la_primed = 0 /\ ldavg = 0 /\ lpc = "off"
    /\ i = 0 /\ busy = 0 /\ idle = 0 /\ now = 0 /\ before = 0 /\ steady = 0 /\ worked = 0

HelpersInit ==
    /\ Init
    /\ \/ loop = "sbuf" /\ NoRegions /\ NoThreads /\ NoFds /\ NoArgs /\ NoLoad
       \/ loop = "regions" /\ R!Init /\ NoThreads /\ NoFds /\ NoArgs /\ NoLoad
       \/ loop = "threads" /\ T!Init /\ NoRegions /\ NoFds /\ NoArgs /\ NoLoad
       \/ loop = "fds" /\ F!Init /\ NoRegions /\ NoThreads /\ NoArgs /\ NoLoad
       \/ loop = "args" /\ A!Init /\ NoRegions /\ NoThreads /\ NoFds /\ NoLoad
       \/ loop = "load" /\ L!Init /\ NoRegions /\ NoThreads /\ NoFds /\ NoArgs

Only(name, others) == loop = name /\ UNCHANGED <<loop, others>>

SbufOnly    == Only("sbuf", <<regionVars, threadVars, fdVars, argVars, loadVars>>)
RegionsOnly == Only("regions", <<vars, threadVars, fdVars, argVars, loadVars>>)
ThreadsOnly == Only("threads", <<vars, regionVars, fdVars, argVars, loadVars>>)
FdsOnly     == Only("fds", <<vars, regionVars, threadVars, argVars, loadVars>>)
ArgsOnly    == Only("args", <<vars, regionVars, threadVars, fdVars, loadVars>>)
LoadOnly    == Only("load", <<vars, regionVars, threadVars, fdVars, argVars>>)

HelpersNext ==
    \/ SbufOnly /\ Next
    \/ RegionsOnly /\ R!Next
    \/ ThreadsOnly /\ T!Next
    \/ FdsOnly /\ F!Next
    \/ ArgsOnly /\ A!Next
    \/ LoadOnly /\ L!Next

\* The thread that is in a loop goes on.
Loops ==
    \/ SbufOnly /\ Printf
    \/ RegionsOnly /\ (R!Visit \/ R!Finish)
    \/ ThreadsOnly /\ T!Pass
    \/ ArgsOnly /\ A!Step

HelpersSpec == HelpersInit /\ [][HelpersNext]_allVars /\ WF_allVars(Loops)

-----------------------------------------------------------------------------
\* RegionWalk!StayingListed, ThreadList!ThreadsListed, FdList!FdsListed: what
\* stays while its list is made is in the list, a region in map, a thread or a
\* descriptor in its directory.
StayingListed ==
    CASE loop = "regions" -> R!StayingListed
      [] loop = "threads" -> T!ThreadsListed
      [] loop = "fds" -> F!FdsListed
      [] OTHER -> TRUE

\* ProcArgs!SpansAreExact: cmdline has the arguments, environ the environment.
SpansAreExact == loop = "args" => A!SpansAreExact

\* LoadAvg!LoadIsRecent: the load is at most the number of CPUs, and recent.
LoadIsRecent == loop = "load" => L!LoadIsRecent

\* Every loop ends: sbuf_vprintf, because what growing makes room for fits at
\* the next try; the walk over regions that change all the time; the passes
\* over links that lead anywhere (but see ThreadList!PassesEnd); the scan of
\* any bytes.
LoopsEnd ==
    /\ pc \in {"try", "grow"} ~> pc = "idle"
    /\ rpc = "walk" ~> rpc = "done"
    /\ tpc \in {"count", "alloc", "collect"} ~> (tpc = "done" \/ (loop = "threads" /\ T!Circle))
    /\ apc = "path" ~> apc = "done"

=============================================================================
