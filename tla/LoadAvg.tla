------------------------------ MODULE LoadAvg ------------------------------
(***************************************************************************)
(* The load average (kext/procfs_linux.c, la_sample): every few seconds    *)
(* the ticks of all CPUs are added up, and the share that was busy since   *)
(* the sample before goes into three moving averages, in fixed point.      *)
(* Ticks go on while a sample is taken, and a CPU may not answer.          *)
(***************************************************************************)
EXTENDS Integers, Sequences

CONSTANTS
    la_ncpu,        \* CPUs
    FSCALE,         \* 1.0 in fixed point
    la_cexp,        \* the decay of each average
    Mod64, Mod32,   \* the moduli of uint64_t and of fixpt_t
    MaxTicks        \* bound: ticks of each kind on each CPU

Cpus == 0 .. la_ncpu - 1

VARIABLES
    ticks,              \* cpu_ticks of each CPU: busy ones and idle ones
    la_busy, la_idle, la_primed,
    ldavg,              \* averunnable.ldavg
    pc, i, busy, idle,  \* la_sample and its variables
    now, before,        \* CPUs that answered in this sample, in the one before
    steady,             \* they were the same in all samples
    worked              \* a CPU was busy since the first sample looked at it

laVars == <<la_busy, la_idle, la_primed, ldavg, before, steady>>
vars   == <<ticks, worked, laVars, pc, i, busy, idle, now>>

\* CPUs have been busy before the kext was loaded.
Init ==
    /\ ticks \in [Cpus -> [busy : 0 .. 1, idle : {0}]]
    /\ la_busy = 0 /\ la_idle = 0 /\ la_primed = FALSE
    /\ ldavg = [k \in DOMAIN la_cexp |-> 0]
    /\ pc = "wait" /\ i = 0 /\ busy = 0 /\ idle = 0
    /\ now = {} /\ before = {} /\ steady = TRUE /\ worked = FALSE

Tick ==
    /\ \E c \in Cpus, k \in {"busy", "idle"} :
        /\ ticks[c][k] < MaxTicks
        /\ ticks' = [ticks EXCEPT ![c][k] = @ + 1]
        /\ worked' = (worked \/ (k = "busy" /\ (la_primed \/ c < i)))
    /\ UNCHANGED <<laVars, pc, i, busy, idle, now>>

\* la_sample adds up the ticks, CPU by CPU ...
Sample ==
    /\ pc = "wait" /\ pc' = "add"
    /\ i' = 0 /\ busy' = 0 /\ idle' = 0 /\ now' = {}
    /\ UNCHANGED <<ticks, worked, laVars>>

\* ... without those for which cpu_to_processor or processor_info fails ...
Add ==
    /\ pc = "add" /\ i \in Cpus
    /\ \/ /\ busy' = (busy + ticks[i].busy) % Mod64
          /\ idle' = (idle + ticks[i].idle) % Mod64
          /\ now' = now \cup {i}
       \/ UNCHANGED <<busy, idle, now>>
    /\ i' = i + 1
    /\ UNCHANGED <<ticks, worked, laVars, pc>>

\* Utilisation times la_ncpu, in fixed point.
nrun ==
    LET dbusy == (busy - la_busy) % Mod64
        total == (dbusy + ((idle - la_idle) % Mod64)) % Mod64
    IN  IF total = 0 THEN 0
        ELSE (((dbusy * la_ncpu * FSCALE) % Mod64) \div total) % Mod32

Average(k) == ((la_cexp[k] * ldavg[k] + nrun * (FSCALE - la_cexp[k])) \div FSCALE) % Mod32

\* Mutant of Folds: the first sample counts everything since the boot.
MutFolds == TRUE

\* The first sample only notes the sums.
Folds == la_primed

\* ... and folds what is new into the averages.
Fold ==
    /\ pc = "add" /\ i \notin Cpus /\ pc' = "wait"
    /\ ldavg' = IF Folds THEN [k \in DOMAIN la_cexp |-> Average(k)] ELSE ldavg
    /\ la_busy' = busy /\ la_idle' = idle /\ la_primed' = TRUE
    /\ before' = now /\ steady' = (steady /\ (la_primed => now = before))
    /\ i' = 0 /\ busy' = 0 /\ idle' = 0 /\ now' = {}
    /\ UNCHANGED <<ticks, worked>>

Next == Tick \/ Sample \/ Add \/ Fold

Spec == Init /\ [][Next]_vars

\* procfs_doloadavg: hundredths.
Load(k) == (ldavg[k] * 100) \div FSCALE

-----------------------------------------------------------------------------
\* "it saturates near ncpu" (la_sample): no load is above the number of CPUs,
\* and none is shown for the time before the first sample.  This takes that the
\* same CPUs answer every time: otherwise the sums go backwards, and what was
\* less than before is taken for a number near 2^64.
LoadIsRecent ==
    steady => \A k \in DOMAIN ldavg :
                  Load(k) <= 100 * la_ncpu /\ (~worked => Load(k) = 0)
=============================================================================
