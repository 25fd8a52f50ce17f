----------------------------- MODULE CtlBridge -----------------------------
(***************************************************************************)
(* The kernel-control bridge of kext/procfs_ctl.c and its peer, the main   *)
(* loop of tools/procfsd.c.  A reader in the kernel takes one of a few     *)
(* slots, sends a numbered request to the connected daemon and sleeps on   *)
(* the slot until the reply with that number, a disconnect, the timeout or *)
(* a signal ends the wait.                                                 *)
(*                                                                         *)
(* Granularity.  The slots are only touched with g_ctl_lock held, so one   *)
(* critical section is one action; the first test of g_ctl_connected, the  *)
(* enqueueing and the gaps between two critical sections are separate      *)
(* steps.  The socket layer is external: ctl_enqueuedata appends to the    *)
(* receive buffer of a unit or fails, send() runs procfs_ctl_send in the   *)
(* daemon's thread, closing a socket runs procfs_ctl_disconnect and then   *)
(* takes the unit down, and the first free unit number is used again.      *)
(***************************************************************************)
EXTENDS Integers, Sequences, FiniteSets

CONSTANTS
    Threads,        \* kernel threads that read a daemon-backed node
    NSlots,         \* PROCFS_CTL_SLOTS
    Daemons,        \* running instances of procfsd
    NUnits,         \* unit numbers of the control that are in play
    QueueLen,       \* requests that fit into a unit's receive buffer
    SeqMod,         \* 2^32, the modulus of g_ctl_seq
    FirstSeq,       \* g_ctl_seq at the beginning of the history
    MaxRequests     \* bound: numbered requests in the history

ASSUME SizesAssumption ==
    NSlots \in Nat /\ NUnits \in Nat /\ QueueLen \in Nat

\* A reply may come very late, but not after g_ctl_seq went once around.
ASSUME SeqAssumption ==
    /\ SeqMod \in Nat \ {0, 1}
    /\ FirstSeq \in 0 .. (SeqMod - 1)
    /\ MaxRequests \in 0 .. (SeqMod - 1)

Slots == 0 .. (NSlots - 1)
Units == 1 .. NUnits
Ids == 0 .. MaxRequests     \* 0: no request

VARIABLES
    \* The globals of procfs_ctl.c.
    connected,  \* g_ctl_connected
    unit,       \* g_ctl_unit
    seq,        \* g_ctl_seq
    in_use, done, sseq, serror, buf,    \* g_ctl_slots[]; buf: whose payload
    \* The readers.
    pc, slot, tunit, tseq, result,
    id,         \* the identity of the reader's current request
    got,        \* the request whose payload was copied out
    count,      \* number of requests so far
    \* The control's sockets and the daemons.
    owner,      \* the daemon connected to each unit, or "none"
    closing,    \* the disconnect callback has run, the unit still exists
    queue,      \* requests in the receive buffer of each unit
    dpc,        \* where each daemon is
    hand        \* the request a daemon works on

slotVars   == <<in_use, done, sseq, serror, buf>>
readerVars == <<pc, slot, tunit, tseq, result, id, got, count>>
sockVars   == <<owner, closing, queue>>
daemonVars == <<dpc, hand>>
vars == <<connected, unit, seq, slotVars, readerVars, sockVars, daemonVars>>

NoDaemon == "none"

ASSUME DaemonsAssumption == NoDaemon \notin Daemons

Request == [seq : 0 .. (SeqMod - 1), id : Ids]
NoRequest == [seq |-> 0, id |-> 0]

\* What procfs_ctl_request returns: "daemon" stands for an error of the reply.
Results == {"none", "ok", "ENOTCONN", "enqueue", "ETIMEDOUT", "daemon"}

TypeOK ==
    /\ connected \in BOOLEAN
    /\ unit \in 0 .. NUnits
    /\ seq \in 0 .. (SeqMod - 1)
    /\ in_use \in [Slots -> BOOLEAN]
    /\ done \in [Slots -> BOOLEAN]
    /\ sseq \in [Slots -> 0 .. (SeqMod - 1)]
    /\ serror \in [Slots -> {"ok", "ENOTCONN", "daemon"}]
    /\ buf \in [Slots -> Ids]
    /\ pc \in [Threads -> {"idle", "alloc", "enqueue", "wait", "sleep", "expired", "release"}]
    /\ slot \in [Threads -> Slots \cup {-1}]
    /\ tunit \in [Threads -> 0 .. NUnits]
    /\ tseq \in [Threads -> 0 .. (SeqMod - 1)]
    /\ result \in [Threads -> Results]
    /\ id \in [Threads -> Ids]
    /\ got \in [Threads -> Ids]
    /\ count \in Ids
    /\ owner \in [Units -> Daemons \cup {NoDaemon}]
    /\ closing \in [Units -> BOOLEAN]
    /\ queue \in [Units -> Seq(Request)]
    /\ dpc \in [Daemons -> {"wait_connect", "recv", "serve", "closing"}]
    /\ hand \in [Daemons -> Request]

Init ==
    /\ connected = FALSE
    /\ unit = 0
    /\ seq = FirstSeq
    /\ in_use = [s \in Slots |-> FALSE]
    /\ done = [s \in Slots |-> FALSE]
    /\ sseq = [s \in Slots |-> 0]
    /\ serror = [s \in Slots |-> "ok"]
    /\ buf = [s \in Slots |-> 0]
    /\ pc = [t \in Threads |-> "idle"]
    /\ slot = [t \in Threads |-> -1]
    /\ tunit = [t \in Threads |-> 0]
    /\ tseq = [t \in Threads |-> 0]
    /\ result = [t \in Threads |-> "none"]
    /\ id = [t \in Threads |-> 0]
    /\ got = [t \in Threads |-> 0]
    /\ count = 0
    /\ owner = [u \in Units |-> NoDaemon]
    /\ closing = [u \in Units |-> FALSE]
    /\ queue = [u \in Units |-> <<>>]
    /\ dpc = [d \in Daemons |-> "wait_connect"]
    /\ hand = [d \in Daemons |-> NoRequest]

-----------------------------------------------------------------------------
(* procfs_ctl_request                                                      *)

Goto(t, loc) == pc' = [pc EXCEPT ![t] = loc]

\* The function is entered; g_ctl_connected is read without the lock.  Without
\* a daemon it returns ENOTCONN at once, which changes nothing.
Enter(t) ==
    /\ pc[t] = "idle"
    /\ connected
    /\ Goto(t, "alloc")
    /\ UNCHANGED <<connected, unit, seq, slotVars, sockVars, daemonVars,
                   slot, tunit, tseq, result, id, got, count>>

\* Mutant of NextSeq: 0 is a number like the others.
MutNextSeq == (seq + 1) % SeqMod

\* ++g_ctl_seq, once more if that gives 0.
NextSeq ==
    LET n == (seq + 1) % SeqMod IN IF n = 0 THEN n + 1 ELSE n

FirstFree(s) == ~in_use[s] /\ \A r \in Slots : r < s => in_use[r]

\* With the lock: take the first free slot and number the request.
Alloc(t) ==
    /\ pc[t] = "alloc"
    /\ count < MaxRequests
    /\ \E s \in Slots :
          /\ FirstFree(s)
          /\ in_use' = [in_use EXCEPT ![s] = TRUE]
          /\ done' = [done EXCEPT ![s] = FALSE]
          /\ sseq' = [sseq EXCEPT ![s] = NextSeq]
          /\ serror' = [serror EXCEPT ![s] = "ok"]
          /\ slot' = [slot EXCEPT ![t] = s]
    /\ seq' = NextSeq
    /\ tseq' = [tseq EXCEPT ![t] = NextSeq]
    /\ tunit' = [tunit EXCEPT ![t] = unit]
    /\ count' = count + 1
    /\ id' = [id EXCEPT ![t] = count + 1]
    /\ Goto(t, "enqueue")
    /\ UNCHANGED <<connected, unit, buf, sockVars, daemonVars, result, got>>

\* All slots are taken: EBUSY.
Busy(t) ==
    /\ pc[t] = "alloc"
    /\ \A s \in Slots : in_use[s]
    /\ Goto(t, "idle")
    /\ UNCHANGED <<connected, unit, seq, slotVars, sockVars, daemonVars,
                   slot, tunit, tseq, result, id, got, count>>

\* ctl_enqueuedata, without the lock, to the unit read with the lock.
Enqueue(t) ==
    /\ pc[t] = "enqueue"
    /\ tunit[t] \in Units
    /\ owner[tunit[t]] # NoDaemon
    /\ Len(queue[tunit[t]]) < QueueLen
    /\ queue' = [queue EXCEPT ![tunit[t]] = Append(@, [seq |-> tseq[t], id |-> id[t]])]
    /\ Goto(t, "wait")
    /\ UNCHANGED <<connected, unit, seq, slotVars, owner, closing, daemonVars,
                   slot, tunit, tseq, result, id, got, count>>

\* The unit is gone or its buffer is full.
EnqueueFails(t) ==
    /\ pc[t] = "enqueue"
    /\ ~ /\ tunit[t] \in Units
         /\ owner[tunit[t]] # NoDaemon
         /\ Len(queue[tunit[t]]) < QueueLen
    /\ result' = [result EXCEPT ![t] = "enqueue"]
    /\ Goto(t, "release")
    /\ UNCHANGED <<connected, unit, seq, slotVars, sockVars, daemonVars,
                   slot, tunit, tseq, id, got, count>>

\* With the lock: the slot is not done, msleep.
Sleep(t) ==
    /\ pc[t] = "wait"
    /\ ~done[slot[t]]
    /\ Goto(t, "sleep")
    /\ UNCHANGED <<connected, unit, seq, slotVars, sockVars, daemonVars,
                   slot, tunit, tseq, result, id, got, count>>

\* Mutant of Expire: msleep without a timeout.
MutNoTimeout(t) == FALSE

\* msleep ends with an error (timeout or signal); the thread has to get the
\* lock before it looks at the slot again.
Expire(t) ==
    /\ pc[t] = "sleep"
    /\ Goto(t, "expired")
    /\ UNCHANGED <<connected, unit, seq, slotVars, sockVars, daemonVars,
                   slot, tunit, tseq, result, id, got, count>>

\* With the lock: the slot is done, by a reply or by a disconnect.
Collect(t) ==
    /\ pc[t] \in {"wait", "expired"}
    /\ done[slot[t]]
    /\ result' = [result EXCEPT ![t] = serror[slot[t]]]
    /\ got' = [got EXCEPT ![t] = IF serror[slot[t]] = "ok" THEN buf[slot[t]] ELSE 0]
    /\ Goto(t, "release")
    /\ UNCHANGED <<connected, unit, seq, slotVars, sockVars, daemonVars,
                   slot, tunit, tseq, id, count>>

GiveUp(t) ==
    /\ pc[t] = "expired"
    /\ ~done[slot[t]]
    /\ result' = [result EXCEPT ![t] = "ETIMEDOUT"]
    /\ Goto(t, "release")
    /\ UNCHANGED <<connected, unit, seq, slotVars, sockVars, daemonVars,
                   slot, tunit, tseq, id, got, count>>

\* Mutant of Freed: the slot is not given back after a timeout.
MutFreed(t) == [in_use EXCEPT ![slot[t]] = result[t] = "ETIMEDOUT"]

Freed(t) == [in_use EXCEPT ![slot[t]] = FALSE]

\* In a critical section of its own: give the slot back and return.
Release(t) ==
    /\ pc[t] = "release"
    /\ in_use' = Freed(t)
    /\ slot' = [slot EXCEPT ![t] = -1]
    /\ tunit' = [tunit EXCEPT ![t] = 0]
    /\ tseq' = [tseq EXCEPT ![t] = 0]
    /\ id' = [id EXCEPT ![t] = 0]
    /\ got' = [got EXCEPT ![t] = 0]
    /\ result' = [result EXCEPT ![t] = "none"]
    /\ Goto(t, "idle")
    /\ UNCHANGED <<connected, unit, seq, done, sseq, serror, buf, sockVars,
                   daemonVars, count>>

-----------------------------------------------------------------------------
(* The callbacks of the control and the loop of the daemon                 *)

\* Mutant of Wakeup: the waiters are not woken.
MutNoWakeup(S) == pc

\* wakeup() on the slots of S.
Wakeup(S) ==
    [t \in Threads |-> IF pc[t] = "sleep" /\ slot[t] \in S THEN "wait" ELSE pc[t]]

\* A slot whose request waits for an answer.
Pending(s) == in_use[s] /\ ~done[s]

\* Mutant of Answers: the first pending slot gets the reply.
MutAnswers(s, r) == Pending(s)

\* Reply r belongs to slot s.
Answers(s, r) == Pending(s) /\ sseq[s] = r.seq

procfs_ctl_connect(u) == unit' = u /\ connected' = TRUE

\* Mutant of procfs_ctl_disconnect: the flag stays.
MutDisconnect ==
    /\ UNCHANGED connected
    /\ serror' = [s \in Slots |-> IF Pending(s) THEN "ENOTCONN" ELSE serror[s]]
    /\ done' = [s \in Slots |-> done[s] \/ in_use[s]]
    /\ pc' = Wakeup({s \in Slots : Pending(s)})

\* procfs_ctl_disconnect does not look at the unit.
procfs_ctl_disconnect ==
    /\ connected' = FALSE
    /\ serror' = [s \in Slots |-> IF Pending(s) THEN "ENOTCONN" ELSE serror[s]]
    /\ done' = [s \in Slots |-> done[s] \/ in_use[s]]
    /\ pc' = Wakeup({s \in Slots : Pending(s)})

\* procfs_ctl_send gives reply r to the first slot it belongs to, if any.
procfs_ctl_send(r, err) ==
    \/ \E s \in Slots :
          /\ Answers(s, r)
          /\ \A i \in Slots : i < s => ~Answers(i, r)
          /\ buf' = IF err = "ok" THEN [buf EXCEPT ![s] = r.id] ELSE buf
          /\ serror' = [serror EXCEPT ![s] = err]
          /\ done' = [done EXCEPT ![s] = TRUE]
          /\ pc' = Wakeup({s})
    \/ /\ \A s \in Slots : ~Answers(s, r)
       /\ UNCHANGED <<buf, serror, done, pc>>

\* wait_connect() succeeds and the kernel runs the connect callback.
Connect(d) ==
    /\ dpc[d] = "wait_connect"
    /\ \E u \in Units :
          /\ owner[u] = NoDaemon
          /\ \A v \in Units : v < u => owner[v] # NoDaemon
          /\ owner' = [owner EXCEPT ![u] = d]
          /\ procfs_ctl_connect(u)
    /\ dpc' = [dpc EXCEPT ![d] = "recv"]
    /\ UNCHANGED <<seq, slotVars, readerVars, closing, queue, hand>>

\* recv() returns a request.
Recv(d) ==
    /\ dpc[d] = "recv"
    /\ \E u \in Units :
          /\ owner[u] = d
          /\ queue[u] # <<>>
          /\ hand' = [hand EXCEPT ![d] = Head(queue[u])]
          /\ queue' = [queue EXCEPT ![u] = Tail(@)]
    /\ dpc' = [dpc EXCEPT ![d] = "serve"]
    /\ UNCHANGED <<connected, unit, seq, slotVars, readerVars, owner, closing>>

\* The request was served, with or without an error, and the reply is sent.
Reply(d) ==
    /\ dpc[d] = "serve"
    /\ \E err \in {"ok", "daemon"} : procfs_ctl_send(hand[d], err)
    /\ dpc' = [dpc EXCEPT ![d] = "recv"]
    /\ hand' = [hand EXCEPT ![d] = NoRequest]
    /\ UNCHANGED <<connected, unit, seq, in_use, sseq, sockVars,
                   slot, tunit, tseq, result, id, got, count>>

\* The daemon closes its socket after a failed recv(), or it exits at any
\* point; the kernel runs the disconnect callback.
Close(d) ==
    /\ dpc[d] \in {"recv", "serve"}
    /\ dpc' = [dpc EXCEPT ![d] = "closing"]
    /\ hand' = [hand EXCEPT ![d] = NoRequest]
    /\ closing' = [u \in Units |-> closing[u] \/ owner[u] = d]
    /\ procfs_ctl_disconnect
    /\ UNCHANGED <<unit, seq, in_use, sseq, buf, owner, queue,
                   slot, tunit, tseq, result, id, got, count>>

\* The kernel takes the unit down, with what its buffer still holds; the
\* daemon, or the next instance of it, tries to connect again.
Detach(d) ==
    /\ dpc[d] = "closing"
    /\ dpc' = [dpc EXCEPT ![d] = "wait_connect"]
    /\ owner' = [u \in Units |-> IF owner[u] = d THEN NoDaemon ELSE owner[u]]
    /\ queue' = [u \in Units |-> IF owner[u] = d THEN <<>> ELSE queue[u]]
    /\ closing' = [u \in Units |-> closing[u] /\ owner[u] # d]
    /\ UNCHANGED <<connected, unit, seq, slotVars, readerVars, hand>>

-----------------------------------------------------------------------------
RequestStep(t) ==
    \/ Alloc(t) \/ Busy(t) \/ Enqueue(t) \/ EnqueueFails(t)
    \/ Sleep(t) \/ Expire(t) \/ Collect(t) \/ GiveUp(t) \/ Release(t)

DaemonStep(d) == Connect(d) \/ Recv(d) \/ Reply(d) \/ Close(d) \/ Detach(d)

Next ==
    \/ \E t \in Threads : Enter(t) \/ RequestStep(t)
    \/ \E d \in Daemons : DaemonStep(d)

Spec == Init /\ [][Next]_vars

\* The kernel schedules a runnable thread and msleep() has a timeout; nothing
\* is assumed of the daemons.
FairSpec == Spec /\ \A t \in Threads : WF_vars(RequestStep(t))

-----------------------------------------------------------------------------
Holding == {"enqueue", "wait", "sleep", "expired", "release"}

\* procfs_ctl_request returns 0 only with the payload of its own request: a
\* reply that comes after the timeout, when the slot serves another request,
\* is dropped, in procfs_ctl_send, because its number is not the slot's.
OwnReply ==
    \A t \in Threads :
        pc[t] = "release" /\ result[t] = "ok" => id[t] # 0 /\ got[t] = id[t]

\* A slot is in use exactly while one request holds it: no slot is shared and
\* none is lost on an error, timeout or disconnect path of procfs_ctl_request.
SlotOwnership ==
    \A s \in Slots :
        IF in_use[s]
        THEN \E t \in Threads : /\ pc[t] \in Holding /\ slot[t] = s
                                /\ \A r \in Threads \ {t} : slot[r] # s
        ELSE \A t \in Threads : slot[t] # s

\* No lost wakeup: while a thread sleeps in msleep its slot is still pending,
\* so that the reply or the disconnect that ends the wait is yet to come.
SleeperIsPending ==
    \A t \in Threads : pc[t] = "sleep" => Pending(slot[t])

\* The requests in flight have different numbers, none of them 0, although
\* the counter wraps around.
NumbersDiffer ==
    \A t, r \in Threads :
        pc[t] \in Holding /\ pc[r] \in Holding /\ t # r =>
            tseq[t] # tseq[r] /\ tseq[t] # 0

\* While g_ctl_connected is set a daemon is attached to g_ctl_unit, the unit that
\* procfs_ctl_request sends to, in whatever order daemons connect, close and go.
ConnectedIsServed ==
    connected => unit \in Units /\ owner[unit] # NoDaemon /\ ~closing[unit]

\* "ENOTCONN if no daemon": the bridge counts itself disconnected only while
\* no daemon has a usable connection.  It does not hold of two daemons: the
\* disconnect of either clears the flag.
RefusedOnlyWithoutDaemon ==
    ~connected => \A u \in Units : owner[u] = NoDaemon \/ closing[u]

\* Every call of procfs_ctl_request that numbers a request returns, whatever
\* the daemons do: the daemon may be silent, die, or reconnect meanwhile.
RequestReturns ==
    \A t \in Threads : (pc[t] \in Holding) ~> (pc[t] = "idle")
=============================================================================
