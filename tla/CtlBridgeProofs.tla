-------------------------- MODULE CtlBridgeProofs --------------------------
(***************************************************************************)
(* The bridge of CtlBridge for any number of threads, slots, daemons and   *)
(* units: a request that succeeds got its own reply, slots are exclusive   *)
(* and are never lost, no wakeup is lost, and requests go to a daemon.     *)
(***************************************************************************)
EXTENDS CtlBridge, TLAPS

-----------------------------------------------------------------------------
(* The inductive invariant, and the lemmas its proof rests on: typing,     *)
(* taking a slot and giving a reply to a slot.                             *)

\* The number of the i-th request of the history; g_ctl_seq wraps at most once.
SeqOf(i) == IF FirstSeq + i < SeqMod THEN FirstSeq + i ELSE FirstSeq + i - (SeqMod - 1)

\* A numbered request, in a buffer or in the hands of a daemon.
Numbered(r) == r.id \in 1 .. count /\ r.seq = SeqOf(r.id)

\* The counter is the number of the latest request.
CountInv == seq = SeqOf(count)

\* What a thread knows about the slot it holds.
ReaderInv ==
    \A t \in Threads :
        IF pc[t] \in Holding
        THEN /\ slot[t] \in Slots /\ in_use[slot[t]]
             /\ id[t] \in 1 .. count
             /\ tseq[t] = SeqOf(id[t])
             /\ sseq[slot[t]] = tseq[t]
        ELSE slot[t] = -1

\* Two threads hold different slots for different requests.
ExclusiveInv ==
    \A t, r \in Threads :
        pc[t] \in Holding /\ pc[r] \in Holding /\ t # r => slot[t] # slot[r] /\ id[t] # id[r]

\* Every slot in use is held.
HeldInv ==
    \A s \in Slots : in_use[s] => \E t \in Threads : pc[t] \in Holding /\ slot[t] = s

\* Every request on its way to a reply carries the number of its identity.
QueueInv ==
    /\ \A u \in Units : \A i \in 1 .. Len(queue[u]) : Numbered(queue[u][i])
    /\ \A d \in Daemons : dpc[d] = "serve" => Numbered(hand[d])

\* A slot that was answered without error holds the payload of its holder.
DoneInv ==
    \A t \in Threads :
        pc[t] \in Holding /\ done[slot[t]] /\ serror[slot[t]] = "ok" => buf[slot[t]] = id[t]

Inv ==
    /\ TypeOK /\ CountInv /\ ReaderInv /\ ExclusiveInv /\ HeldInv /\ QueueInv
    /\ DoneInv /\ OwnReply /\ SleeperIsPending

\* What a step has to establish, under names that the steps of the proofs
\* leave folded.
TypeKept == TypeOK'
Kept == Inv'

-----------------------------------------------------------------------------
\* The number after the i-th request's number is that of the next request.
LEMMA NextSeqOf ==
    ASSUME count \in Ids, count < MaxRequests, CountInv
    PROVE  NextSeq = SeqOf(count + 1) /\ NextSeq \in 1 .. (SeqMod - 1)
<1>1. seq \in 0 .. (SeqMod - 1)
  BY SeqAssumption DEF CountInv, SeqOf, Ids
<1>2. (seq + 1) % SeqMod = IF seq + 1 = SeqMod THEN 0 ELSE seq + 1
  BY <1>1, SeqAssumption
<1>3. QED
  BY <1>1, <1>2, SeqAssumption DEF CountInv, SeqOf, Ids, NextSeq

\* Different requests of the history have different numbers, none of them 0.
LEMMA SeqOfInjective ==
    ASSUME NEW i \in 1 .. MaxRequests, NEW j \in 1 .. MaxRequests
    PROVE  SeqOf(i) \in 1 .. (SeqMod - 1) /\ (SeqOf(i) = SeqOf(j) => i = j)
BY SeqAssumption DEF SeqOf

-----------------------------------------------------------------------------
\* The invariant holds when the module is loaded.
LEMMA InvInit == Init => Inv
<1> SUFFICES ASSUME Init PROVE Inv
  OBVIOUS
<1>0. 0 \in Ids /\ 0 \in 0 .. NUnits /\ 0 \in 0 .. (SeqMod - 1) /\ NoRequest \in Request
  BY SizesAssumption, SeqAssumption DEF Ids, Request, NoRequest
<1>q. queue \in [Units -> Seq(Request)]
  BY DEF Init
<1>1. TypeOK
  BY <1>0, <1>q, SeqAssumption, Zenon DEF Init, TypeOK, Results
<1>2. CountInv /\ ReaderInv /\ ExclusiveInv /\ HeldInv /\ DoneInv /\ OwnReply /\ SleeperIsPending
  BY SeqAssumption DEF Init, CountInv, SeqOf, ReaderInv, ExclusiveInv, HeldInv, DoneInv,
       OwnReply, SleeperIsPending, Holding
<1>3. QueueInv
  BY DEF Init, QueueInv
<1>4. QED
  BY <1>1, <1>2, <1>3 DEF Inv

\* The type invariant is preserved by every step.
LEMMA TypeStep ==
    ASSUME TypeOK, ReaderInv, [Next]_vars
    PROVE  TypeKept
<1> DEFINE Pcs == {"idle", "alloc", "enqueue", "wait", "sleep", "expired", "release"}
<1>n. NextSeq \in 0 .. (SeqMod - 1)
  <2>1. seq \in 0 .. (SeqMod - 1)
    BY Zenon DEF TypeOK
  <2>2. QED
    BY <2>1, SeqAssumption DEF NextSeq
<1>0. /\ 0 \in Ids /\ 0 \in 0 .. NUnits /\ 0 \in 0 .. (SeqMod - 1) /\ NoRequest \in Request
      /\ Units \subseteq 0 .. NUnits
  BY SizesAssumption, SeqAssumption DEF Ids, Request, NoRequest, Units
<1>1. CASE UNCHANGED vars
  BY <1>1, Zenon DEF TypeKept, TypeOK, vars, slotVars, readerVars, sockVars, daemonVars
<1>2. ASSUME NEW t \in Threads, Enter(t) \/ Busy(t) \/ EnqueueFails(t)
                 \/ Sleep(t) \/ Expire(t) \/ GiveUp(t)
      PROVE  TypeKept
  <2>1. UNCHANGED <<connected, unit, seq, slotVars, sockVars, daemonVars,
                    slot, tunit, tseq, id, got, count>>
    BY <1>2, Zenon DEF Enter, Busy, EnqueueFails, Sleep, Expire, GiveUp
  <2>2. pc \in [Threads -> Pcs] /\ result \in [Threads -> Results]
    BY Zenon DEF TypeOK
  <2>3. pc' \in [Threads -> Pcs]
    BY <1>2, <2>2, Zenon DEF Enter, Busy, EnqueueFails, Sleep, Expire, GiveUp, Goto
  <2>4. result' \in [Threads -> Results]
    BY <1>2, <2>2, Zenon DEF Enter, Busy, EnqueueFails, Sleep, Expire, GiveUp, Results
  <2>5. QED
    BY <2>1, <2>3, <2>4, Zenon DEF TypeKept, TypeOK, slotVars, sockVars, daemonVars
<1>3. ASSUME NEW t \in Threads, Alloc(t)
      PROVE  TypeKept
  <2>1. PICK s \in Slots :
           /\ in_use' = [in_use EXCEPT ![s] = TRUE]
           /\ done' = [done EXCEPT ![s] = FALSE]
           /\ sseq' = [sseq EXCEPT ![s] = NextSeq]
           /\ serror' = [serror EXCEPT ![s] = "ok"]
           /\ slot' = [slot EXCEPT ![t] = s]
    BY <1>3, Zenon DEF Alloc
  <2>2. /\ in_use' \in [Slots -> BOOLEAN] /\ done' \in [Slots -> BOOLEAN]
        /\ sseq' \in [Slots -> 0 .. (SeqMod - 1)]
        /\ serror' \in [Slots -> {"ok", "ENOTCONN", "daemon"}]
        /\ slot' \in [Threads -> Slots \cup {-1}]
    <3>1. /\ in_use \in [Slots -> BOOLEAN] /\ done \in [Slots -> BOOLEAN]
          /\ sseq \in [Slots -> 0 .. (SeqMod - 1)]
          /\ serror \in [Slots -> {"ok", "ENOTCONN", "daemon"}]
          /\ slot \in [Threads -> Slots \cup {-1}]
      BY Zenon DEF TypeOK
    <3>2. QED
      BY <1>n, <2>1, <3>1
  <2>3. count + 1 \in Ids
    <3>1. count \in Ids /\ count < MaxRequests
      BY <1>3, Zenon DEF TypeOK, Alloc
    <3>2. QED
      BY <3>1, SeqAssumption DEF Ids
  <2>4. /\ seq' \in 0 .. (SeqMod - 1) /\ tseq' \in [Threads -> 0 .. (SeqMod - 1)]
        /\ tunit' \in [Threads -> 0 .. NUnits]
        /\ count' \in Ids /\ id' \in [Threads -> Ids]
        /\ pc' \in [Threads -> Pcs]
    BY <1>3, <1>n, <2>3, Zenon DEF TypeOK, Alloc, Goto
  <2>5. UNCHANGED <<connected, unit, buf, sockVars, daemonVars, result, got>>
    BY <1>3, Zenon DEF Alloc
  <2>6. QED
    BY <2>2, <2>4, <2>5, Zenon DEF TypeKept, TypeOK, sockVars, daemonVars
<1>4. ASSUME NEW t \in Threads, Enqueue(t)
      PROVE  TypeKept
  <2>1. queue \in [Units -> Seq(Request)] /\ tseq[t] \in 0 .. (SeqMod - 1) /\ id[t] \in Ids
    BY Zenon DEF TypeOK
  <2>2. /\ queue' = [queue EXCEPT ![tunit[t]] = Append(@, [seq |-> tseq[t], id |-> id[t]])]
        /\ tunit[t] \in Units /\ pc' \in [Threads -> Pcs]
        /\ UNCHANGED <<connected, unit, seq, slotVars, owner, closing, daemonVars,
                       slot, tunit, tseq, result, id, got, count>>
    BY <1>4, Zenon DEF TypeOK, Enqueue, Goto
  <2>3. [seq |-> tseq[t], id |-> id[t]] \in Request
    BY <2>1, Zenon DEF Request
  <2>4. queue' \in [Units -> Seq(Request)]
    BY <2>1, <2>2, <2>3
  <2>5. QED
    BY <2>2, <2>4, Zenon DEF TypeKept, TypeOK, slotVars, daemonVars
<1>5. ASSUME NEW t \in Threads, Collect(t)
      PROVE  TypeKept
  <2>1. slot[t] \in Slots
    BY <1>5, Zenon DEF Collect, ReaderInv, Holding
  <2>2. serror[slot[t]] \in Results /\ buf[slot[t]] \in Ids
    BY <2>1, Zenon DEF TypeOK, Results
  <2>3. /\ result' \in [Threads -> Results] /\ got' \in [Threads -> Ids]
        /\ pc' \in [Threads -> Pcs]
        /\ UNCHANGED <<connected, unit, seq, slotVars, sockVars, daemonVars,
                       slot, tunit, tseq, id, count>>
    BY <1>0, <1>5, <2>2, Zenon DEF TypeOK, Collect, Goto
  <2>4. QED
    BY <2>3, Zenon DEF TypeKept, TypeOK, slotVars, sockVars, daemonVars
<1>6. ASSUME NEW t \in Threads, Release(t)
      PROVE  TypeKept
  <2>1. "none" \in Results /\ -1 \in Slots \cup {-1}
    BY DEF Results
  <2>2. /\ in_use' \in [Slots -> BOOLEAN] /\ slot' \in [Threads -> Slots \cup {-1}]
        /\ tunit' \in [Threads -> 0 .. NUnits] /\ tseq' \in [Threads -> 0 .. (SeqMod - 1)]
        /\ id' \in [Threads -> Ids] /\ got' \in [Threads -> Ids]
        /\ result' \in [Threads -> Results] /\ pc' \in [Threads -> Pcs]
    BY <1>0, <1>6, <2>1, Zenon DEF TypeOK, Goto, Release, Freed
  <2>3. UNCHANGED <<connected, unit, seq, done, sseq, serror, buf, sockVars, daemonVars, count>>
    BY <1>6, Zenon DEF Release
  <2>4. QED
    BY <2>2, <2>3, Zenon DEF TypeKept, TypeOK, sockVars, daemonVars
<1>7. ASSUME NEW d \in Daemons, Connect(d)
      PROVE  TypeKept
  <2>1. /\ connected' \in BOOLEAN /\ unit' \in 0 .. NUnits
        /\ owner' \in [Units -> Daemons \cup {NoDaemon}]
        /\ dpc' \in [Daemons -> {"wait_connect", "recv", "serve", "closing"}]
        /\ UNCHANGED <<seq, slotVars, readerVars, closing, queue, hand>>
    BY <1>0, <1>7, Zenon DEF TypeOK, Connect, procfs_ctl_connect
  <2>2. QED
    BY <2>1, Zenon DEF TypeKept, TypeOK, slotVars, readerVars
<1>8. ASSUME NEW d \in Daemons, Detach(d)
      PROVE  TypeKept
  <2>1. /\ queue' = [u \in Units |-> IF owner[u] = d THEN <<>> ELSE queue[u]]
        /\ owner' \in [Units -> Daemons \cup {NoDaemon}]
        /\ closing' \in [Units -> BOOLEAN]
        /\ dpc' \in [Daemons -> {"wait_connect", "recv", "serve", "closing"}]
        /\ UNCHANGED <<connected, unit, seq, slotVars, readerVars, hand>>
    BY <1>8, Zenon DEF TypeOK, Detach
  <2>2. queue \in [Units -> Seq(Request)]
    BY Zenon DEF TypeOK
  <2>3. queue' \in [Units -> Seq(Request)]
    BY <2>1, <2>2
  <2>4. QED
    BY <2>1, <2>3, Zenon DEF TypeKept, TypeOK, slotVars, readerVars
<1>9. ASSUME NEW d \in Daemons, Recv(d)
      PROVE  TypeKept
  <2>1. PICK u \in Units : /\ queue[u] # <<>>
                           /\ hand' = [hand EXCEPT ![d] = Head(queue[u])]
                           /\ queue' = [queue EXCEPT ![u] = Tail(@)]
    BY <1>9, Zenon DEF Recv
  <2>2. queue \in [Units -> Seq(Request)] /\ hand \in [Daemons -> Request]
    BY Zenon DEF TypeOK
  <2>3. queue' \in [Units -> Seq(Request)] /\ hand' \in [Daemons -> Request]
    BY <2>1, <2>2
  <2>4. /\ dpc' \in [Daemons -> {"wait_connect", "recv", "serve", "closing"}]
        /\ UNCHANGED <<connected, unit, seq, slotVars, readerVars, owner, closing>>
    BY <1>9, Zenon DEF TypeOK, Recv
  <2>5. QED
    BY <2>3, <2>4, Zenon DEF TypeKept, TypeOK, slotVars, readerVars
<1>10. \A S : Wakeup(S) \in [Threads -> Pcs]
  <2>1. pc \in [Threads -> Pcs]
    BY Zenon DEF TypeOK
  <2>2. QED
    BY <2>1, Zenon DEF Wakeup
<1>11. ASSUME NEW d \in Daemons, Reply(d)
       PROVE  TypeKept
  <2>1. hand[d] \in Request
    BY Zenon DEF TypeOK
  <2>2. hand[d].id \in Ids
    BY <2>1 DEF Request
  <2>3. PICK err \in {"ok", "daemon"} : procfs_ctl_send(hand[d], err)
    BY <1>11, Zenon DEF Reply
  <2>4. /\ buf \in [Slots -> Ids] /\ serror \in [Slots -> {"ok", "ENOTCONN", "daemon"}]
        /\ done \in [Slots -> BOOLEAN] /\ pc \in [Threads -> Pcs]
    BY Zenon DEF TypeOK
  <2>5. /\ buf' \in [Slots -> Ids] /\ serror' \in [Slots -> {"ok", "ENOTCONN", "daemon"}]
        /\ done' \in [Slots -> BOOLEAN] /\ pc' \in [Threads -> Pcs]
    <3>1. CASE UNCHANGED <<buf, serror, done, pc>>
      BY <2>4, <3>1, Zenon
    <3>2. ASSUME NEW s \in Slots,
                 buf' = IF err = "ok" THEN [buf EXCEPT ![s] = hand[d].id] ELSE buf,
                 serror' = [serror EXCEPT ![s] = err],
                 done' = [done EXCEPT ![s] = TRUE], pc' = Wakeup({s})
          PROVE  /\ buf' \in [Slots -> Ids] /\ serror' \in [Slots -> {"ok", "ENOTCONN", "daemon"}]
                 /\ done' \in [Slots -> BOOLEAN] /\ pc' \in [Threads -> Pcs]
      BY <1>10, <2>2, <2>4, <3>2, Zenon
    <3>3. QED
      BY <2>3, <3>1, <3>2, Zenon DEF procfs_ctl_send
  <2>6. /\ dpc' \in [Daemons -> {"wait_connect", "recv", "serve", "closing"}]
        /\ hand' \in [Daemons -> Request]
        /\ UNCHANGED <<connected, unit, seq, in_use, sseq, sockVars,
                       slot, tunit, tseq, result, id, got, count>>
    BY <1>0, <1>11, Zenon DEF TypeOK, Reply
  <2>7. QED
    BY <2>5, <2>6, Zenon DEF TypeKept, TypeOK, sockVars
<1>12. ASSUME NEW d \in Daemons, Close(d)
       PROVE  TypeKept
  <2>1. /\ connected' \in BOOLEAN
        /\ serror' \in [Slots -> {"ok", "ENOTCONN", "daemon"}]
        /\ done' \in [Slots -> BOOLEAN]
        /\ pc' \in [Threads -> Pcs]
    BY <1>10, <1>12, ZenonT(30) DEF TypeOK, Close, procfs_ctl_disconnect
  <2>2. /\ closing' \in [Units -> BOOLEAN]
        /\ dpc' \in [Daemons -> {"wait_connect", "recv", "serve", "closing"}]
        /\ hand' \in [Daemons -> Request]
        /\ UNCHANGED <<unit, seq, in_use, sseq, buf, owner, queue,
                       slot, tunit, tseq, result, id, got, count>>
    BY <1>0, <1>12, Zenon DEF TypeOK, Close
  <2>3. QED
    BY <2>1, <2>2, Zenon DEF TypeKept, TypeOK
<1>13. QED
  BY <1>1, <1>2, <1>3, <1>4, <1>5, <1>6, <1>7, <1>8, <1>9, <1>11, <1>12, Zenon
  DEF Next, RequestStep, DaemonStep

\* A step that leaves the holders and their requests alone preserves what is
\* said about holding a slot.
LEMMA HoldersStay ==
    ASSUME Inv, UNCHANGED <<seq, in_use, sseq, slot, tseq, id, count>>,
           \A r \in Threads : pc'[r] \in Holding <=> pc[r] \in Holding
    PROVE  CountInv' /\ ReaderInv' /\ ExclusiveInv' /\ HeldInv'
<1>1. CountInv'
  BY Zenon DEF Inv, CountInv, SeqOf
<1>2. ReaderInv'
  BY DEF Inv, ReaderInv, SeqOf
<1>3. ExclusiveInv' /\ HeldInv'
  BY DEF Inv, ExclusiveInv, HeldInv
<1>4. QED
  BY <1>1, <1>2, <1>3, Zenon

\* So does a step that lets no request succeed for the property OwnReply.
LEMMA OwnReplyStays ==
    ASSUME Inv, UNCHANGED <<id, got>>,
           \A r \in Threads : pc'[r] = "release" /\ result'[r] = "ok" =>
                               pc[r] = "release" /\ result[r] = "ok"
    PROVE  OwnReply'
BY Zenon DEF Inv, OwnReply

\* Taking a slot preserves the invariant: the slot was held by nobody and the
\* new number is that of no other request.
LEMMA AllocStep ==
    ASSUME Inv, TypeKept, NEW t \in Threads, Alloc(t)
    PROVE  Kept
<1>0. /\ pc \in [Threads -> {"idle", "alloc", "enqueue", "wait", "sleep", "expired", "release"}]
      /\ slot \in [Threads -> Slots \cup {-1}] /\ tseq \in [Threads -> 0 .. (SeqMod - 1)]
      /\ id \in [Threads -> Ids] /\ in_use \in [Slots -> BOOLEAN] /\ done \in [Slots -> BOOLEAN]
      /\ sseq \in [Slots -> 0 .. (SeqMod - 1)] /\ count \in Ids /\ seq \in 0 .. (SeqMod - 1)
      /\ serror \in [Slots -> {"ok", "ENOTCONN", "daemon"}]
  BY Zenon DEF Inv, TypeOK
<1>1. PICK s \in Slots :
         /\ ~in_use[s]
         /\ in_use' = [in_use EXCEPT ![s] = TRUE]
         /\ done' = [done EXCEPT ![s] = FALSE]
         /\ sseq' = [sseq EXCEPT ![s] = NextSeq]
         /\ serror' = [serror EXCEPT ![s] = "ok"]
         /\ slot' = [slot EXCEPT ![t] = s]
  BY Zenon DEF Alloc, FirstFree
<1>2. /\ count \in Nat /\ count' = count + 1 /\ seq' = NextSeq
      /\ NextSeq = SeqOf(count + 1)
  BY <1>0, NextSeqOf, SeqAssumption DEF Inv, Alloc, Ids
<1>3. /\ tseq' = [tseq EXCEPT ![t] = NextSeq] /\ id' = [id EXCEPT ![t] = count + 1]
      /\ pc' = [pc EXCEPT ![t] = "enqueue"] /\ pc[t] = "alloc"
      /\ UNCHANGED <<buf, queue, dpc, hand, result, got>>
  BY Zenon DEF Alloc, Goto, sockVars, daemonVars
<1>4. \A r \in Threads : pc[r] \in Holding => slot[r] # s
  BY <1>1 DEF Inv, ReaderInv
<1>5. CountInv'
  BY <1>2 DEF CountInv, SeqOf
<1>6. ReaderInv'
  BY <1>0, <1>1, <1>2, <1>3, <1>4 DEF Inv, ReaderInv, SeqOf, Holding
<1>7. ExclusiveInv'
  BY <1>0, <1>1, <1>2, <1>3, <1>4, SMTT(30) DEF Inv, ReaderInv, ExclusiveInv, Holding
<1>8. HeldInv'
  <2> SUFFICES ASSUME NEW i \in Slots, in_use'[i]
               PROVE  \E r \in Threads : pc'[r] \in Holding /\ slot'[r] = i
    BY DEF HeldInv, Holding
  <2>1. CASE i = s
    BY <1>0, <1>1, <1>3, <2>1 DEF Inv, Holding
  <2>2. CASE i # s
    <3>1. PICK r \in Threads : pc[r] \in Holding /\ slot[r] = i
      BY <1>0, <1>1, <2>2 DEF Inv, HeldInv
    <3>2. r # t
      BY <1>3, <3>1 DEF Holding
    <3>3. QED
      BY <1>0, <1>1, <1>3, <3>1, <3>2
  <2>3. QED
    BY <2>1, <2>2
<1>9. QueueInv'
  BY <1>2, <1>3 DEF Inv, QueueInv, Numbered, SeqOf
<1>10. DoneInv' /\ OwnReply' /\ SleeperIsPending'
  BY <1>0, <1>1, <1>3, <1>4 DEF Inv, ReaderInv, DoneInv, OwnReply, SleeperIsPending,
       Pending, Holding
<1>11. QED
  BY <1>5, <1>6, <1>7, <1>8, <1>9, <1>10, Zenon DEF Inv, Kept, TypeKept

\* Giving the slot back preserves the invariant: nobody else holds it.
LEMMA ReleaseStep ==
    ASSUME Inv, TypeKept, NEW t \in Threads, Release(t)
    PROVE  Kept
<1>1. UNCHANGED <<seq, done, sseq, serror, buf, queue, dpc, hand, count>> /\ pc[t] = "release"
  BY Zenon DEF Release, sockVars, daemonVars
<1>2. /\ pc \in [Threads -> {"idle", "alloc", "enqueue", "wait", "sleep", "expired", "release"}]
      /\ slot \in [Threads -> Slots \cup {-1}] /\ tseq \in [Threads -> 0 .. (SeqMod - 1)]
      /\ id \in [Threads -> Ids] /\ result \in [Threads -> Results]
      /\ got \in [Threads -> Ids] /\ in_use \in [Slots -> BOOLEAN]
  BY Zenon DEF Inv, TypeOK
<1>3. /\ pc'[t] = "idle" /\ slot'[t] = -1
      /\ \A r \in Threads : r # t => /\ pc'[r] = pc[r] /\ slot'[r] = slot[r]
                                     /\ tseq'[r] = tseq[r] /\ id'[r] = id[r]
  BY <1>2, Zenon DEF Release, Goto
<1>4. \A r \in Threads : r # t => result'[r] = result[r] /\ got'[r] = got[r]
  BY <1>2, Zenon DEF Release
<1>5. \A s \in Slots : in_use'[s] <=> in_use[s] /\ s # slot[t]
  BY <1>2, Zenon DEF Release, Freed
<1>6. slot[t] \in Slots /\ \A r \in Threads \ {t} : pc[r] \in Holding => slot[r] # slot[t]
  BY <1>1, Zenon DEF Inv, ReaderInv, ExclusiveInv, Holding
<1>7. CountInv' /\ QueueInv'
  BY <1>1, Zenon DEF Inv, CountInv, QueueInv, Numbered, SeqOf
<1>8. ReaderInv'
  BY <1>1, <1>3, <1>5, <1>6 DEF Inv, ReaderInv, SeqOf, Holding
<1>9. HeldInv'
  BY <1>1, <1>3, <1>5, <1>6 DEF Inv, HeldInv, Holding
<1>10. \A r \in Threads : pc'[r] \in Holding \cup {"release"} => r # t
  BY <1>3 DEF Holding
<1>11. ExclusiveInv'
  BY <1>3, <1>10 DEF Inv, ExclusiveInv
<1>12. DoneInv'
  BY <1>1, <1>3, <1>10 DEF Inv, DoneInv
<1>13. OwnReply'
  BY <1>3, <1>4, <1>10 DEF Inv, OwnReply
<1>14. SleeperIsPending'
  BY <1>1, <1>3, <1>5, <1>6 DEF Inv, ReaderInv, SleeperIsPending, Pending, Holding
<1>15. QED
  BY <1>7, <1>8, <1>9, <1>11, <1>12, <1>13, <1>14, Zenon DEF Inv, Kept, TypeKept

\* A reply preserves the invariant: the holder of the slot it is given to has
\* the number of the reply, hence is the request the reply answers.
LEMMA ReplyStep ==
    ASSUME Inv, TypeKept, NEW d \in Daemons, Reply(d)
    PROVE  Kept
<1>0. /\ pc \in [Threads -> {"idle", "alloc", "enqueue", "wait", "sleep", "expired", "release"}]
      /\ slot \in [Threads -> Slots \cup {-1}] /\ id \in [Threads -> Ids]
      /\ buf \in [Slots -> Ids] /\ in_use \in [Slots -> BOOLEAN] /\ done \in [Slots -> BOOLEAN]
      /\ serror \in [Slots -> {"ok", "ENOTCONN", "daemon"}] /\ count \in Ids
      /\ dpc \in [Daemons -> {"wait_connect", "recv", "serve", "closing"}]
      /\ hand \in [Daemons -> Request]
  BY Zenon DEF Inv, TypeOK
<1>1. PICK err \in {"ok", "daemon"} : procfs_ctl_send(hand[d], err)
  BY DEF Reply
<1>2. /\ Numbered(hand[d])
      /\ UNCHANGED <<seq, in_use, sseq, queue, slot, tseq, result, id, got, count>>
      /\ hand' = [hand EXCEPT ![d] = NoRequest] /\ dpc' = [dpc EXCEPT ![d] = "recv"]
  BY DEF Reply, Inv, QueueInv, sockVars
<1>3. \A r \in Threads : /\ pc'[r] \in Holding <=> pc[r] \in Holding
                         /\ pc'[r] = "sleep" => pc[r] = "sleep"
                         /\ pc'[r] = "release" => pc[r] = "release"
  BY <1>0, <1>1 DEF procfs_ctl_send, Wakeup, Holding
<1>4. CountInv' /\ ReaderInv' /\ ExclusiveInv' /\ HeldInv' /\ OwnReply'
  BY <1>2, <1>3, HoldersStay, OwnReplyStays, Zenon
<1>5. QueueInv'
  BY <1>0, <1>2, SMTT(30) DEF Inv, QueueInv, Numbered, SeqOf
<1>6. CASE \A s \in Slots : ~Answers(s, hand[d])
  <2>1. UNCHANGED <<buf, serror, done, pc>>
    BY <1>1, <1>6, Zenon DEF procfs_ctl_send
  <2>2. DoneInv' /\ SleeperIsPending'
    BY <1>2, <2>1, Zenon DEF Inv, DoneInv, SleeperIsPending, Pending
  <2>3. QED
    BY <1>4, <1>5, <2>2, Zenon DEF Inv, Kept, TypeKept
<1>7. ASSUME NEW s \in Slots, Answers(s, hand[d]),
             buf' = IF err = "ok" THEN [buf EXCEPT ![s] = hand[d].id] ELSE buf,
             serror' = [serror EXCEPT ![s] = err],
             done' = [done EXCEPT ![s] = TRUE],
             pc' = Wakeup({s})
      PROVE  DoneInv' /\ SleeperIsPending'
  <2>1. \A r \in Threads : pc[r] \in Holding /\ slot[r] = s => id[r] = hand[d].id
    <3> SUFFICES ASSUME NEW r \in Threads, pc[r] \in Holding, slot[r] = s
                 PROVE  id[r] = hand[d].id
      OBVIOUS
    <3>1. /\ id[r] \in 1 .. MaxRequests /\ hand[d].id \in 1 .. MaxRequests
          /\ SeqOf(id[r]) = SeqOf(hand[d].id)
      BY <1>0, <1>2, <1>7, SeqAssumption DEF Inv, Request, ReaderInv, Numbered, Answers, Ids
    <3>2. QED
      BY <3>1, SeqOfInjective
  <2>2. DoneInv'
    BY <1>0, <1>2, <1>3, <1>7, <2>1 DEF Inv, Request, ReaderInv, DoneInv
  <2>3. SleeperIsPending'
    BY <1>0, <1>2, <1>3, <1>7 DEF Inv, ReaderInv, Holding, SleeperIsPending, Pending, Wakeup
  <2>4. QED
    BY <2>2, <2>3
<1>8. QED
  BY <1>1, <1>4, <1>5, <1>6, <1>7, Zenon DEF Inv, Kept, TypeKept, procfs_ctl_send

-----------------------------------------------------------------------------
(* The invariant is inductive, and what follows from it.                   *)

\* What stays as it is when a step neither takes, answers nor frees a slot.
Quiet ==
    /\ UNCHANGED <<seq, slotVars, slot, tseq, id, count>>
    /\ \A r \in Threads :
          /\ pc'[r] \in Holding <=> pc[r] \in Holding
          /\ pc'[r] = "sleep" => pc[r] = "sleep" \/ (pc[r] \in Holding /\ ~done[slot[r]])

\* Such a step preserves the invariant if the requests it hands on are numbered
\* and those it lets succeed have their own reply.
LEMMA QuietStep ==
    ASSUME Inv, TypeKept, Quiet, QueueInv', OwnReply'
    PROVE  Kept
<1>1. CountInv' /\ ReaderInv' /\ ExclusiveInv' /\ HeldInv'
  BY HoldersStay, Zenon DEF Quiet, slotVars
<1>2. DoneInv'
  BY DEF Inv, Quiet, slotVars, DoneInv
<1>3. SleeperIsPending'
  BY DEF Inv, Quiet, slotVars, ReaderInv, SleeperIsPending, Pending
<1>4. QED
  BY <1>1, <1>2, <1>3, Zenon DEF Inv, Kept, TypeKept

\* A step that changes nothing of the readers is quiet.
LEMMA DaemonIsQuiet ==
    ASSUME Inv, UNCHANGED <<seq, slotVars, readerVars>>
    PROVE  Quiet /\ OwnReply'
<1>1. Quiet
  BY Zenon DEF Quiet, readerVars
<1>2. OwnReply'
  BY OwnReplyStays, Zenon DEF readerVars
<1>3. QED
  BY <1>1, <1>2, Zenon

\* Every step preserves the invariant.
LEMMA InvStep ==
    ASSUME Inv, [Next]_vars
    PROVE  Kept
<1>0. TypeKept /\ TypeOK
  BY TypeStep, Zenon DEF Inv
<1>1. CASE UNCHANGED vars
  <2>1. Quiet /\ OwnReply'
    BY <1>1, DaemonIsQuiet, Zenon DEF vars
  <2>2. QueueInv'
    BY <1>1, Zenon DEF Inv, vars, sockVars, daemonVars, readerVars, QueueInv, Numbered, SeqOf
  <2>3. QED
    BY <1>0, <2>1, <2>2, QuietStep, Zenon
<1>2. ASSUME NEW t \in Threads, Enter(t) \/ Busy(t) \/ EnqueueFails(t) \/ Sleep(t) \/ Expire(t)
                                 \/ GiveUp(t)
      PROVE  Kept
  <2>1. UNCHANGED <<seq, slotVars, sockVars, daemonVars, slot, tseq, id, got, count>>
    BY <1>2, Zenon DEF Enter, Busy, EnqueueFails, Sleep, Expire, GiveUp
  <2>2. QueueInv'
    BY <2>1, Zenon DEF Inv, sockVars, daemonVars, QueueInv, Numbered, SeqOf
  <2>3. pc \in [Threads -> {"idle", "alloc", "enqueue", "wait", "sleep", "expired", "release"}]
        /\ result \in [Threads -> Results]
    BY <1>0, Zenon DEF TypeOK
  <2>4. \A r \in Threads :
          /\ pc'[r] \in Holding <=> pc[r] \in Holding
          /\ pc'[r] = "sleep" => pc[r] = "sleep" \/ (pc[r] \in Holding /\ ~done[slot[r]])
          /\ pc'[r] = "release" /\ result'[r] = "ok" => pc[r] = "release" /\ result[r] = "ok"
    BY <1>2, <2>3, SMTT(30)
    DEF Enter, Busy, EnqueueFails, Sleep, Expire, GiveUp, Goto, Holding
  <2>5. Quiet
    BY <2>1, <2>4, Zenon DEF Quiet
  <2>6. OwnReply'
    BY <2>1, <2>4, OwnReplyStays, Zenon
  <2>7. QED
    BY <1>0, <2>2, <2>5, <2>6, QuietStep, Zenon
<1>3. ASSUME NEW t \in Threads, Alloc(t)
      PROVE  Kept
  BY <1>0, <1>3, AllocStep, Zenon
<1>4. ASSUME NEW t \in Threads, Enqueue(t)
      PROVE  Kept
  <2>0. /\ UNCHANGED <<seq, slotVars, daemonVars, slot, tseq, result, id, got, count>>
        /\ pc[t] = "enqueue" /\ pc' = [pc EXCEPT ![t] = "wait"]
        /\ tunit[t] \in Units
        /\ queue' = [queue EXCEPT ![tunit[t]] = Append(@, [seq |-> tseq[t], id |-> id[t]])]
    BY <1>4, Zenon DEF Enqueue, Goto
  <2>1. pc \in [Threads -> {"idle", "alloc", "enqueue", "wait", "sleep", "expired", "release"}]
        /\ queue \in [Units -> Seq(Request)]
        /\ tseq[t] \in 0 .. (SeqMod - 1) /\ id[t] \in Ids
    BY <1>0, Zenon DEF TypeOK
  <2>2. Quiet /\ OwnReply'
    <3>1. UNCHANGED <<seq, slotVars, slot, tseq, id, got, count>>
      BY <2>0, Zenon
    <3>2. \A r \in Threads : /\ pc'[r] \in Holding <=> pc[r] \in Holding
                             /\ pc'[r] \in {"sleep", "release"} => pc'[r] = pc[r]
      BY <2>0, <2>1 DEF Holding
    <3>3. QED
      BY <2>0, <3>1, <3>2, OwnReplyStays, Zenon DEF Quiet
  <2>3. QueueInv'
    <3>1. Numbered([seq |-> tseq[t], id |-> id[t]])
      BY <2>0 DEF Inv, ReaderInv, Numbered, Holding
    <3>2. [seq |-> tseq[t], id |-> id[t]] \in Request
      BY <2>1 DEF Request
    <3>3. \A u \in Units : \A i \in 1 .. Len(queue'[u]) : Numbered(queue'[u][i])
      BY <2>0, <2>1, <3>1, <3>2, SMTT(30) DEF Inv, QueueInv
    <3>4. QED
      BY <2>0, <3>3, Zenon DEF Inv, daemonVars, QueueInv, Numbered, SeqOf
  <2>4. QED
    BY <1>0, <2>2, <2>3, QuietStep, Zenon
<1>6. ASSUME NEW t \in Threads, Collect(t)
      PROVE  Kept
  <2>0. /\ UNCHANGED <<seq, slotVars, sockVars, daemonVars, slot, tseq, id, count>>
        /\ pc[t] \in {"wait", "expired"} /\ done[slot[t]] /\ pc'[t] = "release"
        /\ result'[t] = "ok" => serror[slot[t]] = "ok" /\ got'[t] = buf[slot[t]]
        /\ \A r \in Threads : r # t => pc'[r] = pc[r] /\ result'[r] = result[r] /\ got'[r] = got[r]
    <3>1. /\ pc \in [Threads -> {"idle", "alloc", "enqueue", "wait", "sleep", "expired", "release"}]
          /\ result \in [Threads -> Results] /\ got \in [Threads -> Ids]
      BY <1>0, Zenon DEF TypeOK
    <3>2. QED
      BY <1>6, <3>1, ZenonT(30) DEF Collect, Goto
  <2>1. Quiet
    <3>1. \A r \in Threads : /\ pc'[r] \in Holding <=> pc[r] \in Holding
                             /\ pc'[r] = "sleep" => pc[r] = "sleep"
      BY <2>0 DEF Holding
    <3>2. QED
      BY <2>0, <3>1, Zenon DEF Quiet
  <2>2. QueueInv'
    BY <2>0, Zenon DEF Inv, sockVars, daemonVars, QueueInv, Numbered, SeqOf
  <2>3. OwnReply'
    <3>1. id[t] # 0 /\ (serror[slot[t]] = "ok" => buf[slot[t]] = id[t])
      BY <2>0 DEF Inv, ReaderInv, DoneInv, Holding
    <3>2. QED
      BY <2>0, <3>1, Zenon DEF Inv, OwnReply
  <2>4. QED
    BY <1>0, <2>1, <2>2, <2>3, QuietStep, Zenon
<1>7. ASSUME NEW t \in Threads, Release(t)
      PROVE  Kept
  BY <1>0, <1>7, ReleaseStep, Zenon
<1>8. ASSUME NEW d \in Daemons, Connect(d)
      PROVE  Kept
  <2>1. Quiet /\ OwnReply'
    BY <1>8, DaemonIsQuiet, Zenon DEF Connect
  <2>2. \A e \in Daemons : dpc'[e] = "serve" => dpc[e] = "serve"
    BY <1>0, <1>8, Zenon DEF Connect, TypeOK
  <2>3. QueueInv'
    BY <1>8, <2>2, Zenon DEF Inv, Connect, readerVars, QueueInv, Numbered, SeqOf
  <2>4. QED
    BY <1>0, <2>1, <2>3, QuietStep, Zenon
<1>12. ASSUME NEW d \in Daemons, Detach(d)
       PROVE  Kept
  <2>1. Quiet /\ OwnReply'
    BY <1>12, DaemonIsQuiet, Zenon DEF Detach
  <2>2. \A e \in Daemons : dpc'[e] = "serve" => dpc[e] = "serve"
    BY <1>0, <1>12, Zenon DEF Detach, TypeOK
  <2>3. \A u \in Units : queue'[u] = <<>> \/ queue'[u] = queue[u]
    BY <1>12, Zenon DEF Detach
  <2>4. count' = count /\ hand' = hand
    BY <1>12, Zenon DEF Detach, readerVars
  <2>5. \A u \in Units : \A i \in 1 .. Len(queue'[u]) : Numbered(queue'[u][i])
    BY <2>3 DEF Inv, QueueInv
  <2>6. QueueInv'
    BY <2>2, <2>4, <2>5, Zenon DEF Inv, QueueInv, Numbered, SeqOf
  <2>7. QED
    BY <1>0, <2>1, <2>6, QuietStep, Zenon
<1>9. ASSUME NEW d \in Daemons, Recv(d)
      PROVE  Kept
  <2>1. Quiet /\ OwnReply'
    BY <1>9, DaemonIsQuiet, Zenon DEF Recv
  <2>2. PICK u \in Units : /\ queue[u] # <<>>
                           /\ hand' = [hand EXCEPT ![d] = Head(queue[u])]
                           /\ queue' = [queue EXCEPT ![u] = Tail(@)]
    BY <1>9, Zenon DEF Recv
  <2>3. queue \in [Units -> Seq(Request)] /\ hand \in [Daemons -> Request]
        /\ dpc \in [Daemons -> {"wait_connect", "recv", "serve", "closing"}]
    BY <1>0, Zenon DEF TypeOK
  <2>4. Len(queue[u]) \in Nat \ {0} /\ \A i \in 1 .. Len(queue[u]) : Numbered(queue[u][i])
    <3>1. \A i \in 1 .. Len(queue[u]) : Numbered(queue[u][i])
      BY Zenon DEF Inv, QueueInv
    <3>2. QED
      BY <2>2, <2>3, <3>1
  <2>5. /\ Numbered(Head(queue[u]))
        /\ \A i \in 1 .. Len(Tail(queue[u])) : Numbered(Tail(queue[u])[i])
    <3>1. \A i \in 1 .. (Len(queue[u]) - 1) : Numbered(queue[u][i + 1])
      BY <2>4
    <3>2. /\ Head(queue[u]) = queue[u][1] /\ Len(Tail(queue[u])) = Len(queue[u]) - 1
          /\ \A i \in 1 .. (Len(queue[u]) - 1) : Tail(queue[u])[i] = queue[u][i + 1]
      BY <2>3, <2>4
    <3>3. QED
      BY <2>4, <3>1, <3>2
  <2>6. count' = count /\ dpc' = [dpc EXCEPT ![d] = "serve"]
    BY <1>9, Zenon DEF Recv, readerVars
  <2>7. \A v \in Units : \A i \in 1 .. Len(queue'[v]) : Numbered(queue'[v][i])
    BY <2>2, <2>3, <2>5 DEF Inv, QueueInv
  <2>8. \A e \in Daemons : dpc'[e] = "serve" => Numbered(hand'[e])
    BY <2>2, <2>3, <2>5, <2>6 DEF Inv, QueueInv
  <2>9. QueueInv'
    BY <2>6, <2>7, <2>8, Zenon DEF Inv, QueueInv, Numbered, SeqOf
  <2>10. QED
    BY <1>0, <2>1, <2>9, QuietStep, Zenon
<1>10. ASSUME NEW d \in Daemons, Reply(d)
       PROVE  Kept
  BY <1>0, <1>10, ReplyStep, Zenon
<1>11. ASSUME NEW d \in Daemons, Close(d)
       PROVE  Kept
  <2>0. /\ \A r \in Threads : pc'[r] = IF pc[r] = "sleep" /\ slot[r] \in {s \in Slots : Pending(s)}
                                   THEN "wait" ELSE pc[r]
        /\ \A s \in Slots : /\ done'[s] <=> done[s] \/ in_use[s]
                            /\ serror'[s] = IF Pending(s) THEN "ENOTCONN" ELSE serror[s]
    BY <1>11, Zenon DEF Close, procfs_ctl_disconnect, Wakeup
  <2>1. UNCHANGED <<seq, in_use, sseq, buf, queue, slot, tseq, result, id, got, count>>
    BY <1>11, Zenon DEF Close
  <2>2. \A r \in Threads : /\ pc'[r] \in Holding <=> pc[r] \in Holding
                           /\ pc'[r] = "release" => pc[r] = "release"
    BY <2>0 DEF Holding
  <2>3. CountInv' /\ ReaderInv' /\ ExclusiveInv' /\ HeldInv' /\ OwnReply'
    BY <2>1, <2>2, HoldersStay, OwnReplyStays, Zenon
  <2>4. DoneInv'
    <3>1. \A r \in Threads : pc[r] \in Holding => slot[r] \in Slots /\ in_use[slot[r]]
      BY Zenon DEF Inv, ReaderInv
    <3>2. QED
      BY <2>0, <2>1, <2>2, <3>1 DEF Inv, Pending, DoneInv
  <2>5. SleeperIsPending'
    BY <2>0, <2>1, SMTT(30) DEF Inv, ReaderInv, Holding, SleeperIsPending, Pending
  <2>6. QueueInv'
    <3>1. \A e \in Daemons : dpc'[e] = "serve" => dpc[e] = "serve" /\ hand'[e] = hand[e]
      BY <1>0, <1>11, Zenon DEF Close, TypeOK
    <3>2. QED
      BY <2>1, <3>1, Zenon DEF Inv, QueueInv, Numbered, SeqOf
  <2>7. QED
    BY <1>0, <2>3, <2>4, <2>5, <2>6, Zenon DEF Inv, Kept, TypeKept
<1>13. QED
  BY <1>1, <1>2, <1>3, <1>4, <1>6, <1>7, <1>8, <1>9, <1>10, <1>11, <1>12, Zenon
  DEF Next, RequestStep, DaemonStep

-----------------------------------------------------------------------------
\* The inductive invariant holds in every reachable state.
THEOREM Invariance == Spec => []Inv
<1>1. Inv /\ [Next]_vars => Inv'
  BY InvStep DEF Kept
<1>2. QED
  BY <1>1, InvInit, PTL DEF Spec

\* The bridge's variables keep their types; the sequence number wraps.
THEOREM TypeCorrect == Spec => []TypeOK
<1>1. Inv => TypeOK
  BY DEF Inv
<1>2. QED
  BY <1>1, Invariance, PTL

\* A request of procfs_ctl_request that returns 0 got the payload of its own
\* request, however late other replies arrive.
THEOREM RepliesAreOwn == Spec => []OwnReply
<1>1. Inv => OwnReply
  BY DEF Inv
<1>2. QED
  BY <1>1, Invariance, PTL

\* Slots are held by one request each and none is lost.
THEOREM SlotsAreOwned == Spec => []SlotOwnership
<1>1. Inv => SlotOwnership
  <2> SUFFICES ASSUME Inv, NEW s \in Slots
               PROVE  IF in_use[s]
                      THEN \E t \in Threads : /\ pc[t] \in Holding /\ slot[t] = s
                                              /\ \A r \in Threads \ {t} : slot[r] # s
                      ELSE \A t \in Threads : slot[t] # s
    BY DEF SlotOwnership
  <2>1. s # -1
    BY SizesAssumption DEF Slots
  <2>2. CASE in_use[s]
    <3>1. PICK t \in Threads : pc[t] \in Holding /\ slot[t] = s
      BY <2>2 DEF Inv, HeldInv
    <3>2. \A r \in Threads \ {t} : slot[r] # s
      BY <2>1, <3>1 DEF Inv, ReaderInv, ExclusiveInv
    <3>3. QED
      BY <2>2, <3>1, <3>2
  <2>3. CASE ~in_use[s]
    BY <2>1, <2>3 DEF Inv, ReaderInv
  <2>4. QED
    BY <2>2, <2>3
<1>2. QED
  BY <1>1, Invariance, PTL

\* No thread sleeps in procfs_ctl_request after its slot was answered.
THEOREM NoLostWakeup == Spec => []SleeperIsPending
<1>1. Inv => SleeperIsPending
  BY DEF Inv
<1>2. QED
  BY <1>1, Invariance, PTL

\* The numbers of the requests in flight differ, across the wraparound too.
THEOREM NumbersAreUnique == Spec => []NumbersDiffer
<1>1. Inv => NumbersDiffer
  <2> SUFFICES ASSUME Inv, NEW t \in Threads, NEW r \in Threads,
                      pc[t] \in Holding, pc[r] \in Holding, t # r
               PROVE  tseq[t] # tseq[r] /\ tseq[t] # 0
    BY DEF NumbersDiffer
  <2>1. /\ id[t] \in 1 .. MaxRequests /\ id[r] \in 1 .. MaxRequests /\ id[t] # id[r]
        /\ tseq[t] = SeqOf(id[t]) /\ tseq[r] = SeqOf(id[r])
    BY SeqAssumption DEF Inv, TypeOK, Ids, ReaderInv, ExclusiveInv
  <2>2. QED
    BY <2>1, SeqOfInjective, SeqAssumption
<1>2. QED
  BY <1>1, Invariance, PTL

-----------------------------------------------------------------------------
(* The daemons                                                             *)

\* A unit that closes is one of a daemon that closes, and the flag says that
\* the noted unit does not.
UnitInv ==
    /\ ConnectedIsServed
    /\ \A u \in Units : closing[u] => owner[u] # NoDaemon
    /\ \A d \in Daemons : \A u \in Units : owner[u] = d => (closing[u] <=> dpc[d] = "closing")

\* Readers and requests do not touch the units; a connection, a disconnect and
\* the end of a socket keep the flag and the units together.
LEMMA UnitStep ==
    ASSUME TypeOK, UnitInv, [Next]_vars
    PROVE  UnitInv'
<1> USE DaemonsAssumption DEF UnitInv, ConnectedIsServed
<1>0. /\ owner \in [Units -> Daemons \cup {NoDaemon}] /\ closing \in [Units -> BOOLEAN]
      /\ dpc \in [Daemons -> {"wait_connect", "recv", "serve", "closing"}]
  BY DEF TypeOK
<1>1. ASSUME UNCHANGED <<connected, unit, owner, closing>>,
             \A e \in Daemons : dpc'[e] = "closing" <=> dpc[e] = "closing"
      PROVE  UnitInv'
  BY <1>1
<1>2. ASSUME NEW t \in Threads, Enter(t) \/ RequestStep(t) PROVE UnitInv'
  <2>1. UNCHANGED <<connected, unit, owner, closing, dpc>>
    BY <1>2, Zenon DEF RequestStep, Enter, Alloc, Busy, Enqueue, EnqueueFails,
       Sleep, Expire, Collect, GiveUp, Release, sockVars, daemonVars
  <2>2. QED
    BY <1>1, <2>1
<1>3. ASSUME NEW d \in Daemons, Recv(d) \/ Reply(d) PROVE UnitInv'
  <2>1. /\ UNCHANGED <<connected, unit, owner, closing>>
        /\ dpc[d] \in {"recv", "serve"} /\ dpc' \in {[dpc EXCEPT ![d] = x] : x \in {"recv", "serve"}}
    BY <1>3 DEF Recv, Reply, sockVars
  <2>2. QED
    BY <1>0, <1>1, <2>1
<1>4. ASSUME NEW d \in Daemons, Connect(d) PROVE UnitInv'
  <2>1. PICK u \in Units : /\ owner[u] = NoDaemon /\ owner' = [owner EXCEPT ![u] = d]
                           /\ unit' = u /\ connected' = TRUE
    BY <1>4 DEF Connect, procfs_ctl_connect
  <2>2. dpc[d] = "wait_connect" /\ dpc' = [dpc EXCEPT ![d] = "recv"] /\ closing' = closing
    BY <1>4 DEF Connect
  <2>3. QED
    BY <1>0, <2>1, <2>2
<1>5. ASSUME NEW d \in Daemons, Close(d) PROVE UnitInv'
  <2>1. /\ connected' = FALSE /\ owner' = owner /\ dpc' = [dpc EXCEPT ![d] = "closing"]
        /\ closing' = [u \in Units |-> closing[u] \/ owner[u] = d]
    BY <1>5 DEF Close, procfs_ctl_disconnect
  <2>2. QED
    BY <1>0, <2>1, Zenon
<1>6. ASSUME NEW d \in Daemons, Detach(d) PROVE UnitInv'
  <2>1. /\ connected' = connected /\ unit' = unit
        /\ dpc[d] = "closing" /\ dpc' = [dpc EXCEPT ![d] = "wait_connect"]
        /\ owner' = [u \in Units |-> IF owner[u] = d THEN NoDaemon ELSE owner[u]]
        /\ closing' = [u \in Units |-> closing[u] /\ owner[u] # d]
    BY <1>6 DEF Detach
  <2>2. QED
    BY <1>0, <2>1, Zenon
<1>7. CASE UNCHANGED vars
  BY <1>1, <1>7 DEF vars, sockVars, daemonVars
<1>8. QED
  BY <1>2, <1>3, <1>4, <1>5, <1>6, <1>7, Zenon DEF Next, DaemonStep

\* While g_ctl_connected is set a daemon is attached to g_ctl_unit, for any
\* number of daemons that procfs_ctl_connect and procfs_ctl_disconnect meet in
\* any order.
THEOREM ConnectedServed == Spec => []ConnectedIsServed
<1>1. Init => UnitInv
  BY DaemonsAssumption DEF Init, UnitInv, ConnectedIsServed
<1>2. UnitInv => ConnectedIsServed
  BY DEF UnitInv
<1>3. QED
  BY <1>1, <1>2, UnitStep, TypeCorrect, PTL DEF Spec
=============================================================================
