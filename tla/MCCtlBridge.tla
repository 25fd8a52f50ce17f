---------------------------- MODULE MCCtlBridge ----------------------------
(***************************************************************************)
(* CtlBridge for TLC: three readers of two slots with one daemon, or two   *)
(* readers with two daemons, the second of which somebody started by hand. *)
(***************************************************************************)
EXTENDS CtlBridge

CONSTANTS t1, t2, t3, d1, d2

VARIABLE cast       \* who takes part

Casts == {[threads |-> {t1, t2, t3}, daemons |-> {d1}],
          [threads |-> {t1, t2}, daemons |-> {d1, d2}]}

BridgeInit == Init /\ cast \in Casts

BridgeRequest(t) == t \in cast.threads /\ RequestStep(t) /\ UNCHANGED cast

BridgeNext ==
    \/ \E t \in Threads : t \in cast.threads /\ Enter(t) /\ UNCHANGED cast
    \/ \E t \in Threads : BridgeRequest(t)
    \/ \E d \in Daemons : d \in cast.daemons /\ DaemonStep(d) /\ UNCHANGED cast

\* The fairness of CtlBridge!FairSpec.
BridgeSpec ==
    /\ BridgeInit
    /\ [][BridgeNext]_<<vars, cast>>
    /\ \A t \in Threads : WF_<<vars, cast>>(BridgeRequest(t))
=============================================================================
