----------------------------- MODULE MCServices -----------------------------
(* The relayer's object for one identity.                                    *)
EXTENDS Relayer

\* The operations, each with how often its client asks and the faults that may
\* come: a lost send, an expired transaction, a restart.
Client(what, asks, faults) == [kind |-> what, asks |-> asks, faults |-> faults]
MCOperations ==
    {Client("account", 1, 1), Client("ckd", 1, 1), Client("invite", 2, 2),
     Client("purchase", 1, 1), Client("device", 1, 1)}

\* Requests are served, the alarm fires, time passes and the chain executes what
\* it holds; clients may stop asking.
ServicesSpec ==
    /\ RelayerInit /\ [][RelayerNext]_relayerVars
    /\ \A h \in Threads : WF_relayerVars(Handles(h))
    /\ WF_relayerVars(alarm) /\ WF_relayerVars(RelayerTick)
    /\ WF_relayerVars(\E t \in signed : executes(t))
=============================================================================
