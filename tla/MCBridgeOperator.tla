-------------------------- MODULE MCBridgeOperator --------------------------
(* The two objects of the bridge that sign: the operator's outbox and the    *)
(* sponsor relay.  They share no key, so a behaviour moves one of the two.   *)
EXTENDS OperatorOutbox, SponsorRelay

VARIABLE focus
operatorVars == <<outboxVars, relayVars, focus>>

\* The two calls that compete for the operator's key.
MCMixes ==
    {<<"finalize", "suspend">>, <<"finalize", "mark_watched">>,
     <<"mark_watched", "release">>}
MCLegacyMixes == {<<"finalize", "mark_watched">>}

\* Two jobs at once, and two delegates for one job with a fault.
MCOffers ==
    {[delegates |-> {<<1, 1>>, <<2, 1>>}, faults |-> 0],
     [delegates |-> {<<1, 1>>, <<1, 2>>}, faults |-> 1]}

OperatorInit ==
    /\ focus \in {"outbox", "relay"}
    /\ OutboxInit /\ RelayInit
    /\ focus # "outbox" =>
         method = (CHOOSE m \in Mixes : TRUE) /\ ~publicTestnet /\ FreshStart
    /\ focus # "relay" => offered = CHOOSE o \in Offers : TRUE

OperatorNext ==
    /\ UNCHANGED focus
    /\ \/ focus = "outbox" /\ OutboxNext /\ UNCHANGED relayVars
       \/ focus = "relay" /\ RelayNext /\ UNCHANGED outboxVars

\* The objects serve what they have accepted, their alarms fire and the chain
\* executes what it holds; the callers of the outbox (the alarms of the job
\* objects, players, the cron) ask again.  Creators may never come back.
OfOutbox(A) == focus = "outbox" /\ A /\ UNCHANGED <<relayVars, focus>>
OfRelay(A) == focus = "relay" /\ A /\ UNCHANGED <<outboxVars, focus>>
OperatorFairness ==
    /\ WF_operatorVars(OfOutbox(Serve) \/ OfRelay(\E j \in Jobs : RelayStep(j)))
    /\ WF_operatorVars(OfOutbox(Alarm))
    /\ WF_operatorVars(OfOutbox(\E tx \in pool : executes(tx)))
    /\ SF_operatorVars(OfOutbox(Request(1)) \/ OfRelay(advanceSponsorRelayAlarm))
    /\ SF_operatorVars(OfOutbox(Request(2)) \/ OfRelay(\E tx \in inFlight : relayExecutes(tx)))

OperatorSpec == OperatorInit /\ [][OperatorNext]_operatorVars /\ OperatorFairness
=============================================================================
