------------------------- MODULE PublishedReconcile -------------------------
(***************************************************************************)
(* The watch a published upload job keeps on its asset: at every alarm the *)
(* asset is verified with the provider and the publication read on chain.  *)
(* A drift seen twice, a minute apart, suspends the sales; playback tokens *)
(* of the first version are only issued while the record is HEALTHY, which *)
(* after a drift takes two healthy observations a minute apart.  Times are *)
(* kept as ages, counted up to the confirmation time.                      *)
(***************************************************************************)
EXTENDS Integers

CONSTANTS
    Confirmation,       \* RECONCILE_CONFIRMATION_MS, in ticks
    MaxReconcileFaults  \* bound: lost calls and crashes

ASSUME ReconcileAssumption == Confirmation \in Nat \ {0} /\ MaxReconcileFaults \in Nat

\* Two codes of STRONG_PROVIDER_DRIFT_CODES, the first one also an inventory drift.
ProviderDrifts == {"provider_asset_missing", "provider_state_invalid"}
Drifts == ProviderDrifts \cup {"near_publication_mismatch"}

NoSighting == [code |-> "none", count |-> 0, age |-> 0]

NoReconcile == [status |-> "PROVIDER_UNKNOWN", drift |-> NoSighting, recovery |-> NoSighting, queued |-> FALSE]

VARIABLES
    provider,           \* the asset at the provider: "ready", a drift, or "unreadable"
    chainState,         \* the publication as a final read shows it: "listed", "mismatch", "unreadable"
    steps,              \* whether a verification needs more than one step
    reconcile,          \* storage: the ReconcileRecord
    suspension,         \* storage: the suspend-sales outbox record
    salesSuspended,     \* chain: the sales are suspended
    watch,              \* the alarm handler: where it waits, and for a drift the record it will store
    healthy,            \* history: healthy observations since the last drift stored
    drifting,           \* history: the drifts of one code seen with no other code between
    reconcileFaults

reconcileVars == <<provider, chainState, steps, reconcile, suspension, salesSuspended, watch, healthy,
                   drifting, reconcileFaults>>

around == <<provider, chainState, steps, salesSuspended>>

WatchIdle == [pc |-> "idle", next |-> NoReconcile]

AtMostTwo(n) == IF n > 2 THEN 2 ELSE n

seenAgain(s, code) == IF s.code = code THEN [s EXCEPT !.count = AtMostTwo(@ + 1)]
                      ELSE [code |-> code, count |-> 1, age |-> 0]

confirmed(s) == s.count >= 2 /\ s.age >= Confirmation

-----------------------------------------------------------------------------
(* The three ways an observation is stored. *)

persistUnknownReconcile(status) ==
    /\ reconcile' = [reconcile EXCEPT !.status = status, !.recovery = NoSighting]
    /\ watch' = WatchIdle
    /\ UNCHANGED <<healthy, drifting, suspension>>

persistHealthyReconcile ==
    LET recovering == \/ reconcile.drift.code # "none" /\ reconcile.status # "HEALTHY"
                      \/ reconcile.recovery.count > 0
        recovery == seenAgain(reconcile.recovery, "healthy")
        well == ~recovering \/ confirmed(recovery)
    IN /\ reconcile' = [reconcile EXCEPT !.status = IF well THEN "HEALTHY" ELSE "DRIFT_BLOCKED",
                                         !.recovery = IF well THEN NoSighting ELSE recovery]
       /\ watch' = WatchIdle
       /\ healthy' = seenAgain(healthy, "healthy")
       /\ UNCHANGED <<drifting, suspension>>

\* Mutant: drifts of another code count as the same drift.
drift_of_any_code(code) ==
    [code |-> code, count |-> AtMostTwo(reconcile.drift.count + 1), age |-> reconcile.drift.age]

\* Mutant: every sighting is the first.
drift_anew(code) == [code |-> code, count |-> 1, age |-> 0]
drift_seen(code) ==
    IF reconcile.status = "DRIFT_BLOCKED" /\ reconcile.drift.code = code
    THEN seenAgain(reconcile.drift, code)
    ELSE [code |-> code, count |-> 1, age |-> 0]

\* The suspension is queued once the drift is confirmed, and tried at once; the record of the
\* drift is stored after that.
persistDriftReconcile(code) ==
    LET drift == drift_seen(code)
        next == [status |-> "DRIFT_BLOCKED", drift |-> drift, recovery |-> NoSighting,
                 queued |-> reconcile.queued \/ confirmed(drift)]
    IN /\ drifting' = seenAgain(drifting, code)
       /\ suspension' = IF confirmed(drift) /\ ~reconcile.queued /\ suspension = "none"
                        THEN "PENDING" ELSE suspension
       /\ IF confirmed(drift) /\ suspension' = "PENDING"
          THEN watch' = [pc |-> "suspendDrift", next |-> next]
               /\ UNCHANGED <<reconcile, healthy>>
          ELSE reconcile' = next /\ healthy' = NoSighting /\ watch' = WatchIdle

-----------------------------------------------------------------------------
(* The alarm handler of a published job, step by step. *)

reconcilePublishedJob ==
    /\ watch.pc = "idle"
    /\ watch' = [WatchIdle EXCEPT !.pc = IF suspension = "PENDING" THEN "suspend" ELSE "verify"]
    /\ UNCHANGED <<around, reconcile, suspension, healthy, drifting, reconcileFaults>>

\* The operator answers that the sales are suspended, or its answer is lost.
tryProcessSalesSuspension ==
    /\ watch.pc \in {"suspend", "suspendDrift"}
    /\ \/ salesSuspended' = TRUE /\ suspension' = "CONFIRMED" /\ UNCHANGED reconcileFaults
       \/ /\ reconcileFaults > 0 /\ reconcileFaults' = reconcileFaults - 1
          /\ salesSuspended' \in {salesSuspended, TRUE}
          /\ UNCHANGED suspension
    /\ IF watch.pc = "suspend"
       THEN watch' = [watch EXCEPT !.pc = "verify"] /\ UNCHANGED <<reconcile, healthy>>
       ELSE watch' = WatchIdle /\ reconcile' = watch.next /\ healthy' = NoSighting
    /\ UNCHANGED <<provider, chainState, steps, drifting>>

\* verifyReadyAsset in mode 'published': a step that has to be continued stores PROVIDER_UNKNOWN.
verifyPublishedAsset ==
    /\ watch.pc = "verify"
    /\ \/ /\ provider = "ready"
          /\ watch' = [watch EXCEPT !.pc = "near"]
          /\ UNCHANGED <<reconcile, suspension, healthy, drifting>>
       \/ provider \in ProviderDrifts /\ persistDriftReconcile(provider)
       \/ provider = "unreadable" /\ persistUnknownReconcile("PROVIDER_UNKNOWN")
       \/ /\ steps = "several"
          /\ reconcile' = [reconcile EXCEPT !.status = "PROVIDER_UNKNOWN"]
          /\ watch' = WatchIdle
          /\ UNCHANGED <<suspension, healthy, drifting>>
    /\ UNCHANGED <<around, reconcileFaults>>

readFinalPublication ==
    /\ watch.pc = "near"
    /\ \/ chainState = "listed" /\ persistHealthyReconcile
       \/ chainState = "mismatch" /\ persistDriftReconcile("near_publication_mismatch")
       \/ chainState = "unreadable" /\ persistUnknownReconcile("NEAR_UNKNOWN")
    /\ UNCHANGED <<around, reconcileFaults>>

\* The object dies; the alarm is run again from the start.
WatchCrash ==
    /\ watch.pc # "idle"
    /\ reconcileFaults > 0 /\ reconcileFaults' = reconcileFaults - 1
    /\ watch' = WatchIdle
    /\ UNCHANGED <<around, reconcile, suspension, healthy, drifting>>

\* Time passes; ages stop at the confirmation time.
WatchTick ==
    LET older(s) == IF s.count > 0 /\ s.age < Confirmation THEN [s EXCEPT !.age = @ + 1] ELSE s IN
    /\ watch.pc = "idle"
    /\ reconcile' = [reconcile EXCEPT !.drift = older(@), !.recovery = older(@)]
    /\ healthy' = older(healthy)
    /\ drifting' = older(drifting)
    /\ UNCHANGED <<around, suspension, watch, reconcileFaults>>

\* The asset and the publication change between two looks at them.
Turns ==
    /\ watch.pc = "idle"
    /\ \/ provider' \in {"ready", "unreadable"} \cup ProviderDrifts /\ UNCHANGED <<chainState, steps>>
       \/ chainState' \in {"listed", "mismatch", "unreadable"} /\ UNCHANGED <<provider, steps>>
       \/ steps' \in {"one", "several"} /\ UNCHANGED <<provider, chainState>>
    /\ UNCHANGED <<reconcile, suspension, salesSuspended, watch, healthy, drifting, reconcileFaults>>

ReconcileInit ==
    /\ provider = "ready" /\ chainState = "listed" /\ steps = "one"
    /\ reconcile = NoReconcile
    /\ suspension = "none" /\ salesSuspended = FALSE
    /\ watch = WatchIdle
    /\ healthy = NoSighting /\ drifting = NoSighting
    /\ reconcileFaults = MaxReconcileFaults

Watch == reconcilePublishedJob \/ tryProcessSalesSuspension \/ verifyPublishedAsset \/ readFinalPublication

ReconcileNext == Watch \/ WatchCrash \/ WatchTick \/ Turns

-----------------------------------------------------------------------------
(* Properties. *)

ReconcileTypeOK ==
    /\ reconcile.status \in {"HEALTHY", "DRIFT_BLOCKED", "PROVIDER_UNKNOWN", "NEAR_UNKNOWN"}
    /\ reconcile.drift.code \in Drifts \cup {"none"}
    /\ suspension \in {"none", "PENDING", "CONFIRMED"}
    /\ watch.pc \in {"idle", "suspend", "verify", "near", "suspendDrift"}

\* Playback of the first version resumes after a drift only when two healthy observations, a
\* confirmation time apart, have been made since the last drift stored, whatever outages,
\* crashes and half verifications came between.
RecoveryConfirmed ==
    reconcile.status = "HEALTHY" /\ reconcile.drift.code # "none" => confirmed(healthy)

\* The sales of a publication are suspended only on a drift of one code seen twice, a confirmation
\* time apart, with no other code between.  Healthy observations between do not always start the
\* count again: a drift of long ago counts when a read failed or was half done after the recovery.
SuspensionConfirmed ==
    [][suspension = "none" /\ suspension' # "none" => confirmed(drifting')]_reconcileVars

\* A drift that stays and that every verification sees in one step ends in suspended sales.
DriftSuspends ==
    \A d \in ProviderDrifts : <>[](provider = d /\ steps = "one") => <>salesSuspended

=============================================================================
