--------------------------- MODULE MCBridgeUploads ---------------------------
(* The life of an upload and what follows it: the object of one job, then the *)
(* watch over the published asset.  A behaviour moves one of the two.         *)
EXTENDS UploadJob, PublishedReconcile

VARIABLE part
uploadsVars == <<jobVars, reconcileVars, part>>

\* The deployments, each with the calls and the faults that may come.
Scenario(prov, queue, legacy, faults, intent, beat, hook, cancel, purge) ==
    [kind |-> prov, queued |-> queue, legacy |-> legacy, faults |-> faults,
     calls |-> [intent |-> intent, beat |-> beat, hook |-> hook,
                cancel |-> cancel, purge |-> purge]]
MCScenarios ==
    {Scenario("studio", TRUE, FALSE, 1, 1, 1, 1, 1, 1),
     Scenario("stream", TRUE, FALSE, 1, 1, 1, 1, 0, 1),
     Scenario("studio", TRUE, FALSE, 0, 2, 0, 1, 0, 0),
     Scenario("studio", TRUE, FALSE, 1, 2, 0, 0, 0, 0),
     Scenario("stream", FALSE, FALSE, 0, 1, 0, 1, 0, 0),
     Scenario("studio", FALSE, TRUE, 1, 0, 0, 1, 0, 0)}

UploadsInit ==
    /\ part \in {"job", "watch"}
    /\ JobInit /\ ReconcileInit
    /\ part # "job" =>
         <<deployment.kind, callsLeft, job.asset>> =
           LET s == CHOOSE s \in Scenarios : ~s.legacy IN <<s.kind, s.calls, 0>>

UploadsNext ==
    /\ UNCHANGED part
    /\ \/ part = "job" /\ JobNext /\ UNCHANGED reconcileVars
       \/ part = "watch" /\ ReconcileNext /\ UNCHANGED jobVars

\* The runtime goes on with a handler whose call was answered and runs a due
\* alarm; time passes, and a transaction the operator sent is executed in the
\* end.  Clients, webhooks and the provider may stop.
UploadsFairness ==
    /\ \A t \in Places : WF_jobVars(part = "job" /\ Resumes(t))
    /\ WF_jobVars(part = "job" /\ alarm)
    /\ WF_jobVars(part = "job" /\ Tick)
    /\ WF_jobVars(part = "job" /\ FinalizeLands)
    /\ WF_reconcileVars(part = "watch" /\ Watch)
    /\ SF_reconcileVars(part = "watch" /\ WatchTick)

UploadsSpec == UploadsInit /\ [][UploadsNext]_uploadsVars /\ UploadsFairness

\* The job's record agrees with the provider, the chain and the archive, and the
\* watch takes no asset for healthy again on a single look.
UploadsSafe == JobSafe /\ ReconcileTypeOK /\ RecoveryConfirmed
=============================================================================
