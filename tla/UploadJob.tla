----------------------------- MODULE UploadJob -----------------------------
(***************************************************************************)
(* One upload job of the Livepeer bridge: a Durable Object that takes a    *)
(* paid job from the signed upload intent through the provider's upload,   *)
(* processing and verification to the publication on chain, or to an end   *)
(* (cancelled, expired, failed).  Storage is only touched between awaits;  *)
(* at an await for an external call the other handlers of the object run,  *)
(* unless the deployment chains them on operatorTail.  The records a       *)
(* handler holds across an await are copies, and are written back.         *)
(***************************************************************************)
EXTENDS Integers, Sequences, FiniteSets

CONSTANTS
    Scenarios,      \* the configurations [kind, queued, legacy] explored, each with its bounds: the
                    \* requests and webhooks of each kind that may come, and the faults
                    \* (crashes, lost calls, unreadable answers)
    Handlers,       \* places for the requests that run beside the tail, numbered
    LeaseTerm,      \* ADMISSION_LEASE_TTL_MS
    TusLife,        \* STREAM_TUS_URL_LIFETIME_MS
    Deadline,       \* absoluteDeadlineAtMs of a job of a queued deployment
    StuckTimeout,   \* streamStuckTimeoutMs
    MaxClock,       \* bound: the clock
    MaxLeases       \* bound: admission leases

ASSUME ScenariosAssumption ==
    Scenarios \subseteq [kind : {"studio", "stream"}, queued : BOOLEAN, legacy : BOOLEAN,
                         calls : [{"intent", "beat", "hook", "cancel", "purge"} -> Nat],
                         faults : Nat]
ASSUME JobBoundsAssumption ==
    /\ {LeaseTerm, TusLife, Deadline} \subseteq Nat \ {0}
    /\ {StuckTimeout, MaxClock, MaxLeases} \subseteq Nat
    /\ IsFiniteSet(Handlers) /\ Handlers \subseteq Nat \ {0}

Active == {"UPLOAD_READY", "UPLOADING", "PROCESSING"}
Finalizing == {"READY_VERIFIED", "FINALIZE_QUEUED", "FINALIZE_RETRY"}
Ended == {"UPLOAD_EXPIRED", "PROVIDER_FAILED", "CANCELLED"}
Final == Ended \cup {"ONCHAIN_PUBLISHED"}

JOB_STATE_TRANSITIONS ==
    [s \in {"NONE", "AUTHORIZED", "LEASED", "PROVIDER_CREATE_PENDING", "CREATE_AMBIGUOUS"}
           \cup Active \cup Finalizing \cup Final |->
     CASE s = "NONE" -> {"AUTHORIZED"}
       [] s = "AUTHORIZED" -> {"LEASED", "UPLOAD_EXPIRED", "CANCELLED"}
       [] s = "LEASED" -> {"PROVIDER_CREATE_PENDING", "UPLOAD_EXPIRED", "CANCELLED"}
       [] s = "PROVIDER_CREATE_PENDING" -> {"CREATE_AMBIGUOUS", "UPLOAD_READY", "UPLOAD_EXPIRED"}
       [] s = "UPLOAD_READY" -> {"UPLOADING", "PROCESSING", "READY_VERIFIED", "UPLOAD_EXPIRED",
                                 "PROVIDER_FAILED"}
       [] s = "UPLOADING" -> {"PROCESSING", "READY_VERIFIED", "UPLOAD_EXPIRED", "PROVIDER_FAILED"}
       [] s = "PROCESSING" -> {"READY_VERIFIED", "UPLOAD_EXPIRED", "PROVIDER_FAILED"}
       [] s \in Finalizing -> {"FINALIZE_QUEUED", "FINALIZE_RETRY", "UPLOAD_EXPIRED",
                               "PROVIDER_FAILED", "ONCHAIN_PUBLISHED"} \ {s}
       [] OTHER -> {}]

NoJob == [state |-> "NONE", lease |-> 0, expires |-> 0, asset |-> 0, created |-> 0, tus |-> FALSE,
          check |-> FALSE, pub |-> 0, since |-> 0, deleted |-> "NO", archive |-> "NONE"]

NoTask == [op |-> "none", pc |-> "idle", rec |-> NoJob, arg |-> "none"]

NoSlot == [state |-> "none", lease |-> 0, expires |-> 0]

VARIABLES
    deployment,     \* the configuration, fixed
    clock,
    job,            \* storage: the job record
    jobAlarm,       \* storage: an alarm is set
    seenReady,      \* storage: the dedup record of the ready webhook
    task,           \* the handlers under way, by place
    slot,           \* admission object: the reservation of this job
    leases,         \* admission object: leases granted so far
    creates,        \* provider: createUpload calls received
    video,          \* provider: the phase of the asset each call has made, or "none"
    submitted,      \* operator: assets whose finalization was sent
    chainAsset,     \* chain: the asset of the publication, 0 if there is none
    takenDown,      \* chain: the publication is taken down
    summary,        \* D1: the terminal state archived
    callsLeft, faultsLeft

providerVars == <<video, creates>>
marketVars == <<submitted, chainAsset, takenDown>>
boundVars == <<callsLeft, faultsLeft>>
jobVars == <<deployment, clock, job, jobAlarm, seenReady, task, slot, leases, providerVars, marketVars,
             summary, boundVars>>

tail == 0
Places == Handlers \cup {tail}
stream == deployment.kind = "stream"

-----------------------------------------------------------------------------
(* The record and its moves. *)

legal(from, to) == from = to \/ to \in JOB_STATE_TRANSITIONS[from]

transitionJob(rec, to) ==
    IF rec.state = to THEN rec
    ELSE [rec EXCEPT !.state = to, !.since = clock,
                     !.archive = IF to \in Ended THEN "PENDING" ELSE @]

publicBetaDeadlineExpired == deployment.queued /\ clock >= Deadline

tusExpired(rec) == clock >= rec.created + TusLife

isLegacyProfileJobOnMarketV2 == deployment.legacy

sameJobCopy(a, b) ==
    [a EXCEPT !.check = FALSE, !.since = 0] = [b EXCEPT !.check = FALSE, !.since = 0]

-----------------------------------------------------------------------------
(* How a handler goes on: it waits for a call, returns, or throws.  An alarm *)
(* that throws is run again by the platform.                                 *)

Await(t, o, pc, rec, arg) ==
    task' = [task EXCEPT ![t] = [op |-> o, pc |-> pc, rec |-> rec, arg |-> arg]]

Return(t) == task' = [task EXCEPT ![t] = NoTask]

Throw(t, o) == Return(t) /\ jobAlarm' = (jobAlarm \/ o = "alarm")

deleteStreamUpload(t, o, rec) ==
    IF rec.asset # 0 /\ rec.deleted = "NO"
    THEN Await(t, o, "delete", rec, rec.state) /\ UNCHANGED jobAlarm
    ELSE Await(t, o, "mark", rec, rec.state) /\ jobAlarm' = TRUE

\* The stored record is read again; one that already ended only loses its asset.
terminateStreamJob(t, o, to) ==
    IF job.state \in Ended
    THEN UNCHANGED job /\ deleteStreamUpload(t, o, job)
    ELSE IF legal(job.state, to)
    THEN job' = transitionJob(job, to) /\ deleteStreamUpload(t, o, transitionJob(job, to))
    ELSE UNCHANGED job /\ Throw(t, o)

\* A Studio job ends from the copy the handler holds.
endStudioJob(t, o, rec, to) ==
    IF legal(rec.state, to)
    THEN /\ job' = transitionJob(rec, to)
         /\ jobAlarm' = TRUE
         /\ Await(t, o, "mark", transitionJob(rec, to), to)
    ELSE UNCHANGED job /\ Throw(t, o)

endJob(t, o, rec, to) == IF stream THEN terminateStreamJob(t, o, to) ELSE endStudioJob(t, o, rec, to)

expireJob(t, o, rec) == endJob(t, o, rec, "UPLOAD_EXPIRED")

expireLegacyProfileJob(rec) ==
    isLegacyProfileJobOnMarketV2
    /\ rec.state \in {"AUTHORIZED", "LEASED", "PROVIDER_CREATE_PENDING"} \cup Active

advanceFinalization(t, o, rec) ==
    IF publicBetaDeadlineExpired THEN expireJob(t, o, rec)
    ELSE /\ UNCHANGED <<job, jobAlarm>>
         /\ Await(t, o, IF isLegacyProfileJobOnMarketV2 THEN "settle" ELSE "finalize", rec, "none")

verifyReadyProviderAsset(t, o, rec, digest) ==
    /\ UNCHANGED job
    /\ IF rec.state # "ONCHAIN_PUBLISHED" /\ publicBetaDeadlineExpired THEN Throw(t, o)
       ELSE Await(t, o, "verify", rec, digest) /\ UNCHANGED jobAlarm

\* handleProviderEvent.  digest is "hook" for the provider's signed event, which is delivered
\* again with the same digest, and "own" for what the object observed itself.
handleProviderEvent(t, o, event, ex, digest) ==
    LET readiness == event = "ready" IN
    CASE expireLegacyProfileJob(ex) -> expireJob(t, o, ex) /\ UNCHANGED seenReady
      [] /\ ~expireLegacyProfileJob(ex)
         /\ publicBetaDeadlineExpired /\ ex.state \notin Final ->
            expireJob(t, o, ex) /\ UNCHANGED seenReady
      [] ex.state \in Ended -> Return(t) /\ UNCHANGED <<job, jobAlarm, seenReady>>
      [] ex.state = "ONCHAIN_PUBLISHED" ->
            /\ UNCHANGED <<job, seenReady>>
            /\ IF readiness THEN Await(t, o, "mark", ex, "ONCHAIN_PUBLISHED") /\ UNCHANGED jobAlarm
               ELSE Return(t) /\ jobAlarm' = TRUE
      [] OTHER ->
         IF event = "failed" THEN endJob(t, o, ex, "PROVIDER_FAILED") /\ UNCHANGED seenReady
         ELSE IF event # "ready"
         THEN /\ job' = IF event = "processing" /\ ex.state \in {"UPLOAD_READY", "UPLOADING"}
                        THEN transitionJob(ex, "PROCESSING") ELSE job
              /\ Return(t) /\ UNCHANGED <<jobAlarm, seenReady>>
         ELSE IF isLegacyProfileJobOnMarketV2 /\ ex.pub # 0
         THEN Await(t, o, "settle", ex, "none") /\ UNCHANGED <<job, jobAlarm, seenReady>>
         ELSE IF stream /\ ex.pub # 0 /\ ex.state \in Finalizing
         THEN Return(t) /\ UNCHANGED <<job, jobAlarm, seenReady>>
         ELSE IF digest = "own" \/ seenReady = "none"
         THEN /\ seenReady' = IF digest = "hook" THEN "PROCESSING" ELSE seenReady
              /\ verifyReadyProviderAsset(t, o, ex, digest)
         ELSE /\ UNCHANGED seenReady
              /\ IF job.state \in Active THEN Return(t) /\ UNCHANGED <<job, jobAlarm>>
                 ELSE IF job.state = "ONCHAIN_PUBLISHED"
                 THEN Await(t, o, "mark", job, "ONCHAIN_PUBLISHED") /\ UNCHANGED <<job, jobAlarm>>
                 ELSE IF job.pub = 0 THEN Throw(t, o) /\ UNCHANGED job
                 ELSE advanceFinalization(t, o, job)

\* Mutant: the next look is left to the next request.
looks_once(o) == FALSE
looks_again(o) == ~stream \/ o = "intent"

\* reconcileUpload and the head of pollStreamUpload.
reconcileUpload(t, o, rec) ==
    IF rec.state \notin Active \/ rec.asset = 0 \/ ~(stream \/ deployment.queued)
    THEN Return(t) /\ UNCHANGED <<job, jobAlarm>>
    ELSE IF stream /\ tusExpired(rec) THEN terminateStreamJob(t, o, "UPLOAD_EXPIRED")
    ELSE IF ~stream /\ publicBetaDeadlineExpired THEN endStudioJob(t, o, rec, "UPLOAD_EXPIRED")
    ELSE /\ Await(t, o, "read", rec, "none")
         /\ jobAlarm' = (jobAlarm \/ looks_again(o))
         /\ UNCHANGED job

-----------------------------------------------------------------------------
(* Requests; the ones a deployment queues wait for the tail.  Each runs up to *)
(* its first call here, after the reads of the chain it starts with.          *)

queued(o) == o = "cancel" \/ (deployment.queued /\ o # "purge")

outside == <<deployment, clock, slot, leases, providerVars, marketVars, summary, faultsLeft>>

Arrives(t, o) ==
    /\ task[t].pc = "idle"
    /\ IF queued(o) THEN t = tail
       ELSE t \in Handlers /\ \A u \in Handlers : task[u].pc = "idle" => t <= u
    /\ callsLeft[o] > 0
    /\ callsLeft' = [callsLeft EXCEPT ![o] = @ - 1]
    /\ UNCHANGED outside

createUploadNext(t, o, rec) ==
    /\ job' = transitionJob(rec, "PROVIDER_CREATE_PENDING")
    /\ Await(t, o, "create", transitionJob(rec, "PROVIDER_CREATE_PENDING"), "none")

\* Mutant: a create whose answer was lost is asked for again.
startable_again == {"AUTHORIZED", "LEASED", "PROVIDER_CREATE_PENDING"}
startable == {"AUTHORIZED", "LEASED"}

\* reserveUploadIntent after the recovery branches: reuse, refuse, or admit and create.
serveIntent(t, o, rec) ==
    LET lapsed == rec.lease = 0 \/ rec.expires <= clock IN
    IF rec.state \in {"UPLOAD_READY", "UPLOADING"}
    THEN /\ IF lapsed THEN Await(t, o, "admit", rec, "renew") ELSE Return(t)
         /\ UNCHANGED job
    ELSE IF rec.state \notin startable \/ publicBetaDeadlineExpired
    THEN Return(t) /\ UNCHANGED job
    ELSE IF rec.state = "AUTHORIZED" \/ lapsed
    THEN Await(t, o, "admit", rec, "create") /\ UNCHANGED job
    ELSE createUploadNext(t, o, rec)

reserveUploadIntent(t, recovery) ==
    LET o == "intent"
        new == transitionJob(NoJob, "AUTHORIZED")
    IN
    /\ Arrives(t, o)
    /\ IF job = NoJob
       THEN /\ recovery = "none"
            /\ job' = new
            /\ jobAlarm' = TRUE
            /\ IF publicBetaDeadlineExpired THEN Return(t) ELSE Await(t, o, "admit", new, "create")
       ELSE IF recovery = "reconcile" /\ job.state \in Active /\ (stream \/ deployment.queued)
       THEN reconcileUpload(t, o, job)
       ELSE IF recovery = "resume" /\ job.state \in {"UPLOAD_READY", "UPLOADING"} /\ job.tus
       THEN IF stream /\ tusExpired(job) THEN terminateStreamJob(t, o, "UPLOAD_EXPIRED")
            ELSE jobAlarm' = TRUE /\ Await(t, o, "offset", job, "none") /\ UNCHANGED job
       ELSE /\ jobAlarm' = TRUE
            /\ IF recovery = "none" THEN serveIntent(t, o, job) ELSE Return(t) /\ UNCHANGED job
    /\ UNCHANGED seenReady

heartbeatUploadLease(t) ==
    /\ Arrives(t, "beat")
    /\ job.state \in {"UPLOAD_READY", "UPLOADING"} /\ job.lease # 0 /\ ~publicBetaDeadlineExpired
    /\ Await(t, "beat", "heartbeat", job, "none")
    /\ jobAlarm' = TRUE
    /\ UNCHANGED <<job, seenReady>>

cancelUpload(t) ==
    /\ Arrives(t, "cancel")
    /\ job.state \in {"AUTHORIZED", "LEASED", "CANCELLED"}
    /\ job' = transitionJob(job, "CANCELLED")
    /\ jobAlarm' = TRUE
    /\ IF job.lease # 0 THEN Await(t, "cancel", "mark", job', "CANCELLED") ELSE Return(t)
    /\ UNCHANGED seenReady

\* The events the provider has had reason to send for the asset of the job.
events == {e \in {"processing", "ready", "failed"} :
              /\ job.asset # 0
              /\ CASE e = "processing" -> video[job.asset] \in {"processing", "ready"}
                   [] e = "ready" -> video[job.asset] = "ready"
                   [] e = "failed" -> video[job.asset] = "failed"}

handleLivepeerWebhook(t, event) ==
    /\ Arrives(t, "hook")
    /\ event \in events
    /\ handleProviderEvent(t, "hook", event, job, "hook")

\* The operator deletes the asset of a taken down publication or of an expired job.
deletePublicBetaAsset(t) ==
    /\ deployment.queued
    /\ Arrives(t, "purge")
    /\ job.asset # 0 /\ job.deleted = "NO"
    /\ \/ takenDown /\ chainAsset = job.asset
       \/ chainAsset = 0 /\ job.state = "UPLOAD_EXPIRED" /\ publicBetaDeadlineExpired
    /\ Await(t, "purge", "delete", job, "purge")
    /\ UNCHANGED <<job, jobAlarm, seenReady>>

fetch(t) ==
    \/ \E r \in {"none", "reconcile", "resume"} :
          (r = "resume" => deployment.queued) /\ reserveUploadIntent(t, r)
    \/ heartbeatUploadLease(t) \/ cancelUpload(t) \/ deletePublicBetaAsset(t)
    \/ \E e \in {"processing", "ready", "failed"} : handleLivepeerWebhook(t, e)

\* The alarm is taken off first; what its handler schedules counts from there.
alarm ==
    /\ jobAlarm /\ task[tail].pc = "idle"
    /\ jobAlarm' = FALSE
    /\ task' = [task EXCEPT ![tail] = [NoTask EXCEPT !.op = "alarm", !.pc = "alarm"]]
    /\ UNCHANGED <<outside, callsLeft, job, seenReady>>

advanceAlarm(t) ==
    /\ task[t].pc = "alarm"
    /\ LET o == "alarm" IN
       IF job.archive \in {"PENDING", "RETRY"}
       THEN Await(t, o, "archive", job, "none") /\ UNCHANGED <<job, jobAlarm, seenReady>>
       ELSE IF expireLegacyProfileJob(job) THEN expireJob(t, o, job) /\ UNCHANGED seenReady
       ELSE IF job.pub = 0 /\ job.check /\ job.state \in Active
       THEN handleProviderEvent(t, o, "ready", job, "own")
       ELSE IF job.pub = 0 THEN reconcileUpload(t, o, job) /\ UNCHANGED seenReady
       ELSE IF job.state \in Finalizing THEN advanceFinalization(t, o, job) /\ UNCHANGED seenReady
       ELSE Return(t) /\ UNCHANGED <<job, jobAlarm, seenReady>>
    /\ UNCHANGED <<outside, callsLeft>>

-----------------------------------------------------------------------------
(* The answers of the calls. *)

faulty == faultsLeft > 0 /\ faultsLeft' = faultsLeft - 1
sound == UNCHANGED faultsLeft

live == slot.state # "none" /\ (slot.expires > clock \/ slot.state = "ambiguous")

grantLease(lease) == [state |-> "held", lease |-> lease, expires |-> clock + LeaseTerm]

leased(rec, s) == [rec EXCEPT !.lease = s.lease, !.expires = s.expires]

\* requestAdmission: the lease this job holds, a new one, or a refusal; a resumed upload renews.
requestAdmission(t) ==
    /\ task[t].pc = "admit"
    /\ LET o == task[t].op
           rec == task[t].rec
           resumes == deployment.queued /\ rec.asset # 0 /\ rec.tus
           admitted(s) ==
               /\ slot' = s
               /\ IF s.expires <= clock THEN Throw(t, o) /\ UNCHANGED job
                  ELSE /\ UNCHANGED jobAlarm
                       /\ IF task[t].arg = "renew" THEN job' = leased(rec, s) /\ Return(t)
                          ELSE createUploadNext(t, o, leased([rec EXCEPT !.state = "LEASED"], s))
       IN \/ /\ live /\ (resumes => slot.state = "held")
             /\ admitted(IF resumes THEN grantLease(slot.lease) ELSE slot)
             /\ UNCHANGED leases
          \/ /\ ~live /\ leases < MaxLeases
             /\ leases' = leases + 1
             /\ admitted(grantLease(leases + 1))
          \/ /\ ~live \/ slot.state = "ambiguous"
             /\ Return(t) /\ UNCHANGED <<job, jobAlarm, slot, leases>>
    /\ UNCHANGED <<deployment, clock, seenReady, providerVars, marketVars, summary, boundVars>>

heartbeatAdmissionLease(t) ==
    /\ task[t].pc = "heartbeat"
    /\ LET o == task[t].op
           rec == task[t].rec IN
       \/ /\ live /\ slot.state = "held" /\ slot.lease = rec.lease
          /\ slot' = grantLease(slot.lease)
          /\ job' = leased(transitionJob(rec, "UPLOADING"), grantLease(slot.lease))
          /\ Return(t) /\ sound /\ UNCHANGED jobAlarm
       \/ /\ ~(live /\ slot.state = "held" /\ slot.lease = rec.lease)
          /\ endJob(t, o, rec, "UPLOAD_EXPIRED")
          /\ sound /\ UNCHANGED slot
       \/ faulty /\ Return(t) /\ UNCHANGED <<job, jobAlarm, slot>>
    /\ UNCHANGED <<deployment, clock, seenReady, leases, providerVars, marketVars, summary, callsLeft>>

readTusOffset(t) ==
    /\ task[t].pc = "offset"
    /\ LET o == task[t].op IN
       \/ sound /\ jobAlarm' = TRUE /\ serveIntent(t, o, task[t].rec)
       \/ faulty /\ Throw(t, o) /\ UNCHANGED job
       \/ stream /\ tusExpired(task[t].rec) /\ sound /\ terminateStreamJob(t, o, "UPLOAD_EXPIRED")
    /\ UNCHANGED <<deployment, clock, seenReady, slot, leases, providerVars, marketVars, summary,
                   callsLeft>>

\* The provider creates an asset, or its answer is lost, with or without an asset behind it.
createUpload(t) ==
    /\ task[t].pc = "create"
    /\ creates' = creates + 1
    /\ LET o == task[t].op
           rec == task[t].rec
           new == creates + 1
           ready == [transitionJob(rec, "UPLOAD_READY") EXCEPT
                        !.asset = new, !.tus = TRUE, !.created = clock]
       IN \/ /\ sound
             /\ video' = Append(video, "waiting")
             /\ IF publicBetaDeadlineExpired
                THEN IF stream
                     THEN /\ job' = transitionJob(ready, "UPLOAD_EXPIRED")
                          /\ deleteStreamUpload(t, o, job')
                     ELSE endStudioJob(t, o, ready, "UPLOAD_EXPIRED")
                ELSE /\ job' = ready
                     /\ Await(t, o, "mark", ready, "UPLOAD_READY")
                     /\ UNCHANGED jobAlarm
          \/ /\ faulty
             /\ video' \in {Append(video, phase) : phase \in {"none", "waiting"}}
             /\ job' = transitionJob(rec, "CREATE_AMBIGUOUS")
             /\ Await(t, o, "mark", job', "CREATE_AMBIGUOUS")
             /\ UNCHANGED jobAlarm
    /\ UNCHANGED <<deployment, clock, seenReady, slot, leases, marketVars, summary, callsLeft>>

\* What updateAdmission leaves of the reservation; without one only an end is accepted.
markSlot(s, mark) ==
    IF mark \in Final THEN NoSlot
    ELSE IF mark = "CREATE_AMBIGUOUS" THEN [s EXCEPT !.state = "ambiguous"]
    ELSE grantLease(s.lease)

updateAdmission(t) ==
    /\ task[t].pc = "mark"
    /\ LET o == task[t].op
           rec == task[t].rec
           mark == task[t].arg
           hooked == o = "hook"
       IN \/ /\ slot.state # "none" \/ mark \in Final
             /\ sound
             /\ slot' = markSlot(slot, mark)
             /\ IF mark = "READY_VERIFIED"
                THEN /\ seenReady' = IF hooked THEN "VERIFIED" ELSE seenReady
                     /\ advanceFinalization(t, o, rec)
                ELSE /\ Return(t)
                     /\ jobAlarm' = (jobAlarm \/ mark \in {"FINALIZE_QUEUED", "ONCHAIN_PUBLISHED"}
                                     \/ (stream /\ mark = "UPLOAD_READY"))
                     /\ UNCHANGED <<job, seenReady>>
          \/ /\ \/ slot.state = "none" /\ mark \notin Final /\ sound
                \/ faulty
             /\ seenReady' = IF mark = "READY_VERIFIED" /\ hooked THEN "none" ELSE seenReady
             /\ Throw(t, o) /\ UNCHANGED <<job, slot>>
    /\ UNCHANGED <<deployment, clock, leases, providerVars, marketVars, summary, callsLeft>>

\* pollStreamUpload after its read.
pollStreamUpload(t, o, rec) ==
    LET phase == video[rec.asset] IN
    CASE phase \in {"gone", "failed"} -> terminateStreamJob(t, o, "PROVIDER_FAILED") /\ UNCHANGED seenReady
      [] phase = "ready" -> handleProviderEvent(t, o, "ready", rec, "own")
      [] phase = "processing" ->
            /\ UNCHANGED seenReady
            /\ IF rec.state # "PROCESSING"
               THEN job' = transitionJob(rec, "PROCESSING") /\ Return(t) /\ jobAlarm' = TRUE
               ELSE \/ /\ job' \in {job, [rec EXCEPT !.since = clock]}
                       /\ Return(t) /\ jobAlarm' = TRUE
                    \/ /\ clock - rec.since > StuckTimeout
                       /\ Await(t, o, "confirm", rec, "none") /\ UNCHANGED <<job, jobAlarm>>
      [] OTHER ->
            /\ UNCHANGED seenReady
            /\ IF rec.lease # 0 /\ rec.expires <= clock
               THEN terminateStreamJob(t, o, "UPLOAD_EXPIRED")
               ELSE Return(t) /\ jobAlarm' = TRUE /\ UNCHANGED job

\* The read of reconcileUpload or of pollStreamUpload.
readAsset(t) ==
    /\ task[t].pc = "read"
    /\ LET o == task[t].op IN
       \/ faulty /\ Return(t) /\ jobAlarm' = TRUE /\ UNCHANGED <<job, seenReady>>
       \/ sound /\ stream /\ pollStreamUpload(t, o, task[t].rec)
       \/ /\ sound /\ ~stream
          /\ LET phase == video[task[t].rec.asset] IN
             handleProviderEvent(t, o, IF phase = "gone" THEN "failed" ELSE phase, job, "own")
    /\ UNCHANGED <<deployment, clock, slot, leases, providerVars, marketVars, summary, callsLeft>>

\* The second read before a job is given up as stuck.
confirmStuck(t) ==
    /\ task[t].pc = "confirm"
    /\ IF video[task[t].rec.asset] = "processing"
       THEN terminateStreamJob(t, task[t].op, "PROVIDER_FAILED")
       ELSE Return(t) /\ jobAlarm' = TRUE /\ UNCHANGED job
    /\ UNCHANGED <<outside, callsLeft, seenReady>>

\* verifyReadyProviderAsset and its use in handleProviderEvent: the record is compared with the
\* stored one before anything is written.
verified(t) ==
    /\ task[t].pc = "verify"
    /\ LET o == task[t].op
           rec == task[t].rec
           hooked == task[t].arg = "hook"
           forgotten == IF hooked THEN "none" ELSE seenReady
           retried == jobAlarm' = (jobAlarm \/ o = "alarm" \/ job.state \in Active)
           ready == [transitionJob(rec, "READY_VERIFIED") EXCEPT
                        !.tus = FALSE, !.check = FALSE, !.pub = rec.asset]
           stale == ~sameJobCopy(job, rec) \/ publicBetaDeadlineExpired
       IN \/ /\ stale \/ video[rec.asset] # "ready" \/ ~legal(rec.state, "READY_VERIFIED")
             /\ sound
             /\ job' = [job EXCEPT !.check = FALSE]
             /\ seenReady' = forgotten /\ Return(t) /\ retried
          \/ /\ ~stale /\ ~rec.check /\ sound
             /\ job' = [job EXCEPT !.check = TRUE]
             /\ seenReady' = forgotten /\ Return(t) /\ jobAlarm' = TRUE
          \/ /\ ~stale /\ video[rec.asset] = "ready" /\ legal(rec.state, "READY_VERIFIED") /\ sound
             /\ job' = ready
             /\ Await(t, o, "mark", ready, "READY_VERIFIED")
             /\ UNCHANGED <<seenReady, jobAlarm>>
          \/ faulty /\ seenReady' = forgotten /\ Return(t) /\ retried /\ UNCHANGED job
          \/ /\ stream /\ faulty
             /\ seenReady' = forgotten
             /\ \E to \in {"UPLOAD_EXPIRED", "PROVIDER_FAILED"} : terminateStreamJob(t, o, to)
    /\ UNCHANGED <<deployment, clock, slot, leases, providerVars, marketVars, summary, callsLeft>>

\* forwardFinalize and what advanceFinalization does with the answer.
forwardFinalize(t) ==
    /\ task[t].pc = "finalize"
    /\ LET o == task[t].op
           rec == task[t].rec
           moves(to) == IF legal(rec.state, to)
                        THEN job' = transitionJob(rec, to)
                             /\ Await(t, o, "mark", transitionJob(rec, to), to)
                             /\ UNCHANGED jobAlarm
                        ELSE Throw(t, o) /\ UNCHANGED job
       IN \/ chainAsset = rec.pub /\ sound /\ moves("ONCHAIN_PUBLISHED") /\ UNCHANGED submitted
          \/ /\ chainAsset = 0 /\ sound
             /\ submitted' = submitted \cup {rec.pub}
             /\ moves("FINALIZE_QUEUED")
          \/ /\ \/ faulty /\ submitted' \in {submitted, submitted \cup {rec.pub}}
                \/ chainAsset \notin {0, rec.pub} /\ sound /\ UNCHANGED submitted
             /\ IF legal(rec.state, "FINALIZE_RETRY")
                THEN job' = transitionJob(rec, "FINALIZE_RETRY") /\ Return(t) /\ jobAlarm' = TRUE
                ELSE Throw(t, o) /\ UNCHANGED job
    /\ UNCHANGED <<deployment, clock, seenReady, slot, leases, providerVars, chainAsset, takenDown,
                   summary, callsLeft>>

\* A job with the old profile is never finalized: it is published already, or it expires.
settleLegacyProfileJob(t) ==
    /\ task[t].pc = "settle"
    /\ LET o == task[t].op
           rec == task[t].rec IN
       \/ faulty /\ Return(t) /\ jobAlarm' = TRUE /\ UNCHANGED job
       \/ sound /\ chainAsset # rec.pub /\ expireJob(t, o, rec)
       \/ /\ sound /\ chainAsset = rec.pub
          /\ IF legal(rec.state, "ONCHAIN_PUBLISHED")
             THEN /\ job' = transitionJob(rec, "ONCHAIN_PUBLISHED")
                  /\ Await(t, o, "mark", job', "ONCHAIN_PUBLISHED") /\ UNCHANGED jobAlarm
             ELSE Throw(t, o) /\ UNCHANGED job
    /\ UNCHANGED <<deployment, clock, seenReady, slot, leases, providerVars, marketVars, summary,
                   callsLeft>>

\* deleteAsset, for terminateStreamJob or for the operator: what happened is noted on the copy.
deleteAsset(t) ==
    /\ task[t].pc = "delete"
    /\ LET o == task[t].op
           rec == task[t].rec
           noted(outcome) == job' = [rec EXCEPT !.deleted = outcome]
           there == video[rec.asset] # "gone"
           gone == video' = [video EXCEPT ![rec.asset] = "gone"]
       IN /\ \/ sound /\ gone /\ noted(IF there THEN "DELETED" ELSE "MISSING")
             \/ faulty /\ (gone \/ UNCHANGED video) /\ noted("AMBIGUOUS")
          /\ IF task[t].arg = "purge" THEN Return(t) /\ UNCHANGED jobAlarm
             ELSE Await(t, o, "mark", job', job'.state) /\ jobAlarm' = TRUE
    /\ UNCHANGED <<deployment, clock, seenReady, slot, leases, creates, marketVars, summary, callsLeft>>

\* advanceTerminalArchive: the first summary stays, another one for the same job is refused.
advanceTerminalArchive(t) ==
    /\ task[t].pc = "archive"
    /\ LET o == task[t].op
           rec == task[t].rec
           failed == /\ job' = [rec EXCEPT !.archive = "RETRY"]
                     /\ jobAlarm' = TRUE
       IN \/ /\ summary \in {"none", rec.state} /\ sound
             /\ summary' = rec.state
             /\ job' = [rec EXCEPT !.archive = "COMMITTED"]
             /\ UNCHANGED jobAlarm
          \/ summary \notin {"none", rec.state} /\ sound /\ failed /\ UNCHANGED summary
          \/ faulty /\ summary' \in {summary, IF summary = "none" THEN rec.state ELSE summary} /\ failed
    /\ Return(t)
    /\ UNCHANGED <<deployment, clock, seenReady, slot, leases, providerVars, marketVars, callsLeft>>

Resumes(t) ==
    \/ advanceAlarm(t) \/ requestAdmission(t) \/ heartbeatAdmissionLease(t) \/ readTusOffset(t) \/ createUpload(t)
    \/ updateAdmission(t) \/ readAsset(t) \/ confirmStuck(t) \/ verified(t) \/ forwardFinalize(t)
    \/ settleLegacyProfileJob(t) \/ deleteAsset(t) \/ advanceTerminalArchive(t)

-----------------------------------------------------------------------------
(* The world around the object. *)

Tick ==
    /\ clock < MaxClock
    /\ clock' = clock + 1
    /\ UNCHANGED <<deployment, job, jobAlarm, seenReady, task, slot, leases, providerVars, marketVars,
                   summary, boundVars>>

\* The admission object drops a lease whose time has passed.
LeaseLapses ==
    /\ slot.state # "none" /\ slot.expires <= clock
    /\ slot' = NoSlot
    /\ UNCHANGED <<deployment, clock, job, jobAlarm, seenReady, task, leases, providerVars, marketVars,
                   summary, boundVars>>

ProviderWorks(a) ==
    /\ \/ video[a] = "waiting" /\ video' = [video EXCEPT ![a] = "processing"]
       \/ video[a] = "processing" /\ video' \in {[video EXCEPT ![a] = p] : p \in {"ready", "failed"}}
    /\ UNCHANGED <<deployment, clock, job, jobAlarm, seenReady, task, slot, leases, creates,
                   marketVars, summary, boundVars>>

\* A finalization the operator sent is executed; the contract takes one publication per job.
FinalizeLands ==
    /\ chainAsset = 0
    /\ chainAsset' \in submitted
    /\ UNCHANGED <<deployment, clock, job, jobAlarm, seenReady, task, slot, leases, providerVars,
                   submitted, takenDown, summary, boundVars>>

TakeDown ==
    /\ chainAsset # 0 /\ ~takenDown /\ callsLeft["purge"] > 0
    /\ takenDown' = TRUE
    /\ UNCHANGED <<deployment, clock, job, jobAlarm, seenReady, task, slot, leases, providerVars,
                   submitted, chainAsset, summary, boundVars>>

\* The object dies: the handlers are gone, storage stays, an alarm under way is run again.  A create
\* whose answer nobody reads may have reached the provider.
Crash ==
    /\ faulty
    /\ \E t \in Places : task[t].pc # "idle"
    /\ task' = [t \in Places |-> NoTask]
    /\ jobAlarm' = (jobAlarm \/ task[tail].op = "alarm")
    /\ \/ UNCHANGED providerVars
       \/ /\ \E t \in Places : task[t].pc = "create"
          /\ creates' = creates + 1
          /\ video' = Append(video, "waiting")
    /\ UNCHANGED <<deployment, clock, job, seenReady, slot, leases, marketVars, summary, callsLeft>>

\* No job yet; or, with the old profile, a job stored before the profile was renamed.
JobInit ==
    /\ \E s \in Scenarios :
          /\ deployment = [kind |-> s.kind, queued |-> s.queued, legacy |-> s.legacy]
          /\ callsLeft = s.calls
          /\ faultsLeft = s.faults
    /\ clock = 0
    /\ IF deployment.legacy
       THEN \E s \in {"UPLOADING"} \cup Finalizing :
               /\ job = [NoJob EXCEPT !.state = s, !.asset = 1, !.tus = s = "UPLOADING",
                                      !.pub = IF s \in Finalizing THEN 1 ELSE 0]
               /\ submitted \in IF s \in Finalizing THEN {{}, {1}} ELSE {{}}
       ELSE job = NoJob /\ submitted = {}
    /\ video = IF job.asset = 0 THEN <<>> ELSE <<"ready">>
    /\ creates = Len(video)
    /\ jobAlarm = (job.asset # 0)
    /\ seenReady = "none" /\ summary = "none"
    /\ task = [t \in Places |-> NoTask]
    /\ slot = NoSlot /\ leases = 0
    /\ chainAsset = 0 /\ takenDown = FALSE

JobNext ==
    \/ \E t \in Places : fetch(t) \/ Resumes(t)
    \/ alarm
    \/ Tick \/ LeaseLapses \/ FinalizeLands \/ TakeDown \/ Crash
    \/ \E a \in DOMAIN video : ProviderWorks(a)

-----------------------------------------------------------------------------
(* Properties. *)

JobTypeOK ==
    /\ job.state \in DOMAIN JOB_STATE_TRANSITIONS
    /\ job.asset \in 0..creates /\ job.pub \in {0, job.asset}
    /\ job.deleted \in {"NO", "DELETED", "MISSING", "AMBIGUOUS"}
    /\ job.archive \in {"NONE", "PENDING", "RETRY", "COMMITTED"}
    /\ job.archive # "NONE" <=> job.state \in Ended
    /\ seenReady \in {"none", "PROCESSING", "VERIFIED"}
    /\ slot.state \in {"none", "held", "ambiguous"}

\* Where the handlers are queued, the provider is asked for one asset per job, whatever requests,
\* retries, crashes and lost answers came between.
OneCreate == deployment.queued => creates <= 1

\* A record that says published names the asset of the publication on chain, also when the answer
\* of the finalization was lost or the job was restarted.
PublishedOnChain == job.state = "ONCHAIN_PUBLISHED" => chainAsset = job.asset

\* The terminal summary in D1 names the state the job ended in, also when the row was written and
\* the object died before it marked the record.
SummaryMatches == job.archive = "COMMITTED" => summary = job.state

\* A queued job whose asset was created does not stay open for ever: it is published or ends, or
\* its asset is deleted, by the alarm alone if no browser and no webhook ever comes back.
JobEnds ==
    (deployment.queued /\ job.asset # 0 /\ (stream => job.created + TusLife <= MaxClock))
        ~> (job.state \in Final \/ job.deleted # "NO")

\* The record, the provider, the chain and the archive agree about the job.
JobSafe == JobTypeOK /\ OneCreate /\ PublishedOnChain /\ SummaryMatches
=============================================================================
