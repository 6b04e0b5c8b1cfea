----------------------------- MODULE Admission -----------------------------
(***************************************************************************)
(* The admission object of the Livepeer bridge: one Durable Object that    *)
(* gives the upload jobs their places.  It holds a lease per admitted job, *)
(* counts attempts per day and reserved cost per month, holds the Stream   *)
(* minutes reserved, and closes itself on incidents until an operator      *)
(* reopens it.  Every operation is one storage transaction followed by     *)
(* maintainAdmissionLifecycle.  Calls of the job objects may come late,    *)
(* twice, or after their lease is gone.                                    *)
(***************************************************************************)
EXTENDS Integers, FiniteSets, FiniteSetsExt

CONSTANTS
    Sites,              \* the deployments explored, each with the creator of every job
    Uploads,            \* the jobs that ask for a place, numbered
    Creators,
    LeaseTTL, AmbiguousTimeout, FailureWindow,  \* ADMISSION_*_MS, in ticks
    DayTicks, MonthTicks, StreamTicks,          \* a UTC day, a UTC month, STREAM_TUS_URL_LIFETIME_MS
    FailureLimit, DailyAttempts,                \* ADMISSION_PROVIDER_FAILURE_LIMIT, ..._CREATOR_DAILY_ATTEMPTS
    MonthlyBudget,      \* reservations the monthly budget pays
    StreamBudget,       \* reservations STREAM_RESERVATION_SECONDS_BUDGET holds
    MaxTime,            \* bound: the clock
    MaxGrants,          \* bound: reservations of one job
    MaxClosures         \* bound: closures

ASSUME AdmissionAssumption ==
    /\ IsFiniteSet(Uploads) /\ IsFiniteSet(Creators)
    /\ Sites \subseteq [public : BOOLEAN, stream : BOOLEAN, concurrency : Nat,
                        creatorOf : [Uploads -> Creators]]
    /\ {LeaseTTL, AmbiguousTimeout, DayTicks, MonthTicks, StreamTicks, FailureLimit} \subseteq Nat \ {0}
    /\ {FailureWindow, DailyAttempts, MonthlyBudget, StreamBudget, MaxTime, MaxGrants, MaxClosures}
           \subseteq Nat
    /\ AmbiguousTimeout <= LeaseTTL     \* fifteen minutes and thirty

\* A reservation: held (CREATE_PENDING, UPLOAD_READY, UPLOADING, ...: the object treats them alike)
\* or CREATE_AMBIGUOUS, with the time leaseDeadline gives it.
NoReservation == [state |-> "none", lease |-> 0, deadline |-> 0]

NoClosure == [code |-> "none", at |-> 0]

\* The ends of a job (published, expired, failed, cancelled) are treated alike.
Terminal == {"ONCHAIN_PUBLISHED"}

Marks == {"CREATE_AMBIGUOUS", "UPLOAD_READY", "READY_VERIFIED", "PROVIDER_UNAVAILABLE", "AUTO_CLOSED"}
             \cup Terminal

NoRequest == [code |-> "none", at |-> 0, resolution |-> "none", upload |-> 0]

VARIABLES
    site,               \* the deployment, fixed
    time,
    admission,          \* storage: the AdmissionRecord
    audits,             \* storage: the reopen requests carried out
    lifecycleAlarm,     \* storage: when the alarm is due, -1 if none is set
    leaseKnown,         \* job objects: the lease each one holds
    reopenRequest,      \* operator: the reopen request written from the closure it looked at
    grants,             \* history: [upload, at] of the reservations made
    incident,           \* history: number of the last incident no operator has reopened after
    closures            \* closures so far; they number the times they are observed at

admissionVars == <<site, time, admission, audits, lifecycleAlarm, leaseKnown, reopenRequest, grants,
                   incident, closures>>

utcDay == time \div DayTicks
utcMonth == time \div MonthTicks

emptyAdmissionRecord ==
    [status |-> "OPEN", closure |-> NoClosure, reservations |-> [u \in Uploads |-> NoReservation],
     day |-> utcDay, attempts |-> [c \in Creators |-> 0], month |-> utcMonth, reserved |-> 0,
     failures |-> 0, failedAt |-> 0, stream |-> [u \in Uploads |-> 0]]

leaseDeadline(r) == r.deadline

renewed(lease) == [state |-> "held", lease |-> lease, deadline |-> time + LeaseTTL]

ambiguous(r) ==
    IF r.state = "CREATE_AMBIGUOUS" THEN r
    ELSE [r EXCEPT !.state = "CREATE_AMBIGUOUS", !.deadline = time + AmbiguousTimeout]

held(record) == {u \in Uploads : record.reservations[u].state # "none"}

normalizeAdmissionLeases(record) ==
    [record EXCEPT !.reservations = [u \in Uploads |->
        IF time < leaseDeadline(@[u]) THEN @[u] ELSE NoReservation]]

liveStreamReservations(record) == {u \in Uploads : record.stream[u] > time}

-----------------------------------------------------------------------------
(* planAdmission: what a request for a place comes to. *)

\* A closure for the month's budget ends by itself with the month.
rolled(record) ==
    IF record.status = "AUTO_CLOSED" /\ record.closure.code = "monthly_budget_exceeded"
       /\ (site.public \/ record.month # utcMonth)
    THEN [record EXCEPT !.status = "OPEN", !.closure = NoClosure, !.failures = 0, !.failedAt = 0]
    ELSE record

daily(record, c) == IF record.day = utcDay THEN record.attempts[c] ELSE 0

monthly(record) == IF record.month = utcMonth THEN record.reserved ELSE 0

AdmissionDenied(record, u) ==
    \/ \E v \in held(record) : site.creatorOf[v] = site.creatorOf[u]
    \/ daily(record, site.creatorOf[u]) >= DailyAttempts
    \/ Cardinality(held(record)) >= site.concurrency
    \/ site.stream /\ Cardinality(liveStreamReservations(record) \ {u}) + 1 > StreamBudget

budgetExceeded(record) == ~site.public /\ monthly(record) + 1 > MonthlyBudget

thisDay(record) ==
    [record EXCEPT !.day = utcDay, !.attempts = [c \in Creators |-> daily(record, c)],
                   !.month = utcMonth, !.reserved = monthly(record)]

planAdmission(u) ==
    LET record == normalizeAdmissionLeases(
                      IF admission.status = "NONE" THEN emptyAdmissionRecord ELSE admission)
        next == rolled(record)
    IN CASE record.reservations[u].state # "none" -> [outcome |-> "reuse", record |-> record]
         [] record.reservations[u].state = "none" /\ next.status = "AUTO_CLOSED" ->
                IF next.closure.code = "monthly_budget_exceeded"
                THEN [outcome |-> "closed", record |-> record]
                ELSE [outcome |-> "refused", record |-> admission]
         [] OTHER ->
                IF AdmissionDenied(next, u) THEN [outcome |-> "refused", record |-> admission]
                ELSE IF budgetExceeded(next)
                THEN [outcome |-> "exceeded",
                      record |-> [thisDay(next) EXCEPT
                          !.status = "AUTO_CLOSED",
                          !.closure = [code |-> "monthly_budget_exceeded", at |-> closures + 1]]]
                ELSE [outcome |-> "create", record |-> next]

created(record, u, lease) ==
    [thisDay(record) EXCEPT
        !.reservations[u] = renewed(lease),
        !.attempts[site.creatorOf[u]] = @ + 1,
        !.reserved = @ + 1,
        !.stream = IF site.stream
                   THEN [v \in Uploads |-> IF v = u THEN time + StreamTicks
                                           ELSE IF @[v] > time THEN @[v] ELSE 0]
                   ELSE @]

-----------------------------------------------------------------------------
(* The operations. *)

\* After each of them: expired leases are dropped and the alarm set for the next deadline.
maintainAdmissionLifecycle(record) ==
    LET active == normalizeAdmissionLeases(record)
        deadlines == {leaseDeadline(active.reservations[u]) : u \in held(active)}
    IN /\ admission' = active
       /\ lifecycleAlarm' = IF deadlines # {} THEN Min(deadlines) ELSE lifecycleAlarm

reserveAdmission(u) ==
    LET plan == planAdmission(u)
        lease == leaseKnown[u] + 1
    IN /\ \/ /\ plan.outcome = "create" /\ lease <= MaxGrants
             /\ maintainAdmissionLifecycle(created(plan.record, u, lease))
             /\ leaseKnown' = [leaseKnown EXCEPT ![u] = lease]
             /\ grants' = grants \cup {[upload |-> u, lease |-> lease, at |-> time]}
             /\ UNCHANGED closures
          \/ /\ plan.outcome = "reuse"
             /\ maintainAdmissionLifecycle(plan.record)
             /\ UNCHANGED <<leaseKnown, grants, closures>>
          \/ /\ plan.outcome \in {"closed", "exceeded"} /\ closures < MaxClosures
             /\ admission' = plan.record
             /\ closures' = IF plan.outcome = "exceeded" THEN closures + 1 ELSE closures
             /\ UNCHANGED <<lifecycleAlarm, leaseKnown, grants>>
       /\ UNCHANGED <<site, time, audits, reopenRequest, incident>>

\* A public upload under way takes a place again; neither an attempt nor cost is counted.
resumeAdmission(u) ==
    LET record == normalizeAdmissionLeases(admission)
        existing == record.reservations[u]
    IN /\ site.public /\ admission.status # "NONE" /\ leaseKnown[u] > 0
       /\ existing.state # "CREATE_AMBIGUOUS"
       /\ existing.state = "none" =>
             /\ Cardinality(held(record)) < site.concurrency
             /\ \A v \in held(record) : site.creatorOf[v] # site.creatorOf[u]
       /\ maintainAdmissionLifecycle([record EXCEPT !.reservations[u] =
              renewed(IF existing.state = "none" THEN leaseKnown[u] ELSE existing.lease)])
       /\ UNCHANGED <<site, time, audits, leaseKnown, reopenRequest, grants, incident, closures>>

\* A Stream reservation ends with the upload, or when the asset is ready.
releaseStreamReservation(record, u, mark) ==
    IF mark \in Terminal \cup {"READY_VERIFIED"}
    THEN [record EXCEPT !.stream[u] = 0] ELSE record

closed(record, code) ==
    [record EXCEPT !.status = "AUTO_CLOSED", !.closure = [code |-> code, at |-> closures + 1]]

\* PROVIDER_UNAVAILABLE: the creation is ambiguous, and the second one in a row closes admission.
providerFailed(record, u) ==
    LET count == IF record.failures > 0 /\ time - record.failedAt <= FailureWindow
                 THEN record.failures + 1 ELSE 1
        counted == [record EXCEPT !.failures = count, !.failedAt = time,
                        !.reservations[u] = ambiguous(@)]
    IN IF count >= FailureLimit THEN closed(counted, "provider_unavailable") ELSE counted

marked(record, u, mark) ==
    IF mark \in Terminal THEN [record EXCEPT !.reservations[u] = NoReservation]
    ELSE IF mark = "CREATE_AMBIGUOUS"
    THEN [record EXCEPT !.reservations[u] = ambiguous(@)]
    ELSE [record EXCEPT !.reservations[u] = renewed(@.lease),
                        !.failures = IF mark = "UPLOAD_READY" THEN 0 ELSE @,
                        !.failedAt = IF mark = "UPLOAD_READY" THEN 0 ELSE @]

markAdmission(u, mark) ==
    LET record == releaseStreamReservation(admission, u, mark)
        r == record.reservations[u]
        next == CASE mark = "AUTO_CLOSED" ->
                        IF record.status = "AUTO_CLOSED" THEN record
                        ELSE closed(record, "provider_budget_or_inventory")
                  [] mark = "PROVIDER_UNAVAILABLE" ->
                        IF r.state = "CREATE_AMBIGUOUS" THEN record ELSE providerFailed(record, u)
                  [] OTHER -> marked(record, u, mark)
        opens == next.closure.at > record.closure.at
    IN /\ leaseKnown[u] > 0 /\ closures < MaxClosures
       /\ mark \in Terminal \cup {"AUTO_CLOSED"} \/ r.state # "none"
       /\ maintainAdmissionLifecycle(next)
       /\ closures' = IF opens THEN closures + 1 ELSE closures
       /\ incident' = IF opens THEN closures + 1 ELSE incident
       /\ UNCHANGED <<site, time, audits, leaseKnown, reopenRequest, grants>>

\* A heartbeat that is refused still stores what is left of the leases.
heartbeatAdmission(u, lease) ==
    LET record == normalizeAdmissionLeases(admission)
        r == record.reservations[u]
    IN /\ admission.status # "NONE"
       /\ lease \in 1..leaseKnown[u]
       /\ IF r.state \in {"none", "CREATE_AMBIGUOUS"} \/ r.lease # lease
          THEN admission' = record /\ UNCHANGED lifecycleAlarm
          ELSE maintainAdmissionLifecycle([record EXCEPT !.reservations[u] = renewed(lease)])
       /\ UNCHANGED <<site, time, audits, leaseKnown, reopenRequest, grants, incident, closures>>

\* The operator reads the status and writes a reopen request for the closure it shows.
readAdmissionStatus ==
    /\ admission.status = "AUTO_CLOSED"
    /\ \E request \in [code : {admission.closure.code}, at : {admission.closure.at},
                       resolution : {"JOB_RESOLVED", "INVENTORY_RECONCILED", "BUDGET_WINDOW_ROLLED"},
                       upload : Uploads \cup {0}] :
          /\ request.resolution = "JOB_RESOLVED" <=> request.upload # 0
          /\ CASE request.code = "monthly_budget_exceeded" ->
                      request.resolution = "BUDGET_WINDOW_ROLLED"
               [] request.code = "provider_budget_or_inventory" ->
                      request.resolution # "BUDGET_WINDOW_ROLLED"
               [] request.code = "provider_unavailable" -> request.resolution = "INVENTORY_RECONCILED"
          /\ reopenRequest' = request
    /\ UNCHANGED <<site, time, admission, audits, lifecycleAlarm, leaseKnown, grants, incident, closures>>

\* Mutant: any request reopens, whatever closure it was written for.
closure_ignored(q) == TRUE
closure_matches(q) == admission.closure = [code |-> q.code, at |-> q.at]

\* The request may be sent any number of times; one that was carried out is only acknowledged.
reopenAdmission ==
    LET q == reopenRequest
        resolved == {u \in held(admission) :
                        /\ admission.reservations[u].state = "CREATE_AMBIGUOUS"
                        /\ \/ u = q.upload
                           \/ q.code = "provider_unavailable" /\ q.resolution = "INVENTORY_RECONCILED"}
    IN /\ q # NoRequest
       /\ \/ /\ q \in audits
             /\ maintainAdmissionLifecycle(admission)
             /\ UNCHANGED <<audits, incident>>
          \/ /\ q \notin audits
             /\ admission.status = "AUTO_CLOSED"
             /\ closure_matches(q)
             /\ q.upload # 0 => q.upload \in resolved
             /\ q.resolution = "BUDGET_WINDOW_ROLLED" => admission.month # utcMonth
             /\ maintainAdmissionLifecycle([admission EXCEPT
                    !.status = "OPEN", !.closure = NoClosure, !.failures = 0, !.failedAt = 0,
                    !.reservations = [u \in Uploads |-> IF u \in resolved THEN NoReservation ELSE @[u]]])
             /\ audits' = audits \cup {q}
             /\ incident' = IF q.at = incident THEN 0 ELSE incident
       /\ UNCHANGED <<site, time, leaseKnown, reopenRequest, grants, closures>>

lifecycleDue ==
    /\ lifecycleAlarm # -1 /\ lifecycleAlarm <= time
    /\ LET active == normalizeAdmissionLeases(admission) IN
       /\ admission' = active
       /\ lifecycleAlarm' = IF held(active) # {}
                            THEN Min({leaseDeadline(active.reservations[u]) : u \in held(active)})
                            ELSE -1
    /\ UNCHANGED <<site, time, audits, leaseKnown, reopenRequest, grants, incident, closures>>

AdmissionTick ==
    /\ time < MaxTime
    /\ time' = time + 1
    /\ UNCHANGED <<site, admission, audits, lifecycleAlarm, leaseKnown, reopenRequest, grants, incident,
                   closures>>

AdmissionInit ==
    /\ site \in Sites
    /\ time = 0
    /\ admission = [emptyAdmissionRecord EXCEPT !.status = "NONE"]
    /\ audits = {} /\ lifecycleAlarm = -1
    /\ leaseKnown = [u \in Uploads |-> 0]
    /\ reopenRequest = NoRequest
    /\ grants = {} /\ incident = 0 /\ closures = 0

AdmissionNext ==
    \/ \E u \in Uploads :
          \/ reserveAdmission(u) \/ resumeAdmission(u)
          \/ \E m \in Marks : markAdmission(u, m)
          \/ \E l \in 1..MaxGrants : heartbeatAdmission(u, l)
    \/ readAdmissionStatus \/ reopenAdmission \/ lifecycleDue \/ AdmissionTick

-----------------------------------------------------------------------------
(* Properties. *)

AdmissionTypeOK ==
    /\ admission.status \in {"NONE", "OPEN", "AUTO_CLOSED"}
    /\ admission.status = "AUTO_CLOSED" <=> admission.closure # NoClosure
    /\ \A u \in Uploads : admission.reservations[u].lease \in 0..leaseKnown[u]
    /\ lifecycleAlarm \in -1..(MaxTime + LeaseTTL)

\* Places whose lease has not run out: never more than the deployment allows, one per creator.
current == {u \in Uploads : time < leaseDeadline(admission.reservations[u])}

PlacesBounded ==
    /\ Cardinality(current) <= site.concurrency
    /\ \A u, v \in current : site.creatorOf[u] = site.creatorOf[v] => u = v

\* Whatever closed, reopened or crashed in between: a creator starts at most DailyAttempts uploads
\* in a UTC day, and the reservations made in a UTC month stay within the budget.
QuotasHold ==
    \A g \in grants :
        /\ Cardinality({h \in grants : /\ site.creatorOf[h.upload] = site.creatorOf[g.upload]
                                       /\ h.at \div DayTicks = g.at \div DayTicks}) <= DailyAttempts
        /\ ~site.public =>
             Cardinality({h \in grants : h.at \div MonthTicks = g.at \div MonthTicks}) <= MonthlyBudget

\* The Stream minutes of the uploads that may still be sent fit the reservation budget.
StreamReservationsFit ==
    site.stream => Cardinality(liveStreamReservations(admission)) <= StreamBudget

\* After an incident closed admission (the provider refused or failed twice), admission stays closed
\* until an operator reopens it for that incident: an older request, sent late or again, and the
\* start of a new month do not.
IncidentHolds ==
    incident # 0 => admission.status = "AUTO_CLOSED" /\ admission.closure.at = incident

\* Every lease has an alarm at its deadline or before.
AlarmCovers ==
    \A u \in held(admission) :
        lifecycleAlarm # -1 /\ lifecycleAlarm <= leaseDeadline(admission.reservations[u])

\* Places, quotas, Stream minutes and incidents hold at once, and no lease is left without alarm.
AdmissionSafe ==
    /\ AdmissionTypeOK
    /\ PlacesBounded /\ QuotasHold /\ StreamReservationsFit /\ IncidentHolds /\ AlarmCovers
=============================================================================
