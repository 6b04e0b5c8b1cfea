------------------------- MODULE MarketPublications -------------------------
(***************************************************************************)
(* Media jobs and publications of the V2 market contract (contracts/       *)
(* market-v2/src/lib.rs): how a paid job is admitted, restarted and        *)
(* published, how sales are suspended and a publication taken down, under  *)
(* the three ways the contract is deployed: plain, with the time-boxed     *)
(* public beta, and with the public upload policy of new_public_testnet.   *)
(*                                                                         *)
(* The creator, the bridge, the takedown authority and the guardian act    *)
(* independently; a call one of them prepared from an earlier state may    *)
(* arrive after any call of another.  Calls that panic or return early     *)
(* change nothing (a fee they carry goes back, see MarketTickets) and are  *)
(* stutters.                                                               *)
(***************************************************************************)
EXTENDS Integers, Sequences, FiniteSets, FiniteSetsExt, Functions

CONSTANTS
    Creator, Job, Asset, PlaybackId, Incident,
    StandardProfile, FullHdProfile,   \* profile hashes uploads may name
    DAY, JOB_TTL, BETA_UPLOAD, BETA_TOTAL, BETA_MAX_JOBS,
    DAILY_LIMIT,                      \* 2: public uploads of a creator in a day
    START_RUNWAY, EMERGENCY_RUNWAY,   \* storage the contract must keep free
    MaxGeneration, MaxNow, MaxRunway, \* bounds
    MaxKeyExpiry                      \* bound: the latest expiry of a key

ASSUME LimitAssumption ==
    /\ DAY \in Nat \ {0} /\ JOB_TTL \in Nat
    /\ BETA_UPLOAD \in Nat /\ BETA_TOTAL \in Nat /\ BETA_MAX_JOBS \in Nat
    /\ DAILY_LIMIT \in Nat
    /\ START_RUNWAY \in Nat /\ EMERGENCY_RUNWAY \in Nat
    /\ MaxGeneration \in Nat /\ MaxNow \in Nat /\ MaxRunway \in Nat
    /\ MaxKeyExpiry \in Nat

VARIABLES
    media_jobs,          \* media_jobs: NoJob or the stored record
    publications,        \* publications: NoPublication or the stored record
    asset_bindings, playback_bindings,
    publication_ids,     \* publication_ids[0 .. publication_count - 1]
    takedowns,           \* takedowns: the incident, or NoIncident
    beta,                \* PUBLIC_TESTNET_BETA_STATE_KEY: NoBeta or the record
    beta_jobs,           \* markers: NoMarker or PublicTestnetBetaJob
    beta_days,           \* the <<creator, day>> keys written
    uploaders,           \* PublicUploadCreator of each creator, or NoUploader
    public_upload,       \* deployed by new_public_testnet, with its policy?
    full_hd,             \* is the full-HD profile first in the policy?
    paused, frozen,      \* NEW_PURCHASES_PAUSED_KEY, bridge_frozen
    runway,              \* reserve_runway_bytes, in steps that matter
    now                  \* env::block_timestamp_ms

media == <<media_jobs, publications, asset_bindings, playback_bindings,
           publication_ids, takedowns>>
quota == <<beta, beta_jobs, beta_days, uploaders>>
vars  == <<media, quota, public_upload, full_hd, paused, frozen, runway, now>>
-----------------------------------------------------------------------------
(* Data. *)

Profile == {StandardProfile, FullHdProfile}

NoJob == [status |-> "none"]
MediaJob == [status : {"authorized", "published"}, creator : Creator,
             profile : Profile, generation : Nat, created_at : Nat,
             quoted : BOOLEAN, key_expires : Nat]

NoPublication == [availability |-> "none"]
Availability == {"active", "sales_suspended", "takedown"}
Publication == [availability : Availability, creator : Creator,
                profile : Profile, generation : Nat, asset : Asset,
                playback : PlaybackId, published_at : Nat]

NoIncident == "no incident"
Unbound == "unbound"
ASSUME UnboundAssumption == Unbound \notin Job

NoBeta == [started |-> FALSE]
Beta == [started : {TRUE}, upload_closes_at : Nat, ends_at : Nat,
         closed : BOOLEAN, total_job_count : Nat]

NoMarker == [deadline |-> -1]
Marker == [creator : Creator, generation : Nat, admitted_at : Nat,
           deadline : Nat]

NoUploader == [count |-> 0]
Uploader == [day : Nat, count : Nat, latest : Job]

Exists(j)    == media_jobs[j] # NoJob
Published(j) == publications[j] # NoPublication
day(t)       == t \div DAY

\* active_public_testnet_beta
beta_active == beta # NoBeta /\ ~beta.closed /\ now < beta.ends_at

\* require_public_upload_job: the deadline of a job of the public policy.
public_deadline(j) == media_jobs[j].created_at + JOB_TTL

\* require_public_testnet_beta_job
require_public_testnet_beta_job(j) ==
    /\ beta_jobs[j] # NoMarker
    /\ beta_jobs[j].creator = media_jobs[j].creator
    /\ beta_jobs[j].generation = media_jobs[j].generation
    /\ media_jobs[j].quoted

\* assert_runway
assert_runway(minimum) == runway >= minimum
-----------------------------------------------------------------------------
Init ==
    /\ media_jobs = [j \in Job |-> NoJob]
    /\ publications = [j \in Job |-> NoPublication]
    /\ asset_bindings = [a \in Asset |-> Unbound]
    /\ playback_bindings = [b \in PlaybackId |-> Unbound]
    /\ publication_ids = <<>>
    /\ takedowns = [j \in Job |-> NoIncident]
    /\ beta = NoBeta
    /\ beta_jobs = [j \in Job |-> NoMarker]
    /\ beta_days = {}
    /\ uploaders = [c \in Creator |-> NoUploader]
    /\ full_hd = FALSE
    /\ public_upload \in BOOLEAN
    /\ paused = public_upload /\ frozen = public_upload
    /\ runway = MaxRunway
    /\ now = 0
-----------------------------------------------------------------------------
(* Jobs. *)

\* Mutant: the previous upload of the creator is not looked at.
previous_ignored(c) == TRUE
previous_done(c) ==
    uploaders[c] # NoUploader =>
        LET j == uploaders[c].latest IN
        media_jobs[j].status = "published" \/ now >= public_deadline(j)

used_today(c) ==
    IF uploaders[c] # NoUploader /\ uploaders[c].day = day(now)
    THEN uploaders[c].count ELSE 0

\* admit_public_upload
admit_public_upload(r) ==
    /\ r.profile = IF full_hd THEN FullHdProfile ELSE StandardProfile
    /\ r.key_expires <= now + JOB_TTL
    /\ previous_done(r.creator)
    /\ used_today(r.creator) < DAILY_LIMIT
    /\ uploaders' = [uploaders EXCEPT ![r.creator] =
          [day |-> day(now), count |-> used_today(r.creator) + 1,
           latest |-> r.job]]

beta_has_room == beta.total_job_count < BETA_MAX_JOBS

beta_deadline == Min({now + JOB_TTL, beta.ends_at})

\* admit_public_testnet_beta_job
admit_public_testnet_beta_job(r) ==
    /\ beta_active
    /\ now < beta.upload_closes_at
    /\ beta_has_room
    /\ <<r.creator, day(now)>> \notin beta_days
    /\ beta_jobs[r.job] = NoMarker
    /\ r.key_expires <= beta_deadline
    /\ beta' = [beta EXCEPT !.total_job_count = @ + 1]
    /\ beta_jobs' = [beta_jobs EXCEPT ![r.job] =
          [creator |-> r.creator, generation |-> 1, admitted_at |-> now,
           deadline |-> beta_deadline]]
    /\ beta_days' = beta_days \cup {<<r.creator, day(now)>>}

\* The jobs a creator may pay for; the quote, where there is one, is for exactly
\* this request and still valid.
Request == [job : Job, creator : Creator, profile : Profile,
            fee_asset : {"usdc", "near"}, quoted : BOOLEAN,
            key_expires : now + 1 .. MaxKeyExpiry]

insert_job(r) ==
    media_jobs' = [media_jobs EXCEPT ![r.job] =
        [status |-> "authorized", creator |-> r.creator, profile |-> r.profile,
         generation |-> 1, created_at |-> now, quoted |-> r.quoted,
         key_expires |-> r.key_expires]]

\* ft_on_transfer and create_usdc_paid_job, for a job that is not there yet.
create_paid_job(r) ==
    /\ r.fee_asset = "usdc"
    /\ beta # NoBeta => beta_active
    /\ beta # NoBeta \/ public_upload => r.quoted
    /\ ~Exists(r.job)
    /\ ~paused
    /\ IF public_upload THEN admit_public_upload(r) ELSE UNCHANGED uploaders
    /\ IF beta # NoBeta THEN admit_public_testnet_beta_job(r)
                        ELSE UNCHANGED <<beta, beta_jobs, beta_days>>
    /\ insert_job(r)
    /\ beta # NoBeta \/ public_upload => assert_runway(EMERGENCY_RUNWAY)
    /\ UNCHANGED <<publications, asset_bindings, playback_bindings,
                   publication_ids, takedowns, full_hd, paused, frozen, runway,
                   now>>

create_paid_job_near(r) ==
    /\ r.fee_asset = "near" /\ r.quoted
    /\ ~public_upload /\ beta = NoBeta
    /\ ~Exists(r.job)
    /\ ~paused
    /\ insert_job(r)
    /\ UNCHANGED <<publications, asset_bindings, playback_bindings,
                   publication_ids, takedowns, quota, full_hd, paused, frozen,
                   runway, now>>

key_bounded(j, expires) ==
    /\ public_upload => now < public_deadline(j) /\ expires <= public_deadline(j)
    /\ beta_jobs[j] # NoMarker => expires <= beta_jobs[j].deadline

replace_upload_key(j, expires) ==
    /\ Exists(j)
    /\ media_jobs[j].status = "authorized"
    /\ expires > now
    /\ key_bounded(j, expires)
    /\ media_jobs' = [media_jobs EXCEPT ![j].key_expires = expires]
    /\ UNCHANGED <<publications, asset_bindings, playback_bindings,
                   publication_ids, takedowns, quota, full_hd, paused, frozen,
                   runway, now>>

\* Mutant: a published job may be restarted.
restartable_any(j) == Exists(j)
restartable(j) == Exists(j) /\ media_jobs[j].status # "published"

restart_paid_job(j, profile) ==
    /\ ~public_upload
    /\ restartable(j)
    /\ beta_jobs[j] = NoMarker
    /\ media_jobs[j].generation < MaxGeneration
    /\ media_jobs' = [media_jobs EXCEPT ![j].generation = @ + 1,
                                        ![j].profile = profile]
    /\ UNCHANGED <<publications, asset_bindings, playback_bindings,
                   publication_ids, takedowns, quota, full_hd, paused, frozen,
                   runway, now>>
-----------------------------------------------------------------------------
(* Publications. *)

job_for_generation(j, generation) ==
    Exists(j) /\ media_jobs[j].generation = generation

bind_identity(bindings, identity, j) == bindings[identity] \in {Unbound, j}

bound(bindings, identity, j) == [bindings EXCEPT ![identity] = j]

publishable(j) ==
    /\ public_upload => now < public_deadline(j)
    /\ beta # NoBeta => /\ beta_active
                        /\ require_public_testnet_beta_job(j)
                        /\ now <= beta_jobs[j].deadline
                        /\ assert_runway(EMERGENCY_RUNWAY)

\* Mutant: a repeated submission is not recognised.
unpublished_unchecked(j) == TRUE
unpublished(j) == ~Published(j)

\* The bridge's submission x: a job and generation, the asset and the playback
\* id.  A repeated one returns the publication there is.
finalize_publication(j, generation, profile, asset, playback) ==
    /\ ~frozen
    /\ job_for_generation(j, generation)
    /\ media_jobs[j].profile = profile
    /\ unpublished(j)
    /\ publishable(j)
    /\ bind_identity(asset_bindings, asset, j)
    /\ bind_identity(playback_bindings, playback, j)
    /\ media_jobs' = [media_jobs EXCEPT ![j].status = "published"]
    /\ publications' = [publications EXCEPT ![j] =
          [availability |-> "active", creator |-> media_jobs[j].creator,
           profile |-> profile, generation |-> generation, asset |-> asset,
           playback |-> playback, published_at |-> now]]
    /\ publication_ids' = Append(publication_ids, j)
    /\ asset_bindings' = bound(asset_bindings, asset, j)
    /\ playback_bindings' = bound(playback_bindings, playback, j)
    /\ UNCHANGED <<takedowns, quota, full_hd, paused, frozen, runway, now>>

suspendable(j) == Published(j) /\ publications[j].availability = "active"

suspend_sales(j) ==
    /\ ~frozen
    /\ suspendable(j)
    /\ beta_active => require_public_testnet_beta_job(j)
    /\ publications' = [publications EXCEPT ![j].availability = "sales_suspended"]
    /\ UNCHANGED <<media_jobs, asset_bindings, playback_bindings,
                   publication_ids, takedowns, quota, full_hd, paused, frozen,
                   runway, now>>

takedown_publication(j, incident) ==
    /\ Published(j)
    /\ publications[j].availability \in {"active", "sales_suspended"}
    /\ publications' = [publications EXCEPT ![j].availability = "takedown"]
    /\ takedowns' = [takedowns EXCEPT ![j] = incident]
    /\ UNCHANGED <<media_jobs, asset_bindings, playback_bindings,
                   publication_ids, quota, full_hd, paused, frozen, runway, now>>
-----------------------------------------------------------------------------
(* The beta, the policy and the switches. *)

start_public_testnet_beta ==
    /\ ~public_upload
    /\ paused
    /\ beta = NoBeta
    /\ assert_runway(START_RUNWAY)
    /\ beta' = [started |-> TRUE, upload_closes_at |-> now + BETA_UPLOAD,
                ends_at |-> now + BETA_TOTAL, closed |-> FALSE,
                total_job_count |-> 0]
    /\ UNCHANGED <<media, beta_jobs, beta_days, uploaders, full_hd, paused,
                   frozen, runway, now>>

close_public_testnet_beta ==
    /\ beta # NoBeta /\ ~beta.closed
    /\ beta' = [beta EXCEPT !.closed = TRUE]
    /\ paused' = TRUE
    /\ UNCHANGED <<media, beta_jobs, beta_days, uploaders, full_hd, frozen,
                   runway, now>>

set_public_upload_full_hd(enabled) ==
    /\ public_upload
    /\ frozen /\ paused
    /\ full_hd # enabled
    /\ assert_runway(EMERGENCY_RUNWAY)
    /\ full_hd' = enabled
    /\ UNCHANGED <<media, quota, paused, frozen, runway, now>>

\* MarketSwitches says when: here purchases and the bridge close and open.
SwitchPurchases ==
    /\ paused' = ~paused
    /\ UNCHANGED <<media, quota, full_hd, frozen, runway, now>>

SwitchBridge ==
    /\ frozen' = ~frozen
    /\ UNCHANGED <<media, quota, full_hd, paused, runway, now>>

\* NEAR is sent to the contract, or its storage grows.
RunwayChanges ==
    /\ runway' \in 0 .. MaxRunway
    /\ UNCHANGED <<media, quota, full_hd, paused, frozen, now>>

Tick ==
    /\ now < MaxNow
    /\ now' = now + 1
    /\ UNCHANGED <<media, quota, full_hd, paused, frozen, runway>>
-----------------------------------------------------------------------------
Jobs ==
    \/ \E r \in Request : create_paid_job(r) \/ create_paid_job_near(r)
    \/ \E j \in Job, expires \in 1 .. MaxKeyExpiry : replace_upload_key(j, expires)
    \/ \E j \in Job, p \in Profile : restart_paid_job(j, p)

Publishing ==
    \/ \E j \in Job, g \in 1 .. MaxGeneration, p \in Profile, a \in Asset,
          b \in PlaybackId : finalize_publication(j, g, p, a, b)
    \/ \E j \in Job : suspend_sales(j)
    \/ \E j \in Job, i \in Incident : takedown_publication(j, i)

Governance ==
    \/ start_public_testnet_beta
    \/ close_public_testnet_beta
    \/ \E enabled \in BOOLEAN : set_public_upload_full_hd(enabled)
    \/ SwitchPurchases
    \/ SwitchBridge
    \/ RunwayChanges
    \/ Tick

\* The policy is written once, by new_public_testnet.
Next == (Jobs \/ Publishing \/ Governance) /\ UNCHANGED public_upload

Spec == Init /\ [][Next]_vars
-----------------------------------------------------------------------------
(* Properties. *)

\* Every variable has the type of the field or storage key it models.
TypeOK ==
    /\ media_jobs \in [Job -> MediaJob \cup {NoJob}]
    /\ publications \in [Job -> Publication \cup {NoPublication}]
    /\ asset_bindings \in [Asset -> Job \cup {Unbound}]
    /\ playback_bindings \in [PlaybackId -> Job \cup {Unbound}]
    /\ publication_ids \in Seq(Job)
    /\ takedowns \in [Job -> Incident \cup {NoIncident}]
    /\ beta \in Beta \cup {NoBeta}
    /\ beta_jobs \in [Job -> Marker \cup {NoMarker}]
    /\ beta_days \subseteq Creator \X Nat
    /\ uploaders \in [Creator -> Uploader \cup {NoUploader}]
    /\ public_upload \in BOOLEAN /\ full_hd \in BOOLEAN /\ paused \in BOOLEAN /\ frozen \in BOOLEAN
    /\ runway \in Nat /\ now \in Nat

\* An asset and a playback id identify one publication: no two publications
\* share either, and the bindings lead back to the publication.
IdentitiesBound ==
    \A j \in Job : Published(j) =>
        /\ asset_bindings[publications[j].asset] = j
        /\ playback_bindings[publications[j].playback] = j

\* A publication is the last generation of its job: a submission prepared before
\* a restart never publishes, and nothing restarts a published job.
PublicationMatchesJob ==
    \A j \in Job :
        /\ Published(j) <=> media_jobs[j].status = "published"
        /\ Published(j) =>
              /\ publications[j].generation = media_jobs[j].generation
              /\ publications[j].profile = media_jobs[j].profile

\* publication_ids lists every publication exactly once, whatever is resubmitted.
IndexExact ==
    /\ Range(publication_ids) = {j \in Job : Published(j)}
    /\ Len(publication_ids) = Cardinality({j \in Job : Published(j)})

\* Under the public upload policy a creator has at most one upload under way:
\* an authorized job whose deadline has not come.
OneUploadUnderWay ==
    public_upload =>
        \A c \in Creator :
            Cardinality({j \in Job : /\ Exists(j)
                                     /\ media_jobs[j].creator = c
                                     /\ media_jobs[j].status = "authorized"
                                     /\ now < public_deadline(j)}) <= 1

\* ... and at most DAILY_LIMIT new jobs in a day.
DailyLimit ==
    public_upload =>
        \A c \in Creator, d \in 0 .. day(MaxNow) :
            Cardinality({j \in Job : /\ Exists(j)
                                     /\ media_jobs[j].creator = c
                                     /\ day(media_jobs[j].created_at) = d})
                <= DAILY_LIMIT

Marked == {j \in Job : beta_jobs[j] # NoMarker}

\* The beta admits at most BETA_MAX_JOBS jobs, at most one per creator and day,
\* and counts them exactly.
BetaQuota ==
    beta # NoBeta =>
        /\ Cardinality(Marked) = beta.total_job_count
        /\ beta.total_job_count <= BETA_MAX_JOBS
        /\ \A j, k \in Marked :
              /\ beta_jobs[j].creator = beta_jobs[k].creator
              /\ day(beta_jobs[j].admitted_at) = day(beta_jobs[k].admitted_at)
              => j = k

\* No upload key outlives the deadline of the job it was given for.
KeysExpire ==
    \A j \in Job : Exists(j) =>
        /\ public_upload => media_jobs[j].key_expires <= public_deadline(j)
        /\ beta_jobs[j] # NoMarker =>
              media_jobs[j].key_expires <= beta_jobs[j].deadline

\* The books of the publications stay in order through every resubmission,
\* restart and change of day: identities are bound once, the index lists each
\* publication once, and the daily, beta and key limits hold.
PublicationRules ==
    /\ TypeOK
    /\ IdentitiesBound /\ IndexExact
    /\ DailyLimit /\ BetaQuota /\ KeysExpire
=============================================================================
