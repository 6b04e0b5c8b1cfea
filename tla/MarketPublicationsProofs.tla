---------------------- MODULE MarketPublicationsProofs ----------------------
(***************************************************************************)
(* Proofs about MarketPublications, for any number of creators, jobs and   *)
(* assets, any limits and any bounds: the books of the publications stay   *)
(* in order (PublicationRules), a publication is the last generation of    *)
(* its job (PublicationMatchesJob) and a creator of the public policy has  *)
(* at most one upload under way (OneUploadUnderWay).                       *)
(*                                                                         *)
(* The three are conjuncts or consequences of one inductive invariant,     *)
(* PublicationInv.  What it adds: which upload of a creator may be under   *)
(* way (LatestInv), what the counter of a creator's day counts (DayInv)    *)
(* and where the markers of the beta come from (MarkInv).                  *)
(***************************************************************************)
EXTENDS MarketPublications, FiniteSetTheorems, TLAPS

PublishedJobs == {j \in Job : Published(j)}

\* The only upload of a creator that may be under way is the last one admitted.
UnderWay(j) == /\ Exists(j) /\ media_jobs[j].status = "authorized"
               /\ now < public_deadline(j)
LatestInv ==
    public_upload =>
        \A j \in Job : UnderWay(j) =>
            LET c == media_jobs[j].creator IN
            uploaders[c] # NoUploader /\ uploaders[c].latest = j

\* The counter of a creator's day counts the jobs of that day, and no job is younger.
JobsOf(c, d) == {j \in Job : /\ Exists(j)
                             /\ media_jobs[j].creator = c
                             /\ day(media_jobs[j].created_at) = d}
DayInv ==
    public_upload =>
        \A c \in Creator :
            /\ uploaders[c] = NoUploader => \A d \in Nat : JobsOf(c, d) = {}
            /\ uploaders[c] # NoUploader =>
                 /\ uploaders[c].day <= day(now)
                 /\ Cardinality(JobsOf(c, uploaders[c].day)) = uploaders[c].count
                 /\ \A d \in Nat : d > uploaders[c].day => JobsOf(c, d) = {}
            /\ \A d \in Nat : /\ IsFiniteSet(JobsOf(c, d))
                              /\ Cardinality(JobsOf(c, d)) <= DAILY_LIMIT

\* Markers exist only of jobs the beta admitted, and their days are used up.
MarkInv ==
    /\ IsFiniteSet(Marked)
    /\ beta = NoBeta => Marked = {}
    /\ \A j \in Marked : /\ Exists(j)
                         /\ <<beta_jobs[j].creator, day(beta_jobs[j].admitted_at)>> \in beta_days

PublicationInv ==
    /\ TypeOK
    /\ IdentitiesBound /\ PublicationMatchesJob
    /\ IsFiniteSet(PublishedJobs) /\ IndexExact
    /\ LatestInv /\ DayInv
    /\ MarkInv /\ BetaQuota /\ KeysExpire
-----------------------------------------------------------------------------
(* Days. *)

\* Days are numbers.
LEMMA DayType == ASSUME NEW t \in Nat PROVE day(t) \in Nat
  BY LimitAssumption, SMT DEF day

\* A later time is not on an earlier day.
LEMMA DayMonotone ==
    ASSUME NEW s \in Nat, NEW t \in Nat, s <= t PROVE day(s) <= day(t)
  BY LimitAssumption, SMT DEF day
-----------------------------------------------------------------------------
(* Records. *)

\* A job that exists has the fields of a stored media job.
LEMMA JobFields ==
    ASSUME TypeOK, NEW j \in Job, Exists(j)
    PROVE  /\ media_jobs[j] \in MediaJob
           /\ media_jobs[j].creator \in Creator
           /\ media_jobs[j].status \in {"authorized", "published"}
           /\ media_jobs[j].generation \in Nat
           /\ media_jobs[j].created_at \in Nat
           /\ media_jobs[j].key_expires \in Nat
  BY DEF TypeOK, Exists, MediaJob

\* A published job has the fields of a stored publication.
LEMMA PublicationFields ==
    ASSUME TypeOK, NEW j \in Job, Published(j)
    PROVE  /\ publications[j] \in Publication
           /\ publications[j].asset \in Asset
           /\ publications[j].playback \in PlaybackId
  BY DEF TypeOK, Published, Publication

\* A marked job has the fields of a stored beta job.
LEMMA MarkerFields ==
    ASSUME TypeOK, NEW j \in Marked
    PROVE  /\ j \in Job
           /\ beta_jobs[j] \in Marker
           /\ beta_jobs[j].creator \in Creator
           /\ beta_jobs[j].admitted_at \in Nat
           /\ beta_jobs[j].deadline \in Nat
  BY DEF TypeOK, Marked, Marker

\* A creator who uploaded has the fields of a stored public uploader.
LEMMA UploaderFields ==
    ASSUME TypeOK, NEW c \in Creator, uploaders[c] # NoUploader
    PROVE  /\ uploaders[c] \in Uploader
           /\ uploaders[c].day \in Nat
           /\ uploaders[c].count \in Nat
           /\ uploaders[c].latest \in Job
  BY DEF TypeOK, Uploader

\* The records that stand for "nothing stored" are not stored records.
LEMMA Absent ==
    /\ NoJob \notin MediaJob /\ NoJob.status # "authorized"
    /\ NoJob.status # "published"
    /\ NoPublication \notin Publication
    /\ NoMarker \notin Marker
    /\ NoUploader \notin Uploader
    /\ NoBeta \notin Beta
  <1>1. /\ NoJob \notin MediaJob /\ NoJob.status # "authorized"
        /\ NoJob.status # "published"
    BY DEF NoJob, MediaJob
  <1>2. NoPublication \notin Publication
    BY DEF NoPublication, Publication, Availability
  <1>3. NoMarker \notin Marker
    BY DEF NoMarker, Marker
  <1>4. NoUploader \notin Uploader
    <2>1. SUFFICES ASSUME NoUploader \in Uploader PROVE FALSE
      OBVIOUS
    <2>2. DOMAIN NoUploader = {"count"}
      BY DEF NoUploader
    <2>3. DOMAIN NoUploader = {"day", "count", "latest"}
      BY <2>1 DEF Uploader
    <2>. QED BY <2>2, <2>3
  <1>5. NoBeta \notin Beta
    BY DEF NoBeta, Beta
  <1>. QED BY <1>1, <1>2, <1>3, <1>4, <1>5
-----------------------------------------------------------------------------
(* The initial state. *)

\* Nothing is stored yet, so the invariant holds of nothing.
LEMMA InitHolds == ASSUME Init PROVE PublicationInv
  <1>0. /\ \A j \in Job : ~Exists(j) /\ ~Published(j)
        /\ Marked = {} /\ PublishedJobs = {}
    BY DEF Init, Exists, Published, Marked, PublishedJobs
  <1>1. TypeOK
    <2>1. /\ media_jobs \in [Job -> MediaJob \cup {NoJob}]
          /\ publications \in [Job -> Publication \cup {NoPublication}]
          /\ asset_bindings \in [Asset -> Job \cup {Unbound}]
          /\ playback_bindings \in [PlaybackId -> Job \cup {Unbound}]
          /\ takedowns \in [Job -> Incident \cup {NoIncident}]
          /\ beta_jobs \in [Job -> Marker \cup {NoMarker}]
          /\ uploaders \in [Creator -> Uploader \cup {NoUploader}]
      BY DEF Init
    <2>2. /\ publication_ids \in Seq(Job) /\ beta \in Beta \cup {NoBeta}
          /\ beta_days \subseteq Creator \X Nat
      BY DEF Init
    <2>3. /\ public_upload \in BOOLEAN /\ full_hd \in BOOLEAN
          /\ paused \in BOOLEAN /\ frozen \in BOOLEAN
      BY Zenon DEF Init
    <2>4. runway \in Nat /\ now \in Nat
      BY LimitAssumption DEF Init
    <2>. QED BY <2>1, <2>2, <2>3, <2>4 DEF TypeOK
  <1>2. IdentitiesBound /\ KeysExpire /\ LatestInv
    BY <1>0 DEF IdentitiesBound, KeysExpire, LatestInv, UnderWay
  <1>3. PublicationMatchesJob
    BY <1>0, Absent DEF PublicationMatchesJob, Init
  <1>4. IsFiniteSet(PublishedJobs) /\ IndexExact
    <2>1. {j \in Job : Published(j)} = {}
      BY <1>0
    <2>2. publication_ids = <<>> /\ Range(publication_ids) = {} /\ Len(publication_ids) = 0
      BY DEF Init, Range
    <2>. QED BY <1>0, <2>1, <2>2, FS_EmptySet DEF IndexExact
  <1>5. DayInv
    <2>1. \A c \in Creator, d \in Nat : JobsOf(c, d) = {}
      BY <1>0 DEF JobsOf
    <2>2. \A c \in Creator : uploaders[c] = NoUploader
      BY DEF Init
    <2>. QED BY <2>1, <2>2, FS_EmptySet, LimitAssumption DEF DayInv
  <1>6. MarkInv /\ BetaQuota
    BY <1>0, FS_EmptySet DEF MarkInv, BetaQuota, Init
  <1>. QED
    BY <1>1, <1>2, <1>3, <1>4, <1>5, <1>6 DEF PublicationInv
-----------------------------------------------------------------------------
(* What a step keeps when it admits no job. *)

\* No job comes or goes, changes hands or age, or is authorized again.
SameUploads ==
    /\ \A j \in Job :
          /\ Exists(j)' <=> Exists(j)
          /\ media_jobs'[j].creator = media_jobs[j].creator
          /\ media_jobs'[j].created_at = media_jobs[j].created_at
          /\ media_jobs'[j].status = "authorized" => media_jobs[j].status = "authorized"
    /\ UNCHANGED <<uploaders, public_upload>>
    /\ now \in Nat /\ now' \in Nat /\ now <= now'

\* The latest upload of a creator stays the only one that may be under way.
LEMMA LatestKept ==
    ASSUME TypeOK, LatestInv, SameUploads PROVE LatestInv'
  <1>. SUFFICES ASSUME public_upload, NEW j \in Job, UnderWay(j)'
                PROVE  LET c == media_jobs'[j].creator IN
                       uploaders'[c] # NoUploader /\ uploaders'[c].latest = j
    BY DEF LatestInv, SameUploads
  <1>1. Exists(j) /\ media_jobs[j].status = "authorized"
    BY DEF UnderWay, SameUploads
  <1>2. now < public_deadline(j)
    <2>1. now' < media_jobs'[j].created_at + JOB_TTL
      BY DEF UnderWay, public_deadline
    <2>2. media_jobs[j].created_at \in Nat
      BY <1>1, JobFields
    <2>. QED BY <2>1, <2>2, LimitAssumption DEF SameUploads, public_deadline
  <1>. QED BY <1>1, <1>2 DEF LatestInv, UnderWay, SameUploads

\* The jobs of a day are the same jobs, and the day is no later one.
LEMMA DayKept ==
    ASSUME TypeOK, DayInv, SameUploads PROVE DayInv'
  <1>1. \A c, d : JobsOf(c, d)' = JobsOf(c, d)
    BY DEF JobsOf, SameUploads, day
  <1>2. day(now) <= day(now') /\ day(now) \in Nat /\ day(now') \in Nat
    BY DayMonotone, DayType DEF SameUploads
  <1>3. ASSUME public_upload, NEW c \in Creator, uploaders[c] # NoUploader
        PROVE  uploaders[c].day <= day(now')
    <2>1. uploaders[c].day <= day(now)
      BY <1>3 DEF DayInv
    <2>2. uploaders[c].day \in Nat
      BY <1>3, UploaderFields
    <2>. QED BY <2>1, <2>2, <1>2
  <1>4. day(now)' = day(now')
    BY DEF day
  <1>. QED BY <1>1, <1>3, <1>4 DEF DayInv, SameUploads

\* The index is untouched as long as no publication is added.
LEMMA IndexKept ==
    ASSUME IsFiniteSet(PublishedJobs), IndexExact, UNCHANGED publication_ids,
           \A j \in Job : Published(j)' <=> Published(j)
    PROVE  IsFiniteSet(PublishedJobs)' /\ IndexExact'
  <1>1. {j \in Job : Published(j)'} = {j \in Job : Published(j)}
    OBVIOUS
  <1>. QED BY <1>1 DEF IndexExact, PublishedJobs, Published

\* The markers are untouched: so are their days and their number.
LEMMA MarksKept ==
    ASSUME MarkInv, BetaQuota, UNCHANGED <<beta, beta_jobs, beta_days>>,
           \A j \in Job : Exists(j) => Exists(j)'
    PROVE  MarkInv' /\ BetaQuota'
  <1>1. Marked' = Marked /\ Marked \subseteq Job
    BY DEF Marked
  <1>2. MarkInv'
    BY <1>1 DEF MarkInv, day
  <1>3. BetaQuota'
    BY <1>1 DEF BetaQuota, day
  <1>. QED BY <1>2, <1>3

\* Steps that leave the jobs, the publications and the quotas as they are.
LEMMA StillStep ==
    ASSUME PublicationInv, UNCHANGED <<media, quota, public_upload>>,
           now' \in Nat, now <= now', runway' \in Nat,
           full_hd' \in BOOLEAN, paused' \in BOOLEAN, frozen' \in BOOLEAN
    PROVE  PublicationInv'
  <1>. USE DEF media, quota
  <1>1. TypeOK'
    BY DEF TypeOK, PublicationInv
  <1>2. SameUploads
    BY DEF SameUploads, Exists, PublicationInv, TypeOK
  <1>3. LatestInv' /\ DayInv'
    BY <1>2, LatestKept, DayKept DEF PublicationInv
  <1>4. IsFiniteSet(PublishedJobs)' /\ IndexExact'
    BY IndexKept DEF PublicationInv, Published
  <1>5. MarkInv' /\ BetaQuota'
    BY MarksKept DEF PublicationInv, Exists
  <1>6. IdentitiesBound' /\ PublicationMatchesJob'
    BY DEF PublicationInv, IdentitiesBound, PublicationMatchesJob, Published
  <1>7. KeysExpire'
    BY DEF PublicationInv, KeysExpire, Exists, public_deadline
  <1>. QED
    BY <1>1, <1>3, <1>4, <1>5, <1>6, <1>7 DEF PublicationInv
-----------------------------------------------------------------------------
(* Governance. *)

\* Starting the beta: there is no marker yet, so it has counted exactly none.
LEMMA StartStep ==
    ASSUME PublicationInv, start_public_testnet_beta, UNCHANGED public_upload
    PROVE  PublicationInv'
  <1>. USE DEF media, start_public_testnet_beta
  <1>1. TypeOK /\ now \in Nat
    BY DEF PublicationInv, TypeOK
  <1>2. beta' \in Beta
    BY <1>1, LimitAssumption DEF Beta
  <1>3. TypeOK'
    BY <1>1, <1>2 DEF TypeOK
  <1>4. SameUploads
    BY <1>1 DEF SameUploads, Exists
  <1>5. LatestInv' /\ DayInv'
    BY <1>4, LatestKept, DayKept DEF PublicationInv
  <1>6. IsFiniteSet(PublishedJobs)' /\ IndexExact'
    BY IndexKept DEF PublicationInv, Published
  <1>7. Marked' = {} /\ Marked = {}
    BY DEF PublicationInv, MarkInv, Marked
  <1>8. MarkInv'
    BY <1>7, FS_EmptySet DEF MarkInv
  <1>9. BetaQuota'
    <2>1. Cardinality(Marked') = 0 /\ beta'.total_job_count = 0
      BY <1>7, FS_EmptySet
    <2>. QED BY <1>7, <2>1, LimitAssumption DEF BetaQuota
  <1>10. IdentitiesBound' /\ PublicationMatchesJob' /\ KeysExpire'
    BY DEF PublicationInv, IdentitiesBound, PublicationMatchesJob, Published,
           KeysExpire, Exists, public_deadline
  <1>. QED
    BY <1>3, <1>5, <1>6, <1>8, <1>9, <1>10 DEF PublicationInv

\* Closing the beta keeps its markers and its count.
LEMMA CloseStep ==
    ASSUME PublicationInv, close_public_testnet_beta, UNCHANGED public_upload
    PROVE  PublicationInv'
  <1>. USE DEF media, close_public_testnet_beta
  <1>1. TypeOK /\ now \in Nat /\ beta \in Beta
    BY DEF PublicationInv, TypeOK
  <1>2. beta' \in Beta /\ beta'.total_job_count = beta.total_job_count
    BY <1>1 DEF Beta
  <1>3. TypeOK'
    BY <1>1, <1>2 DEF TypeOK
  <1>4. SameUploads
    BY <1>1 DEF SameUploads, Exists
  <1>5. LatestInv' /\ DayInv'
    BY <1>4, LatestKept, DayKept DEF PublicationInv
  <1>6. IsFiniteSet(PublishedJobs)' /\ IndexExact'
    BY IndexKept DEF PublicationInv, Published
  <1>7. Marked' = Marked /\ beta' # NoBeta
    BY <1>2, Absent DEF Marked
  <1>8. MarkInv'
    BY <1>7 DEF MarkInv, PublicationInv, Exists, day
  <1>9. BetaQuota'
    BY <1>2, <1>7 DEF BetaQuota, PublicationInv, day
  <1>10. IdentitiesBound' /\ PublicationMatchesJob' /\ KeysExpire'
    BY DEF PublicationInv, IdentitiesBound, PublicationMatchesJob, Published,
           KeysExpire, Exists, public_deadline
  <1>. QED
    BY <1>3, <1>5, <1>6, <1>8, <1>9, <1>10 DEF PublicationInv

\* The other steps of governance do not touch the books.
LEMMA GovernanceStep ==
    ASSUME PublicationInv, Governance, UNCHANGED public_upload
    PROVE  PublicationInv'
  <1>1. /\ full_hd \in BOOLEAN /\ paused \in BOOLEAN /\ frozen \in BOOLEAN
        /\ runway \in Nat /\ now \in Nat
    BY DEF PublicationInv, TypeOK
  <1>2. CASE start_public_testnet_beta
    BY <1>2, StartStep
  <1>3. CASE close_public_testnet_beta
    BY <1>3, CloseStep
  <1>4. CASE \E enabled \in BOOLEAN : set_public_upload_full_hd(enabled)
    BY <1>1, <1>4, StillStep DEF set_public_upload_full_hd
  <1>5. CASE SwitchPurchases
    <2>1. paused' \in BOOLEAN
      BY <1>5, <1>1, Zenon DEF SwitchPurchases
    <2>. QED BY <1>1, <1>5, <2>1, StillStep DEF SwitchPurchases
  <1>6. CASE SwitchBridge
    <2>1. frozen' \in BOOLEAN
      BY <1>6, <1>1, Zenon DEF SwitchBridge
    <2>. QED BY <1>1, <1>6, <2>1, StillStep DEF SwitchBridge
  <1>7. CASE RunwayChanges
    <2>1. runway' \in Nat
      BY <1>7, LimitAssumption DEF RunwayChanges
    <2>. QED BY <1>1, <1>7, <2>1, StillStep DEF RunwayChanges
  <1>8. CASE Tick
    BY <1>1, <1>8, StillStep DEF Tick
  <1>. QED
    BY <1>2, <1>3, <1>4, <1>5, <1>6, <1>7, <1>8 DEF Governance
-----------------------------------------------------------------------------
(* Jobs that are there already. *)

\* A new upload key keeps to the deadline of its job.
LEMMA ReplaceKeyStep ==
    ASSUME PublicationInv, UNCHANGED public_upload,
           NEW j \in Job, NEW expires \in 1 .. MaxKeyExpiry,
           replace_upload_key(j, expires)
    PROVE  PublicationInv'
  <1>. USE DEF quota, replace_upload_key
  <1>0. expires \in Nat
    BY LimitAssumption
  <1>1. TypeOK /\ now \in Nat /\ expires \in Nat /\ Exists(j)
    BY <1>0 DEF PublicationInv, TypeOK
  <1>2. media_jobs[j] \in MediaJob
    BY <1>1, JobFields
  <1>3. /\ media_jobs'[j] = [media_jobs[j] EXCEPT !.key_expires = expires]
        /\ media_jobs'[j] \in MediaJob
        /\ \A k \in Job : k # j => media_jobs'[k] = media_jobs[k]
    BY <1>1, <1>2 DEF TypeOK, MediaJob
  <1>4. \A k \in Job : /\ media_jobs'[k].creator = media_jobs[k].creator
                       /\ media_jobs'[k].created_at = media_jobs[k].created_at
                       /\ media_jobs'[k].status = media_jobs[k].status
                       /\ media_jobs'[k].generation = media_jobs[k].generation
                       /\ media_jobs'[k].profile = media_jobs[k].profile
                       /\ Exists(k)' <=> Exists(k)
    BY <1>1, <1>2, <1>3, Absent DEF MediaJob, Exists
  <1>5. TypeOK'
    BY <1>1, <1>3 DEF TypeOK
  <1>6. LatestInv' /\ DayInv'
    <2>1. SameUploads
      BY <1>1, <1>4 DEF SameUploads
    <2>. QED BY <2>1, LatestKept, DayKept DEF PublicationInv
  <1>7. IsFiniteSet(PublishedJobs)' /\ IndexExact'
    BY IndexKept DEF PublicationInv, Published
  <1>8. MarkInv' /\ BetaQuota'
    BY <1>4, MarksKept DEF PublicationInv
  <1>9. IdentitiesBound' /\ PublicationMatchesJob'
    BY <1>4 DEF PublicationInv, IdentitiesBound, PublicationMatchesJob, Published
  <1>10. KeysExpire'
    <2>. SUFFICES ASSUME NEW k \in Job, Exists(k)'
                  PROVE  /\ public_upload => media_jobs'[k].key_expires <= public_deadline(k)'
                         /\ beta_jobs[k] # NoMarker =>
                                media_jobs'[k].key_expires <= beta_jobs[k].deadline
      BY DEF KeysExpire
    <2>1. public_deadline(k)' = public_deadline(k)
      BY <1>4 DEF public_deadline
    <2>2. CASE k = j
      BY <2>1, <2>2, <1>2, <1>3 DEF key_bounded, MediaJob
    <2>3. CASE k # j
      BY <2>1, <2>3, <1>3, <1>4 DEF KeysExpire, PublicationInv
    <2>. QED BY <2>2, <2>3
  <1>. QED
    BY <1>5, <1>6, <1>7, <1>8, <1>9, <1>10 DEF PublicationInv

\* A restart makes a new generation of a job that is not published, so no
\* publication falls behind its job.
LEMMA RestartStep ==
    ASSUME PublicationInv, UNCHANGED public_upload,
           NEW j \in Job, NEW p \in Profile, restart_paid_job(j, p)
    PROVE  PublicationInv'
  <1>. USE DEF quota, restart_paid_job, restartable
  <1>1. TypeOK /\ now \in Nat /\ Exists(j) /\ ~public_upload
    BY DEF PublicationInv, TypeOK
  <1>2. media_jobs[j] \in MediaJob /\ media_jobs[j].generation \in Nat
    BY <1>1, JobFields
  <1>3. /\ media_jobs'[j] \in MediaJob
        /\ media_jobs'[j].creator = media_jobs[j].creator
        /\ media_jobs'[j].created_at = media_jobs[j].created_at
        /\ media_jobs'[j].status = media_jobs[j].status
        /\ media_jobs'[j].key_expires = media_jobs[j].key_expires
        /\ \A k \in Job : k # j => media_jobs'[k] = media_jobs[k]
    <2>. DEFINE once == [media_jobs EXCEPT ![j].generation = @ + 1]
    <2>0. media_jobs \in [Job -> MediaJob \cup {NoJob}]
      BY <1>1 DEF TypeOK
    <2>1. /\ once[j] = [media_jobs[j] EXCEPT !.generation = media_jobs[j].generation + 1]
          /\ DOMAIN once = Job
          /\ \A k \in Job : k # j => once[k] = media_jobs[k]
      BY <2>0
    <2>2. media_jobs' = [once EXCEPT ![j].profile = p]
      BY <2>0
    <2>3. /\ media_jobs'[j] = [once[j] EXCEPT !.profile = p]
          /\ \A k \in Job : k # j => media_jobs'[k] = once[k]
      BY <2>1, <2>2
    <2>5. \A k \in Job : k # j => media_jobs'[k] = media_jobs[k]
      BY <2>1, <2>3
    <2>6. media_jobs[j] \in MediaJob
      BY <1>2
    <2>7. /\ once[j] = [media_jobs[j] EXCEPT !.generation = media_jobs[j].generation + 1]
          /\ media_jobs'[j] = [once[j] EXCEPT !.profile = p]
      BY <2>1, <2>3
    <2>. HIDE DEF once, restart_paid_job
    <2>8. /\ once[j] \in MediaJob
          /\ once[j].creator = media_jobs[j].creator
          /\ once[j].created_at = media_jobs[j].created_at
          /\ once[j].status = media_jobs[j].status
          /\ once[j].key_expires = media_jobs[j].key_expires
      BY <2>6, <2>7 DEF MediaJob
    <2>9. /\ media_jobs'[j] \in MediaJob
          /\ media_jobs'[j].creator = once[j].creator
          /\ media_jobs'[j].created_at = once[j].created_at
          /\ media_jobs'[j].status = once[j].status
          /\ media_jobs'[j].key_expires = once[j].key_expires
      BY <2>7, <2>8 DEF MediaJob
    <2>. QED BY <2>5, <2>8, <2>9
  <1>4. \A k \in Job : /\ media_jobs'[k].creator = media_jobs[k].creator
                       /\ media_jobs'[k].created_at = media_jobs[k].created_at
                       /\ media_jobs'[k].status = media_jobs[k].status
                       /\ media_jobs'[k].key_expires = media_jobs[k].key_expires
                       /\ Exists(k)' <=> Exists(k)
    <2>1. Exists(j)'
      BY <1>3, Absent DEF Exists
    <2>. QED BY <1>1, <1>3, <2>1 DEF Exists
  <1>5. TypeOK'
    BY <1>1, <1>3 DEF TypeOK
  <1>6. LatestInv' /\ DayInv'
    BY <1>1 DEF LatestInv, DayInv
  <1>7. IsFiniteSet(PublishedJobs)' /\ IndexExact'
    BY IndexKept DEF PublicationInv, Published
  <1>8. MarkInv' /\ BetaQuota'
    BY <1>4, MarksKept DEF PublicationInv
  <1>9. IdentitiesBound'
    BY DEF PublicationInv, IdentitiesBound, Published
  <1>10. PublicationMatchesJob'
    <2>1. ~Published(j)
      BY DEF PublicationInv, PublicationMatchesJob
    <2>2. ~Published(j)' /\ media_jobs'[j].status # "published"
      BY <2>1, <1>3 DEF Published
    <2>3. \A k \in Job : k # j => (Published(k)' <=> Published(k))
      BY DEF Published
    <2>. QED BY <2>2, <2>3, <1>3 DEF PublicationInv, PublicationMatchesJob
  <1>11. KeysExpire'
    BY <1>1, <1>4 DEF KeysExpire, PublicationInv
  <1>. QED
    BY <1>5, <1>6, <1>7, <1>8, <1>9, <1>10, <1>11 DEF PublicationInv

-----------------------------------------------------------------------------
(* Publications. *)

\* A publication is of a job's current generation, under identities nobody
\* else has, and enters the index once.
LEMMA FinalizeStep ==
    ASSUME PublicationInv, UNCHANGED public_upload,
           NEW j \in Job, NEW g \in 1 .. MaxGeneration, NEW p \in Profile,
           NEW a \in Asset, NEW b \in PlaybackId,
           finalize_publication(j, g, p, a, b)
    PROVE  PublicationInv'
  <1>. USE DEF quota, finalize_publication, job_for_generation
  <1>0. g \in Nat
    BY LimitAssumption
  <1>1. TypeOK /\ now \in Nat /\ g \in Nat /\ Exists(j) /\ ~Published(j)
    BY <1>0 DEF PublicationInv, TypeOK, unpublished
  <1>2. /\ media_jobs[j] \in MediaJob /\ media_jobs[j].creator \in Creator
        /\ media_jobs[j].generation = g /\ media_jobs[j].profile = p
    BY <1>1, JobFields
  <1>3. /\ media_jobs'[j] = [media_jobs[j] EXCEPT !.status = "published"]
        /\ media_jobs'[j] \in MediaJob
        /\ \A k \in Job : k # j => media_jobs'[k] = media_jobs[k]
    BY <1>1, <1>2 DEF TypeOK, MediaJob
  <1>4. \A k \in Job : /\ media_jobs'[k].creator = media_jobs[k].creator
                       /\ media_jobs'[k].created_at = media_jobs[k].created_at
                       /\ media_jobs'[k].generation = media_jobs[k].generation
                       /\ media_jobs'[k].profile = media_jobs[k].profile
                       /\ media_jobs'[k].key_expires = media_jobs[k].key_expires
                       /\ Exists(k)' <=> Exists(k)
    BY <1>1, <1>2, <1>3, Absent DEF MediaJob, Exists
  <1>5. media_jobs'[j].status = "published"
    BY <1>2, <1>3 DEF MediaJob
  <1>6. /\ publications'[j] \in Publication
        /\ publications'[j].generation = g /\ publications'[j].profile = p
        /\ publications'[j].asset = a /\ publications'[j].playback = b
        /\ \A k \in Job : k # j => publications'[k] = publications[k]
    BY <1>1, <1>2 DEF TypeOK, Publication, Availability
  <1>7. /\ Published(j)'
        /\ \A k \in Job : k # j => (Published(k)' <=> Published(k))
    BY <1>6, Absent DEF Published
  <1>8. /\ asset_bindings'[a] = j /\ playback_bindings'[b] = j
        /\ \A x \in Asset : x # a => asset_bindings'[x] = asset_bindings[x]
        /\ \A x \in PlaybackId : x # b => playback_bindings'[x] = playback_bindings[x]
    BY <1>1 DEF TypeOK, bound
  <1>9. TypeOK'
    <2>1. media_jobs' \in [Job -> MediaJob \cup {NoJob}]
      BY <1>1, <1>3 DEF TypeOK
    <2>2. publications' \in [Job -> Publication \cup {NoPublication}]
      BY <1>1, <1>6 DEF TypeOK
    <2>3. publication_ids' \in Seq(Job)
      BY <1>1 DEF TypeOK
    <2>4. /\ asset_bindings' \in [Asset -> Job \cup {Unbound}]
          /\ playback_bindings' \in [PlaybackId -> Job \cup {Unbound}]
      BY <1>1 DEF TypeOK, bound
    <2>. QED BY <1>1, <2>1, <2>2, <2>3, <2>4 DEF TypeOK
  <1>10. LatestInv' /\ DayInv'
    <2>1. SameUploads
      BY <1>1, <1>3, <1>4, <1>5 DEF SameUploads
    <2>. QED BY <2>1, LatestKept, DayKept DEF PublicationInv
  <1>11. IsFiniteSet(PublishedJobs)' /\ IndexExact'
    <2>1. {k \in Job : Published(k)'} = {k \in Job : Published(k)} \cup {j}
      BY <1>7
    <2>2. j \notin {k \in Job : Published(k)}
      BY <1>1
    <2>3. IsFiniteSet({k \in Job : Published(k)})
      BY DEF PublicationInv, PublishedJobs
    <2>4. /\ IsFiniteSet({k \in Job : Published(k)'})
          /\ Cardinality({k \in Job : Published(k)'})
                = Cardinality({k \in Job : Published(k)}) + 1
      BY <2>1, <2>2, <2>3, FS_AddElement, Zenon
    <2>5. /\ publication_ids' = Append(publication_ids, j)
          /\ publication_ids \in Seq(Job)
      BY <1>1 DEF TypeOK
    <2>6. Len(publication_ids') = Len(publication_ids) + 1
      BY <2>5
    <2>7. Range(publication_ids') = Range(publication_ids) \cup {j}
      BY <2>5 DEF Range
    <2>. QED
      BY <2>1, <2>4, <2>6, <2>7 DEF PublicationInv, IndexExact, PublishedJobs
  <1>12. MarkInv' /\ BetaQuota'
    BY <1>4, MarksKept DEF PublicationInv
  <1>13. IdentitiesBound'
    <2>. SUFFICES ASSUME NEW k \in Job, Published(k)'
                  PROVE  /\ asset_bindings'[publications'[k].asset] = k
                         /\ playback_bindings'[publications'[k].playback] = k
      BY DEF IdentitiesBound
    <2>1. CASE k = j
      BY <2>1, <1>6, <1>8
    <2>2. CASE k # j
      <3>1. /\ asset_bindings[publications[k].asset] = k
            /\ playback_bindings[publications[k].playback] = k
            /\ publications'[k] = publications[k]
            /\ publications[k].asset \in Asset
            /\ publications[k].playback \in PlaybackId
        BY <2>2, <1>1, <1>6, <1>7, PublicationFields DEF PublicationInv, IdentitiesBound
      <3>2. publications[k].asset # a /\ publications[k].playback # b
        BY <3>1, <2>2, UnboundAssumption DEF bind_identity
      <3>. QED BY <3>1, <3>2, <1>8
    <2>. QED BY <2>1, <2>2
  <1>14. PublicationMatchesJob'
    <2>. SUFFICES ASSUME NEW k \in Job
                  PROVE  /\ Published(k)' <=> media_jobs'[k].status = "published"
                         /\ Published(k)' =>
                               /\ publications'[k].generation = media_jobs'[k].generation
                               /\ publications'[k].profile = media_jobs'[k].profile
      BY DEF PublicationMatchesJob
    <2>1. CASE k = j
      BY <2>1, <1>2, <1>4, <1>5, <1>6, <1>7
    <2>2. CASE k # j
      BY <2>2, <1>3, <1>6, <1>7 DEF PublicationInv, PublicationMatchesJob
    <2>. QED BY <2>1, <2>2
  <1>15. KeysExpire'
    BY <1>4 DEF KeysExpire, PublicationInv, public_deadline
  <1>. QED
    BY <1>9, <1>10, <1>11, <1>12, <1>13, <1>14, <1>15 DEF PublicationInv

\* Changing only what a publication is available for.
LEMMA AvailabilityStep ==
    ASSUME PublicationInv, UNCHANGED <<public_upload, quota, media_jobs,
               asset_bindings, playback_bindings, publication_ids, full_hd,
               paused, frozen, runway, now>>,
           NEW j \in Job, Published(j), NEW v \in Availability,
           publications' = [publications EXCEPT ![j].availability = v],
           takedowns' \in [Job -> Incident \cup {NoIncident}]
    PROVE  PublicationInv'
  <1>. USE DEF quota
  <1>1. TypeOK /\ now \in Nat
    BY DEF PublicationInv, TypeOK
  <1>2. publications[j] \in Publication
    BY <1>1, PublicationFields
  <1>3. /\ publications'[j] = [publications[j] EXCEPT !.availability = v]
        /\ \A k \in Job : k # j => publications'[k] = publications[k]
    BY <1>1 DEF TypeOK
  <1>4. /\ publications'[j] \in Publication
        /\ publications'[j].generation = publications[j].generation
        /\ publications'[j].profile = publications[j].profile
        /\ publications'[j].asset = publications[j].asset
        /\ publications'[j].playback = publications[j].playback
    BY <1>2, <1>3 DEF Publication
  <1>5. \A k \in Job : Published(k)' <=> Published(k)
    BY <1>3, <1>4, Absent DEF Published
  <1>6. TypeOK'
    <2>1. publications' \in [Job -> Publication \cup {NoPublication}]
      BY <1>1, <1>4 DEF TypeOK
    <2>. QED BY <1>1, <2>1 DEF TypeOK
  <1>7. LatestInv' /\ DayInv'
    <2>1. SameUploads
      BY <1>1 DEF SameUploads, Exists
    <2>. QED BY <2>1, LatestKept, DayKept DEF PublicationInv
  <1>8. IsFiniteSet(PublishedJobs)' /\ IndexExact'
    BY <1>5, IndexKept DEF PublicationInv
  <1>9. MarkInv' /\ BetaQuota'
    BY MarksKept DEF PublicationInv, Exists
  <1>10. IdentitiesBound' /\ PublicationMatchesJob'
    BY <1>3, <1>4, <1>5 DEF PublicationInv, IdentitiesBound, PublicationMatchesJob
  <1>11. KeysExpire'
    BY DEF KeysExpire, PublicationInv, public_deadline, Exists
  <1>. QED
    BY <1>6, <1>7, <1>8, <1>9, <1>10, <1>11 DEF PublicationInv

\* Suspending sales changes nothing else of a publication ...
LEMMA SuspendStep ==
    ASSUME PublicationInv, UNCHANGED public_upload,
           NEW j \in Job, suspend_sales(j)
    PROVE  PublicationInv'
  <1>1. takedowns' \in [Job -> Incident \cup {NoIncident}]
    BY DEF PublicationInv, TypeOK, suspend_sales
  <1>. QED
    BY <1>1, AvailabilityStep DEF suspend_sales, suspendable, Availability

\* ... and a takedown, which also notes its incident.
LEMMA TakedownStep ==
    ASSUME PublicationInv, UNCHANGED public_upload,
           NEW j \in Job, NEW i \in Incident, takedown_publication(j, i)
    PROVE  PublicationInv'
  <1>1. takedowns' \in [Job -> Incident \cup {NoIncident}]
    BY DEF PublicationInv, TypeOK, takedown_publication
  <1>. QED
    BY <1>1, AvailabilityStep DEF takedown_publication, Availability
-----------------------------------------------------------------------------
(* New jobs. *)

\* The smaller of two times is one of them.
LEMMA MinType ==
    ASSUME NEW s \in Nat, NEW t \in Nat PROVE Min({s, t}) \in Nat
  <1>1. \E x \in {s, t} : \A y \in {s, t} : x <= y
    <2>1. CASE s <= t
      BY <2>1
    <2>2. CASE ~(s <= t)
      BY <2>2
    <2>. QED BY <2>1, <2>2
  <1>2. Min({s, t}) \in {s, t}
    BY <1>1 DEF Min
  <1>. QED BY <1>2

\* What a call to pay for a job may ask.
LEMMA RequestFields ==
    ASSUME now \in Nat, NEW r \in Request
    PROVE  /\ r.job \in Job /\ r.creator \in Creator /\ r.profile \in Profile
           /\ r.quoted \in BOOLEAN /\ r.key_expires \in Nat
  <1>1. r.key_expires \in now + 1 .. MaxKeyExpiry
    BY DEF Request
  <1>2. r.key_expires \in Nat
    BY <1>1, LimitAssumption
  <1>. QED BY <1>2 DEF Request

\* The steps that store a new job, whoever pays for it.
NewJob(r) ==
    /\ ~Exists(r.job)
    /\ IF public_upload THEN admit_public_upload(r) ELSE UNCHANGED uploaders
    /\ IF beta # NoBeta THEN admit_public_testnet_beta_job(r)
                        ELSE UNCHANGED <<beta, beta_jobs, beta_days>>
    /\ insert_job(r)
    /\ UNCHANGED <<publications, asset_bindings, playback_bindings,
                   publication_ids, takedowns, full_hd, paused, frozen, runway,
                   now, public_upload>>

\* The record of a new job.
LEMMA InsertedJob ==
    ASSUME TypeOK, NEW r \in Request, NewJob(r)
    PROVE  /\ media_jobs'[r.job] \in MediaJob /\ Exists(r.job)'
           /\ media_jobs'[r.job].status = "authorized"
           /\ media_jobs'[r.job].creator = r.creator
           /\ media_jobs'[r.job].created_at = now
           /\ media_jobs'[r.job].key_expires = r.key_expires
           /\ \A k \in Job : k # r.job => /\ media_jobs'[k] = media_jobs[k]
                                          /\ Exists(k)' <=> Exists(k)
           /\ media_jobs' \in [Job -> MediaJob \cup {NoJob}]
  <1>. DEFINE m == [status |-> "authorized", creator |-> r.creator,
                    profile |-> r.profile, generation |-> 1, created_at |-> now,
                    quoted |-> r.quoted, key_expires |-> r.key_expires]
  <1>0. now \in Nat /\ media_jobs \in [Job -> MediaJob \cup {NoJob}]
    BY DEF TypeOK
  <1>1. /\ r.job \in Job /\ r.creator \in Creator /\ r.profile \in Profile
        /\ r.quoted \in BOOLEAN /\ r.key_expires \in Nat
    BY <1>0, RequestFields
  <1>2. m \in MediaJob
    BY <1>0, <1>1 DEF MediaJob
  <1>3. media_jobs' = [media_jobs EXCEPT ![r.job] = m]
    BY DEF NewJob, insert_job
  <1>4. /\ media_jobs'[r.job] = m
        /\ \A k \in Job : k # r.job => media_jobs'[k] = media_jobs[k]
        /\ media_jobs' \in [Job -> MediaJob \cup {NoJob}]
    BY <1>0, <1>1, <1>2, <1>3
  <1>5. /\ Exists(r.job)'
        /\ \A k \in Job : k # r.job => (Exists(k)' <=> Exists(k))
    BY <1>2, <1>4, Absent DEF Exists
  <1>. QED BY <1>2, <1>4, <1>5

\* The previous upload of the creator is done, so the new one is the only one
\* that may be under way.
LEMMA LatestStep ==
    ASSUME TypeOK, LatestInv, NEW r \in Request, NewJob(r) PROVE LatestInv'
  <1>. SUFFICES ASSUME public_upload, NEW k \in Job, UnderWay(k)'
                PROVE  LET c == media_jobs'[k].creator IN
                       uploaders'[c] # NoUploader /\ uploaders'[c].latest = k
    BY DEF LatestInv, NewJob
  <1>0. now \in Nat /\ r.job \in Job /\ r.creator \in Creator
    BY RequestFields DEF TypeOK
  <1>. DEFINE u == [day |-> day(now), count |-> used_today(r.creator) + 1,
                    latest |-> r.job]
  <1>1. /\ uploaders' = [uploaders EXCEPT ![r.creator] = u]
        /\ previous_done(r.creator)
    BY DEF NewJob, admit_public_upload
  <1>2. /\ uploaders'[r.creator] = u
        /\ \A c \in Creator : c # r.creator => uploaders'[c] = uploaders[c]
    BY <1>0, <1>1 DEF TypeOK
  <1>3. u # NoUploader /\ u.latest = r.job
    <2>1. DOMAIN u = {"day", "count", "latest"} /\ DOMAIN NoUploader = {"count"}
      BY DEF NoUploader
    <2>. QED BY <2>1
  <1>. HIDE DEF u
  <1>4. CASE k = r.job
    BY <1>2, <1>3, <1>4, InsertedJob
  <1>5. CASE k # r.job
    <2>1. media_jobs'[k] = media_jobs[k] /\ UnderWay(k)
      BY <1>5, InsertedJob DEF UnderWay, public_deadline, NewJob
    <2>2. media_jobs[k].creator \in Creator /\ media_jobs[k].created_at \in Nat
      BY <2>1, JobFields DEF UnderWay
    <2>3. /\ uploaders[media_jobs[k].creator] # NoUploader
          /\ uploaders[media_jobs[k].creator].latest = k
      BY <2>1 DEF LatestInv
    <2>4. media_jobs[k].creator # r.creator
      <3>. SUFFICES ASSUME media_jobs[k].creator = r.creator PROVE FALSE
        OBVIOUS
      <3>1. media_jobs[k].status = "published" \/ now >= public_deadline(k)
        BY <1>1, <2>3 DEF previous_done
      <3>2. media_jobs[k].status = "authorized" /\ now < public_deadline(k)
        BY <2>1 DEF UnderWay
      <3>3. public_deadline(k) \in Nat
        BY <2>2, LimitAssumption DEF public_deadline
      <3>. QED BY <1>0, <3>1, <3>2, <3>3
    <2>. QED BY <1>2, <2>1, <2>2, <2>3, <2>4
  <1>. QED BY <1>4, <1>5

\* What the creator uploaded today, before this upload, is what the counter says.
LEMMA UsedToday ==
    ASSUME TypeOK, DayInv, public_upload, NEW c \in Creator
    PROVE  /\ used_today(c) \in Nat
           /\ Cardinality(JobsOf(c, day(now))) = used_today(c)
           /\ \A d \in Nat : d > day(now) => JobsOf(c, d) = {}
  <1>0. day(now) \in Nat
    BY DayType DEF TypeOK
  <1>1. CASE uploaders[c] = NoUploader
    <2>1. \A d \in Nat : JobsOf(c, d) = {}
      BY <1>1 DEF DayInv
    <2>2. used_today(c) = 0
      BY <1>1 DEF used_today
    <2>. QED BY <1>0, <2>1, <2>2, FS_EmptySet
  <1>2. CASE uploaders[c] # NoUploader
    <2>1. uploaders[c].day \in Nat /\ uploaders[c].count \in Nat
      BY <1>2, UploaderFields
    <2>2. /\ uploaders[c].day <= day(now)
          /\ Cardinality(JobsOf(c, uploaders[c].day)) = uploaders[c].count
          /\ \A d \in Nat : d > uploaders[c].day => JobsOf(c, d) = {}
      BY <1>2 DEF DayInv
    <2>3. \A d \in Nat : d > day(now) => JobsOf(c, d) = {}
      BY <1>0, <2>1, <2>2
    <2>4. CASE uploaders[c].day = day(now)
      BY <1>2, <2>1, <2>2, <2>3, <2>4 DEF used_today
    <2>5. CASE uploaders[c].day # day(now)
      <3>1. JobsOf(c, day(now)) = {} /\ used_today(c) = 0
        BY <1>0, <2>1, <2>2, <2>5 DEF used_today
      <3>. QED BY <2>3, <3>1, FS_EmptySet
    <2>. QED BY <2>4, <2>5
  <1>. QED BY <1>1, <1>2

\* A new job adds one to its creator's day and to nothing else.
LEMMA DayStep ==
    ASSUME TypeOK, DayInv, NEW r \in Request, NewJob(r) PROVE DayInv'
  <1>. SUFFICES ASSUME public_upload, NEW c \in Creator
                PROVE  (/\ uploaders[c] = NoUploader => \A d \in Nat : JobsOf(c, d) = {}
                        /\ uploaders[c] # NoUploader =>
                             /\ uploaders[c].day <= day(now)
                             /\ Cardinality(JobsOf(c, uploaders[c].day)) = uploaders[c].count
                             /\ \A d \in Nat : d > uploaders[c].day => JobsOf(c, d) = {}
                        /\ \A d \in Nat : /\ IsFiniteSet(JobsOf(c, d))
                                          /\ Cardinality(JobsOf(c, d)) <= DAILY_LIMIT)'
    BY DEF DayInv, NewJob
  <1>0. /\ now \in Nat /\ now' = now /\ day(now) \in Nat /\ DAILY_LIMIT \in Nat
        /\ r.job \in Job /\ r.creator \in Creator
    BY RequestFields, DayType, LimitAssumption DEF TypeOK, NewJob
  <1>today. PICK today \in Nat : today = day(now) /\ today = day(now')
    BY <1>0
  <1>u. PICK u : u = [day |-> today, count |-> used_today(r.creator) + 1,
                      latest |-> r.job]
    OBVIOUS
  <1>1. /\ uploaders' = [uploaders EXCEPT ![r.creator] = u]
        /\ used_today(r.creator) < DAILY_LIMIT
    BY <1>today, <1>u DEF NewJob, admit_public_upload
  <1>2. /\ uploaders'[r.creator] = u
        /\ \A x \in Creator : x # r.creator => uploaders'[x] = uploaders[x]
    BY <1>0, <1>1 DEF TypeOK
  <1>3. u # NoUploader /\ u.day = today /\ u.count = used_today(r.creator) + 1
    <2>1. DOMAIN u = {"day", "count", "latest"} /\ DOMAIN NoUploader = {"count"}
      BY <1>u DEF NoUploader
    <2>. QED BY <1>u, <2>1
  <1>4. \A d \in Nat : c # r.creator \/ d # today => JobsOf(c, d)' = JobsOf(c, d)
    <2>. SUFFICES ASSUME NEW d \in Nat, c # r.creator \/ d # today
                  PROVE  JobsOf(c, d)' = JobsOf(c, d)
      OBVIOUS
    <2>1. r.job \notin JobsOf(c, d) /\ r.job \notin JobsOf(c, d)'
      BY <1>today, InsertedJob DEF JobsOf, NewJob, day
    <2>2. \A k \in Job \ {r.job} : k \in JobsOf(c, d)' <=> k \in JobsOf(c, d)
      BY <1>today, InsertedJob DEF JobsOf, day
    <2>3. JobsOf(c, d) \subseteq Job /\ JobsOf(c, d)' \subseteq Job
      BY DEF JobsOf
    <2>. QED BY <2>1, <2>2, <2>3
  <1>5. CASE c # r.creator
    <2>1. uploaders'[c] = uploaders[c]
      BY <1>2, <1>5
    <2>2. uploaders[c] # NoUploader => uploaders[c].day \in Nat
      BY UploaderFields
    <2>. QED BY <1>0, <1>4, <1>5, <2>1, <2>2 DEF DayInv, day
  <1>6. CASE c = r.creator
    <2>1. /\ used_today(c) \in Nat
          /\ Cardinality(JobsOf(c, today)) = used_today(c)
          /\ \A d \in Nat : d > today => JobsOf(c, d) = {}
      BY <1>today, UsedToday
    <2>2. IsFiniteSet(JobsOf(c, today))
      BY <1>0 DEF DayInv
    <2>3. /\ JobsOf(c, today)' = JobsOf(c, today) \cup {r.job}
          /\ r.job \notin JobsOf(c, today)
      <3>1. r.job \in JobsOf(c, today)'
        BY <1>0, <1>6, <1>today, InsertedJob DEF JobsOf, day
      <3>2. r.job \notin JobsOf(c, today)
        BY DEF JobsOf, NewJob
      <3>3. \A k \in Job \ {r.job} : k \in JobsOf(c, today)' <=> k \in JobsOf(c, today)
        BY <1>0, InsertedJob DEF JobsOf, day
      <3>4. JobsOf(c, today) \subseteq Job /\ JobsOf(c, today)' \subseteq Job
        BY DEF JobsOf
      <3>. QED BY <3>1, <3>2, <3>3, <3>4
    <2>4. /\ IsFiniteSet(JobsOf(c, today)')
          /\ Cardinality(JobsOf(c, today)') = used_today(c) + 1
      <3>1. /\ IsFiniteSet(JobsOf(c, today) \cup {r.job})
            /\ Cardinality(JobsOf(c, today) \cup {r.job})
                  = Cardinality(JobsOf(c, today)) + 1
        BY <2>2, <2>3, FS_AddElement
      <3>. QED BY <2>1, <2>3, <3>1
    <2>5. \A d \in Nat : d > u.day => JobsOf(c, d)' = {}
      BY <1>0, <1>3, <1>4, <2>1
    <2>6. \A d \in Nat : /\ IsFiniteSet(JobsOf(c, d)')
                         /\ Cardinality(JobsOf(c, d)') <= DAILY_LIMIT
      <3>. SUFFICES ASSUME NEW d \in Nat
                    PROVE  /\ IsFiniteSet(JobsOf(c, d)')
                           /\ Cardinality(JobsOf(c, d)') <= DAILY_LIMIT
        OBVIOUS
      <3>1. CASE d = today
        BY <3>1, <1>0, <1>1, <1>6, <2>1, <2>4 DEF JobsOf, day
      <3>2. CASE d # today
        BY <3>2, <1>4 DEF DayInv
      <3>. QED BY <3>1, <3>2
    <2>7. /\ uploaders'[c] = u
          /\ u # NoUploader
          /\ u.day <= day(now')
          /\ Cardinality(JobsOf(c, u.day)') = u.count
      BY <1>2, <1>3, <1>6, <1>today, <2>4
    <2>. QED BY <2>5, <2>6, <2>7 DEF day
  <1>. QED BY <1>5, <1>6

\* The beta admits a job: one marker more, on a day not used before, and the
\* counter still counts the markers.
LEMMA AdmitBetaStep ==
    ASSUME PublicationInv, NEW r \in Request, NewJob(r), beta # NoBeta
    PROVE  /\ MarkInv' /\ BetaQuota'
           /\ beta' \in Beta
           /\ beta_jobs' \in [Job -> Marker \cup {NoMarker}]
           /\ beta_days' \subseteq Creator \X Nat
           /\ r.key_expires <= beta_jobs'[r.job].deadline
           /\ \A k \in Job : k # r.job => beta_jobs'[k] = beta_jobs[k]
  <1>0. /\ TypeOK /\ MarkInv /\ BetaQuota /\ now \in Nat /\ now' = now
        /\ r.job \in Job /\ r.creator \in Creator /\ r.key_expires \in Nat
        /\ beta \in Beta /\ beta.total_job_count \in Nat /\ beta.ends_at \in Nat
    BY RequestFields DEF PublicationInv, TypeOK, Beta, NewJob
  <1>1. /\ beta_has_room /\ <<r.creator, day(now)>> \notin beta_days
        /\ beta_jobs[r.job] = NoMarker
        /\ r.key_expires <= beta_deadline
        /\ beta' = [beta EXCEPT !.total_job_count = @ + 1]
        /\ beta_jobs' = [beta_jobs EXCEPT ![r.job] =
              [creator |-> r.creator, generation |-> 1, admitted_at |-> now,
               deadline |-> beta_deadline]]
        /\ beta_days' = beta_days \cup {<<r.creator, day(now)>>}
    BY DEF NewJob, admit_public_testnet_beta_job
  <1>2. beta_deadline \in Nat /\ day(now) \in Nat
    <2>1. now + JOB_TTL \in Nat
      BY <1>0, LimitAssumption
    <2>. QED BY <1>0, <2>1, MinType, DayType DEF beta_deadline
  <1>m. PICK m : m = [creator |-> r.creator, generation |-> 1, admitted_at |-> now,
                      deadline |-> beta_deadline]
    OBVIOUS
  <1>3. /\ m \in Marker /\ m # NoMarker /\ m.creator = r.creator
        /\ m.admitted_at = now /\ m.deadline = beta_deadline
    <2>1. m \in Marker
      BY <1>0, <1>2, <1>m DEF Marker
    <2>. QED BY <2>1, <1>m, Absent
  <1>4. /\ beta_jobs'[r.job] = m
        /\ \A k \in Job : k # r.job => beta_jobs'[k] = beta_jobs[k]
        /\ beta_jobs' \in [Job -> Marker \cup {NoMarker}]
    BY <1>0, <1>1, <1>m, <1>3 DEF TypeOK
  <1>5. beta' \in Beta /\ beta'.total_job_count = beta.total_job_count + 1
    <2>1. PICK n \in Nat : n = beta.total_job_count + 1
      BY <1>0
    <2>2. beta' = [beta EXCEPT !.total_job_count = n]
      BY <1>1, <2>1
    <2>. QED BY <1>0, <2>1, <2>2 DEF Beta
  <1>6. beta_days' \subseteq Creator \X Nat
    BY <1>0, <1>1, <1>2 DEF TypeOK
  <1>7. Marked' = Marked \cup {r.job} /\ r.job \notin Marked
    BY <1>0, <1>1, <1>3, <1>4 DEF Marked
  <1>8. /\ IsFiniteSet(Marked') /\ Cardinality(Marked') = Cardinality(Marked) + 1
    <2>1. IsFiniteSet(Marked)
      BY <1>0 DEF MarkInv
    <2>. QED BY <2>1, <1>7, FS_AddElement
  <1>9. \A k \in Marked : /\ beta_jobs'[k] = beta_jobs[k] /\ k # r.job
                          /\ <<beta_jobs[k].creator, day(beta_jobs[k].admitted_at)>> \in beta_days
    BY <1>0, <1>4, <1>7 DEF Marked, MarkInv
  <1>10. MarkInv'
    <2>1. beta' # NoBeta
      BY <1>5, Absent
    <2>2. ASSUME NEW k \in Marked'
          PROVE  /\ Exists(k)'
                 /\ <<beta_jobs'[k].creator, day(beta_jobs'[k].admitted_at)>> \in beta_days'
      <3>1. CASE k = r.job
        BY <3>1, <1>0, <1>1, <1>3, <1>4, InsertedJob
      <3>2. CASE k # r.job
        <4>1. k \in Marked
          BY <3>2, <1>7, <2>2
        <4>2. Exists(k)'
          BY <4>1, <1>0, <3>2, InsertedJob, MarkerFields DEF MarkInv
        <4>. QED BY <4>1, <4>2, <1>1, <1>9
      <3>. QED BY <3>1, <3>2
    <2>. QED BY <2>1, <2>2, <1>8 DEF MarkInv, day
  <1>11. BetaQuota'
    <2>1. /\ Cardinality(Marked) = beta.total_job_count
          /\ \A j, k \in Marked :
                /\ beta_jobs[j].creator = beta_jobs[k].creator
                /\ day(beta_jobs[j].admitted_at) = day(beta_jobs[k].admitted_at)
                => j = k
      BY <1>0 DEF BetaQuota
    <2>2. beta'.total_job_count <= BETA_MAX_JOBS
      BY <1>0, <1>1, <1>5, LimitAssumption DEF beta_has_room
    <2>3. Cardinality(Marked') = beta'.total_job_count
      BY <1>5, <1>8, <2>1
    <2>4. ASSUME NEW k \in Marked, beta_jobs[k].creator = r.creator,
                 day(beta_jobs[k].admitted_at) = day(now)
          PROVE  FALSE
      BY <2>4, <1>1, <1>9
    <2>5. \A j, k \in Marked' :
                /\ beta_jobs'[j].creator = beta_jobs'[k].creator
                /\ day(beta_jobs'[j].admitted_at) = day(beta_jobs'[k].admitted_at)
                => j = k
      <3>. SUFFICES ASSUME NEW j \in Marked', NEW k \in Marked',
                           beta_jobs'[j].creator = beta_jobs'[k].creator,
                           day(beta_jobs'[j].admitted_at) = day(beta_jobs'[k].admitted_at)
                    PROVE  j = k
        OBVIOUS
      <3>1. CASE j \in Marked /\ k \in Marked
        BY <3>1, <1>9, <2>1
      <3>2. CASE j \in Marked /\ k = r.job
        BY <3>2, <1>3, <1>4, <1>9, <2>4
      <3>3. CASE j = r.job /\ k \in Marked
        BY <3>3, <1>3, <1>4, <1>9, <2>4
      <3>. QED BY <1>7, <3>1, <3>2, <3>3
    <2>. QED BY <2>2, <2>3, <2>5 DEF BetaQuota, day
  <1>. QED
    BY <1>1, <1>3, <1>4, <1>5, <1>6, <1>10, <1>11

\* Storing a new job keeps the books in order.
LEMMA NewJobStep ==
    ASSUME PublicationInv, NEW r \in Request, NewJob(r) PROVE PublicationInv'
  <1>0. /\ TypeOK /\ now \in Nat /\ now' = now
        /\ r.job \in Job /\ r.creator \in Creator /\ r.key_expires \in Nat
    BY RequestFields DEF PublicationInv, TypeOK, NewJob
  <1>1. LatestInv' /\ DayInv'
    BY LatestStep, DayStep DEF PublicationInv
  <1>2. ~Published(r.job)
    BY <1>0, Absent DEF NewJob, PublicationInv, PublicationMatchesJob, Exists
  <1>3. /\ MarkInv' /\ BetaQuota'
        /\ beta' \in Beta \cup {NoBeta}
        /\ beta_jobs' \in [Job -> Marker \cup {NoMarker}]
        /\ beta_days' \subseteq Creator \X Nat
        /\ beta_jobs'[r.job] # NoMarker => r.key_expires <= beta_jobs'[r.job].deadline
        /\ \A k \in Job : k # r.job => beta_jobs'[k] = beta_jobs[k]
    <2>1. CASE beta # NoBeta
      BY <2>1, AdmitBetaStep
    <2>2. CASE beta = NoBeta
      <3>1. UNCHANGED <<beta, beta_jobs, beta_days>>
        BY <2>2 DEF NewJob
      <3>2. MarkInv' /\ BetaQuota'
        <4>1. \A k \in Job : Exists(k) => Exists(k)'
          BY <1>0, InsertedJob
        <4>. QED BY <3>1, <4>1, MarksKept DEF PublicationInv
      <3>3. beta_jobs[r.job] = NoMarker
        BY <1>0, <2>2 DEF PublicationInv, MarkInv, Marked
      <3>. QED BY <1>0, <3>1, <3>2, <3>3 DEF TypeOK
    <2>. QED BY <2>1, <2>2
  <1>4. TypeOK'
    <2>1. uploaders' \in [Creator -> Uploader \cup {NoUploader}]
      <3>1. CASE public_upload
        <4>1. used_today(r.creator) \in Nat /\ day(now) \in Nat
          BY <1>0, <3>1, UsedToday, DayType DEF PublicationInv
        <4>2. [day |-> day(now), count |-> used_today(r.creator) + 1,
               latest |-> r.job] \in Uploader
          BY <1>0, <4>1 DEF Uploader
        <4>. QED BY <1>0, <3>1, <4>2 DEF NewJob, admit_public_upload, TypeOK
      <3>2. CASE ~public_upload
        BY <1>0, <3>2 DEF NewJob, TypeOK
      <3>. QED BY <3>1, <3>2
    <2>2. media_jobs' \in [Job -> MediaJob \cup {NoJob}]
      BY <1>0, InsertedJob
    <2>. QED BY <1>0, <1>3, <2>1, <2>2 DEF TypeOK, NewJob
  <1>5. IsFiniteSet(PublishedJobs)' /\ IndexExact'
    BY IndexKept DEF PublicationInv, Published, NewJob
  <1>6. IdentitiesBound'
    BY DEF PublicationInv, IdentitiesBound, Published, NewJob
  <1>7. PublicationMatchesJob'
    <2>. SUFFICES ASSUME NEW k \in Job
                  PROVE  /\ Published(k)' <=> media_jobs'[k].status = "published"
                         /\ Published(k)' =>
                               /\ publications'[k].generation = media_jobs'[k].generation
                               /\ publications'[k].profile = media_jobs'[k].profile
      BY DEF PublicationMatchesJob
    <2>1. publications' = publications /\ (Published(k)' <=> Published(k))
      BY DEF NewJob, Published
    <2>2. CASE k = r.job
      BY <2>1, <2>2, <1>0, <1>2, InsertedJob
    <2>3. CASE k # r.job
      BY <2>1, <2>3, <1>0, InsertedJob DEF PublicationInv, PublicationMatchesJob
    <2>. QED BY <2>2, <2>3
  <1>8. KeysExpire'
    <2>. SUFFICES ASSUME NEW k \in Job, Exists(k)'
                  PROVE  /\ public_upload => media_jobs'[k].key_expires <= public_deadline(k)'
                         /\ beta_jobs'[k] # NoMarker =>
                                media_jobs'[k].key_expires <= beta_jobs'[k].deadline
      BY DEF KeysExpire, NewJob
    <2>1. CASE k = r.job
      <3>1. public_upload => r.key_expires <= now + JOB_TTL
        BY DEF NewJob, admit_public_upload
      <3>. QED BY <2>1, <3>1, <1>0, <1>3, InsertedJob DEF public_deadline
    <2>2. CASE k # r.job
      BY <2>2, <1>0, <1>3, InsertedJob DEF KeysExpire, PublicationInv, public_deadline
    <2>. QED BY <2>1, <2>2
  <1>. QED
    BY <1>1, <1>3, <1>4, <1>5, <1>6, <1>7, <1>8 DEF PublicationInv
-----------------------------------------------------------------------------
(* Theorems. *)

\* Every call of the jobs, the publications and the governance keeps the books
\* in order.
LEMMA StepHolds ==
    ASSUME PublicationInv, [Next]_vars PROVE PublicationInv'
  <1>0. full_hd \in BOOLEAN /\ paused \in BOOLEAN /\ frozen \in BOOLEAN
        /\ runway \in Nat /\ now \in Nat
    BY DEF PublicationInv, TypeOK
  <1>1. CASE Jobs /\ UNCHANGED public_upload
    <2>1. ASSUME NEW r \in Request, create_paid_job(r) PROVE PublicationInv'
      <3>1. NewJob(r)
        BY <2>1, <1>1 DEF create_paid_job, NewJob
      <3>. QED BY <3>1, NewJobStep
    <2>2. ASSUME NEW r \in Request, create_paid_job_near(r) PROVE PublicationInv'
      <3>1. NewJob(r)
        BY <2>2, <1>1 DEF create_paid_job_near, NewJob, quota
      <3>. QED BY <3>1, NewJobStep
    <2>3. ASSUME NEW j \in Job, NEW expires \in 1 .. MaxKeyExpiry,
                 replace_upload_key(j, expires)
          PROVE  PublicationInv'
      BY <2>3, <1>1, ReplaceKeyStep
    <2>4. ASSUME NEW j \in Job, NEW p \in Profile, restart_paid_job(j, p)
          PROVE  PublicationInv'
      BY <2>4, <1>1, RestartStep
    <2>. QED BY <1>1, <2>1, <2>2, <2>3, <2>4 DEF Jobs
  <1>2. CASE Publishing /\ UNCHANGED public_upload
    <2>1. ASSUME NEW j \in Job, NEW g \in 1 .. MaxGeneration, NEW p \in Profile,
                 NEW a \in Asset, NEW b \in PlaybackId,
                 finalize_publication(j, g, p, a, b)
          PROVE  PublicationInv'
      BY <2>1, <1>2, FinalizeStep
    <2>2. ASSUME NEW j \in Job, suspend_sales(j) PROVE PublicationInv'
      BY <2>2, <1>2, SuspendStep
    <2>3. ASSUME NEW j \in Job, NEW i \in Incident, takedown_publication(j, i)
          PROVE  PublicationInv'
      BY <2>3, <1>2, TakedownStep
    <2>. QED BY <1>2, <2>1, <2>2, <2>3 DEF Publishing
  <1>3. CASE Governance /\ UNCHANGED public_upload
    BY <1>3, GovernanceStep
  <1>4. CASE UNCHANGED vars
    BY <1>0, <1>4, StillStep DEF vars
  <1>. QED BY <1>1, <1>2, <1>3, <1>4 DEF Next

\* The inductive invariant holds of every state the contract can reach.
THEOREM PublicationInvariant == Spec => []PublicationInv
  <1>1. Init => PublicationInv
    BY InitHolds
  <1>2. PublicationInv /\ [Next]_vars => PublicationInv'
    BY StepHolds
  <1>. QED BY <1>1, <1>2, PTL DEF Spec

\* A publication is the last generation of its job, with its profile, and a job
\* counts as published exactly when it has a publication (lib.rs,
\* finalize_publication and restart_paid_job).
THEOREM PublicationMatchesJobCorrect == Spec => []PublicationMatchesJob
  <1>1. PublicationInv => PublicationMatchesJob
    BY DEF PublicationInv
  <1>. QED BY <1>1, PublicationInvariant, PTL

\* Under the public policy no creator has two uploads under way (lib.rs,
\* admit_public_upload): the one that may be is the last admitted.
THEOREM OneUploadUnderWayCorrect == Spec => []OneUploadUnderWay
  <1>1. ASSUME PublicationInv, public_upload, NEW c \in Creator
        PROVE  Cardinality({j \in Job : /\ Exists(j)
                                        /\ media_jobs[j].creator = c
                                        /\ media_jobs[j].status = "authorized"
                                        /\ now < public_deadline(j)}) <= 1
    <2>. DEFINE U == {j \in Job : /\ Exists(j)
                                  /\ media_jobs[j].creator = c
                                  /\ media_jobs[j].status = "authorized"
                                  /\ now < public_deadline(j)}
    <2>1. \A j \in U : j = uploaders[c].latest
      BY <1>1 DEF PublicationInv, LatestInv, UnderWay
    <2>. HIDE DEF U
    <2>2. Cardinality(U) <= 1
      <3>1. CASE U = {}
        BY <3>1, FS_EmptySet
      <3>2. CASE U # {}
        <4>1. PICK j \in U : TRUE
          BY <3>2
        <4>2. U = {j}
          BY <2>1, <4>1
        <4>3. Cardinality({j}) = 1
          BY FS_Singleton
        <4>. QED BY <4>2, <4>3
      <3>. QED BY <3>1, <3>2
    <2>. QED BY <2>2 DEF U
  <1>2. PublicationInv => OneUploadUnderWay
    BY <1>1 DEF OneUploadUnderWay
  <1>. QED BY <1>2, PublicationInvariant, PTL

\* Identities are bound once, the index lists each publication once, and the
\* daily, beta and key limits hold (lib.rs, bind_identity, publication_ids,
\* admit_public_upload, admit_public_testnet_beta_job, replace_upload_key).
THEOREM PublicationRulesCorrect == Spec => []PublicationRules
  <1>1. ASSUME PublicationInv PROVE DailyLimit
    <2>. SUFFICES ASSUME public_upload, NEW c \in Creator, NEW d \in 0 .. day(MaxNow)
                  PROVE  Cardinality(JobsOf(c, d)) <= DAILY_LIMIT
      BY DEF DailyLimit, JobsOf
    <2>1. d \in Nat
      BY DayType, LimitAssumption
    <2>. QED BY <1>1, <2>1 DEF PublicationInv, DayInv
  <1>2. PublicationInv => PublicationRules
    BY <1>1 DEF PublicationInv, PublicationRules
  <1>. QED BY <1>2, PublicationInvariant, PTL
=============================================================================
