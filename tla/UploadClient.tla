----------------------------- MODULE UploadClient ----------------------------
(***************************************************************************)
(* The paid upload form of the web application on the public testnet: one  *)
(* creator, several tabs.  The tabs share the local storage (one draft,    *)
(* one bookmark, the abandoned jobs), each has a session storage with the  *)
(* upload keys of its jobs, and the chain and the bridge answer late.  An  *)
(* action is what a tab does between two awaits.                           *)
(***************************************************************************)
EXTENDS Integers, FiniteSets, FiniteSetsExt

CONSTANTS
    Tabs,
    Files, SizeOf,    \* source files, numbered from 1, and their sizes
    MaxJobs,          \* bound: jobs created
    MaxKeys,          \* bound: upload keys created
    MaxClicks         \* bound: what the creator does in the tabs

ASSUME UploadClientAssumption ==
    /\ Files \subseteq Nat \ {0} /\ SizeOf \in [Files -> Nat]
    /\ {MaxJobs, MaxKeys, MaxClicks} \subseteq Nat

Jobs == 1..MaxJobs

NoDraft == [job |-> 0, file |-> 0, stage |-> 0, paymentAttempted |-> FALSE,
            keyReplacementPending |-> FALSE, fingerprint |-> 0]

VARIABLES
    form,       \* per tab: what the form shows, the operation under way and what it has read
    session,    \* per tab, session storage: the upload key of each job, 0 for none
    draft, bookmark, abandoned,     \* local storage
    market,     \* the chain: each job's state, upload key and size
    expired,    \* jobs whose deadline has passed
    relays,     \* signed payments the bridge has and the chain has not seen
    replacements,   \* key replacements sent and not yet executed
    uploads, hint,  \* the bridge: each job's upload, and the creator's pending-upload record
    jobs, keys, clicks,  \* counters
    overlooked  \* history: a payment was taken for none, or the stored mark of a paid job cleared

storage == <<draft, bookmark, abandoned>>
unclicked == <<market, expired, relays, replacements, uploads, hint, overlooked>>
world == <<unclicked, clicks>>
counters == <<jobs, keys>>
clientVars == <<form, session, storage, counters, world>>

-----------------------------------------------------------------------------
(* The stages the form shows. *)

UPLOAD_STAGE_TRANSITIONS ==
    [draft |-> {"preflight", "payment_required", "authorized", "upload_ready", "provider_processing"},
     preflight |-> {"payment_required"}, payment_required |-> {"payment_pending"},
     payment_pending |-> {"authorized"}, authorized |-> {"intent_pending", "payment_pending"},
     intent_pending |-> {"upload_ready", "payment_pending"},
     upload_ready |-> {"uploading", "payment_pending"},
     uploading |-> {"provider_processing", "payment_pending"},
     provider_processing |-> {}, published |-> {}, thrown |-> {}]

\* A transition the table lacks throws.
transitionUploadStage(current, next) ==
    IF next \in {current, "draft", "published"} \cup UPLOAD_STAGE_TRANSITIONS[current]
    THEN next ELSE "thrown"

moveUploadStage(t, next) == transitionUploadStage(form[t].ui, next)

\* The recovery stages are payment_pending, authorized, upload_ready, uploading and
\* provider_processing, numbered from 0.
restoreUploadStage(stage) ==
    <<"payment_required", "authorized", "upload_ready", "upload_ready", "provider_processing">>[stage + 1]

-----------------------------------------------------------------------------
(* Local storage. *)

isPaidUploadDraft(d) == d.paymentAttempted \/ d.keyReplacementPending \/ d.stage > 0

\* The draft of another job is not replaced once that job may have been paid.
mayReplaceDraft(old, d) == old.job \in {0, d.job} \/ ~isPaidUploadDraft(old)

\* What is stored: the same job and file keep the later stage and what was attempted.
writeLivepeerUploadDraft(old, d) ==
    IF old.job = d.job /\ old.file = d.file
    THEN [d EXCEPT !.stage = Max({@, old.stage}),
                   !.paymentAttempted = @ \/ old.paymentAttempted,
                   !.keyReplacementPending = @ \/ old.keyReplacementPending,
                   !.fingerprint = IF @ = 0 THEN old.fingerprint ELSE @]
    ELSE d

\* Mutant: the flag is taken for written though another job's draft is stored.
flag_unchecked(j, flag, value) ==
    /\ draft' = IF draft.job = j THEN [draft EXCEPT ![flag] = value] ELSE draft
    /\ bookmark' = IF flag = "paymentAttempted" /\ value THEN j ELSE bookmark
setUploadDraftFlag(j, flag, value) ==
    /\ draft.job = j
    /\ draft' = [draft EXCEPT ![flag] = value]
    /\ bookmark' = IF flag = "paymentAttempted" /\ value THEN j ELSE bookmark

\* Behind another job's draft, or behind the stage, nothing is written.
advanceLivepeerUploadDraftStage(j, stage) ==
    IF draft.job = j /\ draft.stage < stage
    THEN draft' = [draft EXCEPT !.stage = stage] /\ bookmark' = j
    ELSE UNCHANGED <<draft, bookmark>>

assertLivepeerUploadDraftReady(j) == draft.job = j /\ ~draft.paymentAttempted

readLivepeerUploadDraft(f) == IF draft.file = f THEN draft ELSE NoDraft

\* The upload key of a job lives in the session storage of the tab that made it.
loadLivepeerJobSessionKey(t, j) == session[t][j]
persistLivepeerJobSessionKey(t, j, key) == session' = [session EXCEPT ![t][j] = key]
clearLivepeerJobSessionKey(t, j) == session' = [session EXCEPT ![t][j] = 0]

-----------------------------------------------------------------------------
(* The pending job.  A lookup reads the local record, asks the chain about   *)
(* its job, and clears the record when the chain shows none to upload.       *)

readPendingLivepeerUpload(j) ==
    j # 0 /\ j \notin abandoned /\ market[j].state = "authorized" /\ j \notin expired

localJob == IF isPaidUploadDraft(draft) THEN draft.job ELSE bookmark

\* What the lookup finds: the local job, or else the one the bridge remembers.
findPendingLivepeerUpload(local) ==
    IF readPendingLivepeerUpload(local) THEN local
    ELSE IF hint # local /\ readPendingLivepeerUpload(hint) THEN hint ELSE 0

\* Whatever draft is stored by then is cleared.
releasedDraft(local, had) == IF had /\ ~readPendingLivepeerUpload(local) THEN NoDraft ELSE draft
rememberedJob(local) ==
    IF findPendingLivepeerUpload(local) \notin {0, local} THEN findPendingLivepeerUpload(local) ELSE bookmark

\* A payment was sent or made that the lookup has not found.
Missed(found) == \E j \in Jobs \ {found} : readPendingLivepeerUpload(j) \/ \E r \in relays : r.job = j

-----------------------------------------------------------------------------
(* The tabs. *)

Blank == [file |-> 0, job |-> 0, ui |-> "draft", resumable |-> FALSE, payable |-> FALSE,
          tracked |-> 0, shown |-> 0, op |-> "idle", seen |-> 0, had |-> FALSE]
Uploaded == {"provider_processing", "published"}

\* The stored draft is cleared, whichever job it is of.
clearLivepeerUploadDraft(t) ==
    /\ draft' = NoDraft
    /\ overlooked' = (overlooked \/ (draft.job # form[t].job /\ isPaidUploadDraft(draft)))

\* The creator clicks: the model bounds how often.
Clicks == clicks < MaxClicks /\ clicks' = clicks + 1

\* The operation goes on, or ends with an error: then the form offers to resume what was paid for.
Enters(t, op) == form' = [form EXCEPT ![t].op = op]
Fails(t) ==
    form' = [form EXCEPT ![t].op = "idle",
                         ![t].resumable = @ \/ readLivepeerUploadDraft(form[t].file).paymentAttempted]

\* A page opens: it tracks the bookmarked job, or looks for one.
openForm(t, keep) ==
    /\ Clicks
    /\ session' = [session EXCEPT ![t] = IF keep THEN @ ELSE [j \in Jobs |-> 0]]
    /\ IF bookmark \notin {0} \cup abandoned
       THEN /\ form' = [form EXCEPT ![t] = [Blank EXCEPT !.tracked = bookmark]]
            /\ UNCHANGED <<storage, overlooked>>
       ELSE /\ form' = [form EXCEPT ![t] = [Blank EXCEPT !.tracked = findPendingLivepeerUpload(localJob)]]
            /\ draft' = releasedDraft(localJob, isPaidUploadDraft(draft))
            /\ bookmark' = rememberedJob(localJob)
            /\ overlooked' = (overlooked \/ Missed(findPendingLivepeerUpload(localJob)))
            /\ UNCHANGED abandoned
    /\ UNCHANGED <<counters, market, expired, relays, replacements, uploads, hint>>

\* The status card of a tracked job bookmarks it whenever the chain shows it.
LivepeerUploadStatus(t) ==
    /\ form[t].job = 0 /\ form[t].tracked # 0 /\ market[form[t].tracked].state # "none"
    /\ bookmark' = form[t].tracked
    /\ UNCHANGED <<form, session, draft, abandoned, counters, world>>

\* The form with the draft that belongs to its file, if any.
Loaded(f, d) ==
    IF d.job = 0 THEN f
    ELSE [f EXCEPT !.job = d.job, !.resumable = isPaidUploadDraft(d),
                   !.ui = transitionUploadStage("draft", restoreUploadStage(d.stage))]

\* The input is disabled while the form works or waits for a publication.
selectFile(t, f) ==
    /\ Clicks
    /\ form[t].op = "idle"
    /\ form[t].ui \in Uploaded => form[t].job \in expired
    /\ LET fresh == [Blank EXCEPT !.tracked = form[t].tracked, !.file = f] IN
       form' = [form EXCEPT ![t] =
         IF draft.file = f THEN Loaded(fresh, draft)
         ELSE [fresh EXCEPT !.op = "matching", !.seen = localJob, !.had = isPaidUploadDraft(draft)]]
    /\ UNCHANGED <<session, storage, counters, unclicked>>

\* The lookup's answer: the stored draft may go and another job be bookmarked.
LooksUp(t) ==
    /\ overlooked' = (overlooked \/ Missed(findPendingLivepeerUpload(form[t].seen))
                                \/ (isPaidUploadDraft(draft) /\ releasedDraft(form[t].seen, form[t].had) # draft /\ draft.job # form[t].seen))
    /\ bookmark' = rememberedJob(form[t].seen)

\* The file may be that of a pending job whose record was lost: the record is built again from
\* the chain, which knows only the size.
matchPendingLivepeerUpload(t) ==
    /\ form[t].op = "matching"
    /\ LooksUp(t)
    /\ LET pending == findPendingLivepeerUpload(form[t].seen)
           kept == releasedDraft(form[t].seen, form[t].had)
           matches == pending # 0 /\ SizeOf[form[t].file] = market[pending].size
           rebuilt == [NoDraft EXCEPT !.job = pending, !.file = form[t].file, !.stage = 1,
                                      !.paymentAttempted = TRUE]
           rebuilds == matches /\ kept.job # pending /\ mayReplaceDraft(kept, rebuilt)
           found == IF rebuilds THEN rebuilt
                    ELSE IF matches /\ kept.job = pending /\ kept.file = form[t].file THEN kept
                    ELSE NoDraft
       IN /\ draft' = IF rebuilds THEN rebuilt ELSE kept
          /\ form' = [form EXCEPT ![t] = Loaded([@ EXCEPT !.op = "idle", !.seen = 0, !.had = FALSE,
                                                    !.shown = IF found.job = 0 THEN pending ELSE 0], found)]
    /\ UNCHANGED <<session, abandoned, counters, market, expired, relays, replacements, uploads, hint, clicks>>

\* No answer: the form goes on without.
matchFails(t) ==
    /\ form[t].op = "matching"
    /\ form' = [form EXCEPT ![t].op = "idle", ![t].seen = 0, ![t].had = FALSE]
    /\ UNCHANGED <<session, storage, counters, world>>

preparePayment(t) ==
    /\ Clicks
    /\ form[t].op = "idle" /\ form[t].file # 0
    /\ ~form[t].resumable /\ ~form[t].payable /\ form[t].shown = 0 /\ form[t].ui \notin Uploaded
    /\ form' = [form EXCEPT ![t].op = "looking", ![t].seen = localJob, ![t].had = isPaidUploadDraft(draft),
                            ![t].ui = transitionUploadStage(moveUploadStage(t, "draft"), "preflight")]
    /\ UNCHANGED <<session, storage, counters, unclicked>>

noOtherPending(t) == findPendingLivepeerUpload(form[t].seen) \in {0, form[t].job}

\* The draft is written first; then the preflight, the wallet and the balances allow a payment
\* or do not.
writesDraft(t) ==
    /\ form[t].op = "looking"
    /\ LooksUp(t)
    /\ LET kept == releasedDraft(form[t].seen, form[t].had)
           chosen == IF form[t].job # 0 THEN form[t].job ELSE jobs + 1
           new == [NoDraft EXCEPT !.job = chosen, !.file = form[t].file]
           done == [form[t] EXCEPT !.op = "idle", !.seen = 0, !.had = FALSE]
       IN \/ /\ ~noOtherPending(t)
             /\ draft' = kept
             /\ form' = [form EXCEPT ![t] = [done EXCEPT !.shown = findPendingLivepeerUpload(form[t].seen)]]
             /\ UNCHANGED jobs
          \/ /\ noOtherPending(t) /\ chosen <= MaxJobs
             /\ jobs' = Max({jobs, chosen})
             /\ draft' = IF mayReplaceDraft(kept, new) THEN writeLivepeerUploadDraft(kept, new) ELSE kept
             /\ \/ form' = [form EXCEPT ![t] = [done EXCEPT !.job = chosen]]
                \/ /\ mayReplaceDraft(kept, new)
                   /\ form' = [form EXCEPT ![t] = [done EXCEPT !.job = chosen, !.payable = TRUE,
                                                      !.ui = moveUploadStage(t, "payment_required")]]
    /\ UNCHANGED <<session, abandoned, keys, market, expired, relays, replacements, uploads, hint, clicks>>

\* No answer: the payment is not prepared.
prepareFails(t) ==
    /\ form[t].op = "looking"
    /\ form' = [form EXCEPT ![t].op = "idle", ![t].seen = 0, ![t].had = FALSE]
    /\ UNCHANGED <<session, storage, counters, world>>

-----------------------------------------------------------------------------
(* Payment. *)

\* "Pay and upload": a job the chain already has is not paid again.
start(t) ==
    /\ Clicks
    /\ form[t].op = "idle" /\ form[t].job # 0 /\ form[t].payable
    /\ ~form[t].resumable /\ form[t].ui \notin Uploaded
    /\ LET j == form[t].job IN
       CASE market[j].state = "published" ->
              /\ clearLivepeerUploadDraft(t) /\ clearLivepeerJobSessionKey(t, j)
              /\ form' = [form EXCEPT ![t].ui = "published"]
         [] market[j].state = "authorized" ->
              form' = [form EXCEPT ![t].resumable = TRUE] /\ UNCHANGED <<draft, session, overlooked>>
         [] OTHER ->
              /\ form' = [form EXCEPT ![t].op = "authorizing",
                                      ![t].ui = moveUploadStage(t, "payment_pending")]
              /\ UNCHANGED <<draft, session, overlooked>>
    /\ UNCHANGED <<bookmark, abandoned, counters, market, expired, relays, replacements, uploads, hint>>

exactPaidJob(t, j) == market[j].state = "authorized" /\ market[j].key = session[t][j]

\* The chain is asked again; the tab's key is stored before the wallet is.
authorizeLivepeerPaidJob(t) ==
    /\ form[t].op = "authorizing"
    /\ LET j == form[t].job IN
       IF market[j].state # "none"
       THEN /\ IF exactPaidJob(t, j) THEN Enters(t, "waiting") ELSE Fails(t)
            /\ UNCHANGED <<session, keys>>
       ELSE IF ~assertLivepeerUploadDraftReady(j)
       THEN Fails(t) /\ UNCHANGED <<session, keys>>
       ELSE /\ IF session[t][j] = 0
               THEN keys < MaxKeys /\ keys' = keys + 1 /\ persistLivepeerJobSessionKey(t, j, keys + 1)
               ELSE UNCHANGED <<session, keys>>
            /\ Enters(t, "quoting")
    /\ UNCHANGED <<storage, jobs, world>>

\* The quote is there: the draft is asked once more before the wallet signs.
signsSponsoredUpload(t) ==
    /\ form[t].op = "quoting"
    /\ IF assertLivepeerUploadDraftReady(form[t].job) THEN Enters(t, "signing") ELSE Enters(t, "failing")
    /\ UNCHANGED <<session, storage, counters, world>>

\* The wallet has signed: the attempt is recorded, then the bridge gets the payment.
submitSponsoredUploadRelay(t) ==
    /\ form[t].op = "signing"
    /\ LET j == form[t].job IN
       \/ /\ setUploadDraftFlag(j, "paymentAttempted", TRUE)
          /\ relays' = relays \cup {[job |-> j, key |-> session[t][j], size |-> SizeOf[form[t].file]]}
          /\ Enters(t, "relaying")
       \/ draft.job # j /\ Enters(t, "failing") /\ UNCHANGED <<draft, bookmark, relays>>
    /\ UNCHANGED <<session, abandoned, counters, market, expired, replacements, uploads, hint, clicks, overlooked>>

\* The bridge's answers: accepted once the chain has the job, rejected with a reason, or lost.
relayAnswered(t) ==
    /\ form[t].op = "relaying"
    /\ LET j == form[t].job
           mine == [job |-> j, key |-> session[t][j], size |-> SizeOf[form[t].file]] IN
       \/ /\ market[j].state # "none" /\ mine \notin relays
          /\ Enters(t, "waiting") /\ UNCHANGED <<draft, bookmark, relays, overlooked>>
       \/ /\ mine \in relays /\ relays' = relays \ {mine}
          /\ IF draft.job = j THEN setUploadDraftFlag(j, "paymentAttempted", FALSE)
             ELSE UNCHANGED <<draft, bookmark>>
          /\ overlooked' = (overlooked \/ market[j].state # "none" \/ \E r \in relays \ {mine} : r.job = j)
          /\ Enters(t, "failing")
    /\ UNCHANGED <<session, abandoned, counters, market, expired, replacements, uploads, hint, clicks>>

\* No quote, no signature, or no answer from the bridge.
paymentFails(t) ==
    /\ form[t].op \in {"quoting", "signing", "relaying"}
    /\ Enters(t, "failing")
    /\ UNCHANGED <<session, storage, counters, world>>

\* After an error the chain has the last word.
reconcilePaidJob(t) ==
    /\ form[t].op = "failing"
    /\ IF exactPaidJob(t, form[t].job) THEN Enters(t, "waiting") ELSE Fails(t)
    /\ UNCHANGED <<session, storage, counters, world>>

waitForAuthorizedLivepeerJob(t) ==
    /\ form[t].op = "waiting"
    /\ LET j == form[t].job IN
       \/ /\ market[j].state # "none" /\ market[j].key = session[t][j]
          /\ advanceLivepeerUploadDraftStage(j, 1)
          /\ form' = [form EXCEPT ![t].op = "asking",
               ![t].ui = transitionUploadStage(moveUploadStage(t, "authorized"), "intent_pending")]
       \/ Fails(t) /\ UNCHANGED <<draft, bookmark>>
    /\ UNCHANGED <<session, abandoned, counters, world>>

-----------------------------------------------------------------------------
(* Upload and resumption. *)

\* The tab holds the job's registered key and the job is open.
mayUpload(t, j) ==
    /\ loadLivepeerJobSessionKey(t, j) # 0 /\ loadLivepeerJobSessionKey(t, j) = market[j].key
    /\ market[j].state = "authorized" /\ j \notin expired

\* The bridge opens an upload for the job's registered key; for a resumption it must have one.
requestLivepeerUploadIntent(t) ==
    /\ form[t].op \in {"asking", "reopening"}
    /\ LET j == form[t].job
           resuming == form[t].op = "reopening"
           restarted == transitionUploadStage(transitionUploadStage(moveUploadStage(t, "draft"), "authorized"), "intent_pending")
           ready == transitionUploadStage(IF resuming THEN restarted ELSE form[t].ui, "upload_ready")
       IN \/ /\ mayUpload(t, j) /\ uploads[j] \in IF resuming THEN {"open"} ELSE {"none", "open"}
             /\ uploads' = [uploads EXCEPT ![j] = "open"]
             /\ advanceLivepeerUploadDraftStage(j, 3)
             /\ form' = [form EXCEPT ![t].op = "transferring", ![t].ui = transitionUploadStage(ready, "uploading")]
          \/ /\ resuming /\ mayUpload(t, j) /\ uploads[j] \in {"done", "cancelled"}
             /\ form' = [form EXCEPT ![t].op = "idle", ![t].resumable = FALSE,
                                     ![t].ui = transitionUploadStage(moveUploadStage(t, "draft"), "provider_processing")]
             /\ UNCHANGED <<uploads, draft, bookmark>>
          \/ /\ IF resuming THEN Enters(t, "idle") ELSE Fails(t)
             /\ UNCHANGED <<uploads, draft, bookmark>>
    /\ UNCHANGED <<session, abandoned, counters, market, expired, relays, replacements, hint, clicks, overlooked>>

\* The source goes to the provider, or the transfer breaks off.
uploadLivepeerSource(t) ==
    /\ form[t].op = "transferring"
    /\ LET j == form[t].job IN
       \/ /\ uploads[j] # "cancelled"
          /\ uploads' = [uploads EXCEPT ![j] = "done"]
          /\ advanceLivepeerUploadDraftStage(j, 4)
          /\ form' = [form EXCEPT ![t].op = "idle", ![t].resumable = FALSE,
                                  ![t].ui = moveUploadStage(t, "provider_processing")]
       \/ Fails(t) /\ UNCHANGED <<uploads, draft, bookmark>>
    /\ UNCHANGED <<session, abandoned, counters, market, expired, relays, replacements, hint, clicks, overlooked>>

\* The form polls; once the publication is there it clears what is stored.
publicationQuery(t) ==
    /\ form[t].ui = "provider_processing" /\ market[form[t].job].state = "published"
    /\ clearLivepeerUploadDraft(t) /\ clearLivepeerJobSessionKey(t, form[t].job)
    /\ form' = [form EXCEPT ![t].ui = moveUploadStage(t, "published")]
    /\ UNCHANGED <<bookmark, abandoned, counters, market, expired, relays, replacements, uploads, hint, clicks>>

locked(j) == \E u \in Tabs : form[u].job = j /\ form[u].op \in {"replacing", "replaced", "reopening"}

\* A resumption holds the browser's lock for the job.  Without the registered key the tab makes a
\* new one, unless another replacement may still be under way.
prepareLivepeerUploadResume(t) ==
    /\ Clicks
    /\ form[t].op = "idle" /\ form[t].resumable /\ form[t].job # 0 /\ form[t].ui \notin Uploaded
    /\ LET j == form[t].job
           refuse == UNCHANGED <<form, session, draft, keys, overlooked>>
       IN IF locked(j) \/ draft.job # j \/ draft.file # form[t].file \/ market[j].state = "none"
          THEN refuse
          ELSE IF market[j].state = "published"
          THEN /\ form' = [form EXCEPT ![t].ui = "published", ![t].resumable = FALSE]
               /\ clearLivepeerUploadDraft(t) /\ clearLivepeerJobSessionKey(t, j) /\ UNCHANGED keys
          ELSE IF j \in expired \/ market[j].size # SizeOf[form[t].file] THEN refuse
          ELSE IF session[t][j] = market[j].key
          THEN /\ draft' = [draft EXCEPT !.keyReplacementPending = FALSE]
               /\ Enters(t, "reopening") /\ UNCHANGED <<session, keys, overlooked>>
          ELSE IF draft.keyReplacementPending /\ draft.fingerprint # market[j].key THEN refuse
          ELSE /\ keys < MaxKeys /\ keys' = keys + 1
               /\ persistLivepeerJobSessionKey(t, j, keys + 1)
               /\ draft' = [draft EXCEPT !.keyReplacementPending = TRUE, !.fingerprint = keys + 1]
               /\ Enters(t, "replacing") /\ UNCHANGED overlooked
    /\ UNCHANGED <<bookmark, abandoned, jobs, market, expired, relays, replacements, uploads, hint>>

\* The wallet sends the replacement or the creator rejects it.
replaceUploadKey(t) ==
    /\ form[t].op = "replacing"
    /\ LET j == form[t].job IN
       \/ /\ replacements' = replacements \cup {[job |-> j, key |-> session[t][j]]}
          /\ Enters(t, "replaced") /\ UNCHANGED <<draft, session>>
       \/ /\ draft' = IF draft.job = j THEN [draft EXCEPT !.keyReplacementPending = FALSE] ELSE draft
          /\ IF draft.job = j THEN clearLivepeerJobSessionKey(t, j) ELSE UNCHANGED session
          /\ Enters(t, "idle") /\ UNCHANGED replacements
    /\ UNCHANGED <<bookmark, abandoned, counters, market, expired, relays, uploads, hint, clicks, overlooked>>

\* The tab has waited for its key: it goes on, or leaves the replacement pending.
keyReplaced(t) ==
    /\ form[t].op = "replaced"
    /\ LET j == form[t].job IN
       IF market[j].key = session[t][j] /\ j \notin expired /\ draft.job = j
       THEN draft' = [draft EXCEPT !.keyReplacementPending = FALSE] /\ Enters(t, "reopening")
       ELSE UNCHANGED draft /\ Enters(t, "idle")
    /\ UNCHANGED <<session, bookmark, abandoned, counters, world>>

\* Cancelling keeps the provider from creating an asset; the fee is not returned.
cancelLivepeerUpload(t) ==
    /\ Clicks
    /\ form[t].op = "idle" /\ form[t].job # 0 /\ form[t].ui = "authorized"
    /\ LET j == form[t].job IN
       /\ mayUpload(t, j) /\ uploads[j] = "none"
       /\ uploads' = [uploads EXCEPT ![j] = "cancelled"]
       /\ clearLivepeerJobSessionKey(t, j) /\ clearLivepeerUploadDraft(t)
       /\ form' = [form EXCEPT ![t].job = 0, ![t].payable = FALSE, ![t].ui = "draft"]
    /\ UNCHANGED <<bookmark, abandoned, counters, market, expired, relays, replacements, hint>>

\* The creator gives a job up: this browser no longer treats it as pending.
abandonLivepeerUploadJob(t, j) ==
    /\ Clicks
    /\ form[t].op = "idle"
    /\ \/ j = form[t].shown
       \/ j = form[t].job /\ form[t].resumable
       \/ j = form[t].tracked /\ form[t].job = 0 /\ readPendingLivepeerUpload(j)
    /\ abandoned' = abandoned \cup {j}
    /\ draft' = IF draft.job = j THEN NoDraft ELSE draft
    /\ bookmark' = IF bookmark = j THEN 0 ELSE bookmark
    /\ clearLivepeerJobSessionKey(t, j)
    /\ form' = [form EXCEPT ![t] = IF @.job = j
         THEN [@ EXCEPT !.shown = 0, !.tracked = 0, !.resumable = FALSE, !.job = 0, !.payable = FALSE, !.ui = "draft"]
         ELSE [@ EXCEPT !.shown = 0, !.tracked = 0, !.resumable = FALSE]]
    /\ UNCHANGED <<counters, unclicked>>

-----------------------------------------------------------------------------
(* The chain and the bridge. *)

\* A payment reaches the market: a job that exists is not created twice, and its payment goes
\* back.  The bridge notes the creator's job if it can.
create_paid_job(r) ==
    /\ relays' = relays \ {r}
    /\ IF market[r.job].state = "none"
       THEN /\ market' = [market EXCEPT ![r.job] = [state |-> "authorized", key |-> r.key, size |-> r.size]]
            /\ hint' \in {hint, r.job}
       ELSE UNCHANGED <<market, hint>>
    /\ UNCHANGED <<form, session, storage, counters, expired, replacements, uploads, clicks, overlooked>>

\* A payment expires before it is sent on.
relayLost(r) ==
    /\ relays' = relays \ {r}
    /\ UNCHANGED <<form, session, storage, counters, market, expired, replacements, uploads, hint, clicks, overlooked>>

replace_upload_key(r) ==
    /\ replacements' = replacements \ {r}
    /\ market' = IF market[r.job].state = "authorized" THEN [market EXCEPT ![r.job].key = r.key] ELSE market
    /\ UNCHANGED <<form, session, storage, counters, expired, relays, uploads, hint, clicks, overlooked>>

finalize_publication(j) ==
    /\ market[j].state = "authorized" /\ uploads[j] = "done" /\ j \notin expired
    /\ market' = [market EXCEPT ![j].state = "published"]
    /\ UNCHANGED <<form, session, storage, counters, expired, relays, replacements, uploads, hint, clicks, overlooked>>

deadlinePasses(j) ==
    /\ market[j].state = "authorized" /\ expired' = expired \cup {j}
    /\ UNCHANGED <<form, session, storage, counters, market, relays, replacements, uploads, hint, clicks, overlooked>>

-----------------------------------------------------------------------------
ClientInit ==
    /\ form = [t \in Tabs |-> Blank]
    /\ session = [t \in Tabs |-> [j \in Jobs |-> 0]]
    /\ draft = NoDraft /\ bookmark = 0 /\ abandoned = {}
    /\ market = [j \in Jobs |-> [state |-> "none", key |-> 0, size |-> 0]]
    /\ expired = {} /\ relays = {} /\ replacements = {}
    /\ uploads = [j \in Jobs |-> "none"] /\ hint = 0
    /\ jobs = 0 /\ keys = 0 /\ clicks = 0 /\ overlooked = FALSE

Pays(t) ==
    \/ preparePayment(t) \/ writesDraft(t) \/ prepareFails(t)
    \/ start(t) \/ authorizeLivepeerPaidJob(t) \/ signsSponsoredUpload(t)
    \/ submitSponsoredUploadRelay(t) \/ relayAnswered(t) \/ paymentFails(t)
    \/ reconcilePaidJob(t) \/ waitForAuthorizedLivepeerJob(t)
UploadOps(t) ==
    \/ requestLivepeerUploadIntent(t) \/ uploadLivepeerSource(t) \/ publicationQuery(t)
    \/ prepareLivepeerUploadResume(t) \/ replaceUploadKey(t) \/ keyReplaced(t)
    \/ cancelLivepeerUpload(t) \/ \E j \in Jobs : abandonLivepeerUploadJob(t, j)
ClientNext ==
    \/ \E t \in Tabs :
         \/ \E keep \in BOOLEAN : openForm(t, keep)
         \/ LivepeerUploadStatus(t)
         \/ \E f \in Files : selectFile(t, f)
         \/ matchPendingLivepeerUpload(t) \/ matchFails(t)
         \/ Pays(t) \/ UploadOps(t)
    \/ \E r \in relays : create_paid_job(r) \/ relayLost(r)
    \/ \E r \in replacements : replace_upload_key(r)
    \/ \E j \in Jobs : finalize_publication(j) \/ deadlinePasses(j)

-----------------------------------------------------------------------------
Operations == {"idle", "matching", "looking", "authorizing", "quoting", "signing",
               "relaying", "failing", "waiting", "asking", "reopening", "transferring",
               "replacing", "replaced"}
ClientTypeOK ==
    /\ \A t \in Tabs : form[t].op \in Operations /\ form[t].job \in 0..jobs
    /\ session \in [Tabs -> [Jobs -> 0..keys]]
    /\ draft.job \in 0..jobs /\ draft.stage \in 0..4 /\ bookmark \in 0..jobs /\ abandoned \subseteq 1..jobs

\* The moves of the form are moves of the stage table, in whatever order tabs, answers and
\* clicks come.
StagesValid == \A t \in Tabs : form[t].ui # "thrown"

\* Two fees are spent at once only if a payment under way was overlooked: a lookup asked the chain
\* before the payment was there, or one tab's rejection cleared the mark of what another tab had sent or paid.
OneFeeAtATime ==
    \A j, k \in Jobs :
        j # k /\ readPendingLivepeerUpload(j) /\ readPendingLivepeerUpload(k) => overlooked

\* A job that is paid and can still be uploaded is found again, whatever the tabs are at.
PaidJobFound ==
    \A j \in Jobs :
        readPendingLivepeerUpload(j) /\ uploads[j] # "cancelled" /\ ~overlooked
            => findPendingLivepeerUpload(localJob) = j

ClientSafe == ClientTypeOK /\ StagesValid /\ OneFeeAtATime /\ PaidJobFound
=============================================================================
