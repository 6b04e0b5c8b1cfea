--------------------------- MODULE OperatorOutbox ---------------------------
(***************************************************************************)
(* The NEAR operator outbox of the Livepeer bridge: one Durable Object per *)
(* operator key that turns requests (finalize a publication, suspend its   *)
(* sales, mark a ticket watched, release expired tickets) into signed      *)
(* transactions, reconciles them with the chain and archives the confirmed *)
(* records.  The object chains its requests and its alarm on one promise   *)
(* (operatorTail), so one request is served at a time; between two awaits  *)
(* the object may die, and the chain moves on its own.                     *)
(***************************************************************************)
EXTENDS Integers, FiniteSets

CONSTANTS
    Requests,       \* idempotency keys, numbered in the order storage lists them
    Mixes,          \* what the keys may ask for: functions from Requests to methods
    LegacyMixes,    \* those in whose deployment records of the first contract version are left
    Payloads,       \* payload hashes a finalization may come with
    MaxNonce,       \* bound: nonces the object may reserve
    MaxFaults,      \* bound: lost replies, failed executions, crashes
    ScanBatch       \* OPERATOR_ARCHIVE_SCAN_BATCH

ASSUME RequestsAssumption == IsFiniteSet(Requests) /\ Requests \subseteq Nat \ {0}
ASSUME MixesAssumption ==
    Mixes \subseteq [Requests -> {"finalize", "suspend", "mark_watched", "release"}]
ASSUME OutboxBoundsAssumption == MaxNonce \in Nat \ {0} /\ MaxFaults \in Nat /\ ScanBatch \in Nat \ {0}

NoTx == [req |-> 0, payload |-> 0, nonce |-> 0, legacy |-> FALSE]

NoRecord == [state |-> "NONE", legacy |-> FALSE, payload |-> 0, nonce |-> 0,
             signed |-> FALSE, tx |-> NoTx, archive |-> "NONE"]

\* No scan, or a scan that stands after a key and may have met a retry that is not due.
NoScan == [active |-> FALSE, after |-> 0, retry |-> FALSE]

Idle == [pc |-> "idle", req |-> 0, payload |-> 0, reply |-> "none"]

VARIABLES
    method,         \* what each key asks for, fixed
    publicTestnet,  \* the deployment: public testnet never sends a record twice
    outbox,         \* storage: outbox:<key>
    lastNonce,      \* storage: operator:last-nonce
    scan,           \* storage: the archive scan
    archived,       \* D1: the transaction archived for each key, or the key is absent
    handler,        \* the request or alarm being served
    fact,           \* chain: what the contract says of each request
    published,      \* chain: the payload a finalization was executed with
    chainNonce,     \* chain: the nonce of the operator's access key
    pool,           \* chain: transactions received and not executed yet
    outcome,        \* chain: transactions executed, with their result
    sends,          \* history: how often each key was sent, capped at 2
    missed,         \* history: keys confirmed behind the cursor of a running scan, or just
                    \* before the object died
    outboxFaults

outboxVars == <<method, publicTestnet, outbox, lastNonce, scan, archived, handler, fact, published,
                chainNonce, pool, outcome, sends, missed, outboxFaults>>
fixedVars == <<method, publicTestnet>>
chainVars == <<fact, published, chainNonce, pool, outcome>>
storeVars == <<outbox, lastNonce, scan, archived>>

-----------------------------------------------------------------------------
Ephemeral(r) == method[r] \in {"mark_watched", "release"}

payloads(r) == IF method[r] = "finalize" THEN Payloads ELSE {0}

(* The chain, as the bridge uses it. *)

Executed(tx, result) == [tx |-> tx, result |-> result] \in outcome

\* A transaction is executed once, in nonce order; the contract may refuse it.
executes(tx) ==
    /\ tx \in pool
    /\ pool' = pool \ {tx}
    /\ IF tx.nonce <= chainNonce
       THEN UNCHANGED <<fact, published, chainNonce, outcome, outboxFaults>>
       ELSE /\ chainNonce' = tx.nonce
            /\ \/ /\ fact[tx.req] = "open" /\ ~tx.legacy
                  /\ fact' = [fact EXCEPT ![tx.req] = "done"]
                  /\ published' = [published EXCEPT ![tx.req] = tx.payload]
                  /\ outcome' = outcome \cup {[tx |-> tx, result |-> "ok"]}
                  /\ UNCHANGED outboxFaults
               \/ /\ fact[tx.req] # "open" \/ tx.legacy \/ outboxFaults < MaxFaults
                  /\ outcome' = outcome \cup {[tx |-> tx, result |-> "failed"]}
                  /\ outboxFaults' = IF fact[tx.req] = "open" /\ ~tx.legacy
                                     THEN outboxFaults + 1 ELSE outboxFaults
                  /\ UNCHANGED <<fact, published>>
    /\ UNCHANGED <<fixedVars, outbox, lastNonce, scan, archived, handler, sends, missed>>

\* Somebody else changes what the contract says: a ticket is refunded or its publication taken
\* down, or the object of another operator key settles the request first.
elsewhere(r) ==
    /\ fact[r] = "open"
    /\ \/ Ephemeral(r) /\ fact' = [fact EXCEPT ![r] = "gone"] /\ UNCHANGED published
       \/ \E p \in payloads(r) : /\ fact' = [fact EXCEPT ![r] = "done"]
                                 /\ published' = [published EXCEPT ![r] = p]
    /\ UNCHANGED <<fixedVars, chainNonce, pool, outcome, storeVars, handler, sends, missed, outboxFaults>>

\* What the node answers for a transaction: final results, a nonce already used, or nothing known.
classifyNearError(tx) ==
    IF Executed(tx, "ok") THEN {"sent"}
    ELSE IF Executed(tx, "failed") THEN {"failed"}
    ELSE IF tx.nonce <= chainNonce THEN {"invalid_nonce", "unknown"}
    ELSE {"unknown"}

-----------------------------------------------------------------------------
(* The confirmation each request reads from final chain state. *)

isConfirmed(r) ==
    \/ fact[r] = "done"
    \/ method[r] = "release" /\ fact[r] = "gone"

finalPublicationMismatch(r, p) ==
    method[r] = "finalize" /\ fact[r] = "done" /\ published[r] # p

\* Mutant: a record whose nonce was used by another keeps its transaction.
transaction_kept(rec) == rec

clearSignedTransaction(rec) ==
    [rec EXCEPT !.state = "PENDING", !.nonce = 0, !.signed = FALSE, !.tx = NoTx]

confirmOperatorRecord(rec) ==
    [rec EXCEPT !.state = "CONFIRMED", !.nonce = 0, !.signed = FALSE,
                !.archive = IF rec.archive = "NONE" THEN "PENDING" ELSE rec.archive]

Done == handler' = Idle

\* Ephemeral records are deleted; the others stay as CONFIRMED and are queued for the archive.
persistConfirmedOperatorRecord(r) ==
    IF Ephemeral(r)
    THEN /\ outbox' = [outbox EXCEPT ![r] = NoRecord]
         /\ Done
         /\ UNCHANGED missed
    ELSE /\ outbox' = [outbox EXCEPT ![r] = confirmOperatorRecord(@)]
         /\ handler' = [handler EXCEPT !.pc = "queue_archive"]
         /\ missed' = IF scan.active /\ scan.after >= r THEN missed \cup {r} ELSE missed

\* persistConfirmedOperatorRecord, its second write: a scan is started unless one runs.
queue_archive ==
    /\ handler.pc = "queue_archive"
    /\ scan' = IF scan.active \/ outbox[handler.req].archive = "COMMITTED" THEN scan
               ELSE [NoScan EXCEPT !.active = TRUE]
    /\ Done
    /\ UNCHANGED <<fixedVars, outbox, lastNonce, archived, chainVars, sends, missed, outboxFaults>>

-----------------------------------------------------------------------------
(* One request. *)

conflict(r, p) ==
    /\ outbox[r] # NoRecord
    /\ \/ outbox[r].payload # p
       \/ outbox[r].legacy /\ outbox[r].state # "CONFIRMED" /\ method[r] # "suspend"

\* The record the first transaction of processOperatorOutbox leaves behind.
opened(r, p) ==
    IF outbox[r] = NoRecord
    THEN [NoRecord EXCEPT !.state = "PENDING", !.payload = p]
    ELSE IF outbox[r].legacy
         THEN [clearSignedTransaction(outbox[r]) EXCEPT !.legacy = FALSE]
         ELSE outbox[r]

processOperatorOutbox(r, p) ==
    /\ handler = Idle
    /\ Ephemeral(r) => ~isConfirmed(r)
    /\ ~conflict(r, p)
    /\ ~(outbox[r].legacy /\ outbox[r].state = "CONFIRMED")
    /\ outbox' = [outbox EXCEPT ![r] = opened(r, p)]
    /\ handler' = [pc |-> "confirm", req |-> r, payload |-> p, reply |-> "none"]
    /\ UNCHANGED <<fixedVars, lastNonce, scan, archived, chainVars, sends, missed, outboxFaults>>

\* A failed transaction: the release batch and a ticket still purchased are dropped, so that the
\* next request signs afresh; the other records are kept.
drops_failed(r) ==
    \/ method[r] = "release"
    \/ method[r] = "mark_watched" /\ fact[r] = "open"

near_finalize_failed(r) ==
    /\ outbox' = IF drops_failed(r) THEN [outbox EXCEPT ![r] = NoRecord] ELSE outbox
    /\ Done
    /\ UNCHANGED missed

goto(step) == handler' = [handler EXCEPT !.pc = step]

next_step(rec) ==
    IF rec.state = "BROADCAST" THEN IF publicTestnet THEN "poll" ELSE "status" ELSE "mutate"

confirm ==
    /\ handler.pc = "confirm"
    /\ LET r == handler.req IN
       \/ /\ finalPublicationMismatch(r, handler.payload)
          /\ Done
          /\ UNCHANGED <<outbox, missed>>
       \/ /\ isConfirmed(r) /\ ~finalPublicationMismatch(r, handler.payload)
          /\ persistConfirmedOperatorRecord(r)
       \/ /\ ~isConfirmed(r)
          /\ goto(next_step(outbox[r]))
          /\ UNCHANGED <<outbox, missed>>
    /\ UNCHANGED <<fixedVars, lastNonce, scan, archived, chainVars, sends, outboxFaults>>

\* A broadcast record outside public testnet: its transaction is looked up, then confirmed,
\* failed, signed anew (its nonce is used up) or sent again.
queryTransaction ==
    /\ handler.pc = "status"
    /\ LET r == handler.req IN
       \E reply \in classifyNearError(outbox[r].tx) :
          IF finalPublicationMismatch(r, handler.payload) THEN Done /\ UNCHANGED <<outbox, missed>>
          ELSE IF isConfirmed(r) THEN persistConfirmedOperatorRecord(r)
          ELSE IF reply = "failed" THEN near_finalize_failed(r)
          ELSE /\ goto("mutate")
               /\ outbox' = IF reply = "invalid_nonce"
                            THEN [outbox EXCEPT ![r] = clearSignedTransaction(@)] ELSE outbox
               /\ UNCHANGED missed
    /\ UNCHANGED <<fixedVars, lastNonce, scan, archived, chainVars, sends, outboxFaults>>

\* Public testnet: a broadcast record is only ever read again.
pollOperatorFinality ==
    /\ handler.pc = "poll"
    /\ LET r == handler.req IN
       \E reply \in classifyNearError(outbox[r].tx) :
          IF isConfirmed(r) /\ ~finalPublicationMismatch(r, handler.payload)
          THEN persistConfirmedOperatorRecord(r)
          ELSE IF reply \in {"failed", "invalid_nonce"} THEN near_finalize_failed(r)
          ELSE Done /\ UNCHANGED <<outbox, missed>>
    /\ UNCHANGED <<fixedVars, lastNonce, scan, archived, chainVars, sends, outboxFaults>>

smaller(a, b) == IF a < b THEN a ELSE b
larger(a, b) == IF a > b THEN a ELSE b

\* Mutant: the stored nonce is not looked at.
nonce_of_chain == chainNonce + 1
next_nonce == larger(lastNonce, chainNonce) + 1

\* A record without a nonce takes the one after the larger of the stored and the chain's nonce.
reserve_nonce ==
    /\ handler.pc = "mutate"
    /\ ~outbox[handler.req].signed
    /\ outbox[handler.req].nonce = 0
    /\ LET n == next_nonce IN
       /\ n <= MaxNonce
       /\ lastNonce' = n
       /\ outbox' = [outbox EXCEPT ![handler.req].state = "RESERVED", ![handler.req].nonce = n]
    /\ UNCHANGED <<fixedVars, scan, archived, handler, chainVars, sends, missed, outboxFaults>>

signTransaction ==
    /\ handler.pc = "mutate"
    /\ ~outbox[handler.req].signed
    /\ outbox[handler.req].nonce # 0
    /\ LET r == handler.req IN
       outbox' = [outbox EXCEPT ![r].state = "SIGNED", ![r].signed = TRUE,
                    ![r].tx = [req |-> r, payload |-> outbox[r].payload, nonce |-> outbox[r].nonce, legacy |-> FALSE]]
    /\ UNCHANGED <<fixedVars, lastNonce, scan, archived, handler, chainVars, sends, missed, outboxFaults>>

\* Public testnet stores BROADCAST before it sends: a lost reply is read, never sent again.
mark_before_send ==
    /\ handler.pc = "mutate"
    /\ outbox[handler.req].signed
    /\ outbox' = IF publicTestnet THEN [outbox EXCEPT ![handler.req].state = "BROADCAST"] ELSE outbox
    /\ goto("send")
    /\ UNCHANGED <<fixedVars, lastNonce, scan, archived, chainVars, sends, missed, outboxFaults>>

\* The node takes the transaction, refuses its nonce, or the request is lost on the way.
sendTransaction ==
    /\ handler.pc = "send"
    /\ LET tx == outbox[handler.req].tx IN
       /\ \/ /\ \/ Executed(tx, "ok") \/ Executed(tx, "failed") \/ tx.nonce > chainNonce
             /\ pool' = IF tx.nonce > chainNonce THEN pool \cup {tx} ELSE pool
             /\ goto("await")
             /\ UNCHANGED outboxFaults
          \/ /\ tx.nonce <= chainNonce
             /\ handler' = [handler EXCEPT !.pc = "sent", !.reply = "invalid_nonce"]
             /\ UNCHANGED <<pool, outboxFaults>>
          \/ /\ outboxFaults < MaxFaults
             /\ outboxFaults' = outboxFaults + 1
             /\ handler' = [handler EXCEPT !.pc = "sent", !.reply = "unknown"]
             /\ UNCHANGED pool
       /\ sends' = [sends EXCEPT ![handler.req] = smaller(@ + 1, 2)]
    /\ UNCHANGED <<fixedVars, storeVars, fact, published, chainNonce, outcome, missed>>

\* send_tx waits for the final result; the reply may also be lost after the node took it.
send_reply ==
    /\ handler.pc = "await"
    /\ \/ \E reply \in classifyNearError(outbox[handler.req].tx) \ {"unknown"} :
             /\ handler' = [handler EXCEPT !.pc = "sent", !.reply = reply]
             /\ UNCHANGED outboxFaults
       \/ /\ outboxFaults < MaxFaults
          /\ outboxFaults' = outboxFaults + 1
          /\ handler' = [handler EXCEPT !.pc = "sent", !.reply = "unknown"]
    /\ UNCHANGED <<fixedVars, storeVars, chainVars, sends, missed>>

\* BROADCAST is stored, the confirmation is read, and the reply decides what is left of the record.
after_send ==
    /\ handler.pc = "sent"
    /\ LET r == handler.req
           rec == [outbox[r] EXCEPT !.state = "BROADCAST"] IN
       IF isConfirmed(r) /\ ~finalPublicationMismatch(r, handler.payload)
       THEN persistConfirmedOperatorRecord(r)
       ELSE /\ UNCHANGED missed
            /\ IF finalPublicationMismatch(r, handler.payload)
               THEN outbox' = [outbox EXCEPT ![r] = rec] /\ Done
               ELSE IF \/ handler.reply = "failed"
                       \/ publicTestnet /\ handler.reply = "invalid_nonce"
               THEN /\ outbox' = [outbox EXCEPT ![r] = IF drops_failed(r) THEN NoRecord ELSE rec]
                    /\ Done
               ELSE IF publicTestnet
                    THEN /\ outbox' = [outbox EXCEPT ![r] = rec]
                         /\ goto("poll")
                    ELSE /\ outbox' = [outbox EXCEPT ![r] =
                                IF handler.reply = "invalid_nonce" THEN clearSignedTransaction(rec) ELSE rec]
                         /\ Done
    /\ UNCHANGED <<fixedVars, lastNonce, scan, archived, chainVars, sends, outboxFaults>>

\* A chain read fails (near_finalize_pending), the mutation switch is off, or the object dies:
\* what is stored stays.
interrupted ==
    /\ handler # Idle
    /\ outboxFaults < MaxFaults
    /\ outboxFaults' = outboxFaults + 1
    /\ missed' = IF handler.pc = "queue_archive" /\ ~scan.active THEN missed \cup {handler.req} ELSE missed
    /\ Done
    /\ UNCHANGED <<fixedVars, storeVars, chainVars, sends>>

-----------------------------------------------------------------------------
(* The alarm: the archive scan. *)

Uncommitted(r) == outbox[r].state = "CONFIRMED" /\ outbox[r].archive # "COMMITTED"

\* The records one alarm looks at: the first ScanBatch keys after the cursor.
listed == {r \in Requests : /\ outbox[r] # NoRecord
                            /\ r > scan.after
                            /\ Cardinality({q \in Requests : outbox[q] # NoRecord /\ q > scan.after /\ q <= r})
                                  <= ScanBatch}

due(r) == Uncommitted(r) /\ outbox[r].archive # "RETRY"

\* advanceOperatorArchiveScan up to advanceOperatorArchive: the first due record of the batch is
\* written to D1 (insert or keep, then read back).
archive_commit ==
    /\ handler = Idle
    /\ scan.active
    /\ ~(scan.after = 0 /\ scan.retry)
    /\ \E r \in listed :
       /\ due(r) /\ \A q \in listed : due(q) => r <= q
       /\ \/ /\ archived' = IF archived[r] = NoRecord THEN [archived EXCEPT ![r] = outbox[r]] ELSE archived
             /\ handler' = [Idle EXCEPT !.pc = "archive_store", !.req = r,
                                !.reply = IF archived[r] = NoRecord \/ archived[r].tx = outbox[r].tx
                                          THEN "COMMITTED" ELSE "RETRY"]
             /\ UNCHANGED outboxFaults
          \/ /\ outboxFaults < MaxFaults
             /\ outboxFaults' = outboxFaults + 1
             /\ handler' = [Idle EXCEPT !.pc = "archive_store", !.req = r, !.reply = "RETRY"]
             /\ UNCHANGED archived
    /\ UNCHANGED <<fixedVars, outbox, lastNonce, scan, chainVars, sends, missed>>

met_retry(upto) ==
    \/ scan.after # 0 /\ scan.retry
    \/ \E r \in listed : r <= upto /\ outbox[r].state = "CONFIRMED" /\ outbox[r].archive = "RETRY"

archive_store ==
    /\ handler.pc = "archive_store"
    /\ LET r == handler.req IN
       /\ outbox' = [outbox EXCEPT ![r].archive = handler.reply]
       /\ scan' = [active |-> TRUE, after |-> r, retry |-> handler.reply = "RETRY" \/ met_retry(r)]
    /\ Done
    /\ UNCHANGED <<fixedVars, lastNonce, archived, chainVars, sends, missed, outboxFaults>>

\* Nothing due in the batch: the cursor moves on, the scan starts over when the earliest retry is
\* due, or it ends.
scan_on ==
    /\ handler = Idle
    /\ scan.active
    /\ ~(scan.after = 0 /\ scan.retry)
    /\ ~\E r \in listed : due(r)
    /\ LET last == CHOOSE r \in listed : \A q \in listed : q <= r
           retry == IF listed = {} THEN scan.retry ELSE met_retry(last) IN
       scan' = IF Cardinality(listed) = ScanBatch
               THEN [active |-> TRUE, after |-> last, retry |-> retry]
               ELSE IF retry THEN [active |-> TRUE, after |-> 0, retry |-> TRUE]
               ELSE NoScan
    /\ UNCHANGED <<fixedVars, outbox, lastNonce, archived, handler, chainVars, sends, missed, outboxFaults>>

\* The backoff of a failed archive elapses.
retry_due ==
    /\ \/ \E r \in Requests : outbox[r].archive = "RETRY"
       \/ scan.after = 0 /\ scan.retry
    /\ handler = Idle
    /\ outbox' = [r \in Requests |-> IF outbox[r].archive = "RETRY"
                                     THEN [outbox[r] EXCEPT !.archive = "PENDING"] ELSE outbox[r]]
    /\ scan' = IF scan.after = 0 THEN [scan EXCEPT !.retry = FALSE] ELSE scan
    /\ UNCHANGED <<fixedVars, lastNonce, archived, handler, chainVars, sends, missed, outboxFaults>>

\* The operator's route: one uncommitted record, no scan, and no record the route cannot read
\* (the settlements of tickets count as invalid there).
startOperatorOutboxArchiveScan ==
    /\ ~scan.active
    /\ \A r \in Requests : outbox[r] # NoRecord => ~Ephemeral(r)
    /\ Cardinality({r \in Requests : Uncommitted(r)}) = 1
    /\ \E r \in Requests : due(r)
    /\ scan' = [NoScan EXCEPT !.active = TRUE]
    /\ UNCHANGED <<fixedVars, outbox, lastNonce, archived, handler, chainVars, sends, missed, outboxFaults>>

-----------------------------------------------------------------------------

\* A record a V1 deployment left behind: confirmed, or broadcast under the old method name.
LegacyRecord(r, p, st) ==
    [state |-> st, legacy |-> TRUE, payload |-> p, nonce |-> IF st = "BROADCAST" THEN 1 ELSE 0,
     signed |-> st = "BROADCAST",
     tx |-> [req |-> r, payload |-> p, nonce |-> 1, legacy |-> TRUE],
     archive |-> IF st = "BROADCAST" THEN "NONE" ELSE "COMMITTED"]

FreshStart ==
    /\ outbox = [r \in Requests |-> NoRecord]
    /\ lastNonce = 0 /\ chainNonce = 0
    /\ fact = [r \in Requests |-> "open"]
    /\ pool = {}

LegacyStart ==
    \E r \in Requests, st \in {"BROADCAST", "CONFIRMED"} :
        /\ method \in LegacyMixes /\ ~publicTestnet /\ ~Ephemeral(r)
        /\ \E p \in payloads(r) :
              outbox = [q \in Requests |-> IF q = r THEN LegacyRecord(r, p, st) ELSE NoRecord]
        /\ lastNonce = 1
        /\ chainNonce = IF st = "CONFIRMED" THEN 1 ELSE 0
        /\ fact = [q \in Requests |-> IF q = r /\ st = "CONFIRMED" THEN "done" ELSE "open"]
        /\ pool = IF st = "BROADCAST" THEN {outbox[r].tx} ELSE {}

OutboxInit ==
    /\ method \in Mixes
    /\ publicTestnet \in BOOLEAN
    /\ FreshStart \/ LegacyStart
    /\ published = [r \in Requests |-> outbox[r].payload]
    /\ scan = NoScan
    /\ archived = [r \in Requests |-> NoRecord]
    /\ handler = Idle
    /\ outcome = {}
    /\ sends = [r \in Requests |-> 0]
    /\ missed = {}
    /\ outboxFaults = 0

Request(r) == \E p \in payloads(r) : processOperatorOutbox(r, p)

Serve == \/ confirm \/ queryTransaction \/ pollOperatorFinality \/ reserve_nonce \/ signTransaction
         \/ mark_before_send \/ sendTransaction \/ send_reply \/ after_send \/ queue_archive
Alarm == archive_commit \/ archive_store \/ scan_on \/ retry_due

OutboxNext ==
    \/ \E r \in Requests : Request(r) \/ elsewhere(r)
    \/ Serve \/ Alarm \/ interrupted \/ startOperatorOutboxArchiveScan
    \/ \E tx \in pool : executes(tx)

-----------------------------------------------------------------------------
OutboxStates == {"NONE", "PENDING", "RESERVED", "SIGNED", "BROADCAST", "CONFIRMED"}
Txs == [req : Requests \cup {0}, payload : Payloads \cup {0}, nonce : 0..MaxNonce, legacy : BOOLEAN]

\* Type invariant of the operator object, the queue it serves and the chain it talks to.
OutboxTypeOK ==
    /\ outbox \in [Requests -> [state : OutboxStates, legacy : BOOLEAN, payload : Payloads \cup {0},
                                nonce : 0..MaxNonce, signed : BOOLEAN, tx : Txs,
                                archive : {"NONE", "PENDING", "RETRY", "COMMITTED"}]]
    /\ lastNonce \in 0..MaxNonce /\ chainNonce \in 0..MaxNonce
    /\ scan \in [active : BOOLEAN, after : Requests \cup {0}, retry : BOOLEAN]
    /\ fact \in [Requests -> {"open", "gone", "done"}]
    /\ pool \subseteq Txs
    /\ outboxFaults \in 0..MaxFaults

Sent == pool \cup {o.tx : o \in outcome}
Stored == {outbox[r].tx : r \in Requests} \ {NoTx}

\* No nonce is ever spent on two different transactions, across crashes between reserving,
\* signing and sending, dropped records and nonces cleared and reserved anew
\* (processOperatorOutbox reserves past operator:last-nonce).
OneTransactionPerNonce ==
    \A a, b \in Sent \cup Stored : a.nonce = b.nonce => a = b

\* A transaction the outbox has forgotten (cleared, dropped with its record) and that could still
\* be executed can only fail: it bears a V1 method name, or what it asks for is settled.
ForgottenIsHarmless ==
    \A tx \in pool :
        (outbox[tx.req].tx # tx /\ tx.nonce > chainNonce) => tx.legacy \/ fact[tx.req] # "open"

\* On public testnet a record that is kept is sent at most once, whatever reply was lost.
PublicSendsOnce ==
    publicTestnet => \A r \in Requests : ~Ephemeral(r) => sends[r] <= 1

\* A record says CONFIRMED only of what final chain state shows, and a finalization only of the
\* payload it was asked for.
ConfirmedOnChain ==
    \A r \in Requests : outbox[r].state = "CONFIRMED" =>
        isConfirmed(r) /\ ~finalPublicationMismatch(r, outbox[r].payload)

\* The archive row of a key and its record name the same transaction, also when the object died
\* between the D1 commit and the record's COMMITTED mark and the commit was repeated.
ArchiveAgrees ==
    \A r \in Requests : archived[r] # NoRecord =>
        outbox[r].state = "CONFIRMED" /\ outbox[r].tx = archived[r].tx

\* A scan that ends leaves behind only records confirmed behind its cursor or just before a
\* crash; every other confirmed record is archived, retries included.
ScanReachesAll ==
    (~scan.active /\ handler.pc # "queue_archive") =>
        \A r \in Requests : Uncommitted(r) => r \in missed

\* Outside public testnet a record does not stay open for ever: it is confirmed, dropped, settled
\* on chain, or its transaction has failed, also after its nonce was used by another record.
OutboxSettles ==
    \A r \in Requests :
        (~publicTestnet /\ outbox[r].state \in {"PENDING", "RESERVED", "SIGNED", "BROADCAST"}) ~>
            \/ outbox[r].state \in {"NONE", "CONFIRMED"}
            \/ outbox[r].legacy
            \/ fact[r] # "open"
            \/ Executed(outbox[r].tx, "failed")

\* The outbox keeps its promises: nonces, forgotten transactions, the single public send, the
\* records and their archive, all of them across crashes of the object.
OutboxSafe ==
    /\ OutboxTypeOK
    /\ OneTransactionPerNonce /\ ForgottenIsHarmless /\ PublicSendsOnce
    /\ ConfirmedOnChain /\ ArchiveAgrees /\ ScanReachesAll
=============================================================================
