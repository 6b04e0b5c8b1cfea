------------------------------ MODULE Relayer ------------------------------
(***************************************************************************)
(* The relayer's single Durable Object (workers/relayer/src/control.ts):   *)
(* it opens accounts, asks for CKD keys, pays invite credits, relays       *)
(* approved delegates and links devices, all through one transaction       *)
(* outbox (`submit`) that owns the nonces of the relayer's NEAR key.       *)
(*                                                                         *)
(* Two requests and the alarm interleave at every await.  Only the outbox  *)
(* is serialised, by `withLock`; storage transactions of the operations    *)
(* are not, so they may run while another handler holds the lock and waits *)
(* for an RPC.  A behaviour follows one operation (`kind`): an account, a  *)
(* CKD nonce, an invite code two identities ask for, a purchase (uploads   *)
(* and upload keys are relayed by the same code), or a device link.        *)
(*                                                                         *)
(* Time is counted in ticks: RESEND_AFTER is one, LANDING_WINDOW two (the  *)
(* `age` of a record stops there); they pass while handlers sleep between  *)
(* polls or wait for the lock, which is held for less than a tick.  The    *)
(* two RPC calls of one `reconcile` see one state of the chain.            *)
(***************************************************************************)
EXTENDS Naturals, FiniteSets, Sequences

CONSTANTS Workers,       \* requests served at once
          Alarmer,       \* the alarm's own thread
          Identities,    \* who may ask
          Polls,         \* length of POLL_DELAYS_MS
          SignTimeout,   \* SIGN_TIMEOUT_MS
          ExpiresAt,     \* when the approved message's signatures expire, margin taken off
          MaxRelayerTime,
          Operations     \* what behaviours follow: [kind, asks, faults]

ASSUME RelayerAssumption ==
    /\ Workers \subseteq Nat \ {0} /\ Alarmer \in Nat \ {0} /\ Alarmer \notin Workers
    /\ {Polls, SignTimeout, ExpiresAt, MaxRelayerTime} \subseteq Nat
    /\ Operations \subseteq [kind : {"account", "ckd", "invite", "purchase", "device"},
                             asks : Nat, faults : Nat]

VARIABLES kind,      \* the operation of this behaviour, [kind, asks, faults]
          book,      \* its business record: [state, who, retry, token]
          marks,     \* ckd-done / invite-identity markers
          tx,        \* the outbox: key -> TxRecord
          signed,    \* every transaction ever signed: [key, n]
          lastNonce, \* relayer:last-nonce
          held,      \* who holds the lock
          worker,    \* the handlers
          wake,      \* the alarm: off, soon (any time from now) or later (ten minutes on)
          keyNonce,  \* the chain: nonce of the relayer's access key
          mempool,   \* transactions the network may still include
          stale,     \* transactions whose block hash is too old
          landed,    \* executed transactions: [key, n, to, res]
          listedBy,  \* does the ticket list the device by another request
          time, asked, mishaps

chain == <<keyNonce, mempool, stale, landed, listedBy>>
relayerVars == <<kind, book, marks, tx, signed, lastNonce, held, worker, wake,
                 keyNonce, mempool, stale, landed, listedBy, time, asked, mishaps>>

Keys == {"fund", "usdc", "ckd", "invite", "sign", "relay", "device"}
recovery == [fund |-> "check", usdc |-> "check", ckd |-> "resign", invite |-> "manual",
             sign |-> "resign", relay |-> "resign", device |-> "check"]
NoTx == [state |-> "none", n |-> 0, to |-> 0, age |-> 0, bytes |-> FALSE, value |-> "none"]
Threads == Workers \cup {Alarmer}
Unused == [pc |-> "idle", who |-> 0, key |-> "fund", rec |-> NoTx, out |-> "none",
           polls |-> 0, again |-> FALSE, fresh |-> FALSE]

\* The transaction a record stands for.
tx_of(k, rec) == [key |-> k, n |-> rec.n]
landing(t) == {l \in landed : l.key = t.key /\ l.n = t.n}

------------------------------------------------------------------------------
(* What a handler does next.                                               *)
Goto(h, pc) == worker' = [worker EXCEPT ![h] = [Unused EXCEPT !.pc = pc, !.who = worker[h].who]]
End(h) == worker' = [worker EXCEPT ![h] = Unused]

\* ensureAlarm keeps an alarm that another record may have set already.
ensureAlarm == wake' = IF wake = "off" THEN "soon" ELSE wake

\* withLock
Free == 0
takesLock(h) == held = Free /\ held' = h
freesLock(h) == held' = Free

\* settle: the record with its final outcome.
settle(rec, out, value) ==
    IF out = "failed" THEN [rec EXCEPT !.state = "FAILED", !.age = 0]
    ELSE [rec EXCEPT !.state = "SUCCESS", !.value = value, !.age = 0]

larger(a, b) == IF a > b THEN a ELSE b

\* What a handler keeps of a record while it polls.
kept(rec) == [rec EXCEPT !.age = 0]

\* The loop of `submit`: it gives up polling after its delays.
next_poll(h, rec) == IF rec.state = "BROADCAST" /\ worker[h].polls > Polls THEN "after" ELSE "poll"

\* Mutant: the stored nonce is not looked at.
relayer_nonce_of_chain == keyNonce + 1
next_relayer_nonce == larger(lastNonce, keyNonce) + 1

\* signAndBroadcast, once the access key was read (with the lock held): the nonce
\* is reserved, the signed transaction stored, then sent.  It enters the network,
\* is lost on the way, or is rejected for its nonce or block hash, and then signed
\* once more.  Payloads differ only in the account an invite pays.
signAndBroadcast(h) ==
    /\ worker[h].pc = "sign"
    /\ LET k == worker[h].key
           n == next_relayer_nonce
           t == [key |-> k, n |-> n]
           rec == [state |-> "BROADCAST", n |-> n, to |-> worker[h].who, age |-> 0, bytes |-> TRUE,
                   value |-> "none"]
       IN  /\ lastNonce' = n
           /\ signed' = signed \cup {t}
           /\ tx' = [tx EXCEPT ![k] = rec]
           /\ \/ mempool' = mempool \cup {t} /\ UNCHANGED <<mishaps, stale>>
              \/ /\ mishaps < kind.faults /\ mishaps' = mishaps + 1
                 /\ stale' \in {stale, stale \cup {t}}
                 /\ UNCHANGED mempool
           /\ IF stale' # stale /\ ~worker[h].again
              THEN worker' = [worker EXCEPT ![h].again = TRUE] /\ UNCHANGED held
              ELSE /\ worker' = [worker EXCEPT ![h].pc = next_poll(h, rec), ![h].rec = kept(rec), ![h].again = FALSE]
                   /\ freesLock(h)
    /\ UNCHANGED <<kind, book, marks, wake, keyNonce, landed, listedBy, time, asked>>

\* `mutations_disabled`, `relayer_key_invalid`, `rpc_unavailable`: the handler
\* throws, its lock is freed, nothing else changes; the alarm goes on.
Throws(h) ==
    /\ mishaps < kind.faults
    /\ mishaps' = mishaps + 1
    /\ IF h = Alarmer THEN Goto(h, "ended") ELSE End(h)
    /\ held' = IF held = h THEN Free ELSE held
    /\ UNCHANGED <<kind, book, marks, tx, signed, lastNonce, wake, chain, time, asked>>

\* submit, first part: an existing record is kept unless it may be retried.
submit(h) ==
    /\ worker[h].pc = "submit"
    /\ LET k == worker[h].key
           existing == tx[k]
           retry == k \in {"fund", "usdc"} /\ existing.state = "FAILED"
       IN  \/ /\ existing # NoTx /\ existing.to # worker[h].who    \* payload_conflict
              /\ held = Free /\ End(h)
              /\ UNCHANGED <<tx, held>>
           \/ /\ existing # NoTx /\ existing.to = worker[h].who /\ ~retry
              /\ held = Free
              /\ worker' = [worker EXCEPT ![h].pc = "poll", ![h].rec = kept(existing)]
              /\ UNCHANGED <<tx, held>>
           \/ /\ existing = NoTx \/ (existing.to = worker[h].who /\ retry)
              /\ takesLock(h)
              /\ worker' = [worker EXCEPT ![h].pc = "sign"]
              /\ UNCHANGED tx
    /\ UNCHANGED <<kind, book, marks, signed, lastNonce, wake, chain, time, asked, mishaps>>

\* txStatus, outside the lock.
txStatus(h) ==
    /\ worker[h].pc = "poll"
    /\ LET rec == worker[h].rec
           seen == landing(tx_of(worker[h].key, rec))
       IN  \/ /\ rec.state # "BROADCAST"
              /\ worker' = [worker EXCEPT ![h].pc = "after", ![h].polls = 0]
              /\ UNCHANGED mishaps
           \/ /\ rec.state = "BROADCAST"
              /\ \/ /\ seen = {}
                    /\ worker' = [worker EXCEPT ![h].pc = "reconcile", ![h].out = "not_found", ![h].polls = @ + 1]
                    /\ UNCHANGED mishaps
                 \/ \E l \in seen :
                      /\ worker' = [worker EXCEPT ![h].pc = "reconcile", ![h].out = l.res, ![h].polls = @ + 1]
                      /\ UNCHANGED mishaps
                 \/ /\ seen # {} /\ mishaps < kind.faults
                    /\ mishaps' = mishaps + 1
                    /\ worker' = [worker EXCEPT ![h].pc = "reconcile", ![h].out = "unknown", ![h].polls = @ + 1]
    /\ UNCHANGED <<kind, book, marks, tx, signed, lastNonce, held, wake, chain, time, asked>>

\* A reconcile returned `rec`.
polled(h, rec) ==
    worker' = [worker EXCEPT ![h].rec = kept(rec), ![h].out = "none", ![h].pc = next_poll(h, rec)]

\* reconcile, up to its first RPC: a replaced record is only read again.
reconcile(h) ==
    /\ worker[h].pc = "reconcile"
    /\ held = Free
    /\ LET k == worker[h].key
           current == tx[k]
           same == current # NoTx /\ current.n = worker[h].rec.n /\ current.state = "BROADCAST"
       IN  \/ /\ ~same
              /\ polled(h, IF current = NoTx THEN worker[h].rec ELSE current)
              /\ UNCHANGED <<tx, held>>
           \/ /\ same /\ worker[h].out \in {"ok", "empty", "failed"}
              /\ LET rec == settle(current, worker[h].out, worker[h].out)
                 IN  tx' = [tx EXCEPT ![k] = rec] /\ polled(h, rec)
              /\ UNCHANGED held
           \/ /\ same /\ worker[h].out \in {"not_found", "unknown"}
              /\ \/ current.age = 0 /\ polled(h, current) /\ UNCHANGED held
                 \/ /\ current.age > 0
                    /\ held' = h
                    /\ worker' = [worker EXCEPT ![h].pc = "recover", ![h].rec = current]
              /\ UNCHANGED tx
    /\ UNCHANGED <<kind, book, marks, signed, lastNonce, wake, chain, time, asked, mishaps>>

\* Does the chain show the effect of a `check` transaction?
effectDone(k) == (\E l \in landed : l.key = k /\ l.res = "ok") \/ (k = "device" /\ listedBy)
signable == time < ExpiresAt

\* resign: the transaction is given up; a device link whose signature expired fails.
resign(h, k) ==
    IF k = "device" /\ ~signable
    THEN LET rec == settle(worker[h].rec, "failed", "none")
         IN  tx' = [tx EXCEPT ![k] = rec] /\ polled(h, rec) /\ freesLock(h)
    ELSE worker' = [worker EXCEPT ![h].pc = "sign", ![h].rec = NoTx, ![h].out = "none"] /\ UNCHANGED <<tx, held>>

\* reconcile with the access key read: resend while the nonce is unused, else
\* decide by the policy once the landing window is over.
recovers(h) ==
    /\ worker[h].pc = "recover"
    /\ LET k == worker[h].key
           current == worker[h].rec
           t == tx_of(k, current)
           waits == polled(h, current) /\ freesLock(h)
       IN  \/ /\ keyNonce < current.n /\ current.bytes /\ t \notin stale
              /\ mempool' = mempool \cup {t}
              /\ waits /\ UNCHANGED <<tx, mishaps>>
           \/ /\ keyNonce < current.n /\ current.bytes /\ t \notin stale
              /\ mishaps < kind.faults
              /\ mishaps' = mishaps + 1
              /\ waits /\ UNCHANGED <<tx, mempool>>
           \/ /\ keyNonce < current.n /\ ~current.bytes
              /\ waits /\ UNCHANGED <<tx, mempool, mishaps>>
           \/ /\ keyNonce < current.n /\ current.bytes /\ t \in stale
              /\ resign(h, k) /\ UNCHANGED <<mempool, mishaps>>
           \/ /\ keyNonce >= current.n /\ (worker[h].out = "unknown" \/ current.age < 2)
              /\ waits /\ UNCHANGED <<tx, mempool, mishaps>>
           \/ /\ keyNonce >= current.n /\ worker[h].out = "not_found" /\ current.age = 2
              /\ \/ recovery[k] = "resign" /\ resign(h, k)
                 \/ recovery[k] = "check" /\ ~effectDone(k) /\ resign(h, k)
                 \/ /\ recovery[k] = "check" /\ effectDone(k)
                    /\ LET rec == settle(current, "success", "none")
                       IN  tx' = [tx EXCEPT ![k] = rec] /\ polled(h, rec) /\ freesLock(h)
                 \/ /\ recovery[k] = "manual"
                    /\ LET rec == [current EXCEPT !.state = "STUCK"]
                       IN  tx' = [tx EXCEPT ![k] = rec] /\ polled(h, rec) /\ freesLock(h)
              /\ UNCHANGED <<mempool, mishaps>>
    /\ UNCHANGED <<kind, book, marks, signed, lastNonce, wake, keyNonce, stale, landed, listedBy, time, asked>>

------------------------------------------------------------------------------
(* The operations: what each asks before its first send.                   *)

Submits(h, k, who) ==
    worker' = [worker EXCEPT ![h] = [Unused EXCEPT !.pc = "submit", !.key = k, !.who = who]]

\* ensureAccount: one record per identity, then the fund and the USDC steps that
\* the chain does not show yet.
ensureAccount(h) ==
    /\ kind.kind = "account" /\ worker[h].pc \in {"begin", "next"}
    /\ book' = [book EXCEPT !.state = IF @ = "none" THEN "new"
                                      ELSE IF effectDone("fund") /\ effectDone("usdc") THEN "ready" ELSE @]
    /\ \/ book.state # "ready" /\ ~effectDone("fund") /\ Submits(h, "fund", 1)
       \/ book.state # "ready" /\ effectDone("fund") /\ ~effectDone("usdc") /\ Submits(h, "usdc", 1)
       \/ (book.state = "ready" \/ (effectDone("fund") /\ effectDone("usdc"))) /\ End(h)
    /\ UNCHANGED <<marks, tx, wake>>

\* requestCkd: a nonce is charged and submitted once, until its marker is set.
requestCkd(h) ==
    /\ kind.kind = "ckd" /\ worker[h].pc = "begin"
    /\ IF tx["ckd"] = NoTx /\ "ckd" \in marks
       THEN End(h) /\ UNCHANGED wake
       ELSE Submits(h, "ckd", 1) /\ ensureAlarm
    /\ UNCHANGED <<book, marks, tx>>

\* redeemInvite: one identity per code, one code per identity.
redeemInvite(h) ==
    /\ kind.kind = "invite" /\ worker[h].pc = "begin"
    /\ LET who == worker[h].who
       IN  \/ /\ book.state = "open" /\ who \notin marks
              /\ book' = [book EXCEPT !.state = "reserved", !.who = who]
              /\ marks' = marks \cup {who}
              /\ Submits(h, "invite", who)
           \/ /\ book.state = "open" /\ who \in marks
              /\ End(h) /\ UNCHANGED <<book, marks>>
           \/ /\ book.state = "reserved" /\ book.who = who
              /\ Submits(h, "invite", who) /\ UNCHANGED <<book, marks>>
           \/ /\ book.state = "paid" \/ (book.state = "reserved" /\ book.who # who)
              /\ End(h) /\ UNCHANGED <<book, marks>>
    /\ UNCHANGED <<tx, wake>>

\* relayDelegate: the record is written with its charge; a failure before
\* anything was relayed may start again, an unsent token is replaced.
relayDelegate(h) ==
    /\ kind.kind = "purchase" /\ worker[h].pc = "begin" /\ worker[h].fresh
    /\ \/ /\ book.state = "signing" /\ tx["sign"] = NoTx
          /\ book' = [book EXCEPT !.token = TRUE]
       \/ /\ book.state \in {"signing", "relaying", "submitted", "failed"}
          /\ ~(book.state = "signing" /\ tx["sign"] = NoTx)
          /\ ~(book.state = "failed" /\ book.retry)
          /\ UNCHANGED book
       \/ /\ book.state = "none" \/ (book.state = "failed" /\ book.retry)
          /\ book' = [state |-> "signing", who |-> 1, retry |-> FALSE, token |-> TRUE]
    /\ worker' = [worker EXCEPT ![h].pc = "advance", ![h].fresh = FALSE]
    /\ ensureAlarm
    /\ UNCHANGED <<marks, tx>>

\* advancePurchase: from the stored record to the next submit.
advancePurchase(h) ==
    /\ kind.kind = "purchase"
    /\ worker[h].pc = "advance" \/ (worker[h].pc = "begin" /\ ~worker[h].fresh)
    /\ \/ book.state \in {"none", "submitted", "failed"} /\ Goto(h, "ended")
       \/ book.state = "signing" /\ Submits(h, "sign", 1)
       \/ book.state = "relaying" /\ Goto(h, "relay")
    /\ UNCHANGED <<book, marks, tx, wake>>

\* failPurchase: ends a purchase that is not done, with its token and sign record.
failPurchase(retryable) ==
    IF book.state \in {"none", "submitted", "failed"} THEN UNCHANGED <<book, tx>>
    ELSE /\ book' = [book EXCEPT !.state = "failed", !.retry = retryable, !.token = FALSE]
         /\ tx' = [tx EXCEPT !["sign"] = NoTx]

\* A relay first sent after a signature expired would only be refunded.
relays(h) ==
    /\ worker[h].pc = "relay"
    /\ IF tx["relay"] = NoTx /\ ~signable
       THEN failPurchase(FALSE) /\ Goto(h, "ended")
       ELSE Submits(h, "relay", 1) /\ UNCHANGED <<book, tx>>
    /\ UNCHANGED <<marks, wake>>

\* linkDevice and advanceDevice, up to the submit.
linkDevice(h) ==
    /\ kind.kind = "device" /\ worker[h].pc = "begin"
    /\ LET opened == IF book.state = "none" /\ worker[h].fresh THEN [book EXCEPT !.state = "submitting"] ELSE book
       IN  \/ opened.state # "submitting" /\ book' = opened /\ Goto(h, "ended")
           \/ /\ opened.state = "submitting" /\ tx["device"] = NoTx /\ ~signable
              /\ book' = [opened EXCEPT !.state = "failed"] /\ Goto(h, "ended")
           \/ /\ opened.state = "submitting" /\ (tx["device"] # NoTx \/ signable)
              /\ book' = opened /\ Submits(h, "device", 1)
    /\ IF worker[h].fresh THEN ensureAlarm ELSE UNCHANGED wake
    /\ UNCHANGED <<marks, tx>>

------------------------------------------------------------------------------
(* The operations: what each does with the outcome of its submit.          *)

\* finishCkd: the record, which carries the token, becomes a replay marker.
finishCkd == tx' = [tx EXCEPT !["ckd"] = NoTx] /\ marks' = marks \cup {"ckd"}

after_ckd(h, rec) ==
    /\ IF rec.state = "BROADCAST" THEN UNCHANGED <<tx, marks>> ELSE finishCkd
    /\ Goto(h, "ended") /\ UNCHANGED <<book, wake>>

\* releaseFailedInvite: a final failure of this transaction gives the code back.
releaseFailedInvite(who) ==
    IF tx["invite"].state = "FAILED" /\ book.state = "reserved" /\ book.who = who
    THEN /\ book' = [book EXCEPT !.state = "open", !.who = 0]
         /\ marks' = marks \ {who}
         /\ tx' = [tx EXCEPT !["invite"] = NoTx]
    ELSE UNCHANGED <<book, marks, tx>>

after_invite(h, rec) ==
    /\ \/ /\ rec.state = "FAILED" /\ held = Free
          /\ releaseFailedInvite(worker[h].who)
       \/ /\ rec.state = "SUCCESS"
          /\ book' = [book EXCEPT !.state = "paid", !.who = worker[h].who]
          /\ UNCHANGED <<marks, tx>>
       \/ rec.state \in {"BROADCAST", "STUCK"} /\ UNCHANGED <<book, marks, tx>>
    /\ End(h) /\ UNCHANGED wake

\* The signature is verified and kept; the token and the sign record are not.
after_sign(h, rec) ==
    /\ \/ rec.state = "BROADCAST" /\ UNCHANGED <<book, tx>> /\ Goto(h, "ended")
       \/ (rec.state = "FAILED" \/ rec.value = "empty") /\ failPurchase(TRUE) /\ Goto(h, "ended")
       \/ /\ rec.state = "SUCCESS" /\ rec.value # "empty"
          /\ IF book.state = "signing"
             THEN /\ book' = [book EXCEPT !.state = "relaying", !.token = FALSE]
                  /\ tx' = [tx EXCEPT !["sign"] = NoTx]
                  /\ Goto(h, "relay")
             ELSE /\ UNCHANGED <<book, tx>>
                  /\ Goto(h, IF book.state = "relaying" THEN "relay" ELSE "ended")
    /\ UNCHANGED <<marks, wake>>

after_relay(h, rec) ==
    /\ \/ rec.state = "BROADCAST" /\ UNCHANGED <<book, tx>>
       \/ rec.state = "FAILED" /\ failPurchase(FALSE)
       \/ /\ rec.state = "SUCCESS"
          /\ book' = IF book.state = "relaying" THEN [book EXCEPT !.state = "submitted"] ELSE book
          /\ UNCHANGED tx
    /\ Goto(h, "ended") /\ UNCHANGED <<marks, wake>>

\* A failed link that the ticket lists anyway (deviceFailure) is `listed`.
after_device(h, rec) ==
    /\ book' = IF book.state # "submitting" \/ rec.state = "BROADCAST" THEN book
               ELSE [book EXCEPT !.state = IF rec.state = "SUCCESS" THEN "submitted"
                                           ELSE IF effectDone("device") THEN "listed" ELSE "failed"]
    /\ Goto(h, "ended") /\ UNCHANGED <<marks, tx, wake>>

\* The next step of ensureAccount, or its end: `tx_failed`, or 202.
after_account(h, rec) ==
    /\ IF rec.state = "SUCCESS" THEN Goto(h, "next") ELSE End(h)
    /\ UNCHANGED <<book, marks, tx, wake>>

after(h) ==
    /\ worker[h].pc = "after"
    /\ LET rec == worker[h].rec
           k == worker[h].key
       IN  \/ k \in {"fund", "usdc"} /\ after_account(h, rec)
           \/ k = "ckd" /\ after_ckd(h, rec)
           \/ k = "invite" /\ after_invite(h, rec)
           \/ k = "sign" /\ after_sign(h, rec)
           \/ k = "relay" /\ after_relay(h, rec)
           \/ k = "device" /\ after_device(h, rec)

\* The body of an operation: one storage transaction between two awaits.
Operation(h) ==
    /\ \/ ensureAccount(h) \/ requestCkd(h) \/ redeemInvite(h) \/ relayDelegate(h)
       \/ advancePurchase(h) \/ relays(h) \/ linkDevice(h) \/ after(h)
    /\ UNCHANGED <<kind, signed, lastNonce, held, chain, time, asked, mishaps>>

\* A request ends; the alarm fails a purchase unsigned for too long, drops the
\* token of an old CKD record, and is set again while anything is pending.
strips == tx["ckd"].state = "BROADCAST" /\ tx["ckd"].age = 2
pending == \/ kind.kind = "ckd" /\ tx["ckd"] # NoTx
           \/ kind.kind = "purchase" /\ book.state # "none"
           \/ kind.kind = "device" /\ book.state # "none"

\* Mutant: the alarm is not set again.
alarm_once == "off"
alarm_again == IF pending THEN "later" ELSE "off"

Ended(h) ==
    /\ worker[h].pc = "ended"
    /\ End(h)
    /\ \/ h # Alarmer /\ UNCHANGED <<book, tx, wake>>
       \/ /\ h = Alarmer
          /\ IF kind.kind = "purchase" /\ book.state = "signing" /\ time > SignTimeout
             THEN failPurchase(FALSE)
             ELSE /\ tx' = IF kind.kind = "ckd" /\ strips THEN [tx EXCEPT !["ckd"].bytes = FALSE] ELSE tx
                  /\ UNCHANGED book
          /\ wake' = alarm_again
    /\ UNCHANGED <<kind, marks, signed, lastNonce, held, chain, time, asked, mishaps>>

\* A request arrives at the object (`fetch`); a purchase may also ask for its status.
Arrive(h) ==
    /\ worker[h].pc = "idle" /\ h # Alarmer
    /\ \A g \in Workers : g < h => worker[g].pc # "idle"
    /\ asked < kind.asks
    /\ asked' = asked + 1
    /\ \E who \in Identities, fresh \in BOOLEAN :
         /\ kind.kind # "invite" => who = 1
         /\ ~fresh => kind.kind \in {"purchase", "device"}
         /\ worker' = [worker EXCEPT ![h] = [Unused EXCEPT !.pc = "begin", !.who = who, !.fresh = fresh]]
    /\ UNCHANGED <<kind, book, marks, tx, signed, lastNonce, held, wake, chain, time, mishaps>>

\* alarm: ten minutes are longer than any request and than the landing window.
\* It goes through the one record of this behaviour.  A CKD record is not
\* submitted again, only looked up.
alarm ==
    /\ worker[Alarmer].pc = "idle" /\ wake # "off"
    /\ wake = "later" => /\ \A h \in Threads : worker[h].pc = "idle"
                         /\ \A k \in Keys : tx[k].state = "BROADCAST" => tx[k].age = 2
    /\ wake' = "off"
    /\ \/ /\ kind.kind # "ckd"
          /\ worker' = [worker EXCEPT ![Alarmer] = [Unused EXCEPT !.pc = "begin", !.who = 1]]
          /\ UNCHANGED <<tx, marks>>
       \/ /\ kind.kind = "ckd"
          /\ LET l == landing(tx_of("ckd", tx["ckd"]))
             IN  IF tx["ckd"] # NoTx /\ (tx["ckd"].state # "BROADCAST" \/ l # {})
                 THEN finishCkd ELSE UNCHANGED <<tx, marks>>
          /\ Goto(Alarmer, "ended")
    /\ UNCHANGED <<kind, book, signed, lastNonce, held, chain, time, asked, mishaps>>

\* The object restarts: the handlers are gone, an interrupted alarm runs again.
Restart ==
    /\ mishaps < kind.faults
    /\ mishaps' = mishaps + 1
    /\ \E h \in Threads : worker[h].pc # "idle"
    /\ worker' = [h \in Threads |-> Unused]
    /\ held' = Free
    /\ wake' = IF worker[Alarmer].pc # "idle" THEN "soon" ELSE wake
    /\ UNCHANGED <<kind, book, marks, tx, signed, lastNonce, chain, time, asked>>

------------------------------------------------------------------------------
(* The chain (external): a transaction executes once, in nonce order.  A   *)
(* delegate executes once; a link past its expiry is rejected.             *)
mustFail(k) == (k = "relay" /\ effectDone(k)) \/ (k = "device" /\ ~signable)

executes(t) ==
    /\ t \in mempool
    /\ mempool' = mempool \ {t}
    /\ \/ t.n <= keyNonce /\ UNCHANGED <<keyNonce, landed, mishaps>>
       \/ /\ t.n > keyNonce /\ keyNonce' = t.n
          /\ \E res \in {"ok", "failed"} \cup (IF t.key \in {"sign", "ckd"} THEN {"empty"} ELSE {}) :
               /\ mustFail(t.key) => res = "failed"
               /\ mishaps' = IF res = "failed" /\ ~mustFail(t.key) THEN mishaps + 1 ELSE mishaps
               /\ mishaps' <= kind.faults
               /\ landed' = landed \cup {[key |-> t.key, n |-> t.n, res |-> res]}
    /\ UNCHANGED <<kind, book, marks, tx, signed, lastNonce, held, worker, wake, stale, listedBy, time, asked>>

\* The block hash of an unlanded transaction gets too old.
expires(t) ==
    /\ mishaps < kind.faults
    /\ mishaps' = mishaps + 1
    /\ t \in signed \ stale /\ t.key \in Keys /\ landing(t) = {}
    /\ tx[t.key].n = t.n /\ tx[t.key].age = 2
    /\ stale' = stale \cup {t}
    /\ mempool' = mempool \ {t}
    /\ UNCHANGED <<kind, book, marks, tx, signed, lastNonce, held, worker, wake, keyNonce, landed,
                   listedBy, time, asked>>

\* The relayer's key signs for another record, and that transaction lands before
\* one that is still out.
otherRecord ==
    /\ \E k \in Keys : tx[k].state = "BROADCAST" /\ keyNonce < tx[k].n
    /\ mishaps < kind.faults
    /\ mishaps' = mishaps + 1
    /\ held = Free
    /\ lastNonce' = larger(lastNonce, keyNonce) + 1
    /\ signed' = signed \cup {[key |-> "other", n |-> lastNonce']}
    /\ keyNonce' = lastNonce'
    /\ UNCHANGED <<kind, book, marks, tx, held, worker, wake, mempool, stale, landed, listedBy, time, asked>>

\* Another request links the device.
otherLink ==
    /\ kind.kind = "device" /\ ~listedBy /\ mishaps < kind.faults
    /\ mishaps' = mishaps + 1
    /\ listedBy' = TRUE
    /\ UNCHANGED <<kind, book, marks, tx, signed, lastNonce, held, worker, wake, keyNonce, mempool, stale,
                   landed, time, asked>>

\* Time passes; a network that takes longer than the landing window is a fault.
RelayerTick ==
    LET ageing == {k \in Keys : tx[k].state = "BROADCAST" /\ tx[k].age < 2}
        slow == \E k \in ageing : tx[k].age = 1 /\ tx_of(k, tx[k]) \in mempool
    IN  /\ \A h \in Threads : worker[h].pc \in {"idle", "submit", "poll", "reconcile"}
        /\ time < MaxRelayerTime \/ ageing # {}
        /\ time' = IF time < MaxRelayerTime THEN time + 1 ELSE time
        /\ tx' = [k \in Keys |-> IF k \in ageing THEN [tx[k] EXCEPT !.age = @ + 1] ELSE tx[k]]
        /\ mishaps' = IF slow THEN mishaps + 1 ELSE mishaps
        /\ mishaps' <= kind.faults
        /\ UNCHANGED <<kind, book, marks, signed, lastNonce, held, worker, wake, chain, asked>>

------------------------------------------------------------------------------
RelayerInit ==
    /\ kind \in Operations
    /\ book = [state |-> IF kind.kind = "invite" THEN "open" ELSE "none", who |-> 0, retry |-> FALSE, token |-> FALSE]
    /\ marks = {} /\ tx = [k \in Keys |-> NoTx] /\ signed = {} /\ lastNonce = 0
    /\ held = Free /\ worker = [h \in Threads |-> Unused] /\ wake = "off"
    /\ keyNonce = 0 /\ mempool = {} /\ stale = {} /\ landed = {} /\ listedBy = FALSE
    /\ time = 0 /\ asked = 0 /\ mishaps = 0

Handles(h) ==
    \/ Operation(h) \/ submit(h) \/ signAndBroadcast(h) \/ txStatus(h) \/ reconcile(h) \/ recovers(h)
    \/ Ended(h)

RelayerNext ==
    \/ \E h \in Threads : Arrive(h) \/ Handles(h) \/ (worker[h].pc \in {"sign", "recover"} /\ Throws(h))
    \/ alarm \/ Restart \/ RelayerTick \/ otherRecord \/ otherLink
    \/ \E t \in signed : executes(t) \/ expires(t)

------------------------------------------------------------------------------
(* Properties.                                                             *)

RelayerTypeOK ==
    /\ kind.kind \in {"account", "ckd", "invite", "purchase", "device"}
    /\ book.state \in {"none", "new", "ready", "open", "reserved", "paid", "signing", "relaying",
                       "submitted", "failed", "submitting", "listed"}
    /\ \A k \in Keys : tx[k].state \in {"none", "BROADCAST", "SUCCESS", "FAILED", "STUCK"}
    /\ held \in Threads \cup {Free}
    /\ \A h \in Threads : worker[h].pc \in {"sign", "recover"} => held = h
    /\ lastNonce \in Nat /\ keyNonce \in Nat

\* No two transactions carry one nonce: a restart between reserving a nonce and
\* sending with it, or two requests that sign at once, never reuse it (the
\* chain would drop one of the two operations without a trace).
RelayerNonces == \A s, t \in signed : s.n = t.n => s = t

\* An invite credit, an account's funding and a device link take effect at most
\* once, whatever is lost, repeated, expired or read stale: a second signature
\* needs proof that the first never lands.
EffectOnce ==
    \A k \in {"invite", "fund", "usdc", "device"} :
        Cardinality({l \in landed : l.key = k /\ l.res = "ok"}) <= 1

\* What the records report is on the chain: a paid invite was paid, a submitted
\* purchase was relayed, a ready account is funded, a submitted or listed link
\* is listed.
ReportedOnChain ==
    /\ book.state = "paid" => effectDone("invite")
    /\ book.state = "ready" => effectDone("fund") /\ effectDone("usdc")
    /\ kind.kind = "purchase" /\ book.state = "submitted" => effectDone("relay")
    /\ book.state = "listed" \/ (kind.kind = "device" /\ book.state = "submitted") => effectDone("device")

\* A purchase or device link whose client is gone is still brought to an end by
\* the alarm, across restarts, lost sends and expired transactions.
RelayerSettles ==
    (kind.kind \in {"purchase", "device"} /\ book.state \in {"signing", "relaying", "submitting"})
        ~> book.state \in {"submitted", "listed", "failed"}

\* The relayer's keys, effects and answers agree with the chain.
RelayerSafe == RelayerTypeOK /\ RelayerNonces /\ EffectOnce /\ ReportedOnChain
=============================================================================
