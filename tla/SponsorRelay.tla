---------------------------- MODULE SponsorRelay ----------------------------
(***************************************************************************)
(* Sponsored uploads of the Livepeer bridge.  A creator signs a delegate   *)
(* that pays for a media job; the Durable Object of the relayer key        *)
(* reserves an admission place, wraps the delegate in a transaction of its *)
(* own, sends it and keeps a record until it knows what became of it.      *)
(* Requests and the alarm are chained on one promise (operatorTail): one   *)
(* is served at a time, but the object may die between two awaits and the  *)
(* chain moves on its own.  A quote first ends for the clock of the worker *)
(* and then for the chain, whose final block lags behind.                  *)
(***************************************************************************)
EXTENDS Integers, FiniteSets

CONSTANTS
    Jobs,           \* job ids, numbered in the order storage lists their records
    Delegates,      \* signed delegates
    Offers,         \* what creators send and what may go wrong: records of the pairs of a job and
                    \* a delegate, and of a bound on crashes, lost sends and misleading answers
    MaxRelayNonce   \* bound: nonces of the relayer key

ASSUME JobsAssumption == IsFiniteSet(Jobs) /\ Jobs \subseteq Nat \ {0}
ASSUME DelegatesAssumption == Delegates \subseteq Nat \ {0} 
ASSUME OffersAssumption == Offers \subseteq [delegates : SUBSET (Jobs \X Delegates), faults : Nat]
ASSUME RelayBoundsAssumption == MaxRelayNonce \in Nat

NoRelay == [state |-> "NONE", delegate |-> 0, nonce |-> 0, signed |-> FALSE]
Resting == [pc |-> "rest", job |-> 0, delegate |-> 0, nonce |-> 0, reply |-> "none", alarm |-> FALSE]
Answers == {"sent", "failed", "invalid_nonce", "unknown"}

VARIABLES
    offered,        \* what creators send, and the faults allowed, fixed
    relays,         \* storage: sponsor-relay:<job>
    relayNonce,     \* storage: sponsor-relayer:last-nonce
    relayAlarm,     \* storage: an alarm is set
    relaying,       \* the request or alarm being served
    places,         \* the admission object: jobs that hold a place
    quotes,         \* the quote of each delegate: fresh, stale for the worker, over for the chain
    spent,          \* chain: delegates that were executed, or overtaken on the creator's key
    jobs,           \* chain: the delegate that created each job, 0 when there is no job
    keyNonce,       \* chain: the nonce of the relayer key
    inFlight,       \* chain: transactions received and not executed yet
    results,        \* chain: transactions executed, with their result
    sentTxs,        \* history: every transaction handed to the node
    mishap,         \* history: what went wrong so far
    relayFaults

relayStore == <<offered, relays, relayNonce, relayAlarm>>
relayChain == <<spent, jobs, keyNonce, inFlight, results>>
relayVars == <<relayStore, relaying, places, quotes, relayChain, sentTxs, mishap, relayFaults>>

-----------------------------------------------------------------------------
Tx(j, d, n) == [job |-> j, delegate |-> d, nonce |-> n]
recordTx(j) == Tx(j, relays[j].delegate, relays[j].nonce)

\* The verdict on a transaction: its final result, a nonce already used, or nothing known.
relayAnswer(tx) ==
    {r.result : r \in {x \in results : x.tx = tx}}
    \cup (IF \E x \in results : x.tx = tx THEN {}
          ELSE IF tx.nonce <= keyNonce THEN {"invalid_nonce", "unknown"} ELSE {"unknown"})

\* A reply that was lost is unknown; an error the worker does not recognise counts as failed.
Answered(tx, answer) ==
    \/ answer \in relayAnswer(tx) /\ UNCHANGED <<mishap, relayFaults>>
    \/ /\ answer \in {"unknown", "failed"} \ relayAnswer(tx)
       /\ relayFaults < offered.faults
       /\ relayFaults' = relayFaults + 1
       /\ mishap' = IF answer = "failed" THEN mishap \cup {"misread"} ELSE mishap

sponsoredQuoteIsFresh(j, d) == quotes[j][d] = "fresh"

clearSponsorRelayTransaction(j) ==
    [relays EXCEPT ![j] = [NoRelay EXCEPT !.state = "PENDING", !.delegate = relays[j].delegate]]

markBroadcast(j) == [relays EXCEPT ![j].state = "BROADCAST"]

step(pc) == relaying' = [relaying EXCEPT !.pc = pc]

\* Mutant: the answer is returned and no alarm is set.
returns_unarmed(again) == relaying' = Resting /\ UNCHANGED relayAlarm

\* The handler returns; a request sets no alarm of its own when it fails, the alarm does.
returns(again) ==
    /\ relaying' = Resting
    /\ relayAlarm' = (relayAlarm \/ again)
throws == returns(relaying.alarm)

\* The job is on chain: the record has done its work, if the job is the one the quote describes.
requireExactSponsoredJob(j, d) ==
    IF jobs[j] = d
    THEN relays' = [relays EXCEPT ![j] = NoRelay] /\ returns(FALSE)
    ELSE throws /\ UNCHANGED relays

-----------------------------------------------------------------------------
(* relaySponsoredUpload, one step for every await that can fail or be overtaken. *)

readSponsoredMediaJob(j, d) ==
    /\ relaying.pc = "job"
    /\ IF jobs[j] # 0 THEN requireExactSponsoredJob(j, d)
       ELSE IF relays[j] # NoRelay /\ relays[j].delegate # d THEN throws /\ UNCHANGED relays
       ELSE /\ step(IF relays[j].state = "BROADCAST" THEN "query" ELSE "fresh")
            /\ UNCHANGED <<relays, relayAlarm>>
    /\ UNCHANGED <<offered, relayNonce, places, quotes, relayChain, sentTxs, mishap, relayFaults>>

queryTransactionForAccount(j) ==
    /\ relaying.pc = "query"
    /\ \E answer \in Answers :
          /\ Answered(recordTx(j), answer)
          /\ relaying' = [relaying EXCEPT !.pc = "observed", !.reply = answer]
    /\ UNCHANGED <<relayStore, places, quotes, relayChain, sentTxs>>

observed(j, d) ==
    /\ relaying.pc = "observed"
    /\ IF jobs[j] # 0 THEN requireExactSponsoredJob(j, d)
       ELSE CASE relaying.reply \in {"failed", "sent"} -> step("release") /\ UNCHANGED <<relays, relayAlarm>>
              [] relaying.reply = "unknown" -> returns(TRUE) /\ UNCHANGED relays
              [] OTHER -> /\ relays' = clearSponsorRelayTransaction(j)
                          /\ step("fresh") /\ UNCHANGED relayAlarm
    /\ UNCHANGED <<offered, relayNonce, places, quotes, relayChain, sentTxs, mishap, relayFaults>>

\* A quote that ended releases its record.  Otherwise four reads and the checks on them: block,
\* creator's key (the delegate carries its next nonce), relayer's key, balance.
readSponsorRelayerAccessKey(j, d) ==
    /\ relaying.pc = "fresh"
    /\ CASE ~sponsoredQuoteIsFresh(j, d) /\ relays[j] # NoRelay -> step("release") /\ UNCHANGED relayAlarm
         [] ~sponsoredQuoteIsFresh(j, d) /\ relays[j] = NoRelay -> throws
         [] OTHER -> \/ throws
                     \/ /\ <<j, d>> \notin spent
                        /\ relaying' = [relaying EXCEPT !.pc = "reserve", !.nonce = keyNonce]
                        /\ UNCHANGED relayAlarm
    /\ UNCHANGED <<offered, relays, relayNonce, places, quotes, relayChain, sentTxs, mishap, relayFaults>>

\* The admission object grants the place again to the job that holds it.
reserveSponsoredAdmission(j) ==
    /\ relaying.pc = "reserve"
    /\ \/ j \notin places /\ throws /\ UNCHANGED places
       \/ places' = places \cup {j} /\ step("open") /\ UNCHANGED relayAlarm
    /\ UNCHANGED <<offered, relays, relayNonce, quotes, relayChain, sentTxs, mishap, relayFaults>>

openRelay(j, d) ==
    /\ relaying.pc = "open"
    /\ relays' = IF relays[j] = NoRelay
                 THEN [relays EXCEPT ![j] = [NoRelay EXCEPT !.state = "PENDING", !.delegate = d]]
                 ELSE relays
    /\ step(IF relays[j].signed THEN "send" ELSE IF relays[j].nonce # 0 THEN "sign" ELSE "nonce")
    /\ UNCHANGED <<offered, relayNonce, relayAlarm, places, quotes, relayChain, sentTxs, mishap, relayFaults>>

\* Mutant: the stored nonce is not looked at.
relay_nonce_of_chain == relaying.nonce + 1
next_relay_nonce == (IF relayNonce > relaying.nonce THEN relayNonce ELSE relaying.nonce) + 1

reserveRelayNonce(j) ==
    /\ relaying.pc = "nonce"
    /\ LET n == next_relay_nonce
       IN /\ n <= MaxRelayNonce
          /\ relayNonce' = n
          /\ relays' = [relays EXCEPT ![j].state = "RESERVED", ![j].nonce = n]
    /\ step("sign")
    /\ UNCHANGED <<offered, relayAlarm, places, quotes, relayChain, sentTxs, mishap, relayFaults>>

signRelay(j) ==
    /\ relaying.pc = "sign"
    /\ relays' = [relays EXCEPT ![j].state = "SIGNED", ![j].signed = TRUE]
    /\ step("send")
    /\ UNCHANGED <<offered, relayNonce, relayAlarm, places, quotes, relayChain, sentTxs, mishap, relayFaults>>

\* Only a fresh quote is sent.  The node receives the transaction, or the request never reaches it.
requireSponsoredQuoteFresh(j, d) ==
    /\ relaying.pc = "send"
    /\ \/ /\ ~sponsoredQuoteIsFresh(j, d) /\ throws
          /\ UNCHANGED <<relays, sentTxs, inFlight, mishap, relayFaults>>
       \/ /\ sponsoredQuoteIsFresh(j, d)
          /\ sentTxs' = sentTxs \cup {recordTx(j)}
          /\ \/ /\ inFlight' = inFlight \cup ({recordTx(j)} \ {x.tx : x \in results})
                /\ step("reply")
                /\ UNCHANGED <<relays, mishap, relayFaults>>
             \/ /\ relayFaults < offered.faults
                /\ relayFaults' = relayFaults + 1
                /\ mishap' = mishap \cup {"lost"}
                /\ relays' = markBroadcast(j)
                /\ relaying' = [relaying EXCEPT !.pc = "sent", !.reply = "unknown"]
                /\ UNCHANGED inFlight
          /\ UNCHANGED relayAlarm
    /\ UNCHANGED <<offered, relayNonce, places, quotes, spent, jobs, keyNonce, results>>

\* The node answers when the transaction is final, or the wait ends; the record is marked.
sendRelay(j) ==
    /\ relaying.pc = "reply"
    /\ \E answer \in Answers :
          /\ Answered(recordTx(j), answer)
          /\ relaying' = [relaying EXCEPT !.pc = "sent", !.reply = answer]
    /\ relays' = markBroadcast(j)
    /\ UNCHANGED <<offered, relayNonce, relayAlarm, places, quotes, relayChain, sentTxs>>

afterSend(j, d) ==
    /\ relaying.pc = "sent"
    /\ IF jobs[j] # 0 THEN requireExactSponsoredJob(j, d)
       ELSE CASE relaying.reply \in {"failed", "sent"} -> step("release") /\ UNCHANGED <<relays, relayAlarm>>
              [] relaying.reply = "invalid_nonce" -> relays' = clearSponsorRelayTransaction(j) /\ returns(TRUE)
              [] OTHER -> returns(TRUE) /\ UNCHANGED relays
    /\ UNCHANGED <<offered, relayNonce, places, quotes, relayChain, sentTxs, mishap, relayFaults>>

\* The place is given back, then the record is deleted; the mark may fail.
releaseSponsoredAdmission(j) ==
    /\ relaying.pc = "release"
    /\ \/ /\ places' = places \ {j} /\ step("delete")
          /\ UNCHANGED <<relayAlarm, mishap, relayFaults>>
       \/ /\ relayFaults < offered.faults /\ relayFaults' = relayFaults + 1
          /\ mishap' = mishap \cup {"unreleased"}
          /\ throws /\ UNCHANGED places
    /\ UNCHANGED <<offered, relays, relayNonce, quotes, relayChain, sentTxs>>

deleteRelay(j) ==
    /\ relaying.pc = "delete"
    /\ relays' = [relays EXCEPT ![j] = NoRelay]
    /\ throws
    /\ UNCHANGED <<offered, relayNonce, places, quotes, relayChain, sentTxs, mishap, relayFaults>>

-----------------------------------------------------------------------------
relaySponsoredUpload(j, d) ==
    /\ relaying = Resting
    /\ relaying' = [Resting EXCEPT !.pc = "job", !.job = j, !.delegate = d]
    /\ UNCHANGED <<relayStore, places, quotes, relayChain, sentTxs, mishap, relayFaults>>

\* Only the first record that storage lists is looked at.
advanceSponsorRelayAlarm ==
    /\ relaying = Resting /\ relayAlarm
    /\ relayAlarm' = FALSE
    /\ LET kept == {j \in Jobs : relays[j] # NoRelay}
           first == CHOOSE j \in kept : \A k \in kept : j <= k
       IN relaying' = IF kept = {} THEN Resting
                      ELSE [Resting EXCEPT !.pc = "job", !.job = first,
                                           !.delegate = relays[first].delegate, !.alarm = TRUE]
    /\ UNCHANGED <<offered, relays, relayNonce, places, quotes, relayChain, sentTxs, mishap, relayFaults>>

\* The object dies between two awaits; an alarm that did not return is delivered again.
RelayCrash ==
    /\ relaying # Resting /\ relayFaults < offered.faults
    /\ relayFaults' = relayFaults + 1
    /\ mishap' = mishap \cup {"crash"}
    /\ throws
    /\ UNCHANGED <<offered, relays, relayNonce, places, quotes, relayChain, sentTxs>>

RelayStep(j) ==
    /\ relaying.job = j
    /\ LET d == relaying.delegate
       IN \/ readSponsoredMediaJob(j, d) \/ queryTransactionForAccount(j) \/ observed(j, d)
          \/ readSponsorRelayerAccessKey(j, d) \/ reserveSponsoredAdmission(j)
          \/ openRelay(j, d) \/ reserveRelayNonce(j) \/ signRelay(j)
          \/ requireSponsoredQuoteFresh(j, d) \/ sendRelay(j) \/ afterSend(j, d)
          \/ releaseSponsoredAdmission(j) \/ deleteRelay(j)

\* The chain executes a transaction with a fresh nonce once.  The delegate in it creates the job
\* if it is unspent and its quote is not over; the creator's other delegate is overtaken with it.
\* One whose inner call was refused may be reported as sent or as failed.
relayExecutes(tx) ==
    /\ tx \in inFlight
    /\ inFlight' = inFlight \ {tx}
    /\ IF tx.nonce <= keyNonce THEN UNCHANGED <<spent, jobs, keyNonce, results>>
       ELSE /\ keyNonce' = tx.nonce
            /\ LET alive == <<tx.job, tx.delegate>> \notin spent /\ quotes[tx.job][tx.delegate] # "over"
               IN /\ spent' = IF alive THEN spent \cup {<<tx.job, d>> : d \in Delegates} ELSE spent
                  /\ \/ /\ alive /\ jobs[tx.job] = 0
                        /\ jobs' = [jobs EXCEPT ![tx.job] = tx.delegate]
                        /\ results' = results \cup {[tx |-> tx, result |-> "sent"]}
                     \/ /\ \E result \in {"sent", "failed"} :
                              results' = results \cup {[tx |-> tx, result |-> result]}
                        /\ UNCHANGED jobs
    /\ UNCHANGED <<relayStore, relaying, places, quotes, sentTxs, mishap, relayFaults>>

\* The quote ends for the worker; that it also ends for the chain only matters to a transaction
\* under way.
QuoteAges(j, d) ==
    /\ \/ quotes[j][d] = "fresh"
       \/ quotes[j][d] = "stale" /\ \E tx \in inFlight : tx.job = j /\ tx.delegate = d
    /\ quotes' = [quotes EXCEPT ![j][d] = IF @ = "fresh" THEN "stale" ELSE "over"]
    /\ UNCHANGED <<relayStore, relaying, places, relayChain, sentTxs, mishap, relayFaults>>

RelayInit ==
    /\ offered \in Offers
    /\ relays = [j \in Jobs |-> NoRelay]
    /\ relayNonce = 0 /\ relayAlarm = FALSE /\ relaying = Resting /\ places = {}
    /\ quotes = [j \in Jobs |-> [d \in Delegates |-> "fresh"]]
    /\ spent = {} /\ jobs = [j \in Jobs |-> 0] /\ keyNonce = 0
    /\ inFlight = {} /\ results = {} /\ sentTxs = {} /\ mishap = {} /\ relayFaults = 0

RelayNext ==
    \/ \E o \in offered.delegates : relaySponsoredUpload(o[1], o[2]) \/ QuoteAges(o[1], o[2])
    \/ \E j \in Jobs : RelayStep(j)
    \/ advanceSponsorRelayAlarm \/ RelayCrash
    \/ \E tx \in inFlight : relayExecutes(tx)

-----------------------------------------------------------------------------
RelayTypeOK ==
    /\ relays \in [Jobs -> [state : {"NONE", "PENDING", "RESERVED", "SIGNED", "BROADCAST"},
                            delegate : Delegates \cup {0}, nonce : 0..MaxRelayNonce, signed : BOOLEAN]]
    /\ relayNonce \in 0..MaxRelayNonce /\ relayAlarm \in BOOLEAN
    /\ places \subseteq Jobs /\ spent \subseteq Jobs \X Delegates
    /\ jobs \in [Jobs -> Delegates \cup {0}] /\ keyNonce \in 0..MaxRelayNonce
    /\ mishap \subseteq {"lost", "misread", "crash", "unreleased"} /\ relayFaults \in 0..offered.faults

\* The relayer never hands two transactions with one nonce to the node: the second would be
\* dropped and its job would wait for nothing.
OneRelayPerNonce == \A x, y \in sentTxs : x.nonce = y.nonce => x = y

\* Whether a transaction handed to the node can still pay for its job.
MayPay(tx) ==
    /\ tx \in inFlight /\ tx.nonce > keyNonce /\ jobs[tx.job] = 0
    /\ <<tx.job, tx.delegate>> \notin spent /\ quotes[tx.job][tx.delegate] # "over"

\* The admission place of a job is not given away while a transaction that pays for it is under
\* way: neither a timeout nor an unknown answer is taken for a failure.  An error of the node
\* that the bridge does not recognise, and a crash between the send and the record of it, do
\* break this.
PlaceHeldWhilePaying ==
    mishap \subseteq {"lost", "unreleased"} => \A tx \in inFlight : MayPay(tx) => tx.job \in places

\* A record that was broadcast is settled by the alarm alone, whether or not the creator's browser
\* ever asks again, as long as no other job is relayed, its send is not lost, no answer misleads, its place can be
\* released and the object does not die: the alarm looks at the first record only and is not set
\* again once that one is settled.
Undisturbed(j) == mishap = {} /\ \A o \in offered.delegates : o[1] = j
RelaySettles ==
    LET waiting == \E j \in Jobs : relays[j].state = "BROADCAST" /\ Undisturbed(j)
    IN waiting ~> ~waiting

\* The relay neither reuses a nonce nor gives away the place of a payment under way.
RelaySafe == RelayTypeOK /\ OneRelayPerNonce /\ PlaceHeldWhilePaying
=============================================================================
