------------------------ MODULE BridgeObjectsProofs ------------------------
(***************************************************************************)
(* Proofs about the Durable Objects of the bridge: the two that sign       *)
(* (MCBridgeOperator), for any number of jobs, delegates, nonces, offers   *)
(* and faults, and the object of an upload job with the watch over its     *)
(* asset (MCBridgeUploads), for any deployments, requests, handlers and    *)
(* faults.  A behaviour of a run moves one of its two parts; the invariant *)
(* of each holds throughout.                                               *)
(***************************************************************************)
EXTENDS MCBridgeOperator, MCBridgeUploads, SumTheorems

-----------------------------------------------------------------------------
(* The sponsor relay. *)

RelayTxs == [job : Jobs, delegate : Delegates \cup {0}, nonce : 0 .. MaxRelayNonce]

RelaySteps == {"rest", "job", "query", "observed", "fresh", "reserve", "open", "nonce", "sign", "send",
               "reply", "sent", "release", "delete"}

RelayRecords ==
    [state : {"NONE", "PENDING", "RESERVED", "SIGNED", "BROADCAST"},
     delegate : Delegates \cup {0}, nonce : 0..MaxRelayNonce, signed : BOOLEAN]

Servings ==
    [pc : RelaySteps, job : Jobs \cup {0}, delegate : Delegates \cup {0},
     nonce : 0..MaxRelayNonce, reply : Answers \cup {"none"}, alarm : BOOLEAN]

RelayTypes ==
    /\ offered \in Offers
    /\ relays \in [Jobs -> RelayRecords]
    /\ relayNonce \in 0..MaxRelayNonce /\ relayAlarm \in BOOLEAN
    /\ relaying \in Servings
    /\ places \subseteq Jobs /\ spent \subseteq Jobs \X Delegates
    /\ jobs \in [Jobs -> Delegates \cup {0}] /\ keyNonce \in 0..MaxRelayNonce
    /\ sentTxs \subseteq RelayTxs /\ inFlight \subseteq RelayTxs
    /\ results \subseteq [tx : RelayTxs, result : {"sent", "failed"}]
    /\ mishap \subseteq {"lost", "misread", "crash", "unreleased"}
    /\ relayFaults \in Nat /\ relayFaults <= offered.faults

\* Every nonce handed out is at most the stored one and belongs to one record,
\* and what was sent with it is what that record describes.
NoncesHold ==
    /\ \A tx \in sentTxs : tx.nonce # 0 /\ tx.nonce <= relayNonce
    /\ \A j \in Jobs : /\ relays[j].nonce <= relayNonce
                       /\ relays[j].signed => relays[j].nonce # 0
    /\ \A j, k \in Jobs : relays[j].nonce = relays[k].nonce /\ relays[j].nonce # 0 => j = k
    /\ \A j \in Jobs, tx \in sentTxs : tx.nonce = relays[j].nonce => tx = recordTx(j)
    /\ relaying.pc \in {"sign", "send"} => relays[relaying.job].nonce # 0
    /\ OneRelayPerNonce

\* A transaction that can still pay is the one its record was broadcast with,
\* its job holds a place, and nobody is about to give that place back.
Open(tx) == tx.nonce > keyNonce /\ jobs[tx.job] = 0
PlacesHold ==
    /\ \A tx \in inFlight : Open(tx) =>
          /\ tx = recordTx(tx.job) /\ tx.job \in places
          /\ relaying.job = tx.job => relaying.pc \notin {"release", "delete"}
          /\ relays[tx.job].state = "BROADCAST" \/ (relaying.job = tx.job /\ relaying.pc = "reply")
    /\ relaying.pc \in {"fresh", "reserve", "open", "nonce", "sign", "send"} =>
          relays[relaying.job].state # "BROADCAST"
    /\ relaying.pc \in {"query", "observed", "sent"} => relays[relaying.job].state = "BROADCAST"
    /\ relaying.pc \in {"open", "nonce", "sign", "send"} => relaying.job \in places
    \* an answer that is not unknown is about a nonce the chain has seen
    /\ relaying.pc \in {"observed", "sent"} /\ relaying.reply # "unknown" =>
          relays[relaying.job].nonce <= keyNonce

RelayInv ==
    /\ RelayTypes /\ NoncesHold
    /\ relaying.pc # "rest" => relaying.job \in Jobs
    /\ \A r \in results : r.tx.nonce <= keyNonce
    /\ mishap \subseteq {"lost", "unreleased"} => PlacesHold

\* The constants are what the assumptions say.
LEMMA RelayConstants ==
    /\ Jobs \subseteq Nat /\ 0 \notin Jobs /\ MaxRelayNonce \in Nat
    /\ \A o \in Offers : o.delegates \subseteq Jobs \X Delegates /\ o.faults \in Nat
  BY JobsAssumption, OffersAssumption, RelayBoundsAssumption

\* What the request or alarm under way may become.
LEMMA Goes ==
    ASSUME RelayInv
    PROVE  /\ Resting \in Servings /\ Resting.pc = "rest"
           /\ \A p \in RelaySteps : [relaying EXCEPT !.pc = p] \in Servings
           /\ \A p \in RelaySteps, a \in Answers : [relaying EXCEPT !.pc = p, !.reply = a] \in Servings
           /\ \A p \in RelaySteps : [relaying EXCEPT !.pc = p, !.nonce = keyNonce] \in Servings
  <1>1. relaying \in Servings /\ keyNonce \in 0 .. MaxRelayNonce
    BY DEF RelayInv, RelayTypes
  <1>2. Resting \in Servings /\ Resting.pc = "rest"
    BY RelayConstants DEF Resting, Servings, RelaySteps
  <1>. QED BY <1>1, <1>2 DEF Servings

\* A step of the handler that sends nothing: the record of the job is as it was, or forgets its
\* nonce, or is marked.
LEMMA HandlerKeeps ==
    ASSUME RelayInv, NEW j \in Jobs, NEW rec \in RelayRecords,
           relays' = [relays EXCEPT ![j] = rec],
           rec.nonce = 0 \/ (rec.nonce = relays[j].nonce /\ rec.delegate = relays[j].delegate),
           rec.signed => rec.nonce # 0,
           relaying' \in Servings, relaying'.pc = "rest" \/ relaying'.job = j,
           relaying'.pc \in {"sign", "send"} => rec.nonce # 0,
           UNCHANGED <<offered, relayNonce, relayChain, sentTxs>>,
           relayAlarm' \in BOOLEAN, places' \subseteq Jobs,
           mishap' \subseteq {"lost", "misread", "crash", "unreleased"},
           relayFaults' = relayFaults \/ (relayFaults < offered.faults /\ relayFaults' = relayFaults + 1),
           mishap' \subseteq {"lost", "unreleased"} => PlacesHold'
    PROVE  RelayInv'
  <1>1. RelayTypes'
    BY RelayConstants DEF RelayInv, RelayTypes, relayChain
  <1>2. NoncesHold'
    <2>1. /\ \A k \in Jobs : relays'[k] = IF k = j THEN rec ELSE relays[k]
          /\ sentTxs' = sentTxs /\ relayNonce' = relayNonce
          /\ relayNonce \in Nat /\ \A k \in Jobs : relays[k].nonce \in Nat
          /\ \A tx \in sentTxs : tx.nonce \in Nat
      BY DEF RelayInv, RelayTypes, RelayRecords, RelayTxs
    <2>2. \A tx \in sentTxs : tx.nonce # 0 /\ tx.nonce <= relayNonce'
      BY <2>1 DEF RelayInv, NoncesHold
    <2>3. \A k \in Jobs : /\ relays'[k].nonce <= relayNonce
                          /\ relays'[k].signed => relays'[k].nonce # 0
      BY <2>1 DEF RelayInv, NoncesHold
    <2>4. \A k, l \in Jobs : relays'[k].nonce = relays'[l].nonce /\ relays'[k].nonce # 0 => k = l
      BY <2>1 DEF RelayInv, NoncesHold
    <2>5. ASSUME NEW k \in Jobs, NEW tx \in sentTxs, tx.nonce = relays'[k].nonce
          PROVE  tx = Tx(k, relays'[k].delegate, relays'[k].nonce)
      BY <2>1, <2>2, <2>5 DEF RelayInv, NoncesHold, recordTx
    <2>6. relaying'.pc \in {"sign", "send"} => relays'[relaying'.job].nonce # 0
      BY <2>1
    <2>7. OneRelayPerNonce'
      BY <2>1 DEF RelayInv, NoncesHold, OneRelayPerNonce
    <2>. QED BY <2>1, <2>2, <2>3, <2>4, <2>5, <2>6, <2>7 DEF NoncesHold, recordTx, Tx
  <1>3. relaying'.pc # "rest" => relaying'.job \in Jobs
    OBVIOUS
  <1>4. \A r \in results' : r.tx.nonce <= keyNonce'
    BY DEF RelayInv, relayChain
  <1>. QED BY <1>1, <1>2, <1>3, <1>4 DEF RelayInv

\* The payments under way stay covered while the chain does nothing: a record that forgets its
\* transaction, and a place that is given back, have none that can still pay.
LEMMA CoverKeeps ==
    ASSUME RelayInv, PlacesHold, NEW j \in Jobs, relaying.job = j, NEW rec,
           relays' = [relays EXCEPT ![j] = rec], UNCHANGED relayChain,
           places \ {j} \subseteq places',
           relaying'.pc = "rest" \/ relaying'.job = j,
           \/ /\ rec.nonce = relays[j].nonce /\ rec.delegate = relays[j].delegate
              /\ relays[j].state = "BROADCAST" => rec.state = "BROADCAST"
              /\ j \in places => j \in places'
              /\ relaying.pc = "reply" => rec.state = "BROADCAST"
              /\ relaying'.pc \notin {"release", "delete"}
           \/ \A tx \in inFlight : tx.job = j => ~Open(tx),
           relaying'.pc \in {"fresh", "reserve", "open", "nonce", "sign", "send"} => rec.state # "BROADCAST",
           relaying'.pc \in {"query", "observed", "sent"} => rec.state = "BROADCAST",
           relaying'.pc \in {"open", "nonce", "sign", "send"} => j \in places',
           relaying'.pc \in {"observed", "sent"} /\ relaying'.reply # "unknown" => rec.nonce <= keyNonce
    PROVE  PlacesHold'
  <1>1. \A k \in Jobs : relays'[k] = IF k = j THEN rec ELSE relays[k]
    BY DEF RelayInv, RelayTypes
  <1>2. inFlight' = inFlight /\ keyNonce' = keyNonce /\ jobs' = jobs /\ \A tx \in inFlight : tx.job \in Jobs
    BY DEF relayChain, RelayInv, RelayTypes, RelayTxs
  <1>3. ASSUME NEW tx \in inFlight, Open(tx)
        PROVE  /\ tx = Tx(tx.job, relays'[tx.job].delegate, relays'[tx.job].nonce) /\ tx.job \in places'
               /\ relaying'.job = tx.job => relaying'.pc \notin {"release", "delete"}
               /\ relays'[tx.job].state = "BROADCAST" \/ (relaying'.job = tx.job /\ relaying'.pc = "reply")
    <2>1. /\ tx = recordTx(tx.job) /\ tx.job \in places /\ tx.job \in Jobs
          /\ relays[tx.job].state = "BROADCAST" \/ (relaying.job = tx.job /\ relaying.pc = "reply")
      BY <1>2, <1>3 DEF PlacesHold
    <2>2. CASE tx.job = j
      BY <1>1, <1>3, <2>1, <2>2 DEF recordTx
    <2>3. CASE tx.job # j
      <3>1. relaying'.job = tx.job => relaying'.pc = "rest"
        BY <2>3
      <3>. QED BY <1>1, <2>1, <2>3, <3>1 DEF recordTx
    <2>. QED BY <2>2, <2>3
  <1>4. /\ relaying'.pc \in {"fresh", "reserve", "open", "nonce", "sign", "send"} =>
              relays'[relaying'.job].state # "BROADCAST"
        /\ relaying'.pc \in {"query", "observed", "sent"} => relays'[relaying'.job].state = "BROADCAST"
        /\ relaying'.pc \in {"open", "nonce", "sign", "send"} => relaying'.job \in places'
        /\ relaying'.pc \in {"observed", "sent"} /\ relaying'.reply # "unknown" =>
              relays'[relaying'.job].nonce <= keyNonce'
    BY <1>1, <1>2
  <1>. QED BY <1>2, <1>3, <1>4 DEF PlacesHold, Open, recordTx, Tx

\* What an answer that is not unknown says, unless an error was misread: the chain is past the
\* nonce, so no transaction of the job can still pay.
LEMMA AnswerTrue ==
    ASSUME RelayInv, NEW j \in Jobs, NEW answer \in Answers, Answered(recordTx(j), answer),
           mishap' \subseteq {"lost", "unreleased"}, answer # "unknown"
    PROVE  relays[j].nonce <= keyNonce
  <1>1. answer \in relayAnswer(recordTx(j))
    BY DEF Answered
  <1>2. recordTx(j).nonce = relays[j].nonce
    BY DEF recordTx, Tx
  <1>. QED BY <1>1, <1>2 DEF relayAnswer, RelayInv

\* What was sent for a job whose record has no nonce the key has not used can pay nothing any more.
LEMMA NothingPays ==
    ASSUME RelayInv, PlacesHold, NEW j \in Jobs, relays[j].nonce <= keyNonce
    PROVE  \A tx \in inFlight : tx.job = j => ~Open(tx)
  <1>1. relays[j].nonce \in Nat /\ keyNonce \in Nat
    BY RelayConstants DEF RelayInv, RelayTypes, RelayRecords
  <1>. QED BY <1>1 DEF PlacesHold, Open, recordTx, Tx

\* The types an answer keeps.
LEMMA AnswerTypes ==
    ASSUME RelayInv, NEW tx, NEW answer, Answered(tx, answer)
    PROVE  /\ mishap' \subseteq {"lost", "misread", "crash", "unreleased"} /\ mishap \subseteq mishap'
           /\ relayFaults' = relayFaults \/ (relayFaults < offered.faults /\ relayFaults' = relayFaults + 1)
  BY DEF RelayInv, RelayTypes, Answered

\* Nothing happened to the record.
LEMMA SameRecord ==
    ASSUME RelayInv, NEW j \in Jobs, UNCHANGED relays
    PROVE  relays' = [relays EXCEPT ![j] = relays[j]] /\ relays[j] \in RelayRecords
  BY DEF RelayInv, RelayTypes

\* The records the handler writes.
LEMMA Records ==
    ASSUME RelayInv, NEW j \in Jobs
    PROVE  /\ NoRelay \in RelayRecords /\ NoRelay.nonce = 0 /\ ~NoRelay.signed /\ NoRelay.state = "NONE"
           /\ \A d \in Delegates \cup {0} :
                 LET rec == [NoRelay EXCEPT !.state = "PENDING", !.delegate = d]
                 IN rec \in RelayRecords /\ rec.nonce = 0 /\ ~rec.signed /\ rec.state = "PENDING"
           /\ LET rec == [relays[j] EXCEPT !.state = "BROADCAST"]
              IN /\ rec \in RelayRecords /\ rec.nonce = relays[j].nonce /\ rec.delegate = relays[j].delegate
                 /\ rec.signed = relays[j].signed /\ rec.state = "BROADCAST"
           /\ relays[j] \in RelayRecords
           /\ relays[j].signed => relays[j].nonce # 0
  <1>1. relays[j] \in RelayRecords /\ (relays[j].signed => relays[j].nonce # 0)
    BY DEF RelayInv, RelayTypes, NoncesHold
  <1>2. NoRelay \in RelayRecords /\ NoRelay.nonce = 0 /\ ~NoRelay.signed /\ NoRelay.state = "NONE"
    BY RelayConstants DEF RelayRecords, NoRelay
  <1>3. ASSUME NEW d \in Delegates \cup {0}
        PROVE  LET rec == [NoRelay EXCEPT !.state = "PENDING", !.delegate = d]
               IN rec \in RelayRecords /\ rec.nonce = 0 /\ ~rec.signed /\ rec.state = "PENDING"
    BY <1>2 DEF RelayRecords
  <1>4. LET rec == [relays[j] EXCEPT !.state = "BROADCAST"]
        IN /\ rec \in RelayRecords /\ rec.nonce = relays[j].nonce /\ rec.delegate = relays[j].delegate
           /\ rec.signed = relays[j].signed /\ rec.state = "BROADCAST"
    BY <1>1 DEF RelayRecords
  <1>. QED BY <1>1, <1>2, <1>3, <1>4

\* A request arrives: the record of its job is read first.
LEMMA RequestKeeps ==
    ASSUME RelayInv, NEW j \in Jobs, NEW d \in Delegates, relaySponsoredUpload(j, d)
    PROVE  RelayInv'
  <1>1. /\ relaying = Resting /\ relaying' = [Resting EXCEPT !.pc = "job", !.job = j, !.delegate = d]
        /\ UNCHANGED <<offered, relays, relayNonce, relayAlarm, places, spent, jobs, keyNonce, inFlight, results,
                       sentTxs, mishap, relayFaults>>
    BY DEF relaySponsoredUpload, relayStore, relayChain
  <1>2. /\ relaying' \in Servings /\ relaying'.pc = "job" /\ relaying'.job = j
        /\ relaying.pc = "rest" /\ relaying.job = 0
    <2>1. relaying' = [pc |-> "job", job |-> j, delegate |-> d, nonce |-> 0, reply |-> "none", alarm |-> FALSE]
      BY <1>1 DEF Resting
    <2>2. relaying.pc = "rest" /\ relaying.job = 0
      BY <1>1 DEF Resting
    <2>. QED BY <2>1, <2>2, RelayConstants DEF Servings, RelaySteps
  <1>3. RelayTypes'
    BY <1>1, <1>2 DEF RelayInv, RelayTypes
  <1>4. NoncesHold'
    BY <1>1, <1>2 DEF RelayInv, NoncesHold, OneRelayPerNonce, recordTx
  <1>5. PlacesHold => PlacesHold'
    BY <1>1, <1>2 DEF PlacesHold, Open, recordTx
  <1>. QED BY <1>1, <1>2, <1>3, <1>4, <1>5 DEF RelayInv

\* The alarm takes the first record that storage lists, if there is one.
LEMMA AlarmKeeps ==
    ASSUME RelayInv, advanceSponsorRelayAlarm
    PROVE  RelayInv'
  <1>. DEFINE kept == {k \in Jobs : relays[k] # NoRelay}
              first == CHOOSE k \in kept : \A l \in kept : k <= l
  <1>1. /\ relaying = Resting /\ relayAlarm' = FALSE
        /\ UNCHANGED <<offered, relays, relayNonce, places, spent, jobs, keyNonce, inFlight, results,
                       sentTxs, mishap, relayFaults>>
        /\ relaying' = IF kept = {} THEN Resting
                       ELSE [Resting EXCEPT !.pc = "job", !.job = first,
                                            !.delegate = relays[first].delegate, !.alarm = TRUE]
    BY DEF advanceSponsorRelayAlarm, relayChain
  <1>2. kept # {} => first \in kept
    <2>1. kept \subseteq Nat
      BY RelayConstants
    <2>. HIDE DEF kept
    <2>. QED BY <2>1, LeastOfNat
  <1>3. relaying.pc = "rest" /\ relaying.job = 0
    BY <1>1 DEF Resting
  <1>4. /\ relaying' \in Servings /\ relaying'.pc \in {"rest", "job"}
        /\ relaying'.pc # "rest" => relaying'.job \in Jobs
    <2>1. CASE kept = {}
      BY <1>1, <2>1, Goes
    <2>2. CASE kept # {}
      <3>1. first \in Jobs /\ relays[first].delegate \in Delegates \cup {0}
        BY <1>2, <2>2 DEF RelayInv, RelayTypes, RelayRecords
      <3>2. relaying' = [Resting EXCEPT !.pc = "job", !.job = first, !.delegate = relays[first].delegate, !.alarm = TRUE]
        BY <1>1, <2>2
      <3>. HIDE DEF kept, first
      <3>3. relaying' = [pc |-> "job", job |-> first, delegate |-> relays[first].delegate, nonce |-> 0,
                         reply |-> "none", alarm |-> TRUE]
        BY <3>2 DEF Resting
      <3>. QED BY <3>1, <3>3, RelayConstants DEF Servings, RelaySteps
    <2>. QED BY <2>1, <2>2
  <1>5. RelayTypes'
    BY <1>1, <1>4 DEF RelayInv, RelayTypes
  <1>6. NoncesHold'
    BY <1>1, <1>4 DEF RelayInv, NoncesHold, OneRelayPerNonce, recordTx
  <1>7. PlacesHold => PlacesHold'
    BY <1>1, <1>3, <1>4 DEF PlacesHold, Open, recordTx
  <1>. QED BY <1>1, <1>4, <1>5, <1>6, <1>7 DEF RelayInv

\* The object dies: what is stored stays, and nothing is claimed of places any more.
LEMMA RelayCrashKeeps ==
    ASSUME RelayInv, RelayCrash
    PROVE  RelayInv'
  <1>1. /\ relaying' = Resting /\ relayAlarm' \in BOOLEAN /\ mishap' = mishap \cup {"crash"}
        /\ relayFaults < offered.faults /\ relayFaults' = relayFaults + 1
        /\ mishap' \subseteq {"lost", "misread", "crash", "unreleased"}
        /\ UNCHANGED <<offered, relays, relayNonce, places, relayChain, sentTxs>>
    BY DEF RelayCrash, throws, returns, RelayInv, RelayTypes, Servings
  <1>2. relaying' \in Servings /\ relaying'.pc = "rest"
    BY <1>1, Goes
  <1>3. RelayTypes'
    BY <1>1, <1>2, RelayConstants DEF RelayInv, RelayTypes, relayChain
  <1>4. NoncesHold'
    BY <1>1, <1>2 DEF RelayInv, NoncesHold, OneRelayPerNonce, recordTx, relayChain
  <1>5. ~(mishap' \subseteq {"lost", "unreleased"})
    BY <1>1
  <1>. QED BY <1>1, <1>2, <1>3, <1>4, <1>5 DEF RelayInv, relayChain

\* The chain executes a transaction: its nonce, or the job, ends every claim of it.
LEMMA RelayExecutesKeeps ==
    ASSUME RelayInv, NEW tx \in inFlight, relayExecutes(tx)
    PROVE  RelayInv'
  <1>1. /\ inFlight' = inFlight \ {tx}
        /\ UNCHANGED <<offered, relays, relayNonce, relayAlarm, relaying, places, sentTxs, mishap, relayFaults>>
    BY DEF relayExecutes, relayStore
  <1>2. /\ tx \in RelayTxs /\ tx.nonce \in Nat /\ keyNonce \in Nat /\ tx.job \in Jobs
        /\ tx.delegate \in Delegates \cup {0}
    BY RelayConstants DEF RelayInv, RelayTypes, RelayTxs
  <1>3. /\ keyNonce' \in 0 .. MaxRelayNonce /\ keyNonce <= keyNonce'
        /\ \A k \in Jobs : jobs[k] # 0 => jobs'[k] = jobs[k] \/ jobs'[k] = tx.delegate
        /\ jobs' \in [Jobs -> Delegates \cup {0}] /\ spent' \subseteq Jobs \X Delegates
        /\ results' \subseteq [tx : RelayTxs, result : {"sent", "failed"}]
        /\ \A r \in results' : r.tx.nonce <= keyNonce'
        /\ \A k \in Jobs : jobs'[k] = jobs[k] \/ (k = tx.job /\ jobs[k] = 0)
    <2>1. CASE tx.nonce <= keyNonce
      BY <1>2, <2>1 DEF relayExecutes, RelayInv, RelayTypes
    <2>2. CASE tx.nonce > keyNonce
      <3>1. keyNonce' = tx.nonce /\ tx.nonce \in 0 .. MaxRelayNonce
        BY <1>2, <2>2 DEF relayExecutes, RelayTxs
      <3>2. spent' \subseteq Jobs \X Delegates
        BY <1>2, <2>2 DEF relayExecutes, RelayInv, RelayTypes
      <3>3. \/ jobs[tx.job] = 0 /\ jobs' = [jobs EXCEPT ![tx.job] = tx.delegate]
            \/ jobs' = jobs
        BY <1>2, <2>2 DEF relayExecutes
      <3>4. \E result \in {"sent", "failed"} : results' = results \cup {[tx |-> tx, result |-> result]}
        BY <1>2, <2>2 DEF relayExecutes
      <3>5. \A r \in results' : r.tx.nonce <= keyNonce'
        <4>1. \A r \in results : r.tx.nonce <= keyNonce /\ r.tx.nonce \in Nat
          BY RelayConstants DEF RelayInv, RelayTypes, RelayTxs
        <4>. QED BY <1>2, <2>2, <3>1, <3>4, <4>1
      <3>6. results' \subseteq [tx : RelayTxs, result : {"sent", "failed"}]
        BY <1>2, <3>4 DEF RelayInv, RelayTypes
      <3>. QED BY <1>2, <2>2, <3>1, <3>2, <3>3, <3>5, <3>6 DEF RelayInv, RelayTypes
    <2>. QED BY <1>2, <2>1, <2>2
  <1>4. RelayTypes'
    BY <1>1, <1>3 DEF RelayInv, RelayTypes
  <1>5. NoncesHold'
    BY <1>1 DEF RelayInv, NoncesHold, OneRelayPerNonce, recordTx
  <1>6. PlacesHold => PlacesHold'
    <2>. SUFFICES ASSUME PlacesHold PROVE PlacesHold'
      OBVIOUS
    <2>1. ASSUME NEW x \in inFlight', Open(x)' PROVE Open(x)
      <3>1. x.nonce \in Nat /\ keyNonce' \in Nat /\ x.job \in Jobs
        BY <1>1, <1>3, RelayConstants DEF RelayInv, RelayTypes, RelayTxs
      <3>2. jobs[x.job] = 0
        BY <1>3, <2>1, <3>1 DEF Open
      <3>. QED BY <1>2, <1>3, <2>1, <3>1, <3>2 DEF Open
    <2>2. \A k \in Jobs : relays[k].nonce \in Nat
      BY DEF RelayInv, RelayTypes, RelayRecords
    <2>3. relaying.pc \in {"observed", "sent"} => relaying.job \in Jobs
      BY DEF RelayInv
    <2>4. relaying'.pc \in {"observed", "sent"} /\ relaying'.reply # "unknown" =>
             relays'[relaying'.job].nonce <= keyNonce'
      BY <1>1, <1>2, <1>3, <2>2, <2>3 DEF PlacesHold
    <2>. QED BY <1>1, <2>1, <2>4 DEF PlacesHold, recordTx
  <1>. QED BY <1>1, <1>3, <1>4, <1>5, <1>6 DEF RelayInv

\* A step of the handler, in the two halves the invariant has.
Steady(j, rec) ==
    /\ rec \in RelayRecords /\ relays' = [relays EXCEPT ![j] = rec]
    /\ rec.nonce = 0 \/ (rec.nonce = relays[j].nonce /\ rec.delegate = relays[j].delegate)
    /\ rec.signed => rec.nonce # 0
    /\ relaying' \in Servings
    /\ relaying'.pc = "rest" \/ relaying'.job = j
    /\ relaying'.pc \in {"sign", "send"} => rec.nonce # 0
    /\ UNCHANGED <<offered, relayNonce, spent, jobs, keyNonce, inFlight, results, sentTxs>>
    /\ relayAlarm' \in BOOLEAN /\ places' \subseteq Jobs /\ places \ {j} \subseteq places'
    /\ mishap \subseteq mishap' /\ mishap' \subseteq {"lost", "misread", "crash", "unreleased"}
    /\ relayFaults' = relayFaults \/ (relayFaults < offered.faults /\ relayFaults' = relayFaults + 1)

Covered(j, rec) ==
    /\ \/ /\ rec.nonce = relays[j].nonce /\ rec.delegate = relays[j].delegate
          /\ relays[j].state = "BROADCAST" => rec.state = "BROADCAST"
          /\ j \in places => j \in places'
          /\ relaying.pc = "reply" => rec.state = "BROADCAST"
          /\ relaying'.pc \notin {"release", "delete"}
       \/ \A tx \in inFlight : tx.job = j => ~Open(tx)
    /\ relaying'.pc \in {"fresh", "reserve", "open", "nonce", "sign", "send"} => rec.state # "BROADCAST"
    /\ relaying'.pc \in {"query", "observed", "sent"} => rec.state = "BROADCAST"
    /\ relaying'.pc \in {"open", "nonce", "sign", "send"} => j \in places'
    /\ relaying'.pc \in {"observed", "sent"} /\ relaying'.reply # "unknown" => rec.nonce <= keyNonce

\* A step that writes the record steadily keeps the invariant, if what can pay stays covered.
LEMMA StepKeeps ==
    ASSUME RelayInv, NEW j \in Jobs, relaying.job = j, NEW rec, Steady(j, rec),
           mishap' \subseteq {"lost", "unreleased"} /\ PlacesHold => Covered(j, rec)
    PROVE  RelayInv'
  <1>1. mishap' \subseteq {"lost", "unreleased"} => PlacesHold'
    <2>. SUFFICES ASSUME mishap' \subseteq {"lost", "unreleased"} PROVE PlacesHold'
      OBVIOUS
    <2>1. PlacesHold
      BY DEF Steady, RelayInv
    <2>2. Covered(j, rec)
      BY <2>1
    <2>. QED BY <2>1, <2>2, CoverKeeps DEF Steady, Covered, relayChain
  <1>. QED BY <1>1, HandlerKeeps DEF Steady, relayChain

\* A request that returns, or goes on without touching the record.
LEMMA Returns ==
    ASSUME RelayInv, NEW again \in BOOLEAN, returns(again)
    PROVE  relaying' \in Servings /\ relaying'.pc = "rest" /\ relayAlarm' \in BOOLEAN
  BY Goes DEF RelayInv, RelayTypes, returns

\* A request that throws leaves the alarm as it was.
LEMMA Throws ==
    ASSUME RelayInv, throws
    PROVE  relaying' \in Servings /\ relaying'.pc = "rest" /\ relayAlarm' \in BOOLEAN
  BY Returns DEF throws, RelayInv, RelayTypes, Servings

\* A request that goes on is about the same job.
LEMMA Steps ==
    ASSUME RelayInv, NEW p \in RelaySteps, step(p)
    PROVE  relaying' \in Servings /\ relaying'.pc = p /\ relaying'.job = relaying.job
  BY Goes DEF step, RelayInv, RelayTypes, Servings

\* The job is on chain: none of its transactions can pay any more, and the record may go.
LEMMA ExactKeeps ==
    ASSUME RelayInv, NEW j \in Jobs, relaying.job = j, NEW d, requireExactSponsoredJob(j, d), jobs[j] # 0,
           UNCHANGED <<offered, relayNonce, places, quotes, relayChain, sentTxs, mishap, relayFaults>>,
           relaying.pc # "reply"
    PROVE  RelayInv'
  <1>0. /\ places \subseteq Jobs /\ mishap \subseteq {"lost", "misread", "crash", "unreleased"}
        /\ \A tx \in inFlight : tx.job = j => ~Open(tx)
    BY DEF RelayInv, RelayTypes, Open
  <1>1. CASE jobs[j] = d
    <2>1. relays' = [relays EXCEPT ![j] = NoRelay] /\ returns(FALSE)
      BY <1>1 DEF requireExactSponsoredJob
    <2>. QED BY <1>0, <2>1, Returns, Records, StepKeeps DEF Steady, Covered, relayChain
  <1>2. CASE jobs[j] # d
    <2>1. UNCHANGED relays /\ throws
      BY <1>2 DEF requireExactSponsoredJob
    <2>. QED BY <1>0, <2>1, Throws, SameRecord, Records, StepKeeps DEF Steady, Covered, relayChain
  <1>. QED BY <1>1, <1>2

\* A handler that gives up leaves the record as it was.
LEMMA GivesUpKeeps ==
    ASSUME RelayInv, NEW j \in Jobs, relaying.job = j, throws, relaying.pc # "reply",
           UNCHANGED <<offered, relays, relayNonce, relayChain, sentTxs, places, mishap, relayFaults>>
    PROVE  RelayInv'
  <1>0. places \subseteq Jobs /\ mishap \subseteq {"lost", "misread", "crash", "unreleased"}
    BY DEF RelayInv, RelayTypes
  <1>. QED BY <1>0, Throws, SameRecord, Records, StepKeeps DEF Steady, Covered, relayChain

\* The first read: a job that is there ends it, another delegate's record refuses it.
LEMMA ReadJobKeeps ==
    ASSUME RelayInv, NEW j \in Jobs, relaying.job = j, NEW d, readSponsoredMediaJob(j, d)
    PROVE  RelayInv'
  <1>0. /\ relaying.pc = "job" /\ places \subseteq Jobs /\ mishap \subseteq {"lost", "misread", "crash", "unreleased"}
        /\ UNCHANGED <<offered, relayNonce, places, quotes, relayChain, sentTxs, mishap, relayFaults>>
    BY DEF RelayInv, RelayTypes, readSponsoredMediaJob
  <1>1. CASE jobs[j] # 0
    BY <1>0, <1>1, ExactKeeps DEF readSponsoredMediaJob
  <1>2. CASE jobs[j] = 0 /\ relays[j] # NoRelay /\ relays[j].delegate # d
    <2>1. UNCHANGED relays /\ throws
      BY <1>2 DEF readSponsoredMediaJob
    <2>. QED BY <1>0, <2>1, GivesUpKeeps
  <1>3. CASE jobs[j] = 0 /\ ~(relays[j] # NoRelay /\ relays[j].delegate # d)
    <2>1. /\ UNCHANGED <<relays, relayAlarm>> /\ relayAlarm \in BOOLEAN
          /\ step(IF relays[j].state = "BROADCAST" THEN "query" ELSE "fresh")
      BY <1>3 DEF readSponsoredMediaJob, RelayInv, RelayTypes
    <2>2. CASE relays[j].state = "BROADCAST"
      <3>1. relaying' \in Servings /\ relaying'.pc = "query" /\ relaying'.job = j
        BY <2>1, <2>2, Steps DEF RelaySteps
      <3>. QED BY <1>0, <2>1, <2>2, <3>1, SameRecord, Records, StepKeeps DEF Steady, Covered, relayChain
    <2>3. CASE relays[j].state # "BROADCAST"
      <3>1. relaying' \in Servings /\ relaying'.pc = "fresh" /\ relaying'.job = j
        BY <2>1, <2>3, Steps DEF RelaySteps
      <3>. QED BY <1>0, <2>1, <2>3, <3>1, SameRecord, Records, StepKeeps DEF Steady, Covered, relayChain
    <2>. QED BY <2>2, <2>3
  <1>. QED BY <1>1, <1>2, <1>3

\* The transaction of a broadcast record is looked up.
LEMMA QueryKeeps ==
    ASSUME RelayInv, NEW j \in Jobs, relaying.job = j, queryTransactionForAccount(j)
    PROVE  RelayInv'
  <1>1. PICK answer \in Answers :
           /\ Answered(recordTx(j), answer)
           /\ relaying' = [relaying EXCEPT !.pc = "observed", !.reply = answer]
    BY DEF queryTransactionForAccount
  <1>2. /\ relaying.pc = "query" /\ places \subseteq Jobs /\ relayAlarm \in BOOLEAN /\ relaying \in Servings
        /\ UNCHANGED <<relayStore, places, quotes, relayChain, sentTxs>>
    BY DEF queryTransactionForAccount, RelayInv, RelayTypes
  <1>3. relaying' \in Servings /\ relaying'.pc = "observed" /\ relaying'.job = j /\ relaying'.reply = answer
    <2>1. relaying' \in Servings
      BY <1>1, Goes DEF RelaySteps
    <2>. QED BY <1>1, <1>2, <2>1 DEF Servings
  <1>4. Steady(j, relays[j])
    BY <1>1, <1>2, <1>3, AnswerTypes, SameRecord, Records DEF Steady, relayStore, relayChain
  <1>5. ASSUME mishap' \subseteq {"lost", "unreleased"}, PlacesHold PROVE Covered(j, relays[j])
    <2>1. answer # "unknown" => relays[j].nonce <= keyNonce
      BY <1>1, <1>5, AnswerTrue
    <2>2. relays[j].state = "BROADCAST"
      BY <1>2, <1>5 DEF PlacesHold
    <2>. QED BY <1>2, <1>3, <2>1, <2>2 DEF Covered
  <1>. QED BY <1>4, <1>5, StepKeeps

\* What was looked up decides: settle, wait, or sign anew.
LEMMA ObservedKeeps ==
    ASSUME RelayInv, NEW j \in Jobs, relaying.job = j, NEW d, observed(j, d)
    PROVE  RelayInv'
  <1>0. /\ relaying.pc = "observed" /\ places \subseteq Jobs /\ mishap \subseteq {"lost", "misread", "crash", "unreleased"}
        /\ UNCHANGED <<offered, relayNonce, places, quotes, relayChain, sentTxs, mishap, relayFaults>>
        /\ relayAlarm \in BOOLEAN /\ relaying.reply \in Answers \cup {"none"}
        /\ relays[j].delegate \in Delegates \cup {0}
    BY DEF observed, RelayInv, RelayTypes, Servings, RelayRecords
  <1>1. CASE jobs[j] # 0
    BY <1>0, <1>1, ExactKeeps DEF observed
  <1>2. CASE jobs[j] = 0 /\ relaying.reply \in {"failed", "sent"}
    <2>1. UNCHANGED <<relays, relayAlarm>> /\ step("release")
      BY <1>2 DEF observed
    <2>2. relaying' \in Servings /\ relaying'.pc = "release" /\ relaying'.job = j
      BY <2>1, Steps DEF RelaySteps
    <2>3. PlacesHold => \A tx \in inFlight : tx.job = j => ~Open(tx)
      BY <1>0, <1>2, NothingPays DEF PlacesHold
    <2>. QED BY <1>0, <2>1, <2>2, <2>3, SameRecord, Records, StepKeeps DEF Steady, Covered, relayChain
  <1>3. CASE jobs[j] = 0 /\ relaying.reply = "unknown"
    <2>1. UNCHANGED relays /\ returns(TRUE)
      BY <1>3 DEF observed
    <2>. QED BY <1>0, <2>1, Returns, SameRecord, Records, StepKeeps DEF Steady, Covered, relayChain
  <1>4. CASE jobs[j] = 0 /\ relaying.reply \notin {"failed", "sent", "unknown"}
    <2>1. relays' = clearSponsorRelayTransaction(j) /\ step("fresh") /\ UNCHANGED relayAlarm
      BY <1>4 DEF observed
    <2>2. relaying' \in Servings /\ relaying'.pc = "fresh" /\ relaying'.job = j
      BY <2>1, Steps DEF RelaySteps
    <2>3. PlacesHold => \A tx \in inFlight : tx.job = j => ~Open(tx)
      BY <1>0, <1>4, NothingPays DEF PlacesHold
    <2>4. PICK rec : rec = [NoRelay EXCEPT !.state = "PENDING", !.delegate = relays[j].delegate]
      OBVIOUS
    <2>5. rec \in RelayRecords /\ rec.nonce = 0 /\ ~rec.signed /\ rec.state = "PENDING"
      BY <1>0, <2>4, Records
    <2>6. relays' = [relays EXCEPT ![j] = rec]
      BY <2>1, <2>4 DEF clearSponsorRelayTransaction
    <2>. QED BY <1>0, <2>1, <2>2, <2>3, <2>5, <2>6, StepKeeps DEF Steady, Covered, relayChain
  <1>. QED BY <1>0, <1>1, <1>2, <1>3, <1>4

\* A quote that ended gives the record up; otherwise the keys are read.
LEMMA FreshKeeps ==
    ASSUME RelayInv, NEW j \in Jobs, relaying.job = j, NEW d, readSponsorRelayerAccessKey(j, d)
    PROVE  RelayInv'
  <1>0. /\ relaying.pc = "fresh" /\ places \subseteq Jobs /\ mishap \subseteq {"lost", "misread", "crash", "unreleased"}
        /\ UNCHANGED <<offered, relays, relayNonce, places, quotes, relayChain, sentTxs, mishap, relayFaults>>
        /\ relayAlarm \in BOOLEAN /\ relaying \in Servings
    BY DEF readSponsorRelayerAccessKey, RelayInv, RelayTypes
  <1>1. PlacesHold => relays[j].state # "BROADCAST"
    BY <1>0 DEF PlacesHold
  <1>2. CASE throws
    BY <1>0, <1>2, GivesUpKeeps
  <1>3. CASE step("release") /\ UNCHANGED relayAlarm
    <2>1. relaying' \in Servings /\ relaying'.pc = "release" /\ relaying'.job = j
      BY <1>3, Steps DEF RelaySteps
    <2>2. PlacesHold => \A tx \in inFlight : tx.job = j => ~Open(tx)
      BY <1>0, <1>1 DEF PlacesHold
    <2>. QED BY <1>0, <1>3, <2>1, <2>2, SameRecord, Records, StepKeeps DEF Steady, Covered, relayChain
  <1>4. CASE relaying' = [relaying EXCEPT !.pc = "reserve", !.nonce = keyNonce] /\ UNCHANGED relayAlarm
    <2>1. relaying' \in Servings
      BY <1>4, Goes DEF RelaySteps
    <2>2. relaying'.pc = "reserve" /\ relaying'.job = j
      BY <1>0, <1>4 DEF Servings
    <2>. QED BY <1>0, <1>1, <1>4, <2>1, <2>2, SameRecord, Records, StepKeeps DEF Steady, Covered, relayChain
  <1>. QED BY <1>2, <1>3, <1>4 DEF readSponsorRelayerAccessKey

\* The place is taken, or held already.
LEMMA ReserveKeeps ==
    ASSUME RelayInv, NEW j \in Jobs, relaying.job = j, reserveSponsoredAdmission(j)
    PROVE  RelayInv'
  <1>0. /\ relaying.pc = "reserve" /\ places \subseteq Jobs /\ mishap \subseteq {"lost", "misread", "crash", "unreleased"}
        /\ UNCHANGED <<offered, relays, relayNonce, quotes, relayChain, sentTxs, mishap, relayFaults>>
        /\ relayAlarm \in BOOLEAN
    BY DEF reserveSponsoredAdmission, RelayInv, RelayTypes
  <1>1. CASE throws /\ UNCHANGED places
    BY <1>0, <1>1, GivesUpKeeps
  <1>2. CASE places' = places \cup {j} /\ step("open") /\ UNCHANGED relayAlarm
    <2>1. relaying' \in Servings /\ relaying'.pc = "open" /\ relaying'.job = j
      BY <1>2, Steps DEF RelaySteps
    <2>2. PlacesHold => relays[j].state # "BROADCAST"
      BY <1>0 DEF PlacesHold
    <2>3. places' \subseteq Jobs /\ places \ {j} \subseteq places' /\ j \in places'
      BY <1>0, <1>2
    <2>4. Steady(j, relays[j])
      BY <1>0, <1>2, <2>1, <2>3, SameRecord, Records DEF Steady, relayChain
    <2>5. PlacesHold => Covered(j, relays[j])
      BY <1>0, <2>1, <2>2, <2>3 DEF Covered
    <2>. QED BY <2>4, <2>5, StepKeeps
  <1>. QED BY <1>1, <1>2 DEF reserveSponsoredAdmission

\* The record is opened, or taken up where it was left.
LEMMA OpenKeeps ==
    ASSUME RelayInv, NEW j \in Jobs, relaying.job = j, NEW d, d = relaying.delegate, openRelay(j, d)
    PROVE  RelayInv'
  <1>0. /\ relaying.pc = "open" /\ places \subseteq Jobs /\ mishap \subseteq {"lost", "misread", "crash", "unreleased"}
        /\ UNCHANGED <<offered, relayNonce, relayAlarm, places, quotes, relayChain, sentTxs, mishap, relayFaults>>
        /\ relayAlarm \in BOOLEAN /\ d \in Delegates \cup {0}
    BY DEF openRelay, RelayInv, RelayTypes, Servings
  <1>1. PICK p \in {"send", "sign", "nonce"} :
           /\ step(p)
           /\ p = "send" => relays[j].signed
           /\ p = "sign" => relays[j].nonce # 0
    BY DEF openRelay
  <1>2. relaying' \in Servings /\ relaying'.pc = p /\ relaying'.job = j
    BY <1>1, Steps DEF RelaySteps
  <1>3. PlacesHold => relays[j].state # "BROADCAST" /\ j \in places
    BY <1>0 DEF PlacesHold
  <1>4. CASE relays[j] # NoRelay
    <2>1. UNCHANGED relays
      BY <1>4 DEF openRelay
    <2>2. Steady(j, relays[j])
      BY <1>0, <1>1, <1>2, <2>1, SameRecord, Records DEF Steady, relayChain
    <2>3. PlacesHold => Covered(j, relays[j])
      BY <1>0, <1>1, <1>2, <1>3 DEF Covered
    <2>. QED BY <2>2, <2>3, StepKeeps
  <1>5. CASE relays[j] = NoRelay
    <2>1. PICK rec : rec = [NoRelay EXCEPT !.state = "PENDING", !.delegate = d]
      OBVIOUS
    <2>2. rec \in RelayRecords /\ rec.nonce = 0 /\ ~rec.signed /\ rec.state = "PENDING"
      BY <1>0, <2>1, Records
    <2>3. relays' = [relays EXCEPT ![j] = rec]
      BY <1>5, <2>1 DEF openRelay
    <2>4. relays[j].nonce = 0 /\ ~relays[j].signed
      BY <1>5, Records
    <2>5. Steady(j, rec)
      BY <1>0, <1>1, <1>2, <2>2, <2>3, <2>4 DEF Steady, relayChain
    <2>6. PlacesHold => \A tx \in inFlight : tx.job = j => ~Open(tx)
      <3>1. keyNonce \in Nat /\ \A tx \in inFlight : tx.nonce \in Nat
        BY RelayConstants DEF RelayInv, RelayTypes, RelayTxs
      <3>. QED BY <2>4, <3>1 DEF PlacesHold, Open, recordTx, Tx
    <2>7. PlacesHold => Covered(j, rec)
      BY <1>0, <1>1, <1>2, <1>3, <2>2, <2>6 DEF Covered
    <2>. QED BY <2>5, <2>7, StepKeeps
  <1>. QED BY <1>4, <1>5

\* The nonce is past every one that was handed out.
LEMMA NonceKeeps ==
    ASSUME RelayInv, NEW j \in Jobs, relaying.job = j, reserveRelayNonce(j)
    PROVE  RelayInv'
  <1>1. PICK n : n = next_relay_nonce
    OBVIOUS
  <1>2. /\ relayNonce \in Nat /\ relaying.nonce \in Nat /\ relayNonce <= MaxRelayNonce
        /\ relaying \in Servings /\ relayAlarm \in BOOLEAN
        /\ \A k \in Jobs : relays[k].nonce \in Nat /\ relays[k].nonce <= relayNonce
        /\ \A tx \in sentTxs : tx.nonce \in Nat /\ tx.nonce <= relayNonce /\ tx.nonce # 0
    BY RelayConstants DEF RelayInv, RelayTypes, NoncesHold, Servings, RelayRecords, RelayTxs
  <1>3. n \in Nat /\ relayNonce < n
    BY <1>1, <1>2 DEF next_relay_nonce
  <1>4. /\ relaying.pc = "nonce" /\ n <= MaxRelayNonce /\ relayNonce' = n /\ step("sign")
        /\ relays' = [relays EXCEPT ![j].state = "RESERVED", ![j].nonce = n]
        /\ UNCHANGED <<offered, relayAlarm, places, spent, jobs, keyNonce, inFlight, results, sentTxs, mishap, relayFaults>>
    BY <1>1 DEF reserveRelayNonce, relayChain
  <1>5. PICK rec : rec = [relays[j] EXCEPT !.state = "RESERVED", !.nonce = n]
    OBVIOUS
  <1>6. rec \in RelayRecords /\ rec.nonce = n /\ rec.state = "RESERVED"
    <2>1. relays[j] \in RelayRecords /\ n \in 0 .. MaxRelayNonce
      BY <1>3, <1>4, RelayConstants DEF RelayInv, RelayTypes
    <2>. QED BY <1>5, <2>1 DEF RelayRecords
  <1>7. /\ relays' = [relays EXCEPT ![j] = rec]
        /\ \A k \in Jobs : relays'[k] = IF k = j THEN rec ELSE relays[k]
    BY <1>4, <1>5 DEF RelayInv, RelayTypes
  <1>8. relaying' \in Servings /\ relaying'.pc = "sign" /\ relaying'.job = j
    BY <1>4, Steps DEF RelaySteps
  <1>9. RelayTypes'
    BY <1>3, <1>4, <1>6, <1>7, <1>8, RelayConstants DEF RelayInv, RelayTypes
  <1>10. NoncesHold'
    <2>1. \A tx \in sentTxs' : tx.nonce # 0 /\ tx.nonce <= relayNonce'
      BY <1>2, <1>3, <1>4
    <2>2. \A k \in Jobs : /\ relays'[k].nonce <= relayNonce'
                          /\ relays'[k].signed => relays'[k].nonce # 0
      <3>1. relays'[j].nonce = n /\ n # 0
        BY <1>2, <1>3, <1>6, <1>7
      <3>2. \A k \in Jobs : relays[k].signed => relays[k].nonce # 0
        BY DEF RelayInv, NoncesHold
      <3>3. \A k \in Jobs : k # j => relays'[k] = relays[k]
        BY <1>7
      <3>4. \A k \in Jobs : relays[k].nonce <= n
        BY <1>2, <1>3
      <3>5. relayNonce' = n
        BY <1>4
      <3>6. \A k \in Jobs : relays'[k].nonce <= n
        BY <1>3, <3>1, <3>3, <3>4
      <3>7. \A k \in Jobs : relays'[k].signed => relays'[k].nonce # 0
        BY <3>1, <3>2, <3>3
      <3>. QED BY <3>5, <3>6, <3>7
    <2>3. \A k, l \in Jobs : relays'[k].nonce = relays'[l].nonce /\ relays'[k].nonce # 0 => k = l
      <3>1. \A k, l \in Jobs : relays[k].nonce = relays[l].nonce /\ relays[k].nonce # 0 => k = l
        BY DEF RelayInv, NoncesHold
      <3>2. \A k \in Jobs : k # j => relays'[k].nonce = relays[k].nonce /\ relays'[k].nonce # n
        BY <1>2, <1>3, <1>7
      <3>3. relays'[j].nonce = n
        BY <1>6, <1>7
      <3>. QED BY <3>1, <3>2, <3>3
    <2>4. ASSUME NEW k \in Jobs, NEW tx \in sentTxs', tx.nonce = relays'[k].nonce
          PROVE  tx = Tx(k, relays'[k].delegate, relays'[k].nonce)
      <3>1. tx \in sentTxs /\ k # j
        BY <1>2, <1>3, <1>4, <1>6, <1>7, <2>4
      <3>. QED BY <1>7, <2>4, <3>1 DEF RelayInv, NoncesHold, recordTx
    <2>5. relaying'.pc \in {"sign", "send"} => relays'[relaying'.job].nonce # 0
      BY <1>2, <1>3, <1>6, <1>7, <1>8
    <2>6. OneRelayPerNonce'
      BY <1>4 DEF RelayInv, NoncesHold, OneRelayPerNonce
    <2>. QED BY <2>1, <2>2, <2>3, <2>4, <2>5, <2>6 DEF NoncesHold, recordTx, Tx
  <1>11. PlacesHold => PlacesHold'
    <2>. SUFFICES ASSUME PlacesHold PROVE PlacesHold'
      OBVIOUS
    <2>1. \A tx \in inFlight : Open(tx) => tx.job \in Jobs /\ tx.job # j
      BY <1>4 DEF PlacesHold, RelayInv, RelayTypes, RelayTxs
    <2>2. \A tx \in inFlight : Open(tx)' => Open(tx)
      BY <1>4 DEF Open
    <2>3. ASSUME NEW tx \in inFlight, Open(tx)
          PROVE  /\ tx = Tx(tx.job, relays'[tx.job].delegate, relays'[tx.job].nonce) /\ tx.job \in places'
                 /\ relays'[tx.job].state = "BROADCAST"
      <3>1. relays'[tx.job] = relays[tx.job]
        BY <1>7, <2>1, <2>3
      <3>. QED BY <1>4, <2>1, <2>3, <3>1 DEF PlacesHold, recordTx
    <2>4. j \in places' /\ relays'[j].state # "BROADCAST"
      BY <1>4, <1>6, <1>7 DEF PlacesHold
    <2>. QED BY <1>4, <1>8, <2>1, <2>2, <2>3, <2>4 DEF PlacesHold, recordTx, Tx
  <1>. QED BY <1>4, <1>8, <1>9, <1>10, <1>11 DEF RelayInv

\* The record is signed.
LEMMA SignKeeps ==
    ASSUME RelayInv, NEW j \in Jobs, relaying.job = j, signRelay(j)
    PROVE  RelayInv'
  <1>1. /\ relaying.pc = "sign" /\ step("send")
        /\ relays' = [relays EXCEPT ![j].state = "SIGNED", ![j].signed = TRUE]
        /\ UNCHANGED <<offered, relayNonce, relayAlarm, places, spent, jobs, keyNonce, inFlight, results, sentTxs, mishap, relayFaults>>
        /\ relayAlarm \in BOOLEAN /\ places \subseteq Jobs /\ mishap \subseteq {"lost", "misread", "crash", "unreleased"}
        /\ relays[j] \in RelayRecords
    BY DEF signRelay, relayChain, RelayInv, RelayTypes
  <1>2. PICK rec : rec = [relays[j] EXCEPT !.state = "SIGNED", !.signed = TRUE]
    OBVIOUS
  <1>3. /\ rec \in RelayRecords /\ rec.nonce = relays[j].nonce /\ rec.delegate = relays[j].delegate
        /\ rec.state = "SIGNED"
    BY <1>1, <1>2 DEF RelayRecords
  <1>4. relays' = [relays EXCEPT ![j] = rec]
    BY <1>1, <1>2
  <1>5. rec.nonce # 0
    BY <1>1, <1>3 DEF RelayInv, NoncesHold
  <1>6. relaying' \in Servings /\ relaying'.pc = "send" /\ relaying'.job = j
    BY <1>1, Steps DEF RelaySteps
  <1>7. Steady(j, rec)
    BY <1>1, <1>3, <1>4, <1>5, <1>6 DEF Steady
  <1>8. PlacesHold => Covered(j, rec)
    <2>1. PlacesHold => relays[j].state # "BROADCAST" /\ j \in places
      BY <1>1 DEF PlacesHold
    <2>. QED BY <1>1, <1>3, <1>6, <2>1 DEF Covered
  <1>. QED BY <1>7, <1>8, StepKeeps

\* The transaction is handed to the node, unless the quote ended: its job holds a place, and no
\* other transaction bears its nonce.
LEMMA SendKeeps ==
    ASSUME RelayInv, NEW j \in Jobs, relaying.job = j, NEW d, requireSponsoredQuoteFresh(j, d)
    PROVE  RelayInv'
  <1>0. /\ relaying.pc = "send" /\ places \subseteq Jobs /\ mishap \subseteq {"lost", "misread", "crash", "unreleased"}
        /\ UNCHANGED <<offered, relayNonce, places, quotes, spent, jobs, keyNonce, results>>
        /\ relayAlarm \in BOOLEAN /\ relaying \in Servings
    BY DEF requireSponsoredQuoteFresh, RelayInv, RelayTypes
  <1>1. CASE throws /\ UNCHANGED <<relays, sentTxs, inFlight, mishap, relayFaults>>
    BY <1>0, <1>1, GivesUpKeeps DEF relayChain
  <1>. DEFINE tx == recordTx(j)
  <1>2. /\ tx \in RelayTxs /\ tx.nonce = relays[j].nonce /\ tx.job = j /\ tx.nonce # 0
        /\ tx.nonce <= relayNonce
    <2>1. relays[j] \in RelayRecords
      BY DEF RelayInv, RelayTypes
    <2>2. relays[j].nonce # 0 /\ relays[j].nonce <= relayNonce
      BY <1>0 DEF RelayInv, NoncesHold
    <2>. QED BY <2>1, <2>2 DEF recordTx, Tx, RelayTxs, RelayRecords
  <1>3. ASSUME sentTxs' = sentTxs \cup {tx}, NEW rec, relays' = [relays EXCEPT ![j] = rec],
               rec = relays[j] \/ rec = [relays[j] EXCEPT !.state = "BROADCAST"],
               inFlight' = inFlight \/ inFlight' = inFlight \cup ({tx} \ {x.tx : x \in results}),
               relaying' \in Servings, relaying'.job = j, relayAlarm' = relayAlarm,
               mishap' \subseteq {"lost", "misread", "crash", "unreleased"}, mishap \subseteq mishap',
               relayFaults' = relayFaults \/ (relayFaults < offered.faults /\ relayFaults' = relayFaults + 1),
               \/ relaying'.pc = "reply" /\ rec = relays[j]
               \/ /\ relaying'.pc = "sent" /\ relaying'.reply = "unknown" /\ inFlight' = inFlight
                  /\ rec.state = "BROADCAST"
        PROVE  RelayInv'
    <2>1. /\ \A k \in Jobs : relays'[k] = IF k = j THEN rec ELSE relays[k]
          /\ rec \in RelayRecords /\ rec.nonce = relays[j].nonce /\ rec.delegate = relays[j].delegate
          /\ rec.signed = relays[j].signed
      <3>1. relays \in [Jobs -> RelayRecords]
        BY DEF RelayInv, RelayTypes
      <3>. QED BY <1>3, <3>1 DEF RelayRecords
    <2>2. inFlight' \subseteq inFlight \cup {tx}
      BY <1>3
    <2>3. RelayTypes'
      <3>1. relays' \in [Jobs -> RelayRecords]
        BY <1>3, <2>1 DEF RelayInv, RelayTypes
      <3>2. sentTxs' \subseteq RelayTxs /\ inFlight' \subseteq RelayTxs
        BY <1>2, <1>3, <2>2 DEF RelayInv, RelayTypes
      <3>. QED BY <1>0, <1>3, <3>1, <3>2, RelayConstants DEF RelayInv, RelayTypes
    <2>4. NoncesHold'
      <3>. DEFINE now(k) == Tx(k, relays'[k].delegate, relays'[k].nonce)
      <3>1. \A k \in Jobs : now(k) = recordTx(k) /\ relays'[k].nonce = relays[k].nonce /\ relays'[k].signed = relays[k].signed
        BY <2>1 DEF recordTx
      <3>2. \A x \in sentTxs' : x.nonce # 0 /\ x.nonce <= relayNonce'
        BY <1>0, <1>2, <1>3 DEF RelayInv, NoncesHold
      <3>3. \A k \in Jobs : /\ relays'[k].nonce <= relayNonce'
                            /\ relays'[k].signed => relays'[k].nonce # 0
        BY <1>0, <3>1 DEF RelayInv, NoncesHold
      <3>4. \A k, l \in Jobs : relays'[k].nonce = relays'[l].nonce /\ relays'[k].nonce # 0 => k = l
        BY <3>1 DEF RelayInv, NoncesHold
      <3>5. \A k \in Jobs, x \in sentTxs' : x.nonce = relays'[k].nonce => x = now(k)
        <4>. SUFFICES ASSUME NEW k \in Jobs, NEW x \in sentTxs', x.nonce = relays'[k].nonce
                      PROVE  x = recordTx(k)
          BY <3>1
        <4>1. CASE x \in sentTxs
          BY <3>1, <4>1 DEF RelayInv, NoncesHold
        <4>2. CASE x = tx
          BY <1>2, <3>1, <4>2 DEF RelayInv, NoncesHold
        <4>. QED BY <1>3, <4>1, <4>2
      <3>6. OneRelayPerNonce'
        <4>1. \A x \in sentTxs : x.nonce = tx.nonce => x = tx
          BY <1>2 DEF RelayInv, NoncesHold
        <4>2. \A x, y \in sentTxs : x.nonce = y.nonce => x = y
          BY DEF RelayInv, NoncesHold, OneRelayPerNonce
        <4>. QED BY <1>3, <4>1, <4>2 DEF OneRelayPerNonce
      <3>7. relaying'.pc \notin {"sign", "send"}
        BY <1>3
      <3>. QED BY <3>2, <3>3, <3>4, <3>5, <3>6, <3>7 DEF NoncesHold, recordTx
    <2>5. ASSUME mishap' \subseteq {"lost", "unreleased"} PROVE PlacesHold'
      <3>1. PlacesHold
        BY <1>3, <2>5 DEF RelayInv
      <3>2. j \in places /\ relays[j].state # "BROADCAST"
        BY <1>0, <3>1 DEF PlacesHold
      <3>3. ASSUME NEW x \in inFlight', Open(x)
            PROVE  /\ x = Tx(x.job, relays'[x.job].delegate, relays'[x.job].nonce) /\ x.job \in places
                   /\ relays'[x.job].state = "BROADCAST" \/ (x.job = j /\ relaying'.pc = "reply")
        <4>1. CASE x \in inFlight
          <5>1. /\ x = recordTx(x.job) /\ x.job \in places /\ x.job \in Jobs
                /\ relays[x.job].state = "BROADCAST"
            BY <1>0, <3>1, <3>3, <4>1 DEF PlacesHold, RelayInv, RelayTypes, RelayTxs
          <5>2. x.job # j
            BY <3>2, <5>1
          <5>. QED BY <2>1, <5>1, <5>2 DEF recordTx
        <4>2. CASE x \notin inFlight
          <5>1. x = tx /\ inFlight' # inFlight
            BY <2>2, <3>3, <4>2
          <5>. QED BY <1>2, <1>3, <2>1, <3>2, <5>1 DEF recordTx
        <4>. QED BY <4>1, <4>2
      <3>4. \A x \in inFlight' : Open(x)' => Open(x)
        BY <1>0 DEF Open
      <3>5. relaying'.pc = "sent" => relays'[j].state = "BROADCAST"
        BY <1>3, <2>1
      <3>. HIDE DEF tx
      <3>. QED BY <1>0, <1>3, <3>3, <3>4, <3>5 DEF PlacesHold, recordTx, Tx
    <2>. QED BY <1>0, <1>3, <2>3, <2>4, <2>5 DEF RelayInv
  <1>4. CASE /\ sentTxs' = sentTxs \cup {tx} /\ inFlight' = inFlight \cup ({tx} \ {x.tx : x \in results})
             /\ step("reply") /\ UNCHANGED <<relays, mishap, relayFaults, relayAlarm>>
    <2>1. relaying' \in Servings /\ relaying'.pc = "reply" /\ relaying'.job = j
      BY <1>4, Steps DEF RelaySteps
    <2>2. relays' = [relays EXCEPT ![j] = relays[j]]
      BY <1>4, SameRecord
    <2>. HIDE DEF tx
    <2>. QED BY <1>0, <1>3, <1>4, <2>1, <2>2
  <1>5. CASE /\ sentTxs' = sentTxs \cup {tx} /\ UNCHANGED <<inFlight, relayAlarm>>
             /\ relayFaults < offered.faults /\ relayFaults' = relayFaults + 1
             /\ mishap' = mishap \cup {"lost"} /\ relays' = markBroadcast(j)
             /\ relaying' = [relaying EXCEPT !.pc = "sent", !.reply = "unknown"]
    <2>1. relaying' \in Servings
      BY <1>5, Goes DEF RelaySteps, Answers
    <2>2. relaying'.pc = "sent" /\ relaying'.job = j /\ relaying'.reply = "unknown"
      BY <1>0, <1>5 DEF Servings
    <2>3. PICK rec : rec = [relays[j] EXCEPT !.state = "BROADCAST"]
      OBVIOUS
    <2>4. relays' = [relays EXCEPT ![j] = rec] /\ rec.state = "BROADCAST"
      BY <1>5, <2>3, Records DEF markBroadcast, RelayInv, RelayTypes
    <2>5. mishap' \subseteq {"lost", "misread", "crash", "unreleased"} /\ mishap \subseteq mishap'
      BY <1>0, <1>5
    <2>. HIDE DEF tx
    <2>. QED BY <1>3, <1>5, <2>1, <2>2, <2>3, <2>4, <2>5
  <1>. QED BY <1>1, <1>4, <1>5 DEF requireSponsoredQuoteFresh

\* The node answers, and the record is marked.
LEMMA ReplyKeeps ==
    ASSUME RelayInv, NEW j \in Jobs, relaying.job = j, sendRelay(j)
    PROVE  RelayInv'
  <1>1. PICK answer \in Answers :
           /\ Answered(recordTx(j), answer)
           /\ relaying' = [relaying EXCEPT !.pc = "sent", !.reply = answer]
    BY DEF sendRelay
  <1>2. /\ relaying.pc = "reply" /\ places \subseteq Jobs /\ relayAlarm \in BOOLEAN /\ relaying \in Servings
        /\ UNCHANGED <<offered, relayNonce, relayAlarm, places, quotes, relayChain, sentTxs>>
        /\ relays' = [relays EXCEPT ![j].state = "BROADCAST"]
    BY DEF sendRelay, RelayInv, RelayTypes, markBroadcast
  <1>3. relaying' \in Servings /\ relaying'.pc = "sent" /\ relaying'.job = j /\ relaying'.reply = answer
    <2>1. relaying' \in Servings
      BY <1>1, Goes DEF RelaySteps
    <2>. QED BY <1>1, <1>2, <2>1 DEF Servings
  <1>4. PICK rec : rec = [relays[j] EXCEPT !.state = "BROADCAST"]
    OBVIOUS
  <1>5. /\ rec \in RelayRecords /\ rec.nonce = relays[j].nonce /\ rec.delegate = relays[j].delegate
        /\ rec.signed = relays[j].signed /\ rec.state = "BROADCAST"
    BY <1>4, Records
  <1>6. relays' = [relays EXCEPT ![j] = rec]
    BY <1>2, <1>4
  <1>7. Steady(j, rec)
    <2>1. rec.signed => rec.nonce # 0
      BY <1>5, Records
    <2>. QED BY <1>1, <1>2, <1>3, <1>5, <1>6, <2>1, AnswerTypes DEF Steady, relayChain
  <1>8. ASSUME mishap' \subseteq {"lost", "unreleased"}, PlacesHold PROVE Covered(j, rec)
    <2>1. answer # "unknown" => relays[j].nonce <= keyNonce
      BY <1>1, <1>8, AnswerTrue
    <2>. QED BY <1>2, <1>3, <1>5, <2>1 DEF Covered
  <1>. QED BY <1>7, <1>8, StepKeeps

\* After the send the job is read once more, and the answer decides.
LEMMA AfterSendKeeps ==
    ASSUME RelayInv, NEW j \in Jobs, relaying.job = j, NEW d, afterSend(j, d)
    PROVE  RelayInv'
  <1>0. /\ relaying.pc = "sent" /\ places \subseteq Jobs /\ mishap \subseteq {"lost", "misread", "crash", "unreleased"}
        /\ UNCHANGED <<offered, relayNonce, places, quotes, relayChain, sentTxs, mishap, relayFaults>>
        /\ relayAlarm \in BOOLEAN /\ relays[j].delegate \in Delegates \cup {0}
    BY DEF afterSend, RelayInv, RelayTypes, RelayRecords
  <1>1. CASE jobs[j] # 0
    BY <1>0, <1>1, ExactKeeps DEF afterSend
  <1>2. CASE jobs[j] = 0 /\ relaying.reply \in {"failed", "sent"}
    <2>1. UNCHANGED <<relays, relayAlarm>> /\ step("release")
      BY <1>2 DEF afterSend
    <2>2. relaying' \in Servings /\ relaying'.pc = "release" /\ relaying'.job = j
      BY <2>1, Steps DEF RelaySteps
    <2>3. PlacesHold => \A tx \in inFlight : tx.job = j => ~Open(tx)
      BY <1>0, <1>2, NothingPays DEF PlacesHold
    <2>. QED BY <1>0, <2>1, <2>2, <2>3, SameRecord, Records, StepKeeps DEF Steady, Covered, relayChain
  <1>3. CASE jobs[j] = 0 /\ relaying.reply \notin {"failed", "sent", "invalid_nonce"}
    <2>1. UNCHANGED relays /\ returns(TRUE)
      BY <1>3 DEF afterSend
    <2>. QED BY <1>0, <2>1, Returns, SameRecord, Records, StepKeeps DEF Steady, Covered, relayChain
  <1>4. CASE jobs[j] = 0 /\ relaying.reply = "invalid_nonce"
    <2>1. relays' = clearSponsorRelayTransaction(j) /\ returns(TRUE)
      BY <1>4 DEF afterSend
    <2>2. relaying' \in Servings /\ relaying'.pc = "rest" /\ relayAlarm' \in BOOLEAN
      BY <2>1, Returns
    <2>3. PlacesHold => \A tx \in inFlight : tx.job = j => ~Open(tx)
      BY <1>0, <1>4, NothingPays DEF PlacesHold
    <2>4. PICK rec : rec = [NoRelay EXCEPT !.state = "PENDING", !.delegate = relays[j].delegate]
      OBVIOUS
    <2>5. rec \in RelayRecords /\ rec.nonce = 0 /\ ~rec.signed /\ rec.state = "PENDING"
      BY <1>0, <2>4, Records
    <2>6. relays' = [relays EXCEPT ![j] = rec]
      BY <2>1, <2>4 DEF clearSponsorRelayTransaction
    <2>. QED BY <1>0, <2>2, <2>3, <2>5, <2>6, StepKeeps DEF Steady, Covered, relayChain
  <1>. QED BY <1>1, <1>2, <1>3, <1>4

\* The place is given back when nothing can pay any more, or the mark fails and it stays.
LEMMA ReleaseKeeps ==
    ASSUME RelayInv, NEW j \in Jobs, relaying.job = j, releaseSponsoredAdmission(j)
    PROVE  RelayInv'
  <1>0. /\ relaying.pc = "release" /\ places \subseteq Jobs /\ mishap \subseteq {"lost", "misread", "crash", "unreleased"}
        /\ UNCHANGED <<offered, relays, relayNonce, quotes, relayChain, sentTxs>>
        /\ relayAlarm \in BOOLEAN
    BY DEF releaseSponsoredAdmission, RelayInv, RelayTypes
  <1>1. PlacesHold => \A tx \in inFlight : tx.job = j => ~Open(tx)
    BY <1>0 DEF PlacesHold
  <1>2. CASE places' = places \ {j} /\ step("delete") /\ UNCHANGED <<relayAlarm, mishap, relayFaults>>
    <2>1. relaying' \in Servings /\ relaying'.pc = "delete" /\ relaying'.job = j
      BY <1>2, Steps DEF RelaySteps
    <2>2. places' \subseteq Jobs /\ places \ {j} \subseteq places'
      BY <1>0, <1>2
    <2>3. Steady(j, relays[j])
      BY <1>0, <1>2, <2>1, <2>2, SameRecord, Records DEF Steady, relayChain
    <2>4. PlacesHold => Covered(j, relays[j])
      BY <1>0, <1>1, <2>1 DEF Covered
    <2>. QED BY <2>3, <2>4, StepKeeps
  <1>3. CASE /\ relayFaults < offered.faults /\ relayFaults' = relayFaults + 1
             /\ mishap' = mishap \cup {"unreleased"} /\ throws /\ UNCHANGED places
    <2>1. relaying' \in Servings /\ relaying'.pc = "rest" /\ relayAlarm' \in BOOLEAN
      BY <1>3, Throws
    <2>2. mishap' \subseteq {"lost", "misread", "crash", "unreleased"} /\ mishap \subseteq mishap'
      BY <1>0, <1>3
    <2>3. Steady(j, relays[j])
      BY <1>0, <1>3, <2>1, <2>2, SameRecord, Records DEF Steady, relayChain
    <2>4. PlacesHold => Covered(j, relays[j])
      BY <1>0, <1>1, <2>1 DEF Covered
    <2>. QED BY <2>3, <2>4, StepKeeps
  <1>. QED BY <1>2, <1>3 DEF releaseSponsoredAdmission

\* The record of a job without a payment under way is deleted.
LEMMA DeleteKeeps ==
    ASSUME RelayInv, NEW j \in Jobs, relaying.job = j, deleteRelay(j)
    PROVE  RelayInv'
  <1>0. /\ relaying.pc = "delete" /\ places \subseteq Jobs /\ mishap \subseteq {"lost", "misread", "crash", "unreleased"}
        /\ UNCHANGED <<offered, relayNonce, places, quotes, relayChain, sentTxs, mishap, relayFaults>>
        /\ relays' = [relays EXCEPT ![j] = NoRelay] /\ throws
    BY DEF deleteRelay, RelayInv, RelayTypes
  <1>1. PlacesHold => \A tx \in inFlight : tx.job = j => ~Open(tx)
    BY <1>0 DEF PlacesHold
  <1>. QED BY <1>0, <1>1, Throws, Records, StepKeeps DEF Steady, Covered, relayChain

\* The age of a quote, and what the other object does, are nothing the invariant speaks of.
LEMMA OtherKeeps ==
    ASSUME RelayInv,
           UNCHANGED <<offered, relays, relayNonce, relayAlarm, relaying, places, spent, jobs, keyNonce, inFlight,
                       results, sentTxs, mishap, relayFaults>>
    PROVE  RelayInv'
  <1>1. RelayTypes'
    BY DEF RelayInv, RelayTypes
  <1>2. NoncesHold'
    BY DEF RelayInv, NoncesHold, OneRelayPerNonce, recordTx
  <1>3. PlacesHold => PlacesHold'
    BY DEF PlacesHold, Open, recordTx
  <1>. QED BY <1>1, <1>2, <1>3 DEF RelayInv

\* No record and no transaction: nothing is claimed.
LEMMA InitRelay == RelayInit => RelayInv
  <1>. SUFFICES ASSUME RelayInit PROVE RelayInv
    OBVIOUS
  <1>1. /\ offered \in Offers /\ offered.faults \in Nat
        /\ relays = [j \in Jobs |-> NoRelay]
        /\ relayNonce = 0 /\ relayAlarm = FALSE /\ relaying = Resting /\ places = {}
        /\ spent = {} /\ jobs = [j \in Jobs |-> 0] /\ keyNonce = 0
        /\ inFlight = {} /\ results = {} /\ sentTxs = {} /\ mishap = {} /\ relayFaults = 0
    BY RelayConstants DEF RelayInit
  <1>2. NoRelay \in RelayRecords /\ NoRelay.nonce = 0 /\ ~NoRelay.signed
    BY RelayConstants DEF NoRelay, RelayRecords
  <1>3. relaying \in Servings /\ relaying.pc = "rest"
    BY <1>1, RelayConstants DEF Resting, Servings, RelaySteps
  <1>4. RelayTypes
    <2>1. relays \in [Jobs -> RelayRecords] /\ jobs \in [Jobs -> Delegates \cup {0}]
      BY <1>1, <1>2
    <2>2. relayNonce \in 0 .. MaxRelayNonce /\ keyNonce \in 0 .. MaxRelayNonce
      BY <1>1, RelayConstants
    <2>3. relayFaults \in Nat /\ relayFaults <= offered.faults
      BY <1>1
    <2>4. /\ places \subseteq Jobs /\ spent \subseteq Jobs \X Delegates /\ sentTxs \subseteq RelayTxs
          /\ inFlight \subseteq RelayTxs /\ results \subseteq [tx : RelayTxs, result : {"sent", "failed"}]
          /\ mishap \subseteq {"lost", "misread", "crash", "unreleased"}
      BY <1>1
    <2>5. offered \in Offers /\ relayAlarm \in BOOLEAN
      BY <1>1
    <2>. QED BY <1>3, <2>1, <2>2, <2>3, <2>4, <2>5, Zenon DEF RelayTypes
  <1>5. NoncesHold
    BY <1>1, <1>2, <1>3 DEF NoncesHold, OneRelayPerNonce
  <1>6. PlacesHold
    BY <1>1, <1>3 DEF PlacesHold
  <1>. QED BY <1>1, <1>3, <1>4, <1>5, <1>6 DEF RelayInv

\* Every await of the handler, the alarm, the death of the object and the chain.
LEMMA NextRelay == RelayInv /\ [RelayNext]_relayVars => RelayInv'
  <1>. SUFFICES ASSUME RelayInv, [RelayNext]_relayVars PROVE RelayInv'
    OBVIOUS
  <1>1. ASSUME NEW o \in offered.delegates, relaySponsoredUpload(o[1], o[2]) \/ QuoteAges(o[1], o[2])
        PROVE  RelayInv'
    <2>1. o[1] \in Jobs /\ o[2] \in Delegates
      BY <1>1, RelayConstants DEF RelayInv, RelayTypes
    <2>2. CASE relaySponsoredUpload(o[1], o[2])
      BY <2>1, <2>2, RequestKeeps
    <2>3. CASE QuoteAges(o[1], o[2])
      BY <2>3, OtherKeeps DEF QuoteAges, relayStore, relayChain
    <2>. QED BY <1>1, <2>2, <2>3
  <1>2. ASSUME NEW j \in Jobs, RelayStep(j) PROVE RelayInv'
    <2>1. PICK d : d = relaying.delegate
      OBVIOUS
    <2>2. relaying.job = j
      BY <1>2 DEF RelayStep
    <2>3. \/ readSponsoredMediaJob(j, d) \/ queryTransactionForAccount(j) \/ observed(j, d)
          \/ readSponsorRelayerAccessKey(j, d) \/ reserveSponsoredAdmission(j)
          \/ openRelay(j, d) \/ reserveRelayNonce(j) \/ signRelay(j)
          \/ requireSponsoredQuoteFresh(j, d) \/ sendRelay(j) \/ afterSend(j, d)
          \/ releaseSponsoredAdmission(j) \/ deleteRelay(j)
      BY <1>2, <2>1 DEF RelayStep
    <2>. QED BY <2>1, <2>2, <2>3, ReadJobKeeps, QueryKeeps, ObservedKeeps, FreshKeeps, ReserveKeeps, OpenKeeps,
                NonceKeeps, SignKeeps, SendKeeps, ReplyKeeps, AfterSendKeeps, ReleaseKeeps, DeleteKeeps
  <1>3. CASE UNCHANGED relayVars
    BY <1>3, OtherKeeps DEF relayVars, relayStore, relayChain
  <1>. QED BY <1>1, <1>2, <1>3, AlarmKeeps, RelayCrashKeeps, RelayExecutesKeeps DEF RelayNext

\* What the invariant says of nonces and places.
LEMMA RelayMeans == RelayInv => RelaySafe
  <1>. SUFFICES ASSUME RelayInv PROVE RelaySafe
    OBVIOUS
  <1>1. RelayTypeOK
    BY RelayConstants DEF RelayInv, RelayTypes, RelayRecords, RelayTypeOK
  <1>2. OneRelayPerNonce
    BY DEF RelayInv, NoncesHold
  <1>3. PlaceHeldWhilePaying
    BY DEF PlaceHeldWhilePaying, MayPay, RelayInv, PlacesHold, Open
  <1>. QED BY <1>1, <1>2, <1>3 DEF RelaySafe

-----------------------------------------------------------------------------
(* The operator's outbox. *)

OutboxRecords ==
    [state : OutboxStates, legacy : BOOLEAN, payload : Payloads \cup {0}, nonce : 0..MaxNonce,
     signed : BOOLEAN, tx : Txs, archive : {"NONE", "PENDING", "RETRY", "COMMITTED"}]

ServedSteps == {"confirm", "status", "poll", "mutate", "send", "await", "sent"}
HandlerRecords ==
    [pc : ServedSteps \cup {"idle", "queue_archive", "archive_store"}, req : Requests \cup {0},
     payload : Payloads \cup {0},
     reply : {"none", "sent", "failed", "invalid_nonce", "unknown", "COMMITTED", "RETRY"}]

OutboxTypes ==
    /\ method \in [Requests -> {"finalize", "suspend", "mark_watched", "release"}]
    /\ publicTestnet \in BOOLEAN
    /\ outbox \in [Requests -> OutboxRecords]
    /\ lastNonce \in 0..MaxNonce /\ chainNonce \in 0..MaxNonce
    /\ scan \in [active : BOOLEAN, after : Requests \cup {0}, retry : BOOLEAN]
    /\ archived \in [Requests -> OutboxRecords]
    /\ handler \in HandlerRecords
    /\ fact \in [Requests -> {"open", "gone", "done"}]
    /\ published \in [Requests -> Payloads \cup {0}]
    /\ pool \subseteq Txs /\ outcome \subseteq [tx : Txs, result : {"ok", "failed"}]
    /\ sends \in [Requests -> 0 .. 2] /\ missed \subseteq Requests
    /\ outboxFaults \in 0..MaxFaults

\* What a record says of its own transaction.
RecordFits(r, rec) ==
    /\ rec.signed => rec.nonce # 0 /\ rec.tx.nonce = rec.nonce
    /\ ~rec.signed /\ rec.state # "CONFIRMED" => rec.tx = NoTx
    /\ rec.tx # NoTx => rec.tx.req = r /\ rec.tx.nonce # 0
    /\ rec.state = "CONFIRMED" => rec.nonce = 0 /\ ~rec.signed /\ ~Ephemeral(r)
    /\ rec.legacy => ~publicTestnet /\ rec.tx.legacy

\* A nonce belongs to one record, and a transaction that bears it is the one of that record.
OutboxNonces ==
    /\ \A tx \in Sent \cup Stored : tx.nonce # 0 /\ tx.nonce <= lastNonce /\ tx.req \in Requests
    /\ \A r \in Requests : outbox[r].nonce <= lastNonce
    /\ \A r, q \in Requests : outbox[r].nonce = outbox[q].nonce /\ outbox[r].nonce # 0 => r = q
    /\ \A r \in Requests, tx \in Sent \cup Stored :
          tx.nonce = outbox[r].nonce => outbox[r].signed /\ tx = outbox[r].tx
    /\ OneTransactionPerNonce
    /\ \A o \in outcome : o.tx.nonce <= chainNonce

\* What the request under way has established about its record.
HandlerHolds ==
    LET rec == outbox[handler.req] IN
    /\ handler.pc \in ServedSteps =>
          handler.req \in Requests /\ rec.payload = handler.payload /\ ~rec.legacy
    /\ handler.pc \in ServedSteps \ {"confirm"} => rec.state # "CONFIRMED"
    /\ handler.pc \in {"send", "await", "sent"} => rec.signed
    /\ handler.pc = "status" => ~publicTestnet
    /\ handler.pc = "sent" /\ handler.reply # "unknown" => rec.tx.nonce <= chainNonce
    /\ publicTestnet =>
          /\ handler.pc = "mutate" => rec.state # "BROADCAST"
          /\ handler.pc \in {"send", "await", "sent", "poll"} => rec.state = "BROADCAST"
          /\ handler.pc = "send" /\ ~Ephemeral(handler.req) => sends[handler.req] = 0
    /\ handler.pc = "queue_archive" => handler.req \in Requests
    /\ handler.pc = "archive_store" =>
          /\ handler.req \in listed /\ due(handler.req) /\ \A q \in listed : due(q) => handler.req <= q
          /\ scan.active /\ handler.reply \in {"COMMITTED", "RETRY"}

PublicHolds ==
    publicTestnet => \A r \in Requests : ~Ephemeral(r) =>
        sends[r] <= 1 /\ (sends[r] # 0 => outbox[r].state \in {"BROADCAST", "CONFIRMED"})

\* A confirmed record that is not archived is ahead of the scan, or the scan will start over, or
\* the scan is about to start.
ScanHolds ==
    \A r \in Requests : Uncommitted(r) /\ r \notin missed =>
        \/ scan.active /\ (r > scan.after \/ scan.retry)
        \/ ~scan.active /\ handler.pc = "queue_archive" /\ handler.req = r

OutboxInv ==
    /\ OutboxTypes
    /\ \A r \in Requests : RecordFits(r, outbox[r])
    /\ OutboxNonces /\ HandlerHolds /\ PublicHolds /\ ScanHolds
    /\ ForgottenIsHarmless /\ ConfirmedOnChain /\ ArchiveAgrees

\* The constants are what the assumptions say.
LEMMA OutboxConstants ==
    /\ Requests \subseteq Nat /\ 0 \notin Requests /\ IsFiniteSet(Requests)
    /\ MaxNonce \in Nat /\ MaxNonce # 0 /\ MaxFaults \in Nat /\ ScanBatch \in Nat /\ ScanBatch # 0
    /\ Mixes \subseteq [Requests -> {"finalize", "suspend", "mark_watched", "release"}]
    /\ NoTx \in Txs /\ NoTx.nonce = 0 /\ NoTx.req = 0 /\ ~NoTx.legacy
    /\ NoRecord \in OutboxRecords /\ NoRecord.state = "NONE" /\ NoRecord.nonce = 0 /\ ~NoRecord.signed
    /\ NoRecord.tx = NoTx /\ ~NoRecord.legacy
    /\ Idle \in HandlerRecords /\ Idle.pc = "idle"
  <1>1. /\ Requests \subseteq Nat /\ 0 \notin Requests /\ IsFiniteSet(Requests)
        /\ MaxNonce \in Nat /\ MaxNonce # 0 /\ MaxFaults \in Nat /\ ScanBatch \in Nat /\ ScanBatch # 0
        /\ Mixes \subseteq [Requests -> {"finalize", "suspend", "mark_watched", "release"}]
    BY RequestsAssumption, MixesAssumption, OutboxBoundsAssumption
  <1>2. NoTx \in Txs /\ NoTx.nonce = 0 /\ NoTx.req = 0 /\ ~NoTx.legacy
    BY <1>1 DEF NoTx, Txs
  <1>3. /\ NoRecord \in OutboxRecords /\ NoRecord.state = "NONE" /\ NoRecord.nonce = 0 /\ ~NoRecord.signed
        /\ NoRecord.tx = NoTx /\ ~NoRecord.legacy
    <2>1. 0 \in 0 .. MaxNonce
      BY <1>1
    <2>. QED BY <1>2, <2>1 DEF NoRecord, OutboxRecords, OutboxStates
  <1>4. Idle \in HandlerRecords /\ Idle.pc = "idle"
    BY DEF Idle, HandlerRecords, ServedSteps
  <1>. QED BY <1>1, <1>2, <1>3, <1>4

\* One record is written, by the handler at work on it.
RecordStep(r, rec) ==
    /\ rec \in OutboxRecords /\ outbox' = [outbox EXCEPT ![r] = rec]
    /\ RecordFits(r, rec)
    /\ rec.tx = NoTx \/ rec.tx = outbox[r].tx
    /\ \/ rec.nonce = 0
       \/ rec.nonce = outbox[r].nonce /\ rec.signed = outbox[r].signed /\ rec.tx = outbox[r].tx
    /\ \/ rec.tx = outbox[r].tx \/ outbox[r].tx = NoTx \/ outbox[r].tx.legacy
       \/ fact[r] # "open" \/ outbox[r].tx.nonce <= chainNonce
    /\ outbox[r].state = "CONFIRMED" => rec.state = "CONFIRMED" /\ rec.tx = outbox[r].tx
    /\ rec.state = "CONFIRMED" => isConfirmed(r) /\ ~finalPublicationMismatch(r, rec.payload)
    /\ publicTestnet /\ ~Ephemeral(r) /\ sends[r] # 0 => rec.state \in {"BROADCAST", "CONFIRMED"}
    /\ UNCHANGED <<method, publicTestnet, lastNonce, scan, archived, fact, published, chainNonce, pool, outcome,
                   sends>>
    /\ missed' \subseteq Requests /\ outboxFaults' \in 0 .. MaxFaults
    /\ handler' \in HandlerRecords

\* What a written record leaves true.
LEMMA RecordKeeps ==
    ASSUME OutboxInv, NEW r \in Requests, NEW rec, RecordStep(r, rec), HandlerHolds', ScanHolds'
    PROVE  OutboxInv'
  <1>. USE DEF RecordStep
  <1>1. \A q \in Requests : outbox'[q] = IF q = r THEN rec ELSE outbox[q]
    BY DEF OutboxInv, OutboxTypes
  <1>2. OutboxTypes'
    BY DEF OutboxInv, OutboxTypes
  <1>3. \A q \in Requests : RecordFits(q, outbox[q])'
    BY <1>1 DEF OutboxInv, RecordFits, Ephemeral
  <1>4. Stored' \subseteq Stored /\ Sent' = Sent
    BY <1>1 DEF Stored, Sent
  <1>5. OutboxNonces'
    <2>1. /\ \A tx \in Sent' \cup Stored' : tx.nonce # 0 /\ tx.nonce <= lastNonce' /\ tx.req \in Requests
          /\ OneTransactionPerNonce'
          /\ \A o \in outcome' : o.tx.nonce <= chainNonce'
      BY <1>4 DEF OutboxInv, OutboxNonces, OneTransactionPerNonce
    <2>2. \A q \in Requests : outbox'[q].nonce <= lastNonce'
      <3>1. 0 <= lastNonce
        BY OutboxConstants DEF OutboxInv, OutboxTypes
      <3>. QED BY <1>1, <3>1 DEF OutboxInv, OutboxNonces
    <2>3. \A p, q \in Requests : outbox'[p].nonce = outbox'[q].nonce /\ outbox'[p].nonce # 0 => p = q
      <3>1. \A p, q \in Requests : outbox[p].nonce = outbox[q].nonce /\ outbox[p].nonce # 0 => p = q
        BY DEF OutboxInv, OutboxNonces
      <3>2. \A p \in Requests : outbox'[p].nonce = 0 \/ outbox'[p].nonce = outbox[p].nonce
        BY <1>1
      <3>. QED BY <3>1, <3>2
    <2>4. ASSUME NEW q \in Requests, NEW tx \in Sent' \cup Stored', tx.nonce = outbox'[q].nonce
          PROVE  outbox'[q].signed /\ tx = outbox'[q].tx
      <3>1. tx.nonce # 0 /\ tx \in Sent \cup Stored
        BY <1>4 DEF OutboxInv, OutboxNonces
      <3>2. CASE q # r
        BY <1>1, <2>4, <3>1, <3>2 DEF OutboxInv, OutboxNonces
      <3>3. CASE q = r
        <4>1. rec.nonce = outbox[r].nonce /\ rec.signed = outbox[r].signed /\ rec.tx = outbox[r].tx
          BY <1>1, <2>4, <3>1, <3>3
        <4>. QED BY <1>1, <2>4, <3>1, <3>3, <4>1 DEF OutboxInv, OutboxNonces
      <3>. QED BY <3>2, <3>3
    <2>. QED BY <2>1, <2>2, <2>3, <2>4 DEF OutboxNonces
  <1>6. PublicHolds'
    BY <1>1 DEF OutboxInv, PublicHolds, Ephemeral
  <1>7. ForgottenIsHarmless'
    <2>. SUFFICES ASSUME NEW tx \in pool, outbox'[tx.req].tx # tx, tx.nonce > chainNonce
                  PROVE  tx.legacy \/ fact[tx.req] # "open"
      BY DEF ForgottenIsHarmless
    <2>1. tx.req \in Requests /\ tx.nonce # 0 /\ tx.nonce \in Nat /\ chainNonce \in Nat
      BY OutboxConstants DEF OutboxInv, OutboxNonces, Sent, OutboxTypes, Txs
    <2>2. CASE outbox[tx.req].tx # tx
      BY <2>2 DEF OutboxInv, ForgottenIsHarmless
    <2>3. CASE outbox[tx.req].tx = tx
      <3>1. tx.req = r /\ tx # NoTx
        BY <1>1, <2>1, <2>3, OutboxConstants
      <3>2. rec.tx # outbox[r].tx
        BY <1>1, <2>3, <3>1
      <3>. QED BY <2>1, <2>3, <3>1, <3>2
    <2>. QED BY <2>2, <2>3
  <1>8. ConfirmedOnChain'
    BY <1>1 DEF OutboxInv, ConfirmedOnChain, isConfirmed, finalPublicationMismatch
  <1>9. ArchiveAgrees'
    BY <1>1 DEF OutboxInv, ArchiveAgrees
  <1>. QED BY <1>2, <1>3, <1>5, <1>6, <1>7, <1>8, <1>9 DEF OutboxInv

\* The scan loses nothing when a record is written that is not confirmed by it.
LEMMA ScanSame ==
    ASSUME OutboxInv, NEW r \in Requests, NEW rec, RecordStep(r, rec), missed' = missed,
           rec.state # "CONFIRMED" \/ rec = outbox[r], handler.pc # "queue_archive"
    PROVE  ScanHolds'
  <1>1. \A q \in Requests : outbox'[q] = IF q = r THEN rec ELSE outbox[q]
    BY DEF OutboxInv, OutboxTypes, RecordStep
  <1>2. \A q \in Requests : Uncommitted(q)' => Uncommitted(q)
    BY <1>1 DEF Uncommitted
  <1>. QED BY <1>2 DEF OutboxInv, ScanHolds, RecordStep

\* A handler that rests, or goes on with its record.
LEMMA RestHolds ==
    ASSUME handler' = Idle
    PROVE  HandlerHolds'
  BY OutboxConstants DEF HandlerHolds, ServedSteps

\* A handler that goes on knows of its record what its next step needs.
LEMMA ServedHolds ==
    ASSUME OutboxInv, NEW r \in Requests, NEW rec, RecordStep(r, rec),
           handler'.req = r, handler'.pc \in ServedSteps, rec.payload = handler'.payload,
           ~rec.legacy,
           handler'.pc # "confirm" => rec.state # "CONFIRMED",
           handler'.pc \in {"send", "await", "sent"} => rec.signed,
           handler'.pc = "status" => ~publicTestnet,
           handler'.pc = "sent" /\ handler'.reply # "unknown" => rec.tx.nonce <= chainNonce,
           publicTestnet => /\ handler'.pc = "mutate" => rec.state # "BROADCAST"
                            /\ handler'.pc \in {"send", "await", "sent", "poll"} => rec.state = "BROADCAST"
                            /\ handler'.pc = "send" /\ ~Ephemeral(r) => sends[r] = 0
    PROVE  HandlerHolds'
  <1>1. outbox'[r] = rec
    BY DEF OutboxInv, OutboxTypes, RecordStep
  <1>. QED BY <1>1 DEF HandlerHolds, ServedSteps, RecordStep, Ephemeral

\* A step that leaves the record as it was.
LEMMA SameStep ==
    ASSUME OutboxInv, NEW r \in Requests, handler' \in HandlerRecords, missed' \subseteq Requests,
           outboxFaults' \in 0 .. MaxFaults,
           UNCHANGED <<method, publicTestnet, outbox, lastNonce, scan, archived, fact, published, chainNonce, pool,
                       outcome, sends>>
    PROVE  RecordStep(r, outbox[r])
  <1>1. outbox[r] \in OutboxRecords /\ outbox = [outbox EXCEPT ![r] = outbox[r]]
    BY DEF OutboxInv, OutboxTypes
  <1>2. RecordFits(r, outbox[r])
    BY DEF OutboxInv
  <1>3. outbox[r].state = "CONFIRMED" => isConfirmed(r) /\ ~finalPublicationMismatch(r, outbox[r].payload)
    BY DEF OutboxInv, ConfirmedOnChain
  <1>4. publicTestnet /\ ~Ephemeral(r) /\ sends[r] # 0 => outbox[r].state \in {"BROADCAST", "CONFIRMED"}
    BY DEF OutboxInv, PublicHolds
  <1>. QED BY <1>1, <1>2, <1>3, <1>4 DEF RecordStep

\* What the variables of the handler's own may be.
LEMMA HandlerTypes ==
    ASSUME OutboxInv
    PROVE  /\ handler \in HandlerRecords /\ missed \subseteq Requests /\ outboxFaults \in 0 .. MaxFaults
           /\ \A p \in ServedSteps \cup {"idle", "queue_archive", "archive_store"} :
                 [handler EXCEPT !.pc = p] \in HandlerRecords
           /\ \A p \in ServedSteps \cup {"idle", "queue_archive", "archive_store"},
                 a \in {"sent", "failed", "invalid_nonce", "unknown"} :
                 [handler EXCEPT !.pc = p, !.reply = a] \in HandlerRecords
  BY DEF OutboxInv, OutboxTypes, HandlerRecords

\* The handler moves on with the record as it was.
LEMMA Goto ==
    ASSUME OutboxInv, NEW p \in ServedSteps, goto(p)
    PROVE  handler' \in HandlerRecords /\ handler'.pc = p /\ handler'.req = handler.req /\ handler'.payload = handler.payload
  BY HandlerTypes DEF goto, HandlerRecords

\* An answer other than unknown is about a nonce the chain has seen.
LEMMA AnswerOld ==
    ASSUME OutboxInv, NEW tx, NEW reply \in classifyNearError(tx), reply # "unknown"
    PROVE  tx.nonce <= chainNonce
  BY DEF classifyNearError, Executed, OutboxInv, OutboxNonces

\* The records the handler writes.
LEMMA WrittenRecords ==
    ASSUME OutboxInv, NEW r \in Requests
    PROVE  /\ LET rec == clearSignedTransaction(outbox[r])
              IN /\ rec \in OutboxRecords /\ rec.state = "PENDING" /\ rec.nonce = 0 /\ ~rec.signed /\ rec.tx = NoTx
                 /\ rec.payload = outbox[r].payload /\ rec.legacy = outbox[r].legacy
           /\ LET rec == [outbox[r] EXCEPT !.state = "BROADCAST"]
              IN /\ rec \in OutboxRecords /\ rec.state = "BROADCAST" /\ rec.nonce = outbox[r].nonce
                 /\ rec.signed = outbox[r].signed /\ rec.tx = outbox[r].tx
                 /\ rec.payload = outbox[r].payload /\ rec.legacy = outbox[r].legacy
           /\ LET rec == confirmOperatorRecord(outbox[r])
              IN /\ rec \in OutboxRecords /\ rec.state = "CONFIRMED" /\ rec.nonce = 0 /\ ~rec.signed
                 /\ rec.tx = outbox[r].tx /\ rec.payload = outbox[r].payload /\ rec.legacy = outbox[r].legacy
           /\ outbox[r] \in OutboxRecords
           /\ LET rec == clearSignedTransaction([outbox[r] EXCEPT !.state = "BROADCAST"])
              IN rec = clearSignedTransaction(outbox[r])
  <1>1. outbox[r] \in OutboxRecords /\ 0 \in 0 .. MaxNonce
    BY OutboxConstants DEF OutboxInv, OutboxTypes
  <1>2. LET rec == clearSignedTransaction(outbox[r])
        IN /\ rec \in OutboxRecords /\ rec.state = "PENDING" /\ rec.nonce = 0 /\ ~rec.signed /\ rec.tx = NoTx
           /\ rec.payload = outbox[r].payload /\ rec.legacy = outbox[r].legacy
    BY <1>1, OutboxConstants DEF clearSignedTransaction, OutboxRecords, OutboxStates
  <1>3. LET rec == [outbox[r] EXCEPT !.state = "BROADCAST"]
        IN /\ rec \in OutboxRecords /\ rec.state = "BROADCAST" /\ rec.nonce = outbox[r].nonce
           /\ rec.signed = outbox[r].signed /\ rec.tx = outbox[r].tx
           /\ rec.payload = outbox[r].payload /\ rec.legacy = outbox[r].legacy
    BY <1>1 DEF OutboxRecords, OutboxStates
  <1>4. LET rec == confirmOperatorRecord(outbox[r])
        IN /\ rec \in OutboxRecords /\ rec.state = "CONFIRMED" /\ rec.nonce = 0 /\ ~rec.signed
           /\ rec.tx = outbox[r].tx /\ rec.payload = outbox[r].payload /\ rec.legacy = outbox[r].legacy
    BY <1>1 DEF confirmOperatorRecord, OutboxRecords, OutboxStates
  <1>5. clearSignedTransaction([outbox[r] EXCEPT !.state = "BROADCAST"]) = clearSignedTransaction(outbox[r])
    BY <1>1 DEF clearSignedTransaction, OutboxRecords
  <1>. QED BY <1>1, <1>2, <1>3, <1>4, <1>5

\* A confirmed request: its record is dropped, or kept as confirmed and queued for the archive.
LEMMA PersistKeeps ==
    ASSUME OutboxInv, NEW r \in Requests, r = handler.req, handler.pc \in ServedSteps,
           isConfirmed(r), ~finalPublicationMismatch(r, handler.payload), persistConfirmedOperatorRecord(r),
           UNCHANGED <<method, publicTestnet, lastNonce, scan, archived, fact, published, chainNonce, pool, outcome,
                       sends, outboxFaults>>
    PROVE  OutboxInv'
  <1>0. /\ missed \subseteq Requests /\ outboxFaults \in 0 .. MaxFaults /\ handler \in HandlerRecords
        /\ RecordFits(r, outbox[r]) /\ outbox[r].payload = handler.payload /\ ~outbox[r].legacy
        /\ handler.pc # "queue_archive"
    BY HandlerTypes DEF OutboxInv, HandlerHolds, ServedSteps
  <1>1. CASE Ephemeral(r)
    <2>1. outbox' = [outbox EXCEPT ![r] = NoRecord] /\ handler' = Idle /\ missed' = missed
      BY <1>1 DEF persistConfirmedOperatorRecord, Done
    <2>2. fact[r] # "open"
      BY DEF isConfirmed
    <2>3. RecordStep(r, NoRecord)
      BY <1>0, <1>1, <2>1, <2>2, OutboxConstants DEF RecordStep, RecordFits
    <2>4. HandlerHolds'
      BY <2>1, RestHolds
    <2>5. ScanHolds'
      BY <1>0, <2>1, <2>3, ScanSame, OutboxConstants
    <2>. QED BY <2>3, <2>4, <2>5, RecordKeeps
  <1>2. CASE ~Ephemeral(r)
    <2>1. PICK rec : rec = confirmOperatorRecord(outbox[r])
      OBVIOUS
    <2>2. /\ outbox' = [outbox EXCEPT ![r] = rec]
          /\ handler' = [handler EXCEPT !.pc = "queue_archive"]
          /\ missed' = IF scan.active /\ scan.after >= r THEN missed \cup {r} ELSE missed
      BY <1>2, <2>1 DEF persistConfirmedOperatorRecord
    <2>3. /\ rec \in OutboxRecords /\ rec.state = "CONFIRMED" /\ rec.nonce = 0 /\ ~rec.signed
          /\ rec.tx = outbox[r].tx /\ rec.payload = outbox[r].payload /\ rec.legacy = outbox[r].legacy
      BY <2>1, WrittenRecords
    <2>4. handler' \in HandlerRecords /\ handler'.pc = "queue_archive" /\ handler'.req = r
      BY <1>0, <2>2, HandlerTypes DEF HandlerRecords
    <2>5. RecordStep(r, rec)
      BY <1>0, <1>2, <2>2, <2>3, <2>4 DEF RecordStep, RecordFits
    <2>6. HandlerHolds'
      BY <2>4 DEF HandlerHolds, ServedSteps
    <2>7. ScanHolds'
      <3>. SUFFICES ASSUME NEW q \in Requests, Uncommitted(q)', q \notin missed'
                    PROVE  \/ scan.active /\ (q > scan.after \/ scan.retry)
                           \/ ~scan.active /\ q = r
        BY <2>4 DEF ScanHolds
      <3>1. CASE q = r
        <4>1. q \in Nat /\ scan.after \in Nat /\ scan.active \in BOOLEAN
          BY OutboxConstants DEF OutboxInv, OutboxTypes
        <4>. QED BY <2>2, <3>1, <4>1
      <3>2. CASE q # r
        <4>1. outbox'[q] = outbox[q]
          BY <2>2, <3>2 DEF OutboxInv, OutboxTypes
        <4>2. Uncommitted(q) /\ q \notin missed
          BY <2>2, <4>1 DEF Uncommitted
        <4>. QED BY <1>0, <4>2 DEF OutboxInv, ScanHolds
      <3>. QED BY <3>1, <3>2
    <2>. QED BY <2>5, <2>6, <2>7, RecordKeeps
  <1>. QED BY <1>1, <1>2

\* The record is left as it was and the handler rests.
LEMMA LeftKeeps ==
    ASSUME OutboxInv, NEW r \in Requests, handler.pc \in ServedSteps, handler' = Idle,
           UNCHANGED <<method, publicTestnet, outbox, lastNonce, scan, archived, fact, published, chainNonce, pool,
                       outcome, sends, outboxFaults, missed>>
    PROVE  OutboxInv'
  <1>1. RecordStep(r, outbox[r])
    BY SameStep, HandlerTypes, OutboxConstants
  <1>. QED BY <1>1, RestHolds, ScanSame, RecordKeeps DEF ServedSteps

\* A transaction that failed: nothing of a release or a ticket is kept, and nothing can follow.
LEMMA FailedKeeps ==
    ASSUME OutboxInv, NEW r \in Requests, r = handler.req, handler.pc \in ServedSteps,
           outbox[r].state # "CONFIRMED", outbox[r].tx.nonce <= chainNonce, near_finalize_failed(r),
           UNCHANGED <<method, publicTestnet, lastNonce, scan, archived, fact, published, chainNonce, pool, outcome,
                       sends, outboxFaults>>
    PROVE  OutboxInv'
  <1>1. handler' = Idle /\ missed' = missed /\ handler.pc # "queue_archive"
    BY DEF near_finalize_failed, Done, ServedSteps
  <1>2. CASE drops_failed(r)
    <2>1. outbox' = [outbox EXCEPT ![r] = NoRecord] /\ Ephemeral(r)
      BY <1>2 DEF near_finalize_failed, drops_failed, Ephemeral
    <2>2. RecordStep(r, NoRecord)
      BY <1>1, <2>1, OutboxConstants, HandlerTypes DEF RecordStep, RecordFits
    <2>. QED BY <1>1, <2>2, RestHolds, ScanSame, RecordKeeps, OutboxConstants
  <1>3. CASE ~drops_failed(r)
    <2>1. outbox' = outbox
      BY <1>3 DEF near_finalize_failed
    <2>. QED BY <1>1, <2>1, LeftKeeps
  <1>. QED BY <1>2, <1>3

\* A request comes in: its record is made, taken over from the first contract version, or found.
LEMMA ProcessKeeps ==
    ASSUME OutboxInv, NEW r \in Requests, NEW p \in payloads(r), processOperatorOutbox(r, p)
    PROVE  OutboxInv'
  <1>0. /\ handler = Idle /\ ~conflict(r, p) /\ ~(outbox[r].legacy /\ outbox[r].state = "CONFIRMED")
        /\ outbox' = [outbox EXCEPT ![r] = opened(r, p)]
        /\ handler' = [pc |-> "confirm", req |-> r, payload |-> p, reply |-> "none"]
        /\ UNCHANGED <<method, publicTestnet, lastNonce, scan, archived, fact, published, chainNonce, pool, outcome,
                       sends, outboxFaults, missed>>
    BY DEF processOperatorOutbox, fixedVars, chainVars
  <1>1. /\ p \in Payloads \cup {0} /\ missed \subseteq Requests /\ outboxFaults \in 0 .. MaxFaults
        /\ handler.pc = "idle" /\ RecordFits(r, outbox[r]) /\ outbox[r] \in OutboxRecords
    BY <1>0, OutboxConstants DEF payloads, OutboxInv, OutboxTypes
  <1>2. /\ handler' \in HandlerRecords /\ handler'.pc = "confirm" /\ handler'.req = r /\ handler'.payload = p
    BY <1>0, <1>1 DEF HandlerRecords, ServedSteps
  <1>3. outbox[r] # NoRecord => outbox[r].payload = p
    BY <1>0 DEF conflict
  <1>4. ASSUME NEW rec, rec = opened(r, p), RecordStep(r, rec), rec.payload = p, ~rec.legacy,
               rec.state # "CONFIRMED" \/ rec = outbox[r]
        PROVE  OutboxInv'
    <2>1. HandlerHolds'
      BY <1>2, <1>4, ServedHolds DEF ServedSteps
    <2>2. ScanHolds'
      BY <1>0, <1>1, <1>4, ScanSame
    <2>. QED BY <1>4, <2>1, <2>2, RecordKeeps
  <1>5. CASE outbox[r] = NoRecord
    <2>1. PICK rec : rec = [NoRecord EXCEPT !.state = "PENDING", !.payload = p]
      OBVIOUS
    <2>2. rec = opened(r, p)
      BY <1>5, <2>1 DEF opened
    <2>3. /\ rec \in OutboxRecords /\ rec.state = "PENDING" /\ rec.payload = p /\ rec.nonce = 0 /\ ~rec.signed
          /\ rec.tx = NoTx /\ ~rec.legacy
      BY <1>1, <2>1, OutboxConstants DEF OutboxRecords, OutboxStates
    <2>4. publicTestnet /\ ~Ephemeral(r) => sends[r] = 0
      BY <1>5, OutboxConstants DEF OutboxInv, PublicHolds
    <2>5. RecordStep(r, rec)
      BY <1>0, <1>1, <1>2, <1>5, <2>2, <2>3, <2>4, OutboxConstants DEF RecordStep, RecordFits
    <2>. QED BY <1>4, <2>2, <2>3, <2>5
  <1>6. CASE outbox[r] # NoRecord /\ outbox[r].legacy
    <2>1. PICK rec : rec = [clearSignedTransaction(outbox[r]) EXCEPT !.legacy = FALSE]
      OBVIOUS
    <2>2. rec = opened(r, p)
      BY <1>6, <2>1 DEF opened
    <2>3. PICK cleared : cleared = clearSignedTransaction(outbox[r])
      OBVIOUS
    <2>4. /\ cleared \in OutboxRecords /\ cleared.state = "PENDING" /\ cleared.nonce = 0 /\ ~cleared.signed
          /\ cleared.tx = NoTx /\ cleared.payload = outbox[r].payload
      BY <2>3, WrittenRecords
    <2>5. /\ rec \in OutboxRecords /\ rec.state = "PENDING" /\ rec.payload = p /\ rec.nonce = 0 /\ ~rec.signed
          /\ rec.tx = NoTx /\ ~rec.legacy
      BY <1>3, <1>6, <2>1, <2>3, <2>4 DEF OutboxRecords
    <2>6. ~publicTestnet /\ outbox[r].tx.legacy /\ outbox[r].state # "CONFIRMED"
      BY <1>0, <1>1, <1>6 DEF RecordFits
    <2>7. RecordStep(r, rec)
      BY <1>0, <1>1, <1>2, <2>2, <2>5, <2>6, OutboxConstants DEF RecordStep, RecordFits
    <2>. QED BY <1>4, <2>2, <2>5, <2>7
  <1>7. CASE outbox[r] # NoRecord /\ ~outbox[r].legacy
    <2>1. outbox[r] = opened(r, p)
      BY <1>7 DEF opened
    <2>2. UNCHANGED outbox
      BY <1>0, <2>1 DEF OutboxInv, OutboxTypes
    <2>3. RecordStep(r, outbox[r])
      BY <1>0, <1>1, <1>2, <2>2, SameStep
    <2>. QED BY <1>3, <1>4, <1>7, <2>1, <2>3
  <1>. QED BY <1>5, <1>6, <1>7

\* The chain is asked whether the request is settled.
LEMMA ConfirmKeeps == ASSUME OutboxInv, confirm PROVE OutboxInv'
  <1>1. PICK r \in Requests : r = handler.req /\ outbox[r].payload = handler.payload /\ ~outbox[r].legacy
    BY DEF confirm, OutboxInv, HandlerHolds, ServedSteps
  <1>2. /\ handler.pc = "confirm"
        /\ UNCHANGED <<method, publicTestnet, lastNonce, scan, archived, fact, published, chainNonce, pool, outcome,
                       sends, outboxFaults>>
    BY DEF confirm, fixedVars, chainVars
  <1>3. CASE Done /\ UNCHANGED <<outbox, missed>>
    BY <1>2, <1>3, LeftKeeps DEF Done, ServedSteps
  <1>4. CASE isConfirmed(r) /\ ~finalPublicationMismatch(r, handler.payload) /\ persistConfirmedOperatorRecord(r)
    BY <1>1, <1>2, <1>4, PersistKeeps DEF ServedSteps
  <1>5. CASE ~isConfirmed(r) /\ goto(next_step(outbox[r])) /\ UNCHANGED <<outbox, missed>>
    <2>1. PICK p \in {"poll", "status", "mutate"} : p = next_step(outbox[r])
      BY DEF next_step
    <2>2. handler' \in HandlerRecords /\ handler'.pc = p /\ handler'.req = r /\ handler'.payload = handler.payload
      BY <1>1, <1>5, <2>1, Goto DEF ServedSteps
    <2>3. RecordStep(r, outbox[r])
      BY <1>2, <1>5, <2>2, SameStep, HandlerTypes
    <2>4. outbox[r].state # "CONFIRMED"
      BY <1>5 DEF OutboxInv, ConfirmedOnChain
    <2>5. HandlerHolds'
      <3>1. /\ p = "status" => ~publicTestnet
            /\ publicTestnet => /\ p = "mutate" => outbox[r].state # "BROADCAST"
                                /\ p = "poll" => outbox[r].state = "BROADCAST"
        BY <2>1 DEF next_step
      <3>. QED BY <1>1, <2>2, <2>3, <2>4, <3>1, ServedHolds DEF ServedSteps
    <2>. QED BY <1>2, <1>5, <2>3, <2>5, ScanSame, RecordKeeps
  <1>. QED BY <1>1, <1>3, <1>4, <1>5 DEF confirm

\* A broadcast transaction is looked up, outside public testnet.
LEMMA StatusKeeps == ASSUME OutboxInv, queryTransaction PROVE OutboxInv'
  <1>1. PICK r \in Requests : r = handler.req /\ outbox[r].payload = handler.payload /\ ~outbox[r].legacy
    BY DEF queryTransaction, OutboxInv, HandlerHolds, ServedSteps
  <1>2. /\ handler.pc = "status" /\ outbox[r].state # "CONFIRMED" /\ ~publicTestnet
        /\ UNCHANGED <<method, publicTestnet, lastNonce, scan, archived, fact, published, chainNonce, pool, outcome,
                       sends, outboxFaults>>
    BY <1>1 DEF queryTransaction, fixedVars, chainVars, OutboxInv, HandlerHolds, ServedSteps
  <1>3. PICK reply \in classifyNearError(outbox[r].tx) :
          IF finalPublicationMismatch(r, handler.payload) THEN Done /\ UNCHANGED <<outbox, missed>>
          ELSE IF isConfirmed(r) THEN persistConfirmedOperatorRecord(r)
          ELSE IF reply = "failed" THEN near_finalize_failed(r)
          ELSE /\ goto("mutate")
               /\ outbox' = IF reply = "invalid_nonce"
                            THEN [outbox EXCEPT ![r] = clearSignedTransaction(@)] ELSE outbox
               /\ UNCHANGED missed
    BY <1>1 DEF queryTransaction
  <1>4. CASE finalPublicationMismatch(r, handler.payload)
    BY <1>2, <1>3, <1>4, LeftKeeps DEF Done, ServedSteps
  <1>5. CASE ~finalPublicationMismatch(r, handler.payload) /\ isConfirmed(r)
    BY <1>1, <1>2, <1>3, <1>5, PersistKeeps DEF ServedSteps
  <1>6. CASE ~finalPublicationMismatch(r, handler.payload) /\ ~isConfirmed(r) /\ reply = "failed"
    <2>1. outbox[r].tx.nonce <= chainNonce
      BY <1>6, AnswerOld
    <2>. QED BY <1>1, <1>2, <1>3, <1>6, <2>1, FailedKeeps DEF ServedSteps
  <1>7. CASE ~finalPublicationMismatch(r, handler.payload) /\ ~isConfirmed(r) /\ reply # "failed"
    <2>1. handler' \in HandlerRecords /\ handler'.pc = "mutate" /\ handler'.req = r /\ handler'.payload = handler.payload
      BY <1>1, <1>3, <1>7, Goto DEF ServedSteps
    <2>2. missed' = missed /\ missed \subseteq Requests /\ outboxFaults \in 0 .. MaxFaults
      BY <1>3, <1>7, HandlerTypes
    <2>3. ASSUME NEW rec, RecordStep(r, rec), rec.payload = outbox[r].payload, ~rec.legacy, rec.state # "CONFIRMED"
          PROVE  OutboxInv'
      <3>1. HandlerHolds'
        BY <1>1, <1>2, <2>1, <2>3, ServedHolds DEF ServedSteps
      <3>. QED BY <1>2, <2>2, <2>3, <3>1, ScanSame, RecordKeeps
    <2>4. CASE reply = "invalid_nonce"
      <3>1. PICK rec : rec = clearSignedTransaction(outbox[r])
        OBVIOUS
      <3>2. /\ rec \in OutboxRecords /\ rec.state = "PENDING" /\ rec.nonce = 0 /\ ~rec.signed /\ rec.tx = NoTx
            /\ rec.payload = outbox[r].payload /\ ~rec.legacy
        BY <1>1, <3>1, WrittenRecords
      <3>3. outbox' = [outbox EXCEPT ![r] = rec]
        BY <1>3, <1>7, <2>4, <3>1
      <3>4. outbox[r].tx.nonce <= chainNonce
        BY <2>4, AnswerOld
      <3>5. RecordStep(r, rec)
        BY <1>2, <2>1, <2>2, <3>2, <3>3, <3>4, OutboxConstants DEF RecordStep, RecordFits
      <3>. QED BY <2>3, <3>2, <3>5
    <2>5. CASE reply # "invalid_nonce"
      <3>1. UNCHANGED outbox
        BY <1>3, <1>7, <2>5
      <3>2. RecordStep(r, outbox[r])
        BY <1>2, <2>1, <2>2, <3>1, SameStep
      <3>. QED BY <1>1, <1>2, <2>3, <3>2
    <2>. QED BY <2>4, <2>5
  <1>. QED BY <1>4, <1>5, <1>6, <1>7

\* Public testnet only reads a broadcast record again.
LEMMA PollKeeps == ASSUME OutboxInv, pollOperatorFinality PROVE OutboxInv'
  <1>1. PICK r \in Requests : r = handler.req /\ outbox[r].state # "CONFIRMED"
    BY DEF pollOperatorFinality, OutboxInv, HandlerHolds, ServedSteps
  <1>2. /\ handler.pc = "poll"
        /\ UNCHANGED <<method, publicTestnet, lastNonce, scan, archived, fact, published, chainNonce, pool, outcome,
                       sends, outboxFaults>>
    BY DEF pollOperatorFinality, fixedVars, chainVars
  <1>3. PICK reply \in classifyNearError(outbox[r].tx) :
          IF isConfirmed(r) /\ ~finalPublicationMismatch(r, handler.payload)
          THEN persistConfirmedOperatorRecord(r)
          ELSE IF reply \in {"failed", "invalid_nonce"} THEN near_finalize_failed(r)
          ELSE Done /\ UNCHANGED <<outbox, missed>>
    BY <1>1 DEF pollOperatorFinality
  <1>4. CASE isConfirmed(r) /\ ~finalPublicationMismatch(r, handler.payload)
    BY <1>1, <1>2, <1>3, <1>4, PersistKeeps DEF ServedSteps
  <1>5. CASE ~(isConfirmed(r) /\ ~finalPublicationMismatch(r, handler.payload)) /\ reply \in {"failed", "invalid_nonce"}
    <2>1. outbox[r].tx.nonce <= chainNonce
      BY <1>5, AnswerOld
    <2>. QED BY <1>1, <1>2, <1>3, <1>5, <2>1, FailedKeeps DEF ServedSteps
  <1>6. CASE ~(isConfirmed(r) /\ ~finalPublicationMismatch(r, handler.payload)) /\ reply \notin {"failed", "invalid_nonce"}
    BY <1>2, <1>3, <1>6, LeftKeeps DEF Done, ServedSteps
  <1>. QED BY <1>4, <1>5, <1>6

\* A nonce is reserved past every one that was handed out.
LEMMA ReserveNonceKeeps == ASSUME OutboxInv, reserve_nonce PROVE OutboxInv'
  <1>1. PICK r \in Requests : /\ r = handler.req /\ outbox[r].payload = handler.payload /\ ~outbox[r].legacy
                              /\ outbox[r].state # "CONFIRMED"
    BY DEF reserve_nonce, OutboxInv, HandlerHolds, ServedSteps
  <1>2. PICK n : n = next_nonce
    OBVIOUS
  <1>3. /\ lastNonce \in Nat /\ chainNonce \in Nat /\ outbox[r] \in OutboxRecords
        /\ outbox \in [Requests -> OutboxRecords]
    BY OutboxConstants DEF OutboxInv, OutboxTypes
  <1>4. n \in Nat /\ lastNonce < n
    BY <1>2, <1>3 DEF next_nonce, larger
  <1>5. /\ handler.pc = "mutate" /\ ~outbox[r].signed /\ outbox[r].nonce = 0 /\ n <= MaxNonce /\ lastNonce' = n
        /\ outbox' = [outbox EXCEPT ![r].state = "RESERVED", ![r].nonce = n]
        /\ UNCHANGED <<method, publicTestnet, scan, archived, handler, fact, published, chainNonce, pool, outcome,
                       sends, missed, outboxFaults>>
    BY <1>1, <1>2 DEF reserve_nonce, fixedVars, chainVars
  <1>6. PICK rec : rec = [outbox[r] EXCEPT !.state = "RESERVED", !.nonce = n]
    OBVIOUS
  <1>7. /\ rec \in OutboxRecords /\ rec.state = "RESERVED" /\ rec.nonce = n /\ ~rec.signed /\ rec.tx = outbox[r].tx
        /\ rec.payload = outbox[r].payload /\ rec.legacy = outbox[r].legacy /\ n \in 0 .. MaxNonce
    <2>1. n \in 0 .. MaxNonce
      BY <1>4, <1>5, OutboxConstants
    <2>. QED BY <1>3, <1>5, <1>6, <2>1 DEF OutboxRecords, OutboxStates
  <1>8. /\ outbox' = [outbox EXCEPT ![r] = rec]
        /\ \A q \in Requests : outbox'[q] = IF q = r THEN rec ELSE outbox[q]
    BY <1>3, <1>5, <1>6
  <1>9. outbox[r].tx = NoTx
    BY <1>1, <1>5 DEF OutboxInv, RecordFits
  <1>10. OutboxTypes'
    BY <1>5, <1>7, <1>8 DEF OutboxInv, OutboxTypes
  <1>11. \A q \in Requests : RecordFits(q, outbox[q])'
    <2>1. RecordFits(r, rec)
      BY <1>1, <1>7, <1>9 DEF RecordFits
    <2>2. \A q \in Requests : RecordFits(q, outbox'[q])
      BY <1>8, <2>1 DEF OutboxInv
    <2>. QED BY <1>5, <2>2 DEF RecordFits, Ephemeral
  <1>12. Stored' = Stored /\ Sent' = Sent
    <2>1. \A q \in Requests : outbox'[q].tx = outbox[q].tx
      BY <1>7, <1>8
    <2>. QED BY <1>5, <2>1 DEF Stored, Sent
  <1>13. OutboxNonces'
    <2>1. \A tx \in Sent \cup Stored : tx.nonce # 0 /\ tx.nonce <= lastNonce /\ tx.nonce \in Nat /\ tx.req \in Requests
      <3>1. Sent \cup Stored \subseteq Txs
        BY DEF Sent, Stored, OutboxInv, OutboxTypes, OutboxRecords
      <3>2. \A tx \in Sent \cup Stored : tx.nonce \in Nat
        BY <3>1, OutboxConstants DEF Txs
      <3>. QED BY <3>2 DEF OutboxInv, OutboxNonces
    <2>2. \A q \in Requests : outbox[q].nonce \in Nat /\ outbox[q].nonce <= lastNonce
      BY <1>3, OutboxConstants DEF OutboxInv, OutboxNonces, OutboxRecords
    <2>3. \A tx \in Sent' \cup Stored' : tx.nonce # 0 /\ tx.nonce <= lastNonce' /\ tx.req \in Requests
      BY <1>3, <1>4, <1>5, <1>12, <2>1
    <2>4. \A q \in Requests : outbox'[q].nonce <= lastNonce'
      <3>1. lastNonce' = n
        BY <1>5
      <3>. QED BY <1>3, <1>4, <1>7, <1>8, <2>2, <3>1
    <2>5. \A p, q \in Requests : outbox'[p].nonce = outbox'[q].nonce /\ outbox'[p].nonce # 0 => p = q
      <3>1. \A p, q \in Requests : outbox[p].nonce = outbox[q].nonce /\ outbox[p].nonce # 0 => p = q
        BY DEF OutboxInv, OutboxNonces
      <3>2. \A q \in Requests : q # r => outbox'[q].nonce = outbox[q].nonce /\ outbox'[q].nonce # n
        BY <1>3, <1>4, <1>8, <2>2
      <3>3. outbox'[r].nonce = n
        BY <1>7, <1>8
      <3>. QED BY <3>1, <3>2, <3>3
    <2>6. ASSUME NEW q \in Requests, NEW tx \in Sent' \cup Stored', tx.nonce = outbox'[q].nonce
          PROVE  outbox'[q].signed /\ tx = outbox'[q].tx
      <3>1. tx \in Sent \cup Stored /\ tx.nonce # n
        BY <1>3, <1>4, <1>12, <2>1
      <3>2. q # r
        BY <1>7, <1>8, <2>6, <3>1
      <3>. QED BY <1>8, <2>6, <3>1, <3>2 DEF OutboxInv, OutboxNonces
    <2>7. OneTransactionPerNonce' /\ \A o \in outcome' : o.tx.nonce <= chainNonce'
      BY <1>5, <1>12 DEF OutboxInv, OutboxNonces, OneTransactionPerNonce
    <2>. QED BY <2>3, <2>4, <2>5, <2>6, <2>7 DEF OutboxNonces
  <1>14. HandlerHolds'
    BY <1>1, <1>5, <1>7, <1>8 DEF OutboxInv, HandlerHolds, ServedSteps
  <1>15. PublicHolds'
    BY <1>1, <1>5, <1>7, <1>8 DEF OutboxInv, PublicHolds, HandlerHolds, Ephemeral
  <1>16. ScanHolds'
    <2>1. \A q \in Requests : Uncommitted(q)' => Uncommitted(q)
      BY <1>7, <1>8 DEF Uncommitted
    <2>. QED BY <1>5, <2>1 DEF OutboxInv, ScanHolds
  <1>17. ForgottenIsHarmless'
    <2>1. \A tx \in pool : tx.req \in Requests
      BY DEF OutboxInv, OutboxNonces, Sent
    <2>. QED BY <1>5, <1>7, <1>8, <2>1 DEF OutboxInv, ForgottenIsHarmless
  <1>18. ConfirmedOnChain' /\ ArchiveAgrees'
    <2>1. ConfirmedOnChain'
      <3>1. \A q \in Requests : outbox'[q].state = "CONFIRMED" => outbox'[q] = outbox[q]
        BY <1>7, <1>8
      <3>. QED BY <1>5, <3>1 DEF OutboxInv, ConfirmedOnChain, isConfirmed, finalPublicationMismatch
    <2>2. ArchiveAgrees'
      <3>1. \A q \in Requests : archived[q] # NoRecord => q # r
        BY <1>1 DEF OutboxInv, ArchiveAgrees
      <3>. QED BY <1>5, <1>8, <3>1 DEF OutboxInv, ArchiveAgrees
    <2>. QED BY <2>1, <2>2
  <1>. QED BY <1>10, <1>11, <1>13, <1>14, <1>15, <1>16, <1>17, <1>18 DEF OutboxInv


\* The transaction is signed: it is the only one with its nonce.
LEMMA SignTransactionKeeps == ASSUME OutboxInv, signTransaction PROVE OutboxInv'
  <1>1. PICK r \in Requests : /\ r = handler.req /\ outbox[r].payload = handler.payload /\ ~outbox[r].legacy
                              /\ outbox[r].state # "CONFIRMED"
    BY DEF signTransaction, OutboxInv, HandlerHolds, ServedSteps
  <1>2. outbox[r] \in OutboxRecords /\ outbox \in [Requests -> OutboxRecords]
    BY DEF OutboxInv, OutboxTypes
  <1>3. PICK tx : tx = [req |-> r, payload |-> outbox[r].payload, nonce |-> outbox[r].nonce, legacy |-> FALSE]
    OBVIOUS
  <1>4. PICK rec : rec = [outbox[r] EXCEPT !.state = "SIGNED", !.signed = TRUE, !.tx = tx]
    OBVIOUS
  <1>5. /\ handler.pc = "mutate" /\ ~outbox[r].signed /\ outbox[r].nonce # 0
        /\ UNCHANGED <<method, publicTestnet, lastNonce, scan, archived, handler, fact, published, chainNonce, pool,
                       outcome, sends, missed, outboxFaults>>
    BY <1>1 DEF signTransaction, fixedVars, chainVars
  <1>6. /\ outbox' = [outbox EXCEPT ![r] = rec]
        /\ \A q \in Requests : outbox'[q] = IF q = r THEN rec ELSE outbox[q]
    <2>1. outbox' = [outbox EXCEPT ![r].state = "SIGNED", ![r].signed = TRUE, ![r].tx = tx]
      BY <1>1, <1>3 DEF signTransaction
    <2>2. outbox' = [outbox EXCEPT ![r] = rec]
      BY <1>2, <1>4, <2>1
    <2>. QED BY <1>2, <2>2
  <1>7. tx \in Txs /\ tx.req = r /\ tx.nonce = outbox[r].nonce /\ ~tx.legacy
    BY <1>2, <1>3 DEF OutboxRecords, Txs
  <1>8. /\ rec \in OutboxRecords /\ rec.state = "SIGNED" /\ rec.nonce = outbox[r].nonce /\ rec.signed /\ rec.tx = tx
        /\ rec.payload = outbox[r].payload /\ ~rec.legacy
    BY <1>1, <1>2, <1>4, <1>7 DEF OutboxRecords, OutboxStates
  <1>9. outbox[r].tx = NoTx
    BY <1>1, <1>5 DEF OutboxInv, RecordFits
  <1>10. OutboxTypes'
    BY <1>5, <1>6, <1>8 DEF OutboxInv, OutboxTypes
  <1>11. \A q \in Requests : RecordFits(q, outbox[q])'
    <2>1. RecordFits(r, rec)
      BY <1>5, <1>7, <1>8 DEF RecordFits
    <2>2. \A q \in Requests : RecordFits(q, outbox'[q])
      BY <1>6, <2>1 DEF OutboxInv
    <2>. QED BY <1>5, <2>2 DEF RecordFits, Ephemeral
  <1>12. Stored' \subseteq Stored \cup {tx} /\ Sent' = Sent
    <2>1. \A q \in Requests : outbox'[q].tx = outbox[q].tx \/ outbox'[q].tx = tx
      BY <1>6, <1>8
    <2>. QED BY <1>5, <2>1 DEF Stored, Sent
  <1>13. OutboxNonces'
    <2>1. \A t \in Sent \cup Stored : t.nonce # tx.nonce
      BY <1>5, <1>7 DEF OutboxInv, OutboxNonces
    <2>2. \A t \in Sent' \cup Stored' : t.nonce # 0 /\ t.nonce <= lastNonce' /\ t.req \in Requests
      BY <1>5, <1>7, <1>12 DEF OutboxInv, OutboxNonces
    <2>3. \A q \in Requests : outbox'[q].nonce = outbox[q].nonce
      BY <1>6, <1>8
    <2>4. ASSUME NEW q \in Requests, NEW t \in Sent' \cup Stored', t.nonce = outbox'[q].nonce
          PROVE  outbox'[q].signed /\ t = outbox'[q].tx
      <3>1. CASE t = tx
        <4>1. q = r
          BY <1>5, <1>7, <2>3, <2>4, <3>1 DEF OutboxInv, OutboxNonces
        <4>. QED BY <1>6, <1>8, <3>1, <4>1
      <3>2. CASE t # tx
        <4>1. t \in Sent \cup Stored
          BY <1>12, <3>2
        <4>2. q # r
          BY <1>7, <2>1, <2>3, <2>4, <4>1
        <4>. QED BY <1>6, <2>4, <4>1, <4>2 DEF OutboxInv, OutboxNonces
      <3>. QED BY <3>1, <3>2
    <2>5. OneTransactionPerNonce'
      BY <1>12, <2>1 DEF OutboxInv, OutboxNonces, OneTransactionPerNonce
    <2>6. /\ \A q \in Requests : outbox'[q].nonce <= lastNonce'
          /\ \A p, q \in Requests : outbox'[p].nonce = outbox'[q].nonce /\ outbox'[p].nonce # 0 => p = q
          /\ \A o \in outcome' : o.tx.nonce <= chainNonce'
      BY <1>5, <2>3 DEF OutboxInv, OutboxNonces
    <2>. QED BY <2>2, <2>4, <2>5, <2>6 DEF OutboxNonces
  <1>14. HandlerHolds'
    BY <1>1, <1>5, <1>6, <1>8 DEF OutboxInv, HandlerHolds, ServedSteps
  <1>15. PublicHolds'
    BY <1>1, <1>5, <1>6, <1>8 DEF OutboxInv, PublicHolds, HandlerHolds, Ephemeral
  <1>16. ScanHolds'
    <2>1. \A q \in Requests : Uncommitted(q)' => Uncommitted(q)
      BY <1>6, <1>8 DEF Uncommitted
    <2>. QED BY <1>5, <2>1 DEF OutboxInv, ScanHolds
  <1>17. ForgottenIsHarmless'
    <2>. SUFFICES ASSUME NEW t \in pool, outbox'[t.req].tx # t, t.nonce > chainNonce
                  PROVE  t.legacy \/ fact[t.req] # "open"
      BY <1>5 DEF ForgottenIsHarmless
    <2>1. t.req \in Requests /\ t.nonce # 0
      BY DEF OutboxInv, OutboxNonces, Sent
    <2>2. outbox[t.req].tx # t
      BY <1>6, <1>9, <2>1, OutboxConstants
    <2>. QED BY <2>2 DEF OutboxInv, ForgottenIsHarmless
  <1>18. ConfirmedOnChain'
    <2>1. \A q \in Requests : outbox'[q].state = "CONFIRMED" => outbox'[q] = outbox[q]
      BY <1>6, <1>8
    <2>. QED BY <1>5, <2>1 DEF OutboxInv, ConfirmedOnChain, isConfirmed, finalPublicationMismatch
  <1>19. ArchiveAgrees'
    <2>1. \A q \in Requests : archived[q] # NoRecord => q # r
      BY <1>1 DEF OutboxInv, ArchiveAgrees
    <2>. QED BY <1>5, <1>6, <2>1 DEF OutboxInv, ArchiveAgrees
  <1>. QED BY <1>10, <1>11, <1>13, <1>14, <1>15, <1>16, <1>17, <1>18, <1>19 DEF OutboxInv

\* Public testnet stores BROADCAST before it sends.
LEMMA MarkKeeps == ASSUME OutboxInv, mark_before_send PROVE OutboxInv'
  <1>1. PICK r \in Requests : /\ r = handler.req /\ outbox[r].payload = handler.payload /\ ~outbox[r].legacy
                              /\ outbox[r].state # "CONFIRMED"
    BY DEF mark_before_send, OutboxInv, HandlerHolds, ServedSteps
  <1>2. /\ handler.pc = "mutate" /\ outbox[r].signed
        /\ publicTestnet => outbox[r].state # "BROADCAST"
        /\ UNCHANGED <<method, publicTestnet, lastNonce, scan, archived, fact, published, chainNonce, pool, outcome,
                       sends, missed, outboxFaults>>
    BY <1>1 DEF mark_before_send, fixedVars, chainVars, OutboxInv, HandlerHolds
  <1>3. handler' \in HandlerRecords /\ handler'.pc = "send" /\ handler'.req = r /\ handler'.payload = handler.payload
    BY <1>1, Goto DEF mark_before_send, ServedSteps
  <1>4. publicTestnet /\ ~Ephemeral(r) => sends[r] = 0
    BY <1>1, <1>2 DEF OutboxInv, PublicHolds
  <1>5. ASSUME NEW rec, RecordStep(r, rec), rec.payload = outbox[r].payload, ~rec.legacy, rec.signed,
               rec.state # "CONFIRMED", publicTestnet => rec.state = "BROADCAST"
        PROVE  OutboxInv'
    <2>1. HandlerHolds'
      BY <1>1, <1>3, <1>4, <1>5, ServedHolds DEF ServedSteps
    <2>2. ScanHolds'
      BY <1>2, <1>5, ScanSame
    <2>. QED BY <1>5, <2>1, <2>2, RecordKeeps
  <1>6. CASE publicTestnet
    <2>1. PICK rec : rec = [outbox[r] EXCEPT !.state = "BROADCAST"]
      OBVIOUS
    <2>2. /\ rec \in OutboxRecords /\ rec.state = "BROADCAST" /\ rec.nonce = outbox[r].nonce
          /\ rec.signed = outbox[r].signed /\ rec.tx = outbox[r].tx
          /\ rec.payload = outbox[r].payload /\ rec.legacy = outbox[r].legacy
      BY <2>1, WrittenRecords
    <2>3. outbox' = [outbox EXCEPT ![r] = rec]
      BY <1>1, <1>6, <2>1 DEF mark_before_send, OutboxInv, OutboxTypes
    <2>4. RecordFits(r, rec)
      BY <1>1, <2>2 DEF OutboxInv, RecordFits
    <2>5. RecordStep(r, rec)
      BY <1>1, <1>2, <1>3, <2>2, <2>3, <2>4, HandlerTypes DEF RecordStep
    <2>. QED BY <1>1, <1>2, <1>5, <2>2, <2>5
  <1>7. CASE ~publicTestnet
    <2>1. UNCHANGED outbox
      BY <1>7 DEF mark_before_send
    <2>2. RecordStep(r, outbox[r])
      BY <1>2, <1>3, <2>1, SameStep, HandlerTypes
    <2>. QED BY <1>1, <1>2, <1>5, <1>7, <2>2
  <1>. QED BY <1>6, <1>7

\* The handler waits for, or has, the answer of a send: the record is as it was.
LEMMA AnswerKeeps == ASSUME OutboxInv, send_reply PROVE OutboxInv'
  <1>1. PICK r \in Requests : /\ r = handler.req /\ outbox[r].payload = handler.payload /\ ~outbox[r].legacy
                              /\ outbox[r].state # "CONFIRMED" /\ outbox[r].signed
    BY DEF send_reply, OutboxInv, HandlerHolds, ServedSteps
  <1>2. /\ handler.pc = "await" /\ (publicTestnet => outbox[r].state = "BROADCAST")
        /\ UNCHANGED <<method, publicTestnet, outbox, lastNonce, scan, archived, fact, published, chainNonce, pool,
                       outcome, sends, missed>>
    BY <1>1 DEF send_reply, fixedVars, storeVars, chainVars, OutboxInv, HandlerHolds
  <1>3. PICK reply \in {"sent", "failed", "invalid_nonce", "unknown"} :
          /\ handler' = [handler EXCEPT !.pc = "sent", !.reply = reply]
          /\ reply # "unknown" => outbox[r].tx.nonce <= chainNonce
          /\ outboxFaults' \in 0 .. MaxFaults
    <2>1. CASE \E reply \in classifyNearError(outbox[r].tx) \ {"unknown"} :
                 /\ handler' = [handler EXCEPT !.pc = "sent", !.reply = reply]
                 /\ UNCHANGED outboxFaults
      <3>1. PICK reply \in classifyNearError(outbox[r].tx) :
              reply # "unknown" /\ handler' = [handler EXCEPT !.pc = "sent", !.reply = reply] /\ UNCHANGED outboxFaults
        BY <2>1
      <3>2. outbox[r].tx.nonce <= chainNonce
        BY <3>1, AnswerOld
      <3>3. reply \in {"sent", "failed", "invalid_nonce", "unknown"}
        BY DEF classifyNearError
      <3>. QED BY <3>1, <3>2, <3>3, HandlerTypes
    <2>2. CASE outboxFaults < MaxFaults /\ outboxFaults' = outboxFaults + 1
               /\ handler' = [handler EXCEPT !.pc = "sent", !.reply = "unknown"]
      <3>1. outboxFaults' \in 0 .. MaxFaults
        <4>1. outboxFaults \in 0 .. MaxFaults /\ MaxFaults \in Nat
          BY HandlerTypes, OutboxConstants
        <4>. QED BY <2>2, <4>1
      <3>. QED BY <2>2, <3>1
    <2>. QED BY <1>1, <2>1, <2>2 DEF send_reply
  <1>4. /\ handler' \in HandlerRecords /\ handler'.pc = "sent" /\ handler'.reply = reply /\ handler'.req = r
        /\ handler'.payload = handler.payload
    <2>1. handler \in HandlerRecords
      BY HandlerTypes
    <2>. QED BY <1>1, <1>3, <2>1 DEF HandlerRecords, ServedSteps
  <1>5. RecordStep(r, outbox[r])
    BY <1>2, <1>3, <1>4, SameStep, HandlerTypes
  <1>6. HandlerHolds'
    BY <1>1, <1>2, <1>3, <1>4, <1>5, ServedHolds DEF ServedSteps
  <1>. QED BY <1>2, <1>5, <1>6, ScanSame, RecordKeeps

\* The answer decides what is left of the record.
LEMMA ReadAnswerKeeps == ASSUME OutboxInv, after_send PROVE OutboxInv'
  <1>1. PICK r \in Requests : /\ r = handler.req /\ outbox[r].payload = handler.payload /\ ~outbox[r].legacy
                              /\ outbox[r].state # "CONFIRMED" /\ outbox[r].signed
    BY DEF after_send, OutboxInv, HandlerHolds, ServedSteps
  <1>2. /\ handler.pc = "sent" /\ (publicTestnet => outbox[r].state = "BROADCAST")
        /\ handler.reply # "unknown" => outbox[r].tx.nonce <= chainNonce
        /\ UNCHANGED <<method, publicTestnet, lastNonce, scan, archived, fact, published, chainNonce, pool, outcome,
                       sends, outboxFaults>>
    BY <1>1 DEF after_send, fixedVars, chainVars, OutboxInv, HandlerHolds
  <1>3. PICK rec : rec = [outbox[r] EXCEPT !.state = "BROADCAST"]
    OBVIOUS
  <1>4. /\ rec \in OutboxRecords /\ rec.state = "BROADCAST" /\ rec.nonce = outbox[r].nonce
        /\ rec.signed = outbox[r].signed /\ rec.tx = outbox[r].tx
        /\ rec.payload = outbox[r].payload /\ rec.legacy = outbox[r].legacy
    BY <1>3, WrittenRecords
  <1>5. CASE isConfirmed(r) /\ ~finalPublicationMismatch(r, handler.payload)
    <2>1. persistConfirmedOperatorRecord(r)
      BY <1>1, <1>5 DEF after_send
    <2>. QED BY <1>1, <1>2, <1>5, <2>1, PersistKeeps DEF ServedSteps
  <1>6. CASE ~(isConfirmed(r) /\ ~finalPublicationMismatch(r, handler.payload))
    <2>1. missed' = missed /\ missed \subseteq Requests /\ outboxFaults \in 0 .. MaxFaults
      BY <1>1, <1>6, HandlerTypes DEF after_send
    <2>2. ASSUME outbox' = [outbox EXCEPT ![r] = rec], handler' \in HandlerRecords
          PROVE  RecordStep(r, rec)
      <3>1. RecordFits(r, rec)
        BY <1>1, <1>4 DEF OutboxInv, RecordFits
      <3>. QED BY <1>1, <1>2, <1>4, <2>1, <2>2, <3>1 DEF RecordStep
    <2>3. CASE outbox' = [outbox EXCEPT ![r] = rec] /\ handler' = Idle
      <3>1. RecordStep(r, rec)
        BY <2>2, <2>3, OutboxConstants
      <3>. QED BY <1>2, <1>4, <2>1, <2>3, <3>1, RestHolds, ScanSame, RecordKeeps
    <2>4. CASE /\ drops_failed(r) /\ handler' = Idle /\ outbox' = [outbox EXCEPT ![r] = NoRecord]
               /\ handler.reply # "unknown"
      <3>1. Ephemeral(r)
        BY <2>4 DEF drops_failed, Ephemeral
      <3>2. RecordStep(r, NoRecord)
        BY <1>1, <1>2, <2>1, <2>4, <3>1, OutboxConstants DEF RecordStep, RecordFits
      <3>. QED BY <1>2, <2>1, <2>4, <3>2, RestHolds, ScanSame, RecordKeeps, OutboxConstants
    <2>5. CASE publicTestnet /\ goto("poll") /\ outbox' = [outbox EXCEPT ![r] = rec]
      <3>1. /\ handler' \in HandlerRecords /\ handler'.pc = "poll" /\ handler'.req = r
            /\ handler'.payload = handler.payload
        BY <1>1, <2>5, Goto DEF ServedSteps
      <3>2. RecordStep(r, rec)
        BY <2>2, <2>5, <3>1
      <3>3. HandlerHolds'
        BY <1>1, <1>4, <3>1, <3>2, ServedHolds DEF ServedSteps
      <3>. QED BY <1>2, <1>4, <2>1, <3>2, <3>3, ScanSame, RecordKeeps
    <2>6. CASE ~publicTestnet /\ handler' = Idle /\ handler.reply = "invalid_nonce"
               /\ outbox' = [outbox EXCEPT ![r] = clearSignedTransaction(rec)]
      <3>1. PICK cleared : cleared = clearSignedTransaction(outbox[r])
        OBVIOUS
      <3>2. /\ cleared \in OutboxRecords /\ cleared.state = "PENDING" /\ cleared.nonce = 0 /\ ~cleared.signed
            /\ cleared.tx = NoTx /\ cleared.payload = outbox[r].payload /\ cleared.legacy = outbox[r].legacy
            /\ cleared = clearSignedTransaction(rec)
        BY <1>3, <3>1, WrittenRecords
      <3>3. RecordFits(r, cleared)
        BY <1>1, <3>2, OutboxConstants DEF RecordFits
      <3>4. RecordStep(r, cleared)
        BY <1>1, <1>2, <2>1, <2>6, <3>2, <3>3, OutboxConstants DEF RecordStep
      <3>. QED BY <1>2, <2>1, <2>6, <3>2, <3>4, RestHolds, ScanSame, RecordKeeps
    <2>7. \/ outbox' = [outbox EXCEPT ![r] = rec] /\ handler' = Idle
          \/ /\ drops_failed(r) /\ handler' = Idle /\ outbox' = [outbox EXCEPT ![r] = NoRecord]
             /\ handler.reply # "unknown"
          \/ publicTestnet /\ goto("poll") /\ outbox' = [outbox EXCEPT ![r] = rec]
          \/ ~publicTestnet /\ handler' = Idle /\ handler.reply = "invalid_nonce"
             /\ outbox' = [outbox EXCEPT ![r] = clearSignedTransaction(rec)]
      <3>1. /\ UNCHANGED missed
            /\ IF finalPublicationMismatch(r, handler.payload)
               THEN outbox' = [outbox EXCEPT ![r] = rec] /\ Done
               ELSE IF \/ handler.reply = "failed"
                       \/ publicTestnet /\ handler.reply = "invalid_nonce"
               THEN /\ outbox' = [outbox EXCEPT ![r] = IF drops_failed(r) THEN NoRecord ELSE rec]
                    /\ Done
               ELSE IF publicTestnet
                    THEN /\ outbox' = [outbox EXCEPT ![r] = rec]
                         /\ goto("poll")
                    ELSE /\ outbox' = [outbox EXCEPT ![r] =
                                IF handler.reply = "invalid_nonce" THEN clearSignedTransaction(rec) ELSE rec]
                         /\ Done
        BY <1>1, <1>3, <1>6 DEF after_send
      <3>. QED BY <3>1 DEF Done
    <2>. QED BY <2>3, <2>4, <2>5, <2>6, <2>7
  <1>. QED BY <1>5, <1>6

\* The transaction is sent, refused or lost: the chain may come to hold it.
LEMMA SubmitKeeps == ASSUME OutboxInv, sendTransaction PROVE OutboxInv'
  <1>1. PICK r \in Requests : /\ r = handler.req /\ outbox[r].payload = handler.payload /\ ~outbox[r].legacy
                              /\ outbox[r].state # "CONFIRMED" /\ outbox[r].signed
    BY DEF sendTransaction, OutboxInv, HandlerHolds, ServedSteps
  <1>2. PICK tx : tx = outbox[r].tx
    OBVIOUS
  <1>3. /\ handler.pc = "send"
        /\ \/ /\ pool' = IF tx.nonce > chainNonce THEN pool \cup {tx} ELSE pool
              /\ goto("await") /\ UNCHANGED outboxFaults
           \/ /\ tx.nonce <= chainNonce
              /\ handler' = [handler EXCEPT !.pc = "sent", !.reply = "invalid_nonce"]
              /\ UNCHANGED <<pool, outboxFaults>>
           \/ /\ outboxFaults < MaxFaults /\ outboxFaults' = outboxFaults + 1
              /\ handler' = [handler EXCEPT !.pc = "sent", !.reply = "unknown"]
              /\ UNCHANGED pool
        /\ sends' = [sends EXCEPT ![r] = smaller(@ + 1, 2)]
        /\ UNCHANGED <<method, publicTestnet, outbox, lastNonce, scan, archived, fact, published, chainNonce, outcome,
                       missed>>
    BY <1>1, <1>2 DEF sendTransaction, fixedVars, storeVars
  <1>4. /\ tx \in Txs /\ tx \in Stored /\ tx.req = r
        /\ publicTestnet => outbox[r].state = "BROADCAST"
        /\ publicTestnet /\ ~Ephemeral(r) => sends[r] = 0
    <2>1. outbox[r] \in OutboxRecords /\ RecordFits(r, outbox[r])
      BY DEF OutboxInv, OutboxTypes
    <2>2. tx \in Txs /\ tx.nonce # 0
      BY <1>1, <1>2, <2>1 DEF OutboxRecords, RecordFits
    <2>3. tx # NoTx
      BY <2>2, OutboxConstants
    <2>4. tx.req = r
      BY <1>2, <2>1, <2>3 DEF RecordFits
    <2>. QED BY <1>1, <1>2, <1>3, <2>2, <2>3, <2>4 DEF Stored, OutboxInv, HandlerHolds
  <1>5. pool' \subseteq pool \cup {tx} /\ Stored' = Stored /\ Sent' \subseteq Sent \cup {tx}
    BY <1>3 DEF Stored, Sent
  <1>6. /\ handler' \in HandlerRecords /\ handler'.pc \in {"await", "sent"} /\ handler'.req = r
        /\ handler'.payload = handler.payload
        /\ handler'.pc = "sent" /\ handler'.reply # "unknown" => tx.nonce <= chainNonce
        /\ outboxFaults' \in 0 .. MaxFaults
    <2>1. handler \in HandlerRecords /\ outboxFaults \in 0 .. MaxFaults /\ MaxFaults \in Nat
      BY HandlerTypes, OutboxConstants
    <2>2. outboxFaults' \in 0 .. MaxFaults
      BY <1>3, <2>1
    <2>. QED BY <1>1, <1>3, <2>1, <2>2 DEF goto, HandlerRecords, ServedSteps
  <1>7. OutboxTypes'
    <2>1. sends' \in [Requests -> 0 .. 2]
      BY <1>3 DEF smaller, OutboxInv, OutboxTypes
    <2>. QED BY <1>3, <1>4, <1>5, <1>6, <2>1 DEF OutboxInv, OutboxTypes
  <1>8. \A q \in Requests : RecordFits(q, outbox[q])'
    BY <1>3 DEF OutboxInv, RecordFits, Ephemeral
  <1>9. OutboxNonces'
    <2>1. Sent' \cup Stored' \subseteq Sent \cup Stored
      BY <1>4, <1>5
    <2>. QED BY <1>3, <2>1 DEF OutboxInv, OutboxNonces, OneTransactionPerNonce
  <1>10. HandlerHolds'
    BY <1>1, <1>2, <1>3, <1>4, <1>6 DEF HandlerHolds, ServedSteps
  <1>11. PublicHolds'
    <2>. SUFFICES ASSUME publicTestnet, NEW q \in Requests, ~Ephemeral(q)
                  PROVE  sends'[q] <= 1 /\ (sends'[q] # 0 => outbox[q].state \in {"BROADCAST", "CONFIRMED"})
      BY <1>3 DEF PublicHolds, Ephemeral
    <2>1. CASE q = r
      BY <1>3, <1>4, <2>1 DEF smaller, OutboxInv, OutboxTypes
    <2>2. CASE q # r
      BY <1>3, <2>2 DEF OutboxInv, OutboxTypes, PublicHolds
    <2>. QED BY <2>1, <2>2
  <1>12. ScanHolds'
    BY <1>3, <1>6 DEF OutboxInv, ScanHolds, Uncommitted
  <1>13. ForgottenIsHarmless'
    BY <1>2, <1>3, <1>4, <1>5 DEF OutboxInv, ForgottenIsHarmless
  <1>14. ConfirmedOnChain' /\ ArchiveAgrees'
    BY <1>3 DEF OutboxInv, ConfirmedOnChain, ArchiveAgrees, isConfirmed, finalPublicationMismatch
  <1>. QED BY <1>7, <1>8, <1>9, <1>10, <1>11, <1>12, <1>13, <1>14 DEF OutboxInv

\* The chain moves: what was settled stays settled, and its nonce only grows.
ChainStep ==
    /\ pool' \subseteq pool /\ chainNonce' \in 0 .. MaxNonce /\ chainNonce <= chainNonce'
    /\ \A q \in Requests : \/ fact'[q] = fact[q] /\ published'[q] = published[q]
                           \/ fact[q] = "open"
    /\ fact' \in [Requests -> {"open", "gone", "done"}] /\ published' \in [Requests -> Payloads \cup {0}]
    /\ outcome' \subseteq [tx : Txs, result : {"ok", "failed"}]
    /\ \A o \in outcome' : o \in outcome \/ (o.tx \in pool /\ o.tx.nonce <= chainNonce')
    /\ outboxFaults' \in 0 .. MaxFaults
    /\ UNCHANGED <<method, publicTestnet, outbox, lastNonce, scan, archived, handler, sends, missed>>

\* ... which leaves everything true that is said of the records.
LEMMA ChainKeeps == ASSUME OutboxInv, ChainStep PROVE OutboxInv'
  <1>. USE DEF ChainStep
  <1>1. OutboxTypes'
    BY DEF OutboxInv, OutboxTypes
  <1>2. \A q \in Requests : RecordFits(q, outbox[q])'
    BY DEF OutboxInv, RecordFits, Ephemeral
  <1>3. Sent' \subseteq Sent /\ Stored' = Stored
    BY DEF Sent, Stored
  <1>4. chainNonce \in Nat /\ chainNonce' \in Nat
    BY OutboxConstants DEF OutboxInv, OutboxTypes
  <1>5. OutboxNonces'
    <2>1. \A o \in outcome' : o.tx.nonce <= chainNonce'
      <3>. SUFFICES ASSUME NEW o \in outcome' PROVE o.tx.nonce <= chainNonce'
        OBVIOUS
      <3>1. o.tx.nonce \in Nat
        BY OutboxConstants DEF Txs
      <3>2. CASE o \in outcome
        <4>1. o.tx.nonce <= chainNonce
          BY <3>2 DEF OutboxInv, OutboxNonces
        <4>. QED BY <1>4, <3>1, <4>1
      <3>. QED BY <3>2
    <2>. QED BY <1>3, <2>1 DEF OutboxInv, OutboxNonces, OneTransactionPerNonce
  <1>6. HandlerHolds'
    <2>1. handler.pc = "sent" /\ handler.reply # "unknown" => outbox[handler.req].tx.nonce <= chainNonce'
      <3>. SUFFICES ASSUME handler.pc = "sent", handler.reply # "unknown"
                    PROVE  outbox[handler.req].tx.nonce <= chainNonce'
        OBVIOUS
      <3>1. handler.req \in Requests /\ outbox[handler.req].tx.nonce <= chainNonce
        BY DEF OutboxInv, HandlerHolds, ServedSteps
      <3>2. outbox[handler.req].tx.nonce \in Nat
        <4>1. outbox[handler.req] \in OutboxRecords
          BY <3>1 DEF OutboxInv, OutboxTypes
        <4>. QED BY <4>1, OutboxConstants DEF OutboxRecords, Txs
      <3>. QED BY <1>4, <3>1, <3>2
    <2>2. listed' = listed /\ \A q : due(q)' <=> due(q)
      BY DEF listed, due, Uncommitted
    <2>3. HandlerHolds
      BY DEF OutboxInv
    <2>. QED BY <2>1, <2>2, <2>3 DEF HandlerHolds, Ephemeral
  <1>7. PublicHolds' /\ ScanHolds' /\ ArchiveAgrees'
    BY DEF OutboxInv, PublicHolds, ScanHolds, ArchiveAgrees, Uncommitted, Ephemeral
  <1>8. ForgottenIsHarmless'
    <2>. SUFFICES ASSUME NEW tx \in pool, outbox[tx.req].tx # tx, tx.nonce > chainNonce'
                  PROVE  tx.legacy \/ fact'[tx.req] # "open"
      BY DEF ForgottenIsHarmless
    <2>1. tx.req \in Requests /\ tx.nonce \in Nat
      BY OutboxConstants DEF OutboxInv, OutboxNonces, Sent, OutboxTypes, Txs
    <2>2. tx.nonce > chainNonce
      BY <1>4, <2>1
    <2>3. tx.legacy \/ fact[tx.req] # "open"
      BY <2>2 DEF OutboxInv, ForgottenIsHarmless
    <2>. QED BY <2>1, <2>3
  <1>9. ConfirmedOnChain'
    BY DEF OutboxInv, ConfirmedOnChain, isConfirmed, finalPublicationMismatch
  <1>. QED BY <1>1, <1>2, <1>5, <1>6, <1>7, <1>8, <1>9 DEF OutboxInv

\* A transaction is executed.
LEMMA ExecutesKeeps == ASSUME OutboxInv, NEW tx \in pool, executes(tx) PROVE OutboxInv'
  <1>1. /\ tx \in Txs /\ tx.req \in Requests /\ tx.nonce \in 0 .. MaxNonce /\ tx.payload \in Payloads \cup {0}
        /\ chainNonce \in 0 .. MaxNonce /\ outboxFaults \in 0 .. MaxFaults
        /\ MaxNonce \in Nat /\ MaxFaults \in Nat
        /\ fact \in [Requests -> {"open", "gone", "done"}] /\ published \in [Requests -> Payloads \cup {0}]
        /\ outcome \subseteq [tx : Txs, result : {"ok", "failed"}]
    BY OutboxConstants DEF OutboxInv, OutboxTypes, OutboxNonces, Sent, Txs
  <1>2. /\ pool' = pool \ {tx}
        /\ UNCHANGED <<method, publicTestnet, outbox, lastNonce, scan, archived, handler, sends, missed>>
    BY DEF executes, fixedVars
  <1>3. \A o \in outcome : o.tx.nonce <= chainNonce
    BY DEF OutboxInv, OutboxNonces
  <1>4. CASE tx.nonce <= chainNonce
    <2>1. UNCHANGED <<fact, published, chainNonce, outcome, outboxFaults>>
      BY <1>4 DEF executes
    <2>2. ChainStep
      BY <1>1, <1>2, <1>3, <2>1 DEF ChainStep
    <2>. QED BY <2>2, ChainKeeps
  <1>5. CASE /\ ~(tx.nonce <= chainNonce) /\ fact[tx.req] = "open" /\ chainNonce' = tx.nonce
             /\ fact' = [fact EXCEPT ![tx.req] = "done"]
             /\ published' = [published EXCEPT ![tx.req] = tx.payload]
             /\ outcome' = outcome \cup {[tx |-> tx, result |-> "ok"]}
             /\ UNCHANGED outboxFaults
    <2>1. chainNonce' \in 0 .. MaxNonce /\ chainNonce <= chainNonce'
      BY <1>1, <1>5
    <2>2. /\ fact' \in [Requests -> {"open", "gone", "done"}]
          /\ published' \in [Requests -> Payloads \cup {0}]
          /\ \A q \in Requests : \/ fact'[q] = fact[q] /\ published'[q] = published[q]
                                 \/ fact[q] = "open"
      BY <1>1, <1>5
    <2>3. /\ outcome' \subseteq [tx : Txs, result : {"ok", "failed"}]
          /\ \A o \in outcome' : o \in outcome \/ (o.tx \in pool /\ o.tx.nonce <= chainNonce')
      BY <1>1, <1>5, <2>1
    <2>4. ChainStep
      BY <1>1, <1>2, <1>5, <2>1, <2>2, <2>3 DEF ChainStep
    <2>. QED BY <2>4, ChainKeeps
  <1>6. CASE /\ ~(tx.nonce <= chainNonce) /\ chainNonce' = tx.nonce
             /\ fact[tx.req] # "open" \/ tx.legacy \/ outboxFaults < MaxFaults
             /\ outcome' = outcome \cup {[tx |-> tx, result |-> "failed"]}
             /\ outboxFaults' = IF fact[tx.req] = "open" /\ ~tx.legacy THEN outboxFaults + 1 ELSE outboxFaults
             /\ UNCHANGED <<fact, published>>
    <2>1. outboxFaults' \in 0 .. MaxFaults
      BY <1>1, <1>6
    <2>2. chainNonce' \in 0 .. MaxNonce /\ chainNonce <= chainNonce'
      BY <1>1, <1>6
    <2>3. /\ outcome' \subseteq [tx : Txs, result : {"ok", "failed"}]
          /\ \A o \in outcome' : o \in outcome \/ (o.tx \in pool /\ o.tx.nonce <= chainNonce')
      BY <1>1, <1>6, <2>2
    <2>4. ChainStep
      BY <1>1, <1>2, <1>6, <2>1, <2>2, <2>3 DEF ChainStep
    <2>. QED BY <2>4, ChainKeeps
  <1>. QED BY <1>4, <1>5, <1>6 DEF executes

\* Somebody else settles a request.
LEMMA ElsewhereKeeps == ASSUME OutboxInv, NEW r \in Requests, elsewhere(r) PROVE OutboxInv'
  <1>1. /\ fact[r] = "open" /\ outboxFaults \in 0 .. MaxFaults /\ chainNonce \in 0 .. MaxNonce
        /\ outcome \subseteq [tx : Txs, result : {"ok", "failed"}]
        /\ UNCHANGED <<method, publicTestnet, outbox, lastNonce, scan, archived, handler, sends, missed, pool,
                       chainNonce, outcome, outboxFaults>>
    BY DEF elsewhere, fixedVars, storeVars, OutboxInv, OutboxTypes
  <1>2. fact \in [Requests -> {"open", "gone", "done"}] /\ published \in [Requests -> Payloads \cup {0}]
    BY DEF OutboxInv, OutboxTypes
  <1>3. \A o \in outcome : o.tx.nonce <= chainNonce
    BY DEF OutboxInv, OutboxNonces
  <1>4. CASE fact' = [fact EXCEPT ![r] = "gone"] /\ UNCHANGED published
    <2>1. chainNonce <= chainNonce' /\ chainNonce' \in 0 .. MaxNonce
      BY <1>1, OutboxConstants
    <2>2. ChainStep
      BY <1>1, <1>2, <1>4, <2>1 DEF ChainStep
    <2>. QED BY <2>2, ChainKeeps
  <1>5. CASE \E p \in payloads(r) : fact' = [fact EXCEPT ![r] = "done"] /\ published' = [published EXCEPT ![r] = p]
    <2>1. PICK p \in Payloads \cup {0} : /\ fact' = [fact EXCEPT ![r] = "done"]
                                         /\ published' = [published EXCEPT ![r] = p]
      BY <1>5 DEF payloads
    <2>2. chainNonce <= chainNonce' /\ chainNonce' \in 0 .. MaxNonce
      BY <1>1, OutboxConstants
    <2>3. ChainStep
      BY <1>1, <1>2, <2>1, <2>2 DEF ChainStep
    <2>. QED BY <2>3, ChainKeeps
  <1>. QED BY <1>4, <1>5 DEF elsewhere

\* The records are what they were but for their archive marks.
LEMMA FrameKeeps ==
    ASSUME OutboxInv, outbox' \in [Requests -> OutboxRecords],
           \A q \in Requests :
              /\ outbox'[q].state = outbox[q].state /\ outbox'[q].legacy = outbox[q].legacy
              /\ outbox'[q].payload = outbox[q].payload /\ outbox'[q].nonce = outbox[q].nonce
              /\ outbox'[q].signed = outbox[q].signed /\ outbox'[q].tx = outbox[q].tx,
           UNCHANGED <<method, publicTestnet, lastNonce, fact, published, chainNonce, pool, outcome, sends>>,
           scan' \in [active : BOOLEAN, after : Requests \cup {0}, retry : BOOLEAN],
           archived' \in [Requests -> OutboxRecords], handler' \in HandlerRecords, missed' \subseteq Requests,
           outboxFaults' \in 0 .. MaxFaults,
           ArchiveAgrees', HandlerHolds', ScanHolds'
    PROVE  OutboxInv'
  <1>1. OutboxTypes'
    BY DEF OutboxInv, OutboxTypes
  <1>2. \A q \in Requests : RecordFits(q, outbox[q])'
    BY DEF OutboxInv, RecordFits, Ephemeral
  <1>3. Stored' = Stored /\ Sent' = Sent
    BY DEF Stored, Sent
  <1>4. OutboxNonces'
    BY <1>3 DEF OutboxInv, OutboxNonces, OneTransactionPerNonce
  <1>5. PublicHolds'
    BY DEF OutboxInv, PublicHolds, Ephemeral
  <1>6. ForgottenIsHarmless'
    <2>1. \A tx \in pool : tx.req \in Requests
      BY DEF OutboxInv, OutboxNonces, Sent
    <2>. QED BY <2>1 DEF OutboxInv, ForgottenIsHarmless
  <1>7. ConfirmedOnChain'
    BY DEF OutboxInv, ConfirmedOnChain, isConfirmed, finalPublicationMismatch
  <1>. QED BY <1>1, <1>2, <1>4, <1>5, <1>6, <1>7 DEF OutboxInv

\* Where the scan and the archive stand.
LEMMA ScanTypes ==
    ASSUME OutboxInv
    PROVE  /\ outbox \in [Requests -> OutboxRecords] /\ archived \in [Requests -> OutboxRecords]
           /\ scan \in [active : BOOLEAN, after : Requests \cup {0}, retry : BOOLEAN]
           /\ scan.active \in BOOLEAN /\ scan.retry \in BOOLEAN /\ scan.after \in Requests \cup {0}
           /\ scan.after \in Nat /\ \A q \in Requests : q \in Nat /\ q > 0
  <1>1. /\ outbox \in [Requests -> OutboxRecords] /\ archived \in [Requests -> OutboxRecords]
        /\ scan \in [active : BOOLEAN, after : Requests \cup {0}, retry : BOOLEAN]
    BY DEF OutboxInv, OutboxTypes
  <1>2. scan.active \in BOOLEAN /\ scan.retry \in BOOLEAN /\ scan.after \in Requests \cup {0}
    BY <1>1
  <1>3. \A q \in Requests : q \in Nat /\ q > 0
    BY RequestsAssumption
  <1>. QED BY <1>1, <1>2, <1>3

\* The object dies, a read fails or the switch is off: the record just confirmed is missed when
\* no scan runs.
LEMMA InterruptedKeeps == ASSUME OutboxInv, interrupted PROVE OutboxInv'
  <1>1. /\ outboxFaults < MaxFaults /\ outboxFaults' = outboxFaults + 1 /\ handler' = Idle
        /\ missed' = IF handler.pc = "queue_archive" /\ ~scan.active THEN missed \cup {handler.req} ELSE missed
        /\ UNCHANGED <<method, publicTestnet, outbox, lastNonce, scan, archived, fact, published, chainNonce, pool,
                       outcome, sends>>
    BY DEF interrupted, Done, fixedVars, storeVars, chainVars
  <1>2. outboxFaults' \in 0 .. MaxFaults
    <2>1. outboxFaults \in 0 .. MaxFaults /\ MaxFaults \in Nat
      BY HandlerTypes, OutboxConstants
    <2>. QED BY <1>1, <2>1
  <1>3. missed' \subseteq Requests /\ handler' \in HandlerRecords
    BY <1>1, HandlerTypes, OutboxConstants DEF OutboxInv, HandlerHolds
  <1>4. HandlerHolds'
    BY <1>1, RestHolds
  <1>5. ScanHolds'
    BY <1>1 DEF OutboxInv, ScanHolds, Uncommitted
  <1>6. ArchiveAgrees'
    BY <1>1 DEF OutboxInv, ArchiveAgrees
  <1>. QED BY <1>1, <1>2, <1>3, <1>4, <1>5, <1>6, ScanTypes, FrameKeeps

\* The record just confirmed starts a scan, unless one runs.
LEMMA QueueKeeps == ASSUME OutboxInv, queue_archive PROVE OutboxInv'
  <1>1. /\ handler' = Idle /\ handler.pc = "queue_archive" /\ handler.req \in Requests
        /\ scan' = IF scan.active \/ outbox[handler.req].archive = "COMMITTED" THEN scan
                   ELSE [active |-> TRUE, after |-> 0, retry |-> FALSE]
        /\ UNCHANGED <<method, publicTestnet, outbox, lastNonce, archived, fact, published, chainNonce, pool,
                       outcome, sends, missed, outboxFaults>>
    <2>1. ASSUME NEW s, s = [NoScan EXCEPT !.active = TRUE]
          PROVE  s = [active |-> TRUE, after |-> 0, retry |-> FALSE]
      BY <2>1 DEF NoScan
    <2>2. handler.pc = "queue_archive" /\ handler.req \in Requests
      BY DEF queue_archive, OutboxInv, HandlerHolds
    <2>. QED BY <2>1, <2>2 DEF queue_archive, Done, fixedVars, chainVars
  <1>2. scan' \in [active : BOOLEAN, after : Requests \cup {0}, retry : BOOLEAN]
    BY <1>1, ScanTypes
  <1>3. HandlerHolds'
    BY <1>1, RestHolds
  <1>4. ScanHolds'
    <2>. SUFFICES ASSUME NEW q \in Requests, Uncommitted(q), q \notin missed
                  PROVE  scan'.active /\ (q > scan'.after \/ scan'.retry)
      BY <1>1 DEF ScanHolds, Uncommitted
    <2>1. \/ scan.active /\ (q > scan.after \/ scan.retry)
          \/ ~scan.active /\ handler.req = q
      BY DEF OutboxInv, ScanHolds
    <2>2. q > 0
      BY ScanTypes
    <2>. QED BY <1>1, <2>1, <2>2 DEF Uncommitted
  <1>5. ArchiveAgrees'
    BY <1>1 DEF OutboxInv, ArchiveAgrees
  <1>6. handler' \in HandlerRecords /\ missed' \subseteq Requests /\ outboxFaults' \in 0 .. MaxFaults
    BY <1>1, HandlerTypes, OutboxConstants
  <1>. QED BY <1>1, <1>2, <1>3, <1>4, <1>5, <1>6, ScanTypes, FrameKeeps

\* A scan started by hand starts from the first key.
LEMMA StartScanKeeps == ASSUME OutboxInv, startOperatorOutboxArchiveScan PROVE OutboxInv'
  <1>1. /\ ~scan.active /\ scan' = [active |-> TRUE, after |-> 0, retry |-> FALSE]
        /\ UNCHANGED <<method, publicTestnet, outbox, lastNonce, archived, handler, fact, published, chainNonce, pool,
                       outcome, sends, missed, outboxFaults>>
    BY DEF startOperatorOutboxArchiveScan, NoScan, fixedVars, chainVars
  <1>2. HandlerHolds'
    <2>1. HandlerHolds /\ handler.pc # "archive_store"
      BY <1>1 DEF OutboxInv, HandlerHolds
    <2>. QED BY <1>1, <2>1 DEF HandlerHolds, Ephemeral
  <1>3. ScanHolds'
    BY <1>1, ScanTypes DEF ScanHolds
  <1>4. ArchiveAgrees'
    BY <1>1 DEF OutboxInv, ArchiveAgrees
  <1>5. handler' \in HandlerRecords /\ missed' \subseteq Requests /\ outboxFaults' \in 0 .. MaxFaults
    BY <1>1, HandlerTypes
  <1>. QED BY <1>1, <1>2, <1>3, <1>4, <1>5, ScanTypes, FrameKeeps

\* The archived row is written: it is the record's, or there was one.
LEMMA CommitKeeps == ASSUME OutboxInv, archive_commit PROVE OutboxInv'
  <1>1. PICK r \in listed : /\ due(r) /\ \A q \in listed : due(q) => r <= q
                            /\ \/ archived' = IF archived[r] = NoRecord THEN [archived EXCEPT ![r] = outbox[r]]
                                              ELSE archived
                               \/ UNCHANGED archived
                            /\ \E a \in {"COMMITTED", "RETRY"} :
                                  handler' = [pc |-> "archive_store", req |-> r, payload |-> 0, reply |-> a]
                            /\ \/ UNCHANGED outboxFaults
                               \/ outboxFaults < MaxFaults /\ outboxFaults' = outboxFaults + 1
    BY DEF archive_commit, Idle
  <1>2. /\ scan.active /\ r \in Requests
        /\ UNCHANGED <<method, publicTestnet, outbox, lastNonce, scan, fact, published, chainNonce, pool, outcome,
                       sends, missed>>
    BY DEF archive_commit, listed, fixedVars, chainVars
  <1>3. /\ handler' \in HandlerRecords /\ handler'.pc = "archive_store" /\ handler'.req = r
        /\ handler'.reply \in {"COMMITTED", "RETRY"}
    BY <1>1, <1>2 DEF HandlerRecords
  <1>4. outboxFaults' \in 0 .. MaxFaults /\ missed' \subseteq Requests
    <2>1. outboxFaults \in 0 .. MaxFaults /\ MaxFaults \in Nat /\ missed \subseteq Requests
      BY HandlerTypes, OutboxConstants
    <2>. QED BY <1>1, <1>2, <2>1
  <1>5. HandlerHolds'
    <2>1. listed' = listed /\ \A q : due(q)' <=> due(q)
      BY <1>2 DEF listed, due, Uncommitted
    <2>. QED BY <1>1, <1>2, <1>3, <2>1 DEF HandlerHolds, ServedSteps
  <1>6. ScanHolds'
    BY <1>2 DEF OutboxInv, ScanHolds, Uncommitted
  <1>7. archived' \in [Requests -> OutboxRecords]
    BY <1>1, <1>2, ScanTypes
  <1>8. ArchiveAgrees'
    <2>1. outbox[r].state = "CONFIRMED"
      BY <1>1 DEF due, Uncommitted
    <2>2. ASSUME NEW q \in Requests, archived'[q] # NoRecord
          PROVE  outbox[q].state = "CONFIRMED" /\ outbox[q].tx = archived'[q].tx
      <3>1. CASE archived'[q] = archived[q]
        BY <2>2, <3>1 DEF OutboxInv, ArchiveAgrees
      <3>2. CASE archived'[q] # archived[q]
        BY <1>1, <1>2, <2>1, <3>2, ScanTypes
      <3>. QED BY <3>1, <3>2
    <2>. QED BY <1>2, <2>2 DEF ArchiveAgrees
  <1>. QED BY <1>2, <1>3, <1>4, <1>5, <1>6, <1>7, <1>8, ScanTypes, FrameKeeps

\* The records after the cursor, the ones one alarm looks at among them.
Ahead == {x \in Requests : outbox[x] # NoRecord /\ x > scan.after}
UpTo(q) == {x \in Requests : outbox[x] # NoRecord /\ x > scan.after /\ x <= q}

\* The batch is the records up to a key, counted.
LEMMA Batch ==
    ASSUME OutboxInv
    PROVE  /\ listed = {q \in Ahead : Cardinality(UpTo(q)) <= ScanBatch}
           /\ IsFiniteSet(Ahead) /\ Ahead \subseteq Requests /\ Ahead \subseteq Nat
           /\ \A q : IsFiniteSet(UpTo(q)) /\ Cardinality(UpTo(q)) \in Nat /\ UpTo(q) \subseteq Ahead
           /\ IsFiniteSet(listed) /\ Cardinality(listed) \in Nat /\ listed \subseteq Ahead
  <1>1. listed = {q \in Ahead : Cardinality(UpTo(q)) <= ScanBatch}
    BY DEF listed, Ahead, UpTo
  <1>2. Ahead \subseteq Requests /\ Ahead \subseteq Nat /\ listed \subseteq Ahead
    BY <1>1, OutboxConstants DEF Ahead
  <1>3. IsFiniteSet(Ahead) /\ IsFiniteSet(listed)
    BY <1>2, OutboxConstants, FS_Subset
  <1>4. ASSUME NEW q PROVE IsFiniteSet(UpTo(q)) /\ Cardinality(UpTo(q)) \in Nat /\ UpTo(q) \subseteq Ahead
    <2>1. UpTo(q) \subseteq Ahead
      BY DEF UpTo, Ahead
    <2>2. IsFiniteSet(UpTo(q))
      BY <1>3, <2>1, FS_Subset
    <2>. QED BY <2>1, <2>2, FS_CardinalityType
  <1>5. Cardinality(listed) \in Nat
    BY <1>3, FS_CardinalityType
  <1>. QED BY <1>1, <1>2, <1>3, <1>4, <1>5

\* A record before one of the batch is of the batch.
LEMMA BatchDown ==
    ASSUME OutboxInv, NEW r \in listed, NEW q \in Ahead, q <= r
    PROVE  q \in listed
  <1>1. r \in Ahead /\ Cardinality(UpTo(r)) <= ScanBatch /\ q \in Nat /\ r \in Nat
    BY Batch
  <1>2. UpTo(q) \subseteq UpTo(r)
    <2>1. \A x \in Requests : x \in Nat
      BY OutboxConstants
    <2>2. \A x \in Requests : x <= q => x <= r
      BY <1>1, <2>1
    <2>. QED BY <2>2 DEF UpTo
  <1>3. IsFiniteSet(UpTo(r)) /\ Cardinality(UpTo(r)) \in Nat /\ Cardinality(UpTo(q)) \in Nat
    BY Batch
  <1>4. Cardinality(UpTo(q)) <= Cardinality(UpTo(r))
    BY <1>2, <1>3, FS_Subset
  <1>5. Cardinality(UpTo(q)) <= ScanBatch
    BY <1>1, <1>3, <1>4, OutboxConstants
  <1>. QED BY <1>5, Batch

\* A batch that is not full holds every record after the cursor.
LEMMA BatchAll ==
    ASSUME OutboxInv, Cardinality(listed) # ScanBatch
    PROVE  listed = Ahead
  <1>. DEFINE Left == Ahead \ listed
  <1>. SUFFICES ASSUME Left # {} PROVE FALSE
    BY Batch
  <1>1. PICK x \in Left : \A y \in Left : x <= y
    <2>1. Left \subseteq Nat
      BY Batch
    <2>. HIDE DEF Left
    <2>. QED BY <2>1, LeastOfNat
  <1>2. x \in Ahead /\ x \in Nat /\ Cardinality(UpTo(x)) \in Nat /\ ScanBatch < Cardinality(UpTo(x))
    <2>1. x \in Ahead /\ x \in Nat /\ Cardinality(UpTo(x)) \in Nat /\ ScanBatch \in Nat
      BY Batch, OutboxConstants
    <2>2. ~(Cardinality(UpTo(x)) <= ScanBatch)
      BY <2>1, Batch
    <2>. QED BY <2>1, <2>2
  <1>3. \A y \in listed : ~(x <= y)
    BY <1>2, BatchDown
  <1>4. UpTo(x) \ {x} = listed
    <2>1. ASSUME NEW y \in UpTo(x) \ {x} PROVE y \in listed
      <3>1. y \in Ahead /\ y \in Nat /\ y <= x /\ y # x
        BY Batch DEF UpTo
      <3>2. ~(x <= y)
        BY <1>2, <3>1
      <3>. QED BY <1>1, <3>1, <3>2
    <2>2. ASSUME NEW y \in listed PROVE y \in UpTo(x) \ {x}
      <3>1. y \in Ahead /\ y \in Nat
        BY Batch
      <3>2. y <= x /\ y # x
        BY <1>2, <1>3, <3>1
      <3>. QED BY <3>1, <3>2 DEF Ahead, UpTo
    <2>. QED BY <2>1, <2>2
  <1>5. x \in UpTo(x) /\ IsFiniteSet(UpTo(x))
    BY <1>2, Batch DEF Ahead, UpTo
  <1>6. Cardinality(listed) = Cardinality(UpTo(x)) - 1
    BY <1>4, <1>5, FS_RemoveElement
  <1>7. ScanBatch < Cardinality(listed)
    <2>1. Cardinality(listed) \in Nat /\ ScanBatch \in Nat
      BY Batch, OutboxConstants
    <2>. QED BY <1>2, <1>6, <2>1
  <1>8. PICK m \in listed : \A y \in listed : y <= m
    <2>1. listed # {}
      BY <1>7, FS_EmptySet, OutboxConstants
    <2>. QED BY <2>1, Batch, GreatestOfNat
  <1>9. listed \subseteq UpTo(m) /\ IsFiniteSet(UpTo(m)) /\ Cardinality(UpTo(m)) \in Nat
    BY <1>8, Batch DEF Ahead, UpTo
  <1>10. Cardinality(listed) <= Cardinality(UpTo(m))
    BY <1>9, FS_Subset
  <1>11. Cardinality(UpTo(m)) <= ScanBatch
    BY Batch
  <1>. QED BY <1>7, <1>9, <1>10, <1>11, Batch, OutboxConstants

\* A confirmed record the scan has left behind unarchived waits for a retry, which the scan met.
LEMMA LeftBehind ==
    ASSUME OutboxInv, scan.active, NEW upto \in listed, \A x \in listed : due(x) => x > upto,
           NEW q \in Requests, Uncommitted(q), q \notin missed, q <= upto
    PROVE  met_retry(upto)
  <1>1. q > scan.after \/ scan.retry
    BY DEF OutboxInv, ScanHolds
  <1>2. CASE q > scan.after
    <2>1. q \in Ahead
      BY <1>2, OutboxConstants DEF Ahead, Uncommitted
    <2>2. q \in listed
      BY <2>1, BatchDown
    <2>3. ~due(q)
      <3>1. q \in Nat /\ upto \in Nat
        BY Batch, OutboxConstants
      <3>. QED BY <2>2, <3>1
    <2>4. outbox[q].archive = "RETRY"
      BY <2>3 DEF due
    <2>. QED BY <2>2, <2>4 DEF met_retry, Uncommitted
  <1>3. CASE ~(q > scan.after) /\ scan.retry
    BY <1>3, ScanTypes DEF met_retry
  <1>. QED BY <1>1, <1>2, <1>3

\* The record's mark is stored and the cursor moves to it.
LEMMA StoreKeeps == ASSUME OutboxInv, archive_store PROVE OutboxInv'
  <1>1. PICK r : r = handler.req
    OBVIOUS
  <1>2. PICK reply : reply = handler.reply
    OBVIOUS
  <1>3. /\ r \in listed /\ due(r) /\ (\A q \in listed : due(q) => r <= q) /\ scan.active
        /\ reply \in {"COMMITTED", "RETRY"}
    BY <1>1, <1>2 DEF archive_store, OutboxInv, HandlerHolds
  <1>4. /\ outbox' = [outbox EXCEPT ![r].archive = reply]
        /\ scan' = [active |-> TRUE, after |-> r, retry |-> reply = "RETRY" \/ met_retry(r)]
        /\ handler' = Idle
        /\ UNCHANGED <<method, publicTestnet, lastNonce, archived, fact, published, chainNonce, pool, outcome,
                       sends, missed, outboxFaults>>
    BY <1>1, <1>2 DEF archive_store, Done, fixedVars, chainVars
  <1>5. r \in Requests /\ r \in Nat
    BY <1>3, Batch
  <1>6. PICK rec : rec = [outbox[r] EXCEPT !.archive = reply]
    OBVIOUS
  <1>7. /\ rec \in OutboxRecords /\ rec.archive = reply
        /\ rec.state = outbox[r].state /\ rec.legacy = outbox[r].legacy /\ rec.payload = outbox[r].payload
        /\ rec.nonce = outbox[r].nonce /\ rec.signed = outbox[r].signed /\ rec.tx = outbox[r].tx
    BY <1>3, <1>5, <1>6, ScanTypes DEF OutboxRecords
  <1>8. /\ outbox' = [outbox EXCEPT ![r] = rec] /\ outbox' \in [Requests -> OutboxRecords]
        /\ \A q \in Requests : outbox'[q] = IF q = r THEN rec ELSE outbox[q]
    BY <1>4, <1>5, <1>6, <1>7, ScanTypes
  <1>9. scan' \in [active : BOOLEAN, after : Requests \cup {0}, retry : BOOLEAN]
    <2>1. (reply = "RETRY" \/ met_retry(r)) \in BOOLEAN
      OBVIOUS
    <2>. QED BY <1>4, <1>5, <2>1
  <1>10. HandlerHolds'
    BY <1>4, RestHolds
  <1>11. ScanHolds'
    <2>. SUFFICES ASSUME NEW q \in Requests, Uncommitted(q)', q \notin missed, ~(q > r)
                  PROVE  reply = "RETRY" \/ met_retry(r)
      BY <1>4 DEF ScanHolds
    <2>1. CASE q = r
      BY <1>3, <1>7, <1>8, <2>1 DEF Uncommitted
    <2>2. CASE q # r
      <3>1. Uncommitted(q)
        BY <1>8, <2>2 DEF Uncommitted
      <3>2. q < r
        BY <1>5, <2>2, ScanTypes
      <3>3. q \notin listed \/ ~due(q)
        BY <1>3, <1>5, <3>2, ScanTypes
      <3>4. q > scan.after \/ scan.retry
        BY <1>3, <3>1 DEF OutboxInv, ScanHolds
      <3>5. CASE q > scan.after
        <4>1. q \in Ahead
          BY <3>1, <3>5, OutboxConstants DEF Ahead, Uncommitted
        <4>2. q \in listed
          BY <1>3, <1>5, <3>2, <4>1, ScanTypes, BatchDown
        <4>3. outbox[q].archive = "RETRY"
          BY <3>1, <3>3, <4>2 DEF due
        <4>. QED BY <1>5, <3>1, <3>2, <4>2, <4>3, ScanTypes DEF met_retry, Uncommitted
      <3>6. CASE ~(q > scan.after) /\ scan.retry
        BY <3>6, ScanTypes DEF met_retry
      <3>. QED BY <3>4, <3>5, <3>6
    <2>. QED BY <2>1, <2>2
  <1>12. ArchiveAgrees'
    BY <1>4, <1>7, <1>8 DEF OutboxInv, ArchiveAgrees
  <1>13. handler' \in HandlerRecords /\ missed' \subseteq Requests /\ outboxFaults' \in 0 .. MaxFaults
    BY <1>4, HandlerTypes, OutboxConstants
  <1>. QED BY <1>4, <1>7, <1>8, <1>9, <1>10, <1>11, <1>12, <1>13, ScanTypes, FrameKeeps

\* Nothing is due in the batch.
LEMMA ScanOnKeeps == ASSUME OutboxInv, scan_on PROVE OutboxInv'
  <1>1. PICK last : last = CHOOSE r \in listed : \A q \in listed : q <= r
    OBVIOUS
  <1>2. PICK retry \in BOOLEAN : retry = IF listed = {} THEN scan.retry ELSE met_retry(last)
    BY ScanTypes DEF met_retry
  <1>3. /\ scan.active /\ \A r \in listed : ~due(r)
        /\ scan' = IF Cardinality(listed) = ScanBatch
                   THEN [active |-> TRUE, after |-> last, retry |-> retry]
                   ELSE IF retry THEN [active |-> TRUE, after |-> 0, retry |-> TRUE]
                   ELSE [active |-> FALSE, after |-> 0, retry |-> FALSE]
        /\ handler = Idle
        /\ UNCHANGED <<method, publicTestnet, outbox, lastNonce, archived, handler, fact, published, chainNonce, pool,
                       outcome, sends, missed, outboxFaults>>
    BY <1>1, <1>2 DEF scan_on, NoScan, fixedVars, chainVars
  <1>4. listed # {} => last \in listed /\ \A q \in listed : q <= last
    <2>. SUFFICES ASSUME listed # {} PROVE last \in listed /\ \A q \in listed : q <= last
      OBVIOUS
    <2>1. \E r \in listed : \A q \in listed : q <= r
      BY Batch, GreatestOfNat
    <2>. QED BY <1>1, <2>1
  <1>5. Cardinality(listed) = ScanBatch => listed # {}
    BY FS_EmptySet, OutboxConstants
  <1>6. scan' \in [active : BOOLEAN, after : Requests \cup {0}, retry : BOOLEAN]
    <2>1. listed \subseteq Requests
      BY Batch
    <2>. QED BY <1>2, <1>3, <1>4, <1>5, <2>1
  <1>7. HandlerHolds'
    BY <1>3, RestHolds
  <1>8. ScanHolds'
    <2>. SUFFICES ASSUME NEW q \in Requests, Uncommitted(q), q \notin missed
                  PROVE  scan'.active /\ (q > scan'.after \/ scan'.retry)
      BY <1>3 DEF ScanHolds, Uncommitted
    <2>1. q > 0 /\ q \in Nat /\ scan.after \in Nat
      BY ScanTypes
    <2>2. q > scan.after \/ scan.retry
      BY <1>3 DEF OutboxInv, ScanHolds
    <2>3. ASSUME listed # {}, q <= last PROVE retry
      <3>1. last \in listed
        BY <1>4, <2>3
      <3>2. met_retry(last)
        BY <1>3, <2>3, <3>1, LeftBehind
      <3>. QED BY <1>2, <2>3, <3>2
    <2>4. CASE Cardinality(listed) = ScanBatch
      <3>1. listed # {} /\ last \in Nat
        BY <1>4, <1>5, <2>4, Batch
      <3>2. q > last \/ retry
        BY <2>1, <2>3, <3>1
      <3>3. scan'.active /\ scan'.after = last /\ scan'.retry = retry
        BY <1>3, <2>4
      <3>. QED BY <3>2, <3>3
    <2>5. CASE Cardinality(listed) # ScanBatch /\ retry
      BY <1>3, <2>1, <2>5
    <2>6. CASE Cardinality(listed) # ScanBatch /\ ~retry
      <3>1. ~(q > scan.after)
        <4>. SUFFICES ASSUME q > scan.after PROVE FALSE
          OBVIOUS
        <4>1. q \in Ahead
          BY OutboxConstants DEF Ahead, Uncommitted
        <4>2. q \in listed
          BY <2>6, <4>1, BatchAll
        <4>. QED BY <1>4, <2>3, <2>6, <4>2
      <3>2. scan.retry /\ scan.after # 0
        BY <2>1, <2>2, <3>1
      <3>3. retry
        BY <1>2, <3>2 DEF met_retry
      <3>. QED BY <2>6, <3>3
    <2>. QED BY <2>4, <2>5, <2>6
  <1>9. ArchiveAgrees'
    BY <1>3 DEF OutboxInv, ArchiveAgrees
  <1>10. handler' \in HandlerRecords /\ missed' \subseteq Requests /\ outboxFaults' \in 0 .. MaxFaults
    BY <1>3, HandlerTypes
  <1>. QED BY <1>3, <1>6, <1>7, <1>8, <1>9, <1>10, ScanTypes, FrameKeeps

\* The retries are due again.
LEMMA RetryKeeps == ASSUME OutboxInv, retry_due PROVE OutboxInv'
  <1>1. /\ handler = Idle
        /\ outbox' = [r \in Requests |-> IF outbox[r].archive = "RETRY"
                                         THEN [outbox[r] EXCEPT !.archive = "PENDING"] ELSE outbox[r]]
        /\ scan' = IF scan.after = 0 THEN [scan EXCEPT !.retry = FALSE] ELSE scan
        /\ UNCHANGED <<method, publicTestnet, lastNonce, archived, handler, fact, published, chainNonce, pool,
                       outcome, sends, missed, outboxFaults>>
    BY DEF retry_due, fixedVars, chainVars
  <1>2. \A q \in Requests :
              /\ outbox'[q] \in OutboxRecords
              /\ outbox'[q].state = outbox[q].state /\ outbox'[q].legacy = outbox[q].legacy
              /\ outbox'[q].payload = outbox[q].payload /\ outbox'[q].nonce = outbox[q].nonce
              /\ outbox'[q].signed = outbox[q].signed /\ outbox'[q].tx = outbox[q].tx
              /\ outbox'[q].archive = "COMMITTED" <=> outbox[q].archive = "COMMITTED"
    <2>. SUFFICES ASSUME NEW q \in Requests
                  PROVE  /\ outbox'[q] \in OutboxRecords
                         /\ outbox'[q].state = outbox[q].state /\ outbox'[q].legacy = outbox[q].legacy
                         /\ outbox'[q].payload = outbox[q].payload /\ outbox'[q].nonce = outbox[q].nonce
                         /\ outbox'[q].signed = outbox[q].signed /\ outbox'[q].tx = outbox[q].tx
                         /\ outbox'[q].archive = "COMMITTED" <=> outbox[q].archive = "COMMITTED"
      OBVIOUS
    <2>1. outbox[q] \in OutboxRecords
      BY ScanTypes
    <2>2. PICK rec : rec = [outbox[q] EXCEPT !.archive = "PENDING"]
      OBVIOUS
    <2>3. /\ rec \in OutboxRecords /\ rec.archive = "PENDING"
          /\ rec.state = outbox[q].state /\ rec.legacy = outbox[q].legacy /\ rec.payload = outbox[q].payload
          /\ rec.nonce = outbox[q].nonce /\ rec.signed = outbox[q].signed /\ rec.tx = outbox[q].tx
      BY <2>1, <2>2 DEF OutboxRecords
    <2>4. outbox'[q] = IF outbox[q].archive = "RETRY" THEN rec ELSE outbox[q]
      BY <1>1, <2>2
    <2>. QED BY <2>1, <2>3, <2>4
  <1>3. outbox' \in [Requests -> OutboxRecords]
    <2>1. \A q \in Requests : outbox'[q] \in OutboxRecords
      BY <1>2
    <2>2. outbox' = [q \in Requests |-> outbox'[q]]
      BY <1>1
    <2>. QED BY <2>1, <2>2
  <1>4. /\ scan' \in [active : BOOLEAN, after : Requests \cup {0}, retry : BOOLEAN]
        /\ scan'.active = scan.active /\ scan'.after = scan.after /\ (scan.after # 0 => scan'.retry = scan.retry)
    BY <1>1, ScanTypes
  <1>5. HandlerHolds'
    BY <1>1, RestHolds
  <1>6. ScanHolds'
    <2>. SUFFICES ASSUME NEW q \in Requests, Uncommitted(q)', q \notin missed
                  PROVE  scan.active /\ (q > scan.after \/ scan'.retry)
      BY <1>1, <1>4 DEF ScanHolds
    <2>1. Uncommitted(q)
      BY <1>2 DEF Uncommitted
    <2>2. scan.active /\ (q > scan.after \/ scan.retry)
      BY <1>1, <2>1, OutboxConstants DEF OutboxInv, ScanHolds
    <2>. QED BY <1>4, <2>2, ScanTypes
  <1>7. ArchiveAgrees'
    BY <1>1, <1>2 DEF OutboxInv, ArchiveAgrees
  <1>8. handler' \in HandlerRecords /\ missed' \subseteq Requests /\ outboxFaults' \in 0 .. MaxFaults
    BY <1>1, HandlerTypes
  <1>. QED BY <1>1, <1>2, <1>3, <1>4, <1>5, <1>6, <1>7, <1>8, ScanTypes, FrameKeeps

\* A fresh object, or one that a deployment of the first contract version left a record in.
LEMMA InitOutbox == OutboxInit => OutboxInv
  <1>. SUFFICES ASSUME OutboxInit PROVE OutboxInv
    OBVIOUS
  <1>1. /\ method \in [Requests -> {"finalize", "suspend", "mark_watched", "release"}] /\ publicTestnet \in BOOLEAN
        /\ published = [r \in Requests |-> outbox[r].payload]
        /\ scan = [active |-> FALSE, after |-> 0, retry |-> FALSE]
        /\ archived = [r \in Requests |-> NoRecord] /\ handler = Idle /\ handler.pc = "idle"
        /\ outcome = {} /\ sends = [r \in Requests |-> 0] /\ missed = {} /\ outboxFaults = 0
    BY OutboxConstants DEF OutboxInit, NoScan
  <1>2. ASSUME outbox \in [Requests -> OutboxRecords], lastNonce \in 0 .. MaxNonce, chainNonce \in 0 .. MaxNonce,
               fact \in [Requests -> {"open", "gone", "done"}], pool \subseteq Stored, Stored \subseteq Txs,
               \A r \in Requests : RecordFits(r, outbox[r]),
               \A r \in Requests : outbox[r].state = "CONFIRMED" => fact[r] = "done" /\ outbox[r].archive = "COMMITTED",
               OutboxNonces
        PROVE  OutboxInv
    <2>1. OutboxTypes
      <3>1. \A r \in Requests : outbox[r].payload \in Payloads \cup {0}
        BY <1>2 DEF OutboxRecords
      <3>2. published \in [Requests -> Payloads \cup {0}]
        BY <1>1, <3>1
      <3>3. archived \in [Requests -> OutboxRecords] /\ handler \in HandlerRecords
        BY <1>1, OutboxConstants
      <3>4. sends \in [Requests -> 0 .. 2] /\ outboxFaults \in 0 .. MaxFaults
        BY <1>1, OutboxConstants
      <3>5. /\ scan \in [active : BOOLEAN, after : Requests \cup {0}, retry : BOOLEAN]
            /\ pool \subseteq Txs /\ outcome \subseteq [tx : Txs, result : {"ok", "failed"}] /\ missed \subseteq Requests
        BY <1>1, <1>2
      <3>. QED BY <1>1, <1>2, <3>2, <3>3, <3>4, <3>5 DEF OutboxTypes
    <2>2. HandlerHolds
      BY <1>1 DEF HandlerHolds, ServedSteps
    <2>3. PublicHolds
      BY <1>1 DEF PublicHolds
    <2>4. ScanHolds
      BY <1>2 DEF ScanHolds, Uncommitted
    <2>5. ForgottenIsHarmless
      <3>. SUFFICES ASSUME NEW tx \in pool PROVE outbox[tx.req].tx = tx
        BY DEF ForgottenIsHarmless
      <3>1. PICK r \in Requests : tx = outbox[r].tx /\ tx # NoTx
        BY <1>2 DEF Stored
      <3>2. tx.req = r
        BY <1>2, <3>1 DEF RecordFits
      <3>. QED BY <3>1, <3>2
    <2>6. ConfirmedOnChain
      BY <1>1, <1>2 DEF ConfirmedOnChain, isConfirmed, finalPublicationMismatch
    <2>7. ArchiveAgrees
      BY <1>1 DEF ArchiveAgrees
    <2>. QED BY <1>2, <2>1, <2>2, <2>3, <2>4, <2>5, <2>6, <2>7 DEF OutboxInv
  <1>3. CASE FreshStart
    <2>1. /\ outbox = [r \in Requests |-> NoRecord] /\ lastNonce = 0 /\ chainNonce = 0
          /\ fact = [r \in Requests |-> "open"] /\ pool = {}
      BY <1>3 DEF FreshStart
    <2>2. /\ outbox \in [Requests -> OutboxRecords] /\ lastNonce \in 0 .. MaxNonce /\ chainNonce \in 0 .. MaxNonce
          /\ fact \in [Requests -> {"open", "gone", "done"}]
      BY <2>1, OutboxConstants
    <2>3. Stored = {}
      BY <2>1, OutboxConstants DEF Stored
    <2>4. \A r \in Requests : RecordFits(r, outbox[r]) /\ outbox[r].state # "CONFIRMED"
      BY <2>1, OutboxConstants DEF RecordFits
    <2>5. OutboxNonces
      BY <1>1, <2>1, <2>3, OutboxConstants DEF OutboxNonces, Sent, OneTransactionPerNonce
    <2>. QED BY <1>2, <2>1, <2>2, <2>3, <2>4, <2>5
  <1>4. CASE LegacyStart
    <2>1. PICK r \in Requests, st \in {"BROADCAST", "CONFIRMED"} :
            /\ ~publicTestnet /\ ~Ephemeral(r)
            /\ \E p \in payloads(r) :
                  outbox = [q \in Requests |-> IF q = r THEN LegacyRecord(r, p, st) ELSE NoRecord]
            /\ lastNonce = 1 /\ chainNonce = IF st = "CONFIRMED" THEN 1 ELSE 0
            /\ fact = [q \in Requests |-> IF q = r /\ st = "CONFIRMED" THEN "done" ELSE "open"]
            /\ pool = IF st = "BROADCAST" THEN {outbox[r].tx} ELSE {}
      BY <1>4 DEF LegacyStart
    <2>2. PICK p \in Payloads \cup {0} :
            outbox = [q \in Requests |-> IF q = r THEN LegacyRecord(r, p, st) ELSE NoRecord]
      BY <2>1 DEF payloads
    <2>3. PICK tx : tx = [req |-> r, payload |-> p, nonce |-> 1, legacy |-> TRUE]
      OBVIOUS
    <2>4. PICK rec : rec = LegacyRecord(r, p, st)
      OBVIOUS
    <2>5. tx \in Txs /\ tx.req = r /\ tx.nonce = 1 /\ tx.legacy /\ tx # NoTx /\ 1 \in 0 .. MaxNonce /\ 0 \in 0 .. MaxNonce
      <3>1. 1 \in 0 .. MaxNonce /\ 0 \in 0 .. MaxNonce
        BY OutboxConstants
      <3>. QED BY <2>3, <3>1, OutboxConstants DEF Txs
    <2>6. /\ rec \in OutboxRecords /\ rec.state = st /\ rec.legacy /\ rec.tx = tx
          /\ rec.nonce = IF st = "BROADCAST" THEN 1 ELSE 0
          /\ st = "BROADCAST" => rec.signed
          /\ st = "CONFIRMED" => ~rec.signed
          /\ st = "CONFIRMED" => rec.archive = "COMMITTED"
      BY <2>3, <2>4, <2>5 DEF LegacyRecord, OutboxRecords, OutboxStates
    <2>7. \A q \in Requests : outbox[q] = IF q = r THEN rec ELSE NoRecord
      BY <2>2, <2>4
    <2>8. outbox \in [Requests -> OutboxRecords]
      BY <2>2, <2>4, <2>6, OutboxConstants
    <2>9. Stored = {tx} /\ pool \subseteq {tx}
      BY <2>1, <2>5, <2>6, <2>7, OutboxConstants DEF Stored
    <2>10. \A q \in Requests : RecordFits(q, outbox[q])
      <3>1. \A q \in Requests : RecordFits(q, NoRecord)
        BY OutboxConstants DEF RecordFits
      <3>2. RecordFits(r, rec)
        <4>1. ~publicTestnet /\ ~Ephemeral(r)
          BY <2>1
        <4>2. CASE st = "BROADCAST"
          <5>1. rec.state = "BROADCAST" /\ rec.nonce = 1 /\ rec.tx = tx /\ rec.legacy /\ rec.signed
            BY <2>6, <4>2
          <5>. QED BY <2>5, <4>1, <5>1 DEF RecordFits
        <4>3. CASE st = "CONFIRMED"
          <5>1. rec.state = "CONFIRMED" /\ rec.nonce = 0 /\ ~rec.signed
            BY <2>6, <4>3
          <5>. QED BY <2>5, <2>6, <4>1, <5>1 DEF RecordFits
        <4>. QED BY <4>2, <4>3
      <3>. QED BY <2>7, <3>1, <3>2
    <2>11. OutboxNonces
      <3>1. Sent \cup Stored = {tx}
        BY <1>1, <2>9 DEF Sent
      <3>2. \A q \in Requests : outbox[q].nonce = 0 \/ (q = r /\ outbox[q].nonce = 1 /\ outbox[q].signed /\ outbox[q].tx = tx)
        BY <2>6, <2>7, OutboxConstants
      <3>. QED BY <1>1, <2>1, <2>5, <3>1, <3>2 DEF OutboxNonces, OneTransactionPerNonce
    <2>12. \A q \in Requests : outbox[q].state = "CONFIRMED" => fact[q] = "done" /\ outbox[q].archive = "COMMITTED"
      BY <2>1, <2>6, <2>7, OutboxConstants
    <2>13. /\ lastNonce \in 0 .. MaxNonce /\ chainNonce \in 0 .. MaxNonce
           /\ fact \in [Requests -> {"open", "gone", "done"}] /\ Stored \subseteq Txs /\ pool \subseteq Stored
      BY <2>1, <2>5, <2>9
    <2>. QED BY <1>2, <2>8, <2>10, <2>11, <2>12, <2>13
  <1>. QED BY <1>3, <1>4 DEF OutboxInit

\* Requests, the awaits of the handler, its alarm, its death and the chain.
LEMMA NextOutbox == OutboxInv /\ [OutboxNext]_outboxVars => OutboxInv'
  <1>. SUFFICES ASSUME OutboxInv, [OutboxNext]_outboxVars PROVE OutboxInv'
    OBVIOUS
  <1>1. ASSUME NEW r \in Requests, Request(r) \/ elsewhere(r) PROVE OutboxInv'
    BY <1>1, ProcessKeeps, ElsewhereKeeps DEF Request
  <1>2. CASE Serve
    BY <1>2, ConfirmKeeps, StatusKeeps, PollKeeps, ReserveNonceKeeps, SignTransactionKeeps, MarkKeeps, SubmitKeeps,
       AnswerKeeps, ReadAnswerKeeps, QueueKeeps DEF Serve
  <1>3. CASE Alarm
    BY <1>3, CommitKeeps, StoreKeeps, ScanOnKeeps, RetryKeeps DEF Alarm
  <1>4. CASE UNCHANGED outboxVars
    <2>1. ChainStep
      <3>1. chainNonce <= chainNonce
        BY OutboxConstants DEF OutboxInv, OutboxTypes
      <3>. QED BY <1>4, <3>1 DEF outboxVars, ChainStep, OutboxInv, OutboxTypes
    <2>. QED BY <2>1, ChainKeeps
  <1>. QED BY <1>1, <1>2, <1>3, <1>4, ExecutesKeeps, InterruptedKeeps, StartScanKeeps DEF OutboxNext

\* What the invariant says of nonces, records and their archive.
LEMMA OutboxMeans == OutboxInv => OutboxSafe
  <1>. SUFFICES ASSUME OutboxInv PROVE OutboxSafe
    OBVIOUS
  <1>1. OutboxTypeOK
    BY DEF OutboxInv, OutboxTypes, OutboxRecords, OutboxTypeOK
  <1>2. OneTransactionPerNonce /\ ForgottenIsHarmless /\ ConfirmedOnChain /\ ArchiveAgrees
    BY DEF OutboxInv, OutboxNonces
  <1>3. PublicSendsOnce
    BY DEF OutboxInv, PublicHolds, PublicSendsOnce
  <1>4. ScanReachesAll
    BY DEF OutboxInv, ScanHolds, ScanReachesAll
  <1>. QED BY <1>1, <1>2, <1>3, <1>4 DEF OutboxSafe

-----------------------------------------------------------------------------
(* All of them: a step of the whole is a step of one object. *)

\* The relayer's key signs one transaction per nonce, and the place of a job whose payment is under
\* way is not given away by timeouts, lost sends and unknown answers, for any number of jobs,
\* delegates and nonces and any order of requests, alarms, quotes that end and blocks.
THEOREM RelaySafeCorrect == OperatorSpec => []RelaySafe
  <1>1. OperatorInit => RelayInv
    BY InitRelay DEF OperatorInit
  <1>2. RelayInv /\ [OperatorNext]_operatorVars => RelayInv'
    BY NextRelay DEF OperatorNext, operatorVars
  <1>. QED BY <1>1, <1>2, RelayMeans, PTL DEF OperatorSpec

\* The operator's key signs one transaction per nonce; what the outbox has forgotten can only fail;
\* public testnet sends a record once; a record says confirmed only of what the chain shows, agrees
\* with its archived row, and is reached by the scan unless it was confirmed behind its cursor or
\* just before the object died: for any number of requests, nonces and faults and any batch.
THEOREM OutboxSafeCorrect == OperatorSpec => []OutboxSafe
  <1>1. OperatorInit => OutboxInv
    BY InitOutbox DEF OperatorInit
  <1>2. OutboxInv /\ [OperatorNext]_operatorVars => OutboxInv'
    BY NextOutbox DEF OperatorNext, operatorVars
  <1>. QED BY <1>1, <1>2, OutboxMeans, PTL DEF OperatorSpec

-----------------------------------------------------------------------------
(* The watch over a published asset. *)

Sightings == [code : Drifts \cup {"none", "healthy"}, count : 0..2, age : 0..Confirmation]

ReconcileRecords ==
    [status : {"HEALTHY", "DRIFT_BLOCKED", "PROVIDER_UNKNOWN", "NEAR_UNKNOWN"},
     drift : Sightings, recovery : Sightings, queued : BOOLEAN]

WatchTypes ==
    /\ reconcile \in ReconcileRecords
    /\ suspension \in {"none", "PENDING", "CONFIRMED"}
    /\ watch \in [pc : {"idle", "suspend", "verify", "near", "suspendDrift"}, next : ReconcileRecords]
    /\ healthy \in Sightings /\ drifting \in Sightings

\* Nothing was seen exactly if the count is zero.
Counts(s) == s.count = 0 <=> s.code = "none"

\* What a record keeps of a sighting was really seen, as often and as long ago.
Backed(s, seen) == s.count > 0 => seen.code = s.code /\ seen.count >= s.count /\ seen.age >= s.age

\* A record of drifts and recoveries.
RecordBacked(r) ==
    /\ Counts(r.drift) /\ r.drift.code # "healthy" /\ Backed(r.drift, drifting)
    /\ Counts(r.recovery) /\ r.recovery.code \in {"none", "healthy"} /\ Backed(r.recovery, healthy)

WatchInv ==
    /\ WatchTypes
    /\ RecordBacked(reconcile)
    /\ Counts(healthy) /\ healthy.code \in {"none", "healthy"}
    /\ Counts(drifting) /\ drifting.code # "healthy"
    /\ watch.pc \in {"suspend", "suspendDrift"} => suspension # "none"
    /\ watch.pc = "suspendDrift" =>
          /\ watch.next.status = "DRIFT_BLOCKED" /\ watch.next.recovery = NoSighting
          /\ Counts(watch.next.drift) /\ watch.next.drift.code # "healthy"
          /\ Backed(watch.next.drift, drifting)
    /\ RecoveryConfirmed

\* A sighting seen again.
LEMMA SeenAgain ==
    ASSUME NEW s \in Sightings, NEW c \in Drifts \cup {"healthy"}, Counts(s)
    PROVE  /\ seenAgain(s, c) \in Sightings /\ seenAgain(s, c).code = c /\ seenAgain(s, c).count >= 1
           /\ Counts(seenAgain(s, c))
           /\ s.code = c => seenAgain(s, c).age = s.age /\ seenAgain(s, c).count = AtMostTwo(s.count + 1)
           /\ s.code # c => seenAgain(s, c).age = 0 /\ seenAgain(s, c).count = 1
  BY ReconcileAssumption DEF seenAgain, Sightings, AtMostTwo, Counts, Drifts, ProviderDrifts

\* What was really seen is seen again at least as often.
LEMMA BackedAgain ==
    ASSUME NEW s \in Sightings, NEW seen \in Sightings, NEW c \in Drifts \cup {"healthy"},
           Counts(s), Counts(seen), Backed(s, seen)
    PROVE  Backed(seenAgain(s, c), seenAgain(seen, c))
  <1>1. /\ seenAgain(s, c) \in Sightings /\ seenAgain(seen, c) \in Sightings
        /\ seenAgain(s, c).code = c /\ seenAgain(seen, c).code = c
        /\ seenAgain(seen, c).count >= 1
    BY SeenAgain
  <1>2. CASE s.code = c
    <2>1. s.count > 0
      BY <1>2 DEF Counts, Sightings, Drifts, ProviderDrifts
    <2>2. seen.code = c /\ seen.count >= s.count /\ seen.age >= s.age
      BY <1>2, <2>1 DEF Backed
    <2>3. /\ seenAgain(s, c).age = s.age /\ seenAgain(s, c).count = AtMostTwo(s.count + 1)
          /\ seenAgain(seen, c).age = seen.age /\ seenAgain(seen, c).count = AtMostTwo(seen.count + 1)
      BY <1>2, <2>2, SeenAgain
    <2>. QED BY <1>1, <2>2, <2>3 DEF Backed, AtMostTwo, Sightings
  <1>3. CASE s.code # c
    <2>1. seenAgain(s, c).age = 0 /\ seenAgain(s, c).count = 1
      BY <1>3, SeenAgain
    <2>. QED BY <1>1, <2>1 DEF Backed, Sightings
  <1>. QED BY <1>2, <1>3

\* The empty sighting.
LEMMA NothingSeen ==
    /\ NoSighting \in Sightings /\ Counts(NoSighting) /\ NoSighting.code = "none" /\ NoSighting.count = 0
    /\ \A seen : Backed(NoSighting, seen)
    /\ NoReconcile \in ReconcileRecords /\ NoReconcile.drift = NoSighting /\ NoReconcile.recovery = NoSighting
    /\ NoReconcile.status = "PROVIDER_UNKNOWN"
  BY ReconcileAssumption DEF NoSighting, Sightings, Counts, Backed, NoReconcile, ReconcileRecords

\* An unknown found ends a recovery that was under way.
LEMMA UnknownKeeps ==
    ASSUME WatchInv, NEW status \in {"PROVIDER_UNKNOWN", "NEAR_UNKNOWN"}, persistUnknownReconcile(status)
    PROVE  WatchInv'
  <1> DEFINE next == [reconcile EXCEPT !.status = status, !.recovery = NoSighting]
  <1>1. /\ next \in ReconcileRecords /\ next.status = status /\ next.recovery = NoSighting
        /\ next.drift = reconcile.drift
    BY NothingSeen DEF WatchInv, WatchTypes, ReconcileRecords
  <1>2. reconcile' = next /\ watch' = WatchIdle /\ UNCHANGED <<healthy, drifting, suspension>>
    BY DEF persistUnknownReconcile
  <1>3. watch' \in [pc : {"idle", "suspend", "verify", "near", "suspendDrift"}, next : ReconcileRecords]
        /\ watch'.pc = "idle"
    BY <1>2, NothingSeen DEF WatchIdle
  <1>4. RecordBacked(reconcile)'
    BY <1>1, <1>2, NothingSeen DEF WatchInv, RecordBacked, Backed
  <1>. QED BY <1>1, <1>2, <1>3, <1>4 DEF WatchInv, WatchTypes, RecoveryConfirmed, Counts

\* A healthy observation: the record says healthy after a drift only when it counts two, and then
\* two were made.
LEMMA HealthyKeeps ==
    ASSUME WatchInv, persistHealthyReconcile
    PROVE  WatchInv'
  <1> DEFINE recovering == \/ reconcile.drift.code # "none" /\ reconcile.status # "HEALTHY"
                           \/ reconcile.recovery.count > 0
             recovery == seenAgain(reconcile.recovery, "healthy")
             well == ~recovering \/ confirmed(recovery)
             status == IF well THEN "HEALTHY" ELSE "DRIFT_BLOCKED"
             kept == IF well THEN NoSighting ELSE recovery
             next == [reconcile EXCEPT !.status = status, !.recovery = kept]
             seen == seenAgain(healthy, "healthy")
  <1>1. /\ WatchTypes /\ reconcile \in ReconcileRecords /\ reconcile.recovery \in Sightings /\ healthy \in Sightings
        /\ Counts(reconcile.recovery) /\ Counts(healthy) /\ Backed(reconcile.recovery, healthy)
        /\ Counts(reconcile.drift) /\ reconcile.drift.code # "healthy" /\ Backed(reconcile.drift, drifting)
        /\ reconcile.recovery.code \in {"none", "healthy"} /\ healthy.code \in {"none", "healthy"}
    BY DEF WatchInv, WatchTypes, RecordBacked, ReconcileRecords
  <1>2. /\ recovery \in Sightings /\ recovery.code = "healthy" /\ Counts(recovery)
        /\ seen \in Sightings /\ seen.code = "healthy" /\ Counts(seen)
    BY <1>1, SeenAgain
  <1>3. Backed(recovery, seen)
    BY <1>1, BackedAgain
  <1>4. /\ kept \in Sightings /\ Counts(kept) /\ kept.code \in {"none", "healthy"} /\ Backed(kept, seen)
    BY <1>2, <1>3, NothingSeen
  <1>5. /\ next \in ReconcileRecords /\ next.status = status /\ next.recovery = kept
        /\ next.drift = reconcile.drift
    BY <1>1, <1>4 DEF ReconcileRecords
  <1>6. /\ reconcile' = next /\ watch' = WatchIdle /\ healthy' = seen /\ UNCHANGED <<drifting, suspension>>
    BY DEF persistHealthyReconcile
  <1>7. watch' \in [pc : {"idle", "suspend", "verify", "near", "suspendDrift"}, next : ReconcileRecords]
        /\ watch'.pc = "idle"
    BY <1>6, NothingSeen DEF WatchIdle
  <1>8. status = "HEALTHY" /\ reconcile.drift.code # "none" => confirmed(seen)
    <2>1. CASE confirmed(recovery)
      BY ReconcileAssumption, <1>2, <1>3, <2>1 DEF confirmed, Backed, Sightings
    <2>2. CASE ~recovering /\ reconcile.drift.code # "none"
      <3>1. confirmed(healthy)
        BY <2>2 DEF WatchInv, RecoveryConfirmed
      <3>2. healthy.code = "healthy"
        BY <1>1, <3>1 DEF confirmed, Counts
      <3>3. seen.age = healthy.age /\ seen.count = AtMostTwo(healthy.count + 1)
        BY <1>1, <3>2, SeenAgain
      <3>. QED BY <1>1, <3>1, <3>3 DEF confirmed, AtMostTwo, Sightings
    <2>. QED BY <2>1, <2>2
  <1>9. RecordBacked(reconcile)'
    BY <1>1, <1>4, <1>5, <1>6 DEF RecordBacked, Backed, Counts
  <1>. QED BY <1>1, <1>2, <1>5, <1>6, <1>7, <1>8, <1>9
       DEF WatchInv, WatchTypes, RecoveryConfirmed, confirmed, Counts

\* A drift: the suspension is queued only when the record counts two of one code, and then two were
\* seen with no other code between.
LEMMA DriftKeeps ==
    ASSUME WatchInv, NEW code \in Drifts, persistDriftReconcile(code)
    PROVE  WatchInv' /\ (suspension = "none" /\ suspension' # "none" => confirmed(drifting'))
  <1> DEFINE drift == drift_seen(code)
             next == [status |-> "DRIFT_BLOCKED", drift |-> drift, recovery |-> NoSighting,
                      queued |-> reconcile.queued \/ confirmed(drift)]
             seen == seenAgain(drifting, code)
             first == [code |-> code, count |-> 1, age |-> 0]
  <1>1. /\ WatchTypes /\ reconcile \in ReconcileRecords /\ reconcile.drift \in Sightings /\ drifting \in Sightings
        /\ healthy \in Sightings /\ Counts(reconcile.drift) /\ Counts(drifting) /\ Backed(reconcile.drift, drifting)
        /\ code # "healthy" /\ code # "none"
    BY DEF WatchInv, WatchTypes, RecordBacked, ReconcileRecords, Drifts, ProviderDrifts
  <1>2. seen \in Sightings /\ seen.code = code /\ Counts(seen) /\ seen.count >= 1
    BY <1>1, SeenAgain
  <1>3. drift \in Sightings /\ drift.code = code /\ Counts(drift) /\ Backed(drift, seen)
    <2>1. CASE drift = seenAgain(reconcile.drift, code)
      BY <1>1, <2>1, SeenAgain, BackedAgain
    <2>2. CASE drift = first
      <3>1. first \in Sightings /\ Counts(first)
        BY <1>1, ReconcileAssumption DEF Sightings, Counts
      <3>2. seen.age >= 0
        BY <1>2, ReconcileAssumption DEF Sightings
      <3>. QED BY <1>2, <2>2, <3>1, <3>2 DEF Backed
    <2>. QED BY <2>1, <2>2 DEF drift_seen
  <1>4. next \in ReconcileRecords
    BY <1>1, <1>3, NothingSeen DEF ReconcileRecords, confirmed
  <1>5. /\ drifting' = seen /\ suspension' \in {suspension, "PENDING"}
        /\ \/ watch' = [pc |-> "suspendDrift", next |-> next] /\ UNCHANGED <<reconcile, healthy>>
           \/ reconcile' = next /\ healthy' = NoSighting /\ watch' = WatchIdle
    BY DEF persistDriftReconcile
  <1>6. suspension = "none" /\ suspension' # "none" => confirmed(seen)
    <2>1. suspension = "none" /\ suspension' # "none" => confirmed(drift)
      BY DEF persistDriftReconcile
    <2>. QED BY ReconcileAssumption, <1>2, <1>3, <2>1 DEF confirmed, Backed, Sightings
  <1>7. CASE watch' = [pc |-> "suspendDrift", next |-> next] /\ UNCHANGED <<reconcile, healthy>>
    <2>1. Backed(reconcile.drift, seen)
      \* A drift that was confirmed is of the code on record.
      <3>1. confirmed(drift)
        BY <1>7 DEF persistDriftReconcile, WatchIdle
      <3>2. drift # first
        BY <3>1 DEF confirmed
      <3>3. reconcile.drift.code = code
        BY <3>2 DEF drift_seen
      <3>4. reconcile.drift.count > 0
        BY <1>1, <3>3 DEF Counts, Sightings
      <3>5. drifting.code = code /\ drifting.count >= reconcile.drift.count /\ drifting.age >= reconcile.drift.age
        BY <1>1, <3>3, <3>4 DEF Backed
      <3>6. seen.age = drifting.age /\ seen.count = AtMostTwo(drifting.count + 1)
        BY <1>1, <3>5, SeenAgain
      <3>. QED BY <1>1, <1>2, <3>3, <3>5, <3>6 DEF Backed, AtMostTwo, Sightings
    <2>2. RecordBacked(reconcile)'
      BY <1>5, <1>7, <2>1 DEF WatchInv, RecordBacked, Backed, Counts
    <2>3. /\ watch' \in [pc : {"idle", "suspend", "verify", "near", "suspendDrift"}, next : ReconcileRecords]
          /\ watch'.next = next
      BY <1>4, <1>7
    <2>4. /\ next.status = "DRIFT_BLOCKED" /\ next.recovery = NoSighting /\ next.drift = drift
      OBVIOUS
    <2>5. suspension' = "PENDING"
      BY <1>7 DEF persistDriftReconcile, WatchIdle
    <2>. QED BY <1>1, <1>2, <1>3, <1>5, <1>6, <1>7, <2>2, <2>3, <2>4, <2>5
         DEF WatchInv, WatchTypes, RecoveryConfirmed, confirmed, Counts, Backed
  <1>8. CASE reconcile' = next /\ healthy' = NoSighting /\ watch' = WatchIdle
    <2>1. watch' \in [pc : {"idle", "suspend", "verify", "near", "suspendDrift"}, next : ReconcileRecords]
          /\ watch'.pc = "idle"
      BY <1>8, NothingSeen DEF WatchIdle
    <2>2. RecordBacked(reconcile)'
      BY <1>1, <1>3, <1>5, <1>8, NothingSeen DEF RecordBacked, Backed, Counts
    <2>. QED BY <1>1, <1>2, <1>4, <1>5, <1>6, <1>8, <2>1, <2>2, NothingSeen
         DEF WatchInv, WatchTypes, RecoveryConfirmed, Counts
  <1>. QED BY <1>5, <1>6, <1>7, <1>8

\* Time makes sightings older, up to the confirmation time.
LEMMA TickKeepsWatch ==
    ASSUME WatchInv, WatchTick
    PROVE  WatchInv'
  <1> DEFINE older(s) == IF s.count > 0 /\ s.age < Confirmation THEN [s EXCEPT !.age = @ + 1] ELSE s
  <1>1. ASSUME NEW s \in Sightings
        PROVE  /\ older(s) \in Sightings /\ older(s).count = s.count /\ older(s).code = s.code
               /\ older(s).age >= s.age
               /\ s.count > 0 => older(s).age = IF s.age < Confirmation THEN s.age + 1 ELSE s.age
    <2>1. CASE s.count > 0 /\ s.age < Confirmation
      <3>1. older(s) = [s EXCEPT !.age = s.age + 1]
        BY <2>1
      <3>. QED BY <2>1, <3>1, ReconcileAssumption DEF Sightings
    <2>2. CASE ~(s.count > 0 /\ s.age < Confirmation)
      <3>1. older(s) = s
        BY <2>2
      <3>. QED BY <2>2, <3>1, ReconcileAssumption DEF Sightings
    <2>. QED BY <2>1, <2>2
  <1> HIDE DEF older
  <1>2. ASSUME NEW s \in Sightings, NEW seen \in Sightings, Backed(s, seen)
        PROVE  Backed(older(s), older(seen))
    BY <1>1, <1>2, ReconcileAssumption DEF Backed, Sightings
  <1>3. /\ WatchTypes /\ reconcile \in ReconcileRecords /\ healthy \in Sightings /\ drifting \in Sightings
        /\ reconcile.drift \in Sightings /\ reconcile.recovery \in Sightings
    BY DEF WatchInv, WatchTypes, ReconcileRecords
  <1>4. /\ healthy' = older(healthy) /\ drifting' = older(drifting) /\ watch.pc = "idle"
        /\ reconcile' = [reconcile EXCEPT !.drift = older(reconcile.drift), !.recovery = older(reconcile.recovery)]
        /\ UNCHANGED <<suspension, watch>>
    BY DEF WatchTick, older
  <1>5. /\ reconcile' \in ReconcileRecords /\ reconcile'.status = reconcile.status
        /\ reconcile'.drift = older(reconcile.drift) /\ reconcile'.recovery = older(reconcile.recovery)
    BY <1>1, <1>3, <1>4 DEF ReconcileRecords
  <1>6. RecordBacked(reconcile)'
    <2>1. /\ Backed(reconcile.drift, drifting) /\ Backed(reconcile.recovery, healthy)
          /\ Counts(reconcile.drift) /\ Counts(reconcile.recovery)
          /\ reconcile.drift.code # "healthy" /\ reconcile.recovery.code \in {"none", "healthy"}
      BY DEF WatchInv, RecordBacked
    <2>2. Backed(older(reconcile.drift), older(drifting)) /\ Backed(older(reconcile.recovery), older(healthy))
      BY <1>2, <1>3, <2>1
    <2>. QED BY <1>1, <1>3, <1>4, <1>5, <2>1, <2>2 DEF RecordBacked, Counts, Backed
  <1>7. RecoveryConfirmed'
    BY <1>1, <1>3, <1>4, <1>5, ReconcileAssumption DEF WatchInv, RecoveryConfirmed, confirmed, Sightings
  <1>8. WatchTypes'
    BY <1>1, <1>3, <1>4, <1>5 DEF WatchTypes
  <1>. QED BY <1>1, <1>3, <1>4, <1>6, <1>7, <1>8 DEF WatchInv, Counts

\* No step of the watch breaks the invariant, and none suspends sales on less than a drift seen twice.
LEMMA WatchKeeps ==
    ASSUME WatchInv, ReconcileNext \/ UNCHANGED reconcileVars
    PROVE  WatchInv' /\ (suspension = "none" /\ suspension' # "none" => confirmed(drifting'))
  <1>1. CASE UNCHANGED <<reconcile, suspension, healthy, drifting>> /\ (UNCHANGED watch \/ watch' = WatchIdle)
    <2>1. watch' = watch \/ (watch'.pc = "idle" /\ watch'.next = NoReconcile)
      BY <1>1 DEF WatchIdle
    <2>2. watch' \in [pc : {"idle", "suspend", "verify", "near", "suspendDrift"}, next : ReconcileRecords]
      BY <1>1, NothingSeen DEF WatchInv, WatchTypes, WatchIdle
    <2>. QED BY <1>1, <2>1, <2>2 DEF WatchInv, WatchTypes, RecordBacked, RecoveryConfirmed, confirmed, Counts, Backed
  <1>2. CASE reconcilePublishedJob
    <2>1. /\ UNCHANGED <<reconcile, suspension, healthy, drifting>>
          /\ watch' \in [pc : {"idle", "suspend", "verify", "near", "suspendDrift"}, next : ReconcileRecords]
          /\ watch'.pc # "suspendDrift" /\ (watch'.pc = "suspend" => suspension # "none")
      BY <1>2, NothingSeen DEF reconcilePublishedJob, WatchIdle
    <2>. QED BY <2>1 DEF WatchInv, WatchTypes, RecordBacked, RecoveryConfirmed, confirmed, Counts, Backed
  <1>3. CASE tryProcessSalesSuspension
    <2>1. /\ watch.pc \in {"suspend", "suspendDrift"} /\ drifting' = drifting
          /\ suspension' \in {suspension, "CONFIRMED"}
          /\ IF watch.pc = "suspend"
             THEN watch' = [watch EXCEPT !.pc = "verify"] /\ UNCHANGED <<reconcile, healthy>>
             ELSE watch' = WatchIdle /\ reconcile' = watch.next /\ healthy' = NoSighting
      BY <1>3 DEF tryProcessSalesSuspension
    <2>2. suspension # "none"
      BY <2>1 DEF WatchInv
    <2>3. CASE watch.pc = "suspend"
      <3>1. /\ UNCHANGED <<reconcile, healthy>>
            /\ watch' \in [pc : {"idle", "suspend", "verify", "near", "suspendDrift"}, next : ReconcileRecords]
            /\ watch'.pc = "verify"
        BY <2>1, <2>3 DEF WatchInv, WatchTypes
      <3>. QED BY <2>1, <2>2, <3>1
           DEF WatchInv, WatchTypes, RecordBacked, RecoveryConfirmed, confirmed, Counts, Backed
    <2>4. CASE watch.pc = "suspendDrift"
      <3>1. watch' = WatchIdle /\ reconcile' = watch.next /\ healthy' = NoSighting
        BY <2>1, <2>4
      <3>2. /\ watch.next \in ReconcileRecords /\ watch.next.status = "DRIFT_BLOCKED"
            /\ watch.next.recovery = NoSighting /\ Counts(watch.next.drift)
            /\ watch.next.drift.code # "healthy" /\ Backed(watch.next.drift, drifting)
        BY <2>4 DEF WatchInv, WatchTypes
      <3>3. /\ watch' \in [pc : {"idle", "suspend", "verify", "near", "suspendDrift"}, next : ReconcileRecords]
            /\ watch'.pc = "idle"
        BY <3>1, NothingSeen DEF WatchIdle
      <3>4. RecordBacked(reconcile)'
        BY <2>1, <3>1, <3>2, NothingSeen DEF RecordBacked, Backed, Counts
      <3>. QED BY <2>1, <2>2, <3>1, <3>2, <3>3, <3>4, NothingSeen
           DEF WatchInv, WatchTypes, RecoveryConfirmed, Counts
    <2>. QED BY <2>1, <2>3, <2>4
  <1>4. CASE verifyPublishedAsset
    <2>1. CASE watch' = [watch EXCEPT !.pc = "near"] /\ UNCHANGED <<reconcile, suspension, healthy, drifting>>
      <3>1. /\ watch' \in [pc : {"idle", "suspend", "verify", "near", "suspendDrift"}, next : ReconcileRecords]
            /\ watch'.pc = "near"
        BY <2>1 DEF WatchInv, WatchTypes
      <3>. QED BY <2>1, <3>1
           DEF WatchInv, WatchTypes, RecordBacked, RecoveryConfirmed, confirmed, Counts, Backed
    <2>2. CASE provider \in ProviderDrifts /\ persistDriftReconcile(provider)
      BY <2>2, DriftKeeps DEF Drifts
    <2>3. CASE persistUnknownReconcile("PROVIDER_UNKNOWN")
      BY <2>3, UnknownKeeps DEF persistUnknownReconcile
    <2>4. CASE /\ reconcile' = [reconcile EXCEPT !.status = "PROVIDER_UNKNOWN"]
               /\ watch' = WatchIdle /\ UNCHANGED <<suspension, healthy, drifting>>
      <3>1. /\ reconcile' \in ReconcileRecords /\ reconcile'.status = "PROVIDER_UNKNOWN"
            /\ reconcile'.drift = reconcile.drift /\ reconcile'.recovery = reconcile.recovery
        BY <2>4 DEF WatchInv, WatchTypes, ReconcileRecords
      <3>2. /\ watch' \in [pc : {"idle", "suspend", "verify", "near", "suspendDrift"}, next : ReconcileRecords]
            /\ watch'.pc = "idle"
        BY <2>4, NothingSeen DEF WatchIdle
      <3>. QED BY <2>4, <3>1, <3>2 DEF WatchInv, WatchTypes, RecordBacked, RecoveryConfirmed, Counts, Backed
    <2>. QED BY <1>4, <2>1, <2>2, <2>3, <2>4 DEF verifyPublishedAsset
  <1>5. CASE readFinalPublication
    BY <1>5, HealthyKeeps, DriftKeeps, UnknownKeeps
       DEF readFinalPublication, persistHealthyReconcile, persistUnknownReconcile, Drifts
  <1>6. CASE WatchTick
    BY <1>6, TickKeepsWatch DEF WatchTick
  <1>7. CASE WatchCrash \/ Turns \/ UNCHANGED reconcileVars
    BY <1>1, <1>7 DEF WatchCrash, Turns, reconcileVars
  <1>. QED BY <1>2, <1>3, <1>4, <1>5, <1>6, <1>7 DEF ReconcileNext, Watch

\* Nothing was seen at first.
LEMMA WatchStarts == ReconcileInit => WatchInv
  BY NothingSeen DEF ReconcileInit, WatchInv, WatchTypes, RecordBacked, WatchIdle, RecoveryConfirmed

-----------------------------------------------------------------------------
(* The record of one upload job and the copies its handlers hold. *)

States == {"NONE", "AUTHORIZED", "LEASED", "PROVIDER_CREATE_PENDING", "CREATE_AMBIGUOUS"}
              \cup Active \cup Finalizing \cup Final

\* Before the provider may have been asked, and before an asset is known.
Unstarted == {"NONE", "AUTHORIZED", "LEASED"}
Early == Unstarted \cup {"PROVIDER_CREATE_PENDING", "CREATE_AMBIGUOUS"}

JobRecords ==
    [state : States, lease : Nat, expires : Nat, asset : Nat, created : Nat, tus : BOOLEAN,
     check : BOOLEAN, pub : Nat, since : Nat, deleted : {"NO", "DELETED", "MISSING", "AMBIGUOUS"},
     archive : {"NONE", "PENDING", "RETRY", "COMMITTED"}]

Ops == {"none", "intent", "beat", "hook", "cancel", "purge", "alarm"}
Calls == {"admit", "heartbeat", "offset", "create", "mark", "read", "confirm", "verify", "finalize",
          "settle", "delete", "archive"}
Args == States \cup {"none", "create", "renew", "own", "hook", "purge"}
Tasks == [op : Ops, pc : Calls \cup {"idle", "alarm"}, rec : JobRecords, arg : Args]

Slots == [state : {"none", "held", "ambiguous"}, lease : Nat, expires : Nat]

JobTypes ==
    /\ deployment \in [kind : {"studio", "stream"}, queued : BOOLEAN, legacy : BOOLEAN]
    /\ clock \in Nat /\ leases \in Nat /\ creates \in Nat
    /\ seenReady \in {"none", "PROCESSING", "VERIFIED"}
    /\ task \in [Places -> Tasks]
    /\ slot \in Slots

\* What holds of every version of the record, the stored one and the copies: a state says which of
\* the assets exist, a published one is on chain, an archived one is in D1, and once a queued
\* deployment has asked the provider no version is from before that.
RecordOK(r) ==
    /\ r \in JobRecords
    /\ r.asset \in 0..creates /\ r.pub \in {0, r.asset}
    /\ r.archive # "NONE" <=> r.state \in Ended
    /\ r.state \in Early => r.asset = 0
    /\ r.state \in Active => r.asset # 0
    /\ r.state \in Finalizing => r.pub # 0
    /\ r.state = "ONCHAIN_PUBLISHED" => r.asset # 0 /\ chainAsset = r.asset
    /\ r.archive = "COMMITTED" => summary = r.state
    /\ deployment.queued /\ creates > 0 => r.state \notin Unstarted

\* What a handler that waits for a call knows of the copy it holds.
WaitsOK(w) ==
    /\ RecordOK(w.rec)
    /\ w.pc = "create" => w.rec.state = "PROVIDER_CREATE_PENDING" /\ (deployment.queued => creates = 0)
    /\ w.pc = "admit" /\ w.arg # "renew" => w.rec.state \in startable
    /\ w.pc = "heartbeat" => w.rec.state \in {"UPLOAD_READY", "UPLOADING"}
    /\ w.pc = "read" => w.rec.state \in Active /\ (stream \/ deployment.queued)
    /\ w.pc \in {"verify", "delete"} => w.rec.asset # 0
    /\ w.pc \in {"finalize", "settle"} => w.rec.pub # 0
    /\ w.pc = "mark" /\ w.arg = "READY_VERIFIED" => w.rec.pub # 0
    /\ w.pc = "archive" => w.rec.state \in Ended

Waiting(w) == w.pc \notin {"idle", "alarm"}

\* What the stored record says while the one handler of a queued deployment waits.
StoredOK(w, j) ==
    /\ w.pc = "create" => j.state \notin Unstarted
    /\ w.pc = "read" => j.asset # 0

\* In a queued deployment all handlers run on the tail, but for the operator's deletions.
QueueOK ==
    /\ creates <= 1
    /\ \A t \in Handlers : task[t].pc = "idle" \/ (task[t].pc = "delete" /\ task[t].arg = "purge")
    /\ StoredOK(task[tail], job)

JobInv ==
    /\ JobTypes
    /\ RecordOK(job)
    /\ \A t \in Places : Waiting(task[t]) => WaitsOK(task[t])
    /\ deployment.queued => QueueOK

\* The state a record may move to: none leaves an end, and each needs the assets it speaks of.
Leads(r, to) ==
    /\ to \in States /\ (r.state = to \/ r.state \notin Final)
    /\ to \notin Early
    /\ to \in Active => r.asset # 0
    /\ to \in Finalizing => r.pub # 0
    /\ to = "ONCHAIN_PUBLISHED" => r.asset # 0 /\ chainAsset = r.asset

\* The job's moves leave no final state.
LEMMA FinalStays ==
    ASSUME NEW from \in States, NEW to, legal(from, to)
    PROVE  from = to \/ (from \notin Final /\ to \in States)
  BY DEF legal, JOB_STATE_TRANSITIONS, States, Final, Ended, Active, Finalizing

\* A record that moves is still a record that says what holds.
LEMMA Moves ==
    ASSUME JobTypes, NEW r, RecordOK(r), NEW to, Leads(r, to)
    PROVE  /\ RecordOK(transitionJob(r, to))
           /\ transitionJob(r, to).state = to
           /\ transitionJob(r, to).asset = r.asset /\ transitionJob(r, to).pub = r.pub
  <1>1. CASE r.state = to
    BY <1>1 DEF transitionJob
  <1>2. CASE r.state # to
    <2> DEFINE archive == IF to \in Ended THEN "PENDING" ELSE r.archive
    <2>1. r \in JobRecords /\ r.state \notin Final /\ to \in States /\ clock \in Nat
      BY <1>2 DEF RecordOK, Leads, JobTypes
    <2>2. transitionJob(r, to) = [r EXCEPT !.state = to, !.since = clock, !.archive = archive]
      BY <1>2 DEF transitionJob
    <2>3. /\ transitionJob(r, to) \in JobRecords
          /\ transitionJob(r, to).state = to /\ transitionJob(r, to).archive = archive
          /\ transitionJob(r, to).asset = r.asset /\ transitionJob(r, to).pub = r.pub
      BY <2>1, <2>2 DEF JobRecords
    <2>4. r.archive = "NONE"
      BY <2>1 DEF RecordOK, Final
    <2>5. to \notin Unstarted /\ (archive # "NONE" <=> to \in Ended) /\ archive # "COMMITTED"
      BY <2>4 DEF Leads, Early
    <2>. QED BY <2>1, <2>3, <2>5 DEF RecordOK, Leads
  <1>. QED BY <1>1, <1>2

\* How a handler leaves the record and its place: what every step but a few does.
JobGoes(t) ==
    /\ RecordOK(job')
    /\ \E w \in Tasks :
          /\ task' = [task EXCEPT ![t] = w]
          /\ w.pc # "alarm"
          /\ Waiting(w) => WaitsOK(w)
          /\ deployment.queued => StoredOK(w, job')

\* Nothing else that the invariant reads changes.
Around ==
    /\ UNCHANGED <<deployment, clock, creates, chainAsset, summary>>
    /\ leases' \in Nat
    /\ slot' \in Slots /\ seenReady' \in {"none", "PROCESSING", "VERIFIED"}

LEMMA GoesKeeps ==
    ASSUME JobInv, NEW t \in Places, deployment.queued => t = tail, JobGoes(t), Around
    PROVE  JobInv'
  <1>1. PICK w \in Tasks :
          /\ task' = [task EXCEPT ![t] = w]
          /\ Waiting(w) => WaitsOK(w)
          /\ deployment.queued => StoredOK(w, job')
    BY DEF JobGoes
  <1>2. task \in [Places -> Tasks]
    BY DEF JobInv, JobTypes
  <1>3. /\ task' \in [Places -> Tasks] /\ task'[t] = w
        /\ \A u \in Places : u # t => task'[u] = task[u]
    BY <1>1, <1>2
  <1>4. \A r : RecordOK(r) <=> RecordOK(r)'
    BY DEF Around, RecordOK
  <1>5. \A u : WaitsOK(task'[u]) => WaitsOK(task[u])'
    BY DEF Around, WaitsOK, RecordOK, stream
  <1>6. JobTypes'
    BY <1>3 DEF JobInv, JobTypes, Around
  <1>7. RecordOK(job)'
    BY DEF JobGoes, Around, RecordOK
  <1>8. \A u \in Places : Waiting(task'[u]) => WaitsOK(task[u])'
    BY <1>1, <1>3, <1>5 DEF JobInv
  <1>9. ASSUME deployment.queued
        PROVE  QueueOK'
    <2>1. t = tail /\ tail \notin Handlers /\ creates <= 1
          /\ \A u \in Handlers : task[u].pc = "idle" \/ (task[u].pc = "delete" /\ task[u].arg = "purge")
      BY <1>9, JobBoundsAssumption DEF JobInv, QueueOK, tail
    <2>2. StoredOK(w, job')
      BY <1>1, <1>9
    <2>3. \A u \in Handlers : task'[u] = task[u]
      BY <1>3, <2>1 DEF Places
    <2>4. StoredOK(task[tail], job)'
      BY <1>3, <2>1, <2>2 DEF StoredOK, tail
    <2>. QED BY <2>1, <2>3, <2>4 DEF QueueOK, Around
  <1>. QED BY <1>6, <1>7, <1>8, <1>9 DEF JobInv, Waiting, Around

\* A handler that ends, or that waits with a copy that knows what its call needs.
LEMMA ReturnGoes ==
    ASSUME NEW t, RecordOK(job'), \/ Return(t) \/ \E o : Throw(t, o)
    PROVE  JobGoes(t)
  <1>1. task' = [task EXCEPT ![t] = NoTask]
    BY DEF Return, Throw
  <1>2. NoTask \in Tasks /\ NoTask.pc = "idle"
    BY DEF NoTask, NoJob, Tasks, Ops, Args, JobRecords, States
  <1>. QED BY <1>1, <1>2 DEF JobGoes, Waiting, StoredOK

LEMMA AwaitGoes ==
    ASSUME NEW t, NEW o \in Ops, NEW pc \in Calls, NEW rec, NEW arg \in Args,
           RecordOK(job'), RecordOK(rec), Await(t, o, pc, rec, arg),
           WaitsOK([op |-> o, pc |-> pc, rec |-> rec, arg |-> arg]),
           deployment.queued => StoredOK([op |-> o, pc |-> pc, rec |-> rec, arg |-> arg], job')
    PROVE  JobGoes(t)
  <1> DEFINE w == [op |-> o, pc |-> pc, rec |-> rec, arg |-> arg]
  <1>1. w \in Tasks /\ w.pc = pc
    BY DEF Tasks, Calls, RecordOK
  <1>2. task' = [task EXCEPT ![t] = w] /\ WaitsOK(w) /\ (deployment.queued => StoredOK(w, job'))
    BY DEF Await
  <1>3. w.pc # "alarm"
    BY <1>1 DEF Calls
  <1> HIDE DEF w
  <1>. QED BY <1>1, <1>2, <1>3 DEF JobGoes

\* A call that needs little: a mark on the admission, or one about an asset that is known.
LEMMA CallGoes ==
    ASSUME NEW t, NEW o \in Ops, NEW pc \in {"offset", "confirm", "mark", "verify", "finalize", "settle", "delete"},
           NEW rec, NEW arg \in Args, RecordOK(job'), RecordOK(rec), Await(t, o, pc, rec, arg),
           pc = "mark" /\ arg = "READY_VERIFIED" => rec.pub # 0,
           pc \in {"verify", "delete"} => rec.asset # 0,
           pc \in {"finalize", "settle"} => rec.pub # 0
    PROVE  JobGoes(t)
  <1> DEFINE w == [op |-> o, pc |-> pc, rec |-> rec, arg |-> arg]
  <1>1. pc \in Calls
    BY DEF Calls
  <1>2. w.pc = pc /\ w.rec = rec /\ w.arg = arg
    OBVIOUS
  <1> HIDE DEF w
  <1>3. WaitsOK(w)
    BY <1>2 DEF WaitsOK
  <1>4. StoredOK(w, job')
    BY <1>2 DEF StoredOK
  <1>. QED BY <1>1, <1>3, <1>4, AwaitGoes DEF w

LEMMA DeleteGoes ==
    ASSUME NEW t, NEW o \in Ops, NEW rec, RecordOK(job'), RecordOK(rec), deleteStreamUpload(t, o, rec)
    PROVE  JobGoes(t)
  <1>1. rec.state \in Args /\ (rec.state = "READY_VERIFIED" => rec.pub # 0)
    BY DEF RecordOK, JobRecords, Args, Finalizing
  <1>2. CASE Await(t, o, "delete", rec, rec.state) /\ rec.asset # 0
    BY <1>1, <1>2, CallGoes
  <1>3. CASE Await(t, o, "mark", rec, rec.state)
    BY <1>1, <1>3, CallGoes
  <1>. QED BY <1>2, <1>3 DEF deleteStreamUpload

\* An end is reached from the stored record or from the copy.
LEMMA EndLeads ==
    ASSUME NEW r, RecordOK(r), NEW to \in Ended, legal(r.state, to)
    PROVE  Leads(r, to)
  <1>1. r.state \in States /\ to \in States
    BY DEF RecordOK, JobRecords, States, Final
  <1>. QED BY <1>1, FinalStays DEF Leads, Early, Unstarted, Active, Finalizing, Ended

LEMMA TerminateGoes ==
    ASSUME JobInv, NEW t, NEW o \in Ops, NEW to \in Ended, terminateStreamJob(t, o, to)
    PROVE  JobGoes(t)
  <1>1. JobTypes /\ RecordOK(job)
    BY DEF JobInv
  <1>2. CASE UNCHANGED job
    BY <1>1, <1>2, DeleteGoes, ReturnGoes DEF terminateStreamJob, RecordOK
  <1>3. CASE legal(job.state, to) /\ job' = transitionJob(job, to) /\ deleteStreamUpload(t, o, transitionJob(job, to))
    BY <1>1, <1>3, EndLeads, Moves, DeleteGoes
  <1>. QED BY <1>2, <1>3 DEF terminateStreamJob

LEMMA EndJobGoes ==
    ASSUME JobInv, NEW t, NEW o \in Ops, NEW rec, RecordOK(rec), NEW to \in Ended,
           endJob(t, o, rec, to) \/ endStudioJob(t, o, rec, to)
    PROVE  JobGoes(t)
  <1>1. JobTypes /\ RecordOK(job)
    BY DEF JobInv
  <1>2. to \in Args /\ to # "READY_VERIFIED"
    BY DEF Ended, Args, States, Final
  <1>3. CASE endStudioJob(t, o, rec, to)
    <2>1. CASE legal(rec.state, to)
      <3>1. RecordOK(transitionJob(rec, to))
        BY <1>1, <2>1, EndLeads, Moves
      <3>2. job' = transitionJob(rec, to) /\ Await(t, o, "mark", transitionJob(rec, to), to)
        BY <1>3, <2>1 DEF endStudioJob
      <3>. QED BY <1>2, <3>1, <3>2, CallGoes
    <2>2. CASE ~legal(rec.state, to)
      BY <1>1, <1>3, <2>2, ReturnGoes DEF endStudioJob
    <2>. QED BY <2>1, <2>2
  <1>4. CASE terminateStreamJob(t, o, to)
    BY <1>4, TerminateGoes
  <1>. QED BY <1>3, <1>4 DEF endJob

LEMMA AdvanceGoes ==
    ASSUME JobInv, NEW t, NEW o \in Ops, NEW rec, RecordOK(rec), rec.pub # 0, advanceFinalization(t, o, rec)
    PROVE  JobGoes(t)
  <1>1. RecordOK(job)
    BY DEF JobInv
  <1>2. CASE expireJob(t, o, rec)
    BY <1>2, EndJobGoes DEF expireJob, Ended
  <1>3. CASE job' = job /\ \E pc \in {"settle", "finalize"} : Await(t, o, pc, rec, "none")
    <2>1. PICK pc \in {"settle", "finalize"} : Await(t, o, pc, rec, "none")
      BY <1>3
    <2>. QED BY <1>1, <1>3, <2>1, CallGoes DEF RecordOK, Args
  <1>. QED BY <1>2, <1>3 DEF advanceFinalization

\* An event of the provider, on a copy that may be older than the record.
LEMMA ProviderEventGoes ==
    ASSUME JobInv, NEW t, NEW o \in Ops, NEW event, NEW ex, NEW digest \in {"hook", "own"},
           RecordOK(ex), event = "ready" => ex.asset # 0,
           handleProviderEvent(t, o, event, ex, digest)
    PROVE  JobGoes(t) /\ seenReady' \in {"none", "PROCESSING", "VERIFIED"}
  <1>1. JobTypes /\ RecordOK(job)
    BY DEF JobInv
  <1>2. seenReady' \in {seenReady, "PROCESSING"}
    BY DEF handleProviderEvent
  <1>3. seenReady' \in {"none", "PROCESSING", "VERIFIED"}
    BY <1>1, <1>2 DEF JobTypes
  <1> SUFFICES JobGoes(t)
    BY <1>3
  <1>4. "own" \in Args /\ "hook" \in Args /\ "none" \in Args /\ "ONCHAIN_PUBLISHED" \in Args
        /\ "UPLOAD_EXPIRED" \in Ended /\ "PROVIDER_FAILED" \in Ended
    BY DEF Args, States, Final, Ended
  <1>5. CASE expireJob(t, o, ex)
    BY <1>4, <1>5, EndJobGoes DEF expireJob
  <1>6. CASE UNCHANGED job /\ (Return(t) \/ Throw(t, o))
    BY <1>1, <1>6, ReturnGoes DEF RecordOK
  <1>7. CASE UNCHANGED job /\ \/ Await(t, o, "mark", ex, "ONCHAIN_PUBLISHED")
                              \/ Await(t, o, "mark", job, "ONCHAIN_PUBLISHED")
                              \/ ex.pub # 0 /\ Await(t, o, "settle", ex, "none")
    <2>1. RecordOK(job')
      BY <1>1, <1>7 DEF RecordOK
    <2>. QED BY <1>1, <1>4, <1>7, <2>1, CallGoes
  <1>8. CASE endJob(t, o, ex, "PROVIDER_FAILED")
    BY <1>4, <1>8, EndJobGoes
  <1>9. CASE /\ job' = IF event = "processing" /\ ex.state \in {"UPLOAD_READY", "UPLOADING"}
                       THEN transitionJob(ex, "PROCESSING") ELSE job
             /\ Return(t)
    <2>1. CASE ex.state \in {"UPLOAD_READY", "UPLOADING"}
      <3>1. Leads(ex, "PROCESSING")
        BY <2>1 DEF Leads, States, Active, Final, Ended, Early, Unstarted, Finalizing, RecordOK
      <3>. QED BY <1>1, <1>9, <3>1, Moves, ReturnGoes
    <2>2. CASE ex.state \notin {"UPLOAD_READY", "UPLOADING"}
      BY <1>1, <1>9, <2>2, ReturnGoes
    <2>. QED BY <2>1, <2>2
  <1>10. CASE event = "ready" /\ verifyReadyProviderAsset(t, o, ex, digest)
    <2>1. CASE UNCHANGED job /\ Throw(t, o)
      BY <1>6, <2>1
    <2>2. CASE UNCHANGED job /\ Await(t, o, "verify", ex, digest)
      <3>1. RecordOK(job') /\ ex.asset # 0 /\ digest \in Args
        BY <1>1, <1>4, <1>10, <2>2 DEF RecordOK
      <3>. QED BY <2>2, <3>1, CallGoes
    <2>. QED BY <1>10, <2>1, <2>2 DEF verifyReadyProviderAsset
  <1>11. CASE job.pub # 0 /\ advanceFinalization(t, o, job)
    BY <1>1, <1>11, AdvanceGoes
  <1>12. \/ expireJob(t, o, ex)
         \/ UNCHANGED job /\ (Return(t) \/ Throw(t, o))
         \/ UNCHANGED job /\ \/ Await(t, o, "mark", ex, "ONCHAIN_PUBLISHED")
                             \/ Await(t, o, "mark", job, "ONCHAIN_PUBLISHED")
                             \/ ex.pub # 0 /\ Await(t, o, "settle", ex, "none")
         \/ endJob(t, o, ex, "PROVIDER_FAILED")
         \/ /\ job' = IF event = "processing" /\ ex.state \in {"UPLOAD_READY", "UPLOADING"}
                      THEN transitionJob(ex, "PROCESSING") ELSE job
            /\ Return(t)
         \/ event = "ready" /\ verifyReadyProviderAsset(t, o, ex, digest)
         \/ job.pub # 0 /\ advanceFinalization(t, o, job)
    BY DEF handleProviderEvent
  <1>. QED BY <1>5, <1>6, <1>7, <1>8, <1>9, <1>10, <1>11, <1>12

\* A look at the asset of the stored record.
LEMMA ReconcileGoes ==
    ASSUME JobInv, NEW t, NEW o \in Ops, reconcileUpload(t, o, job)
    PROVE  JobGoes(t)
  <1>1. JobTypes /\ RecordOK(job) /\ "UPLOAD_EXPIRED" \in Ended
    BY DEF JobInv, Ended
  <1>2. CASE Return(t) /\ UNCHANGED job
    BY <1>1, <1>2, ReturnGoes DEF RecordOK
  <1>3. CASE terminateStreamJob(t, o, "UPLOAD_EXPIRED") \/ endStudioJob(t, o, job, "UPLOAD_EXPIRED")
    BY <1>1, <1>3, TerminateGoes, EndJobGoes
  <1>4. CASE /\ job.state \in Active /\ job.asset # 0 /\ (stream \/ deployment.queued)
             /\ Await(t, o, "read", job, "none") /\ UNCHANGED job
    <2> DEFINE w == [op |-> o, pc |-> "read", rec |-> job, arg |-> "none"]
    <2>1. RecordOK(job') /\ "none" \in Args /\ "read" \in Calls
      BY <1>1, <1>4 DEF RecordOK, Args, Calls
    <2>2. WaitsOK(w)
      BY <1>1, <1>4 DEF WaitsOK
    <2>3. StoredOK(w, job')
      BY <1>4 DEF StoredOK
    <2>. QED BY <1>1, <1>4, <2>1, <2>2, <2>3, AwaitGoes
  <1>. QED BY <1>2, <1>3, <1>4 DEF reconcileUpload

\* The provider is asked for an asset: in a queued deployment it was not asked before.
LEMMA CreateNextGoes ==
    ASSUME JobInv, NEW t, NEW o \in Ops, NEW rec, RecordOK(rec), rec.state \in startable,
           createUploadNext(t, o, rec)
    PROVE  JobGoes(t)
  <1> DEFINE next == transitionJob(rec, "PROVIDER_CREATE_PENDING")
             w == [op |-> o, pc |-> "create", rec |-> next, arg |-> "none"]
  <1>1. clock \in Nat /\ creates \in Nat /\ rec \in JobRecords
    BY DEF JobInv, JobTypes, RecordOK
  <1>2. rec.state \in {"AUTHORIZED", "LEASED"} /\ rec.archive = "NONE" /\ rec.asset = 0 /\ rec.pub = 0
    BY <1>1 DEF startable, RecordOK, Ended, Early, Unstarted, JobRecords
  <1>3. deployment.queued => creates = 0
    BY <1>1, <1>2 DEF RecordOK, Unstarted
  <1>4. next = [rec EXCEPT !.state = "PROVIDER_CREATE_PENDING", !.since = clock, !.archive = "NONE"]
    BY <1>2 DEF transitionJob, Ended
  <1>5. /\ next \in JobRecords /\ next.state = "PROVIDER_CREATE_PENDING" /\ next.archive = "NONE"
        /\ next.asset = 0 /\ next.pub = 0
    BY <1>1, <1>2, <1>4 DEF JobRecords, States
  <1> HIDE DEF next
  <1>6. RecordOK(next)
    BY <1>1, <1>5 DEF RecordOK, Ended, Early, Unstarted, Active, Finalizing
  <1>7. job' = next /\ Await(t, o, "create", next, "none")
    BY DEF createUploadNext, next
  <1>8. w.pc = "create" /\ w.rec = next
    OBVIOUS
  <1> HIDE DEF w
  <1>9. WaitsOK(w) /\ StoredOK(w, job')
    BY <1>3, <1>5, <1>6, <1>7, <1>8 DEF WaitsOK, StoredOK, Unstarted
  <1>10. "create" \in Calls /\ "none" \in Args
    BY DEF Calls, Args
  <1>. QED BY <1>6, <1>7, <1>9, <1>10, AwaitGoes DEF w

LEMMA ServeGoes ==
    ASSUME JobInv, NEW t, NEW o \in Ops, NEW rec, RecordOK(rec), serveIntent(t, o, rec)
    PROVE  JobGoes(t)
  <1>1. RecordOK(job)
    BY DEF JobInv
  <1>2. CASE Return(t) /\ UNCHANGED job
    BY <1>1, <1>2, ReturnGoes DEF RecordOK
  <1>3. ASSUME NEW arg \in {"renew", "create"}, arg = "create" => rec.state \in startable,
               Await(t, o, "admit", rec, arg), UNCHANGED job
        PROVE  JobGoes(t)
    <2> DEFINE w == [op |-> o, pc |-> "admit", rec |-> rec, arg |-> arg]
    <2>1. w.pc = "admit" /\ w.rec = rec /\ w.arg = arg
      OBVIOUS
    <2> HIDE DEF w
    <2>2. WaitsOK(w) /\ StoredOK(w, job')
      BY <1>3, <2>1 DEF WaitsOK, StoredOK
    <2>3. RecordOK(job') /\ "admit" \in Calls /\ arg \in Args
      BY <1>1, <1>3 DEF RecordOK, Calls, Args
    <2>. QED BY <1>3, <2>2, <2>3, AwaitGoes DEF w
  <1>4. CASE rec.state \in startable /\ createUploadNext(t, o, rec)
    BY <1>4, CreateNextGoes
  <1>. QED BY <1>2, <1>3, <1>4 DEF serveIntent

\* The operator's deletion runs beside the tail, and knows an asset.
LEMMA PurgeKeeps ==
    ASSUME JobInv, deployment.queued, NEW t \in Handlers, NEW w \in Tasks, Around,
           RecordOK(job'), job'.asset # 0, task' = [task EXCEPT ![t] = w],
           w.pc = "idle" \/ (w.pc = "delete" /\ w.arg = "purge" /\ WaitsOK(w))
    PROVE  JobInv'
  <1>1. task \in [Places -> Tasks] /\ t \in Places /\ t # tail
    BY JobBoundsAssumption DEF JobInv, JobTypes, Places, tail
  <1>2. /\ task' \in [Places -> Tasks] /\ task'[t] = w
        /\ \A u \in Places : u # t => task'[u] = task[u]
    BY <1>1
  <1>3. \A u : WaitsOK(task'[u]) => WaitsOK(task[u])'
    BY DEF Around, WaitsOK, RecordOK, stream
  <1>4. JobTypes'
    BY <1>2 DEF JobInv, JobTypes, Around
  <1>5. RecordOK(job)'
    BY DEF Around, RecordOK
  <1>6. \A u \in Places : Waiting(task'[u]) => WaitsOK(task[u])'
    BY <1>1, <1>2, <1>3 DEF JobInv, Waiting
  <1>7. QueueOK'
    <2>1. \A u \in Handlers : task'[u].pc = "idle" \/ (task'[u].pc = "delete" /\ task'[u].arg = "purge")
      BY <1>1, <1>2 DEF JobInv, QueueOK, Places
    <2>2. task'[tail] = task[tail]
      BY <1>1, <1>2 DEF Places
    <2>3. job'.state \notin Unstarted
      BY DEF RecordOK, Early
    <2>4. StoredOK(task[tail], job)'
      BY <2>2, <2>3 DEF StoredOK, tail
    <2>. QED BY <2>1, <2>4 DEF QueueOK, Around, JobInv
  <1>. QED BY <1>4, <1>5, <1>6, <1>7 DEF JobInv, Waiting, Around

LEMMA ArrivesAround ==
    ASSUME JobInv, NEW t \in Places, NEW o, o # "purge", Arrives(t, o),
           seenReady' \in {"none", "PROCESSING", "VERIFIED"}
    PROVE  (deployment.queued => t = tail) /\ Around
  BY DEF Arrives, queued, outside, Around, providerVars, marketVars, JobInv, JobTypes

LEMMA IntentKeeps ==
    ASSUME JobInv, NEW t \in Places, NEW r \in {"none", "reconcile", "resume"}, reserveUploadIntent(t, r)
    PROVE  JobInv'
  <1> DEFINE o == "intent"
             new == transitionJob(NoJob, "AUTHORIZED")
  <1>1. JobTypes /\ RecordOK(job) /\ o \in Ops /\ "UPLOAD_EXPIRED" \in Ended /\ Arrives(t, o)
    BY DEF JobInv, Ops, Ended, reserveUploadIntent
  <1>2. (deployment.queued => t = tail) /\ Around
    BY <1>1, ArrivesAround DEF reserveUploadIntent, JobTypes
  <1>3. CASE job = NoJob
    <2>1. clock \in Nat /\ creates \in Nat /\ ~(deployment.queued /\ creates > 0)
      BY <1>1, <1>3 DEF JobTypes, RecordOK, NoJob, Unstarted
    <2>2. new = [NoJob EXCEPT !.state = "AUTHORIZED", !.since = clock, !.archive = "NONE"]
      BY DEF transitionJob, NoJob, Ended
    <2> HIDE DEF new
    <2>3. /\ new \in JobRecords /\ new.state = "AUTHORIZED" /\ new.asset = 0 /\ new.pub = 0
          /\ new.archive = "NONE"
      <3>1. NoJob \in JobRecords /\ NoJob.asset = 0 /\ NoJob.pub = 0
        BY DEF NoJob, JobRecords, States
      <3>. QED BY <2>1, <2>2, <3>1 DEF JobRecords, States
    <2>4. RecordOK(new)
      BY <2>1, <2>3 DEF RecordOK, Ended, Active, Finalizing
    <2>5. job' = new /\ (Return(t) \/ Await(t, o, "admit", new, "create"))
      BY <1>3 DEF reserveUploadIntent, new
    <2>6. CASE Await(t, o, "admit", new, "create")
      <3> DEFINE w == [op |-> o, pc |-> "admit", rec |-> new, arg |-> "create"]
      <3>1. w.pc = "admit" /\ w.rec = new /\ w.arg = "create"
        OBVIOUS
      <3> HIDE DEF w
      <3>2. WaitsOK(w) /\ StoredOK(w, job')
        BY <2>3, <2>4, <3>1 DEF WaitsOK, StoredOK, startable
      <3>3. "admit" \in Calls /\ "create" \in Args
        BY DEF Calls, Args
      <3>. QED BY <1>1, <1>2, <2>4, <2>5, <2>6, <3>2, <3>3, AwaitGoes, GoesKeeps DEF w
    <2>7. CASE Return(t)
      BY <1>2, <2>4, <2>5, <2>7, ReturnGoes, GoesKeeps
    <2>. QED BY <2>5, <2>6, <2>7
  <1>4. CASE reconcileUpload(t, o, job)
    BY <1>1, <1>2, <1>4, ReconcileGoes, GoesKeeps
  <1>5. CASE terminateStreamJob(t, o, "UPLOAD_EXPIRED")
    BY <1>1, <1>2, <1>5, TerminateGoes, GoesKeeps
  <1>6. CASE Await(t, o, "offset", job, "none") /\ UNCHANGED job
    <2>1. RecordOK(job') /\ "none" \in Args
      BY <1>1, <1>6 DEF RecordOK, Args
    <2>. QED BY <1>1, <1>2, <1>6, <2>1, CallGoes, GoesKeeps
  <1>7. CASE serveIntent(t, o, job)
    BY <1>1, <1>2, <1>7, ServeGoes, GoesKeeps
  <1>8. CASE Return(t) /\ UNCHANGED job
    BY <1>1, <1>2, <1>8, ReturnGoes, GoesKeeps
  <1>. QED BY <1>3, <1>4, <1>5, <1>6, <1>7, <1>8 DEF reserveUploadIntent

\* A request arrives.
LEMMA FetchKeeps ==
    ASSUME JobInv, NEW t \in Places, fetch(t)
    PROVE  JobInv'
  <1>1. JobTypes /\ RecordOK(job)
    BY DEF JobInv
  <1>2. CASE \E r \in {"none", "reconcile", "resume"} : reserveUploadIntent(t, r)
    BY <1>2, IntentKeeps
  <1>3. CASE heartbeatUploadLease(t)
    <2> DEFINE w == [op |-> "beat", pc |-> "heartbeat", rec |-> job, arg |-> "none"]
    <2>1. /\ (deployment.queued => t = tail) /\ Around
      BY <1>1, <1>3, ArrivesAround DEF heartbeatUploadLease, JobTypes
    <2>2. /\ job.state \in {"UPLOAD_READY", "UPLOADING"} /\ job' = job
          /\ Await(t, "beat", "heartbeat", job, "none")
      BY <1>3 DEF heartbeatUploadLease
    <2>3. w.pc = "heartbeat" /\ w.rec = job
      OBVIOUS
    <2> HIDE DEF w
    <2>4. WaitsOK(w) /\ StoredOK(w, job')
      BY <1>1, <2>2, <2>3 DEF WaitsOK, StoredOK
    <2>5. "beat" \in Ops /\ "heartbeat" \in Calls /\ "none" \in Args /\ RecordOK(job')
      BY <1>1, <2>2 DEF Ops, Calls, Args, RecordOK
    <2>. QED BY <1>1, <2>1, <2>2, <2>4, <2>5, AwaitGoes, GoesKeeps DEF w
  <1>4. CASE cancelUpload(t)
    <2> DEFINE next == transitionJob(job, "CANCELLED")
    <2>1. /\ (deployment.queued => t = tail) /\ Around
      BY <1>1, <1>4, ArrivesAround DEF cancelUpload, JobTypes
    <2>2. /\ job.state \in {"AUTHORIZED", "LEASED", "CANCELLED"} /\ job' = next
          /\ Return(t) \/ Await(t, "cancel", "mark", next, "CANCELLED")
      BY <1>4 DEF cancelUpload
    <2>3. Leads(job, "CANCELLED")
      BY <2>2 DEF Leads, States, Final, Ended, Early, Unstarted, Active, Finalizing
    <2>4. RecordOK(next) /\ "cancel" \in Ops /\ "CANCELLED" \in Args
      BY <1>1, <2>3, Moves DEF Ops, Args, States, Final, Ended
    <2> HIDE DEF next
    <2>. QED BY <2>1, <2>2, <2>4, CallGoes, ReturnGoes, GoesKeeps
  <1>5. CASE deletePublicBetaAsset(t)
    <2> DEFINE w == [op |-> "purge", pc |-> "delete", rec |-> job, arg |-> "purge"]
    <2>1. /\ deployment.queued /\ t \in Handlers /\ Around /\ job.asset # 0 /\ job' = job
          /\ task' = [task EXCEPT ![t] = w]
      BY <1>1, <1>5 DEF deletePublicBetaAsset, Arrives, queued, outside, Around, providerVars, marketVars,
                        Await, JobTypes
    <2>2. w \in Tasks /\ w.pc = "delete" /\ w.rec = job /\ w.arg = "purge"
      BY <1>1 DEF Tasks, Ops, Calls, Args, RecordOK
    <2> HIDE DEF w
    <2>3. WaitsOK(w)
      BY <1>1, <2>1, <2>2 DEF WaitsOK
    <2>4. RecordOK(job') /\ job'.asset # 0
      BY <1>1, <2>1 DEF RecordOK
    <2>. QED BY <2>1, <2>2, <2>3, <2>4, PurgeKeeps
  <1>6. CASE \E e \in {"processing", "ready", "failed"} : handleLivepeerWebhook(t, e)
    <2>1. PICK e \in {"processing", "ready", "failed"} : handleLivepeerWebhook(t, e)
      BY <1>6
    <2>2. /\ Arrives(t, "hook") /\ job.asset # 0 /\ handleProviderEvent(t, "hook", e, job, "hook")
      BY <2>1 DEF handleLivepeerWebhook, events
    <2>3. JobGoes(t) /\ seenReady' \in {"none", "PROCESSING", "VERIFIED"}
      BY <1>1, <2>2, ProviderEventGoes DEF Ops
    <2>4. /\ (deployment.queued => t = tail) /\ Around
      BY <2>2, <2>3, ArrivesAround
    <2>. QED BY <2>3, <2>4, GoesKeeps
  <1>. QED BY <1>2, <1>3, <1>4, <1>5, <1>6 DEF fetch

\* A handler that waits runs on the tail of a queued deployment, or deletes.
LEMMA OnTail ==
    ASSUME JobInv, NEW t \in Places, task[t].pc \notin {"idle", "delete"}
    PROVE  deployment.queued => t = tail
  BY DEF JobInv, QueueOK, Places

LEMMA WaitsFor ==
    ASSUME JobInv, NEW t \in Places, Waiting(task[t])
    PROVE  /\ WaitsOK(task[t]) /\ RecordOK(task[t].rec)
           /\ task[t].op \in Ops /\ task[t].arg \in Args
  <1>1. WaitsOK(task[t]) /\ task[t] \in Tasks
    BY DEF JobInv, JobTypes
  <1>. QED BY <1>1 DEF WaitsOK, Tasks

\* Nothing around the handler changes but the admission, the dedup record and the world.
LEMMA StaysAround ==
    ASSUME JobInv, UNCHANGED <<deployment, clock, creates, chainAsset, summary>>,
           leases' = leases, slot' \in Slots \cup {slot}, seenReady' \in {seenReady, "none", "PROCESSING", "VERIFIED"}
    PROVE  Around
  BY DEF Around, JobInv, JobTypes

\* The alarm.
LEMMA WakeKeeps ==
    ASSUME JobInv, NEW t \in Places, advanceAlarm(t)
    PROVE  JobInv'
  <1> DEFINE o == "alarm"
  <1>1. JobTypes /\ RecordOK(job) /\ o \in Ops /\ "UPLOAD_EXPIRED" \in Ended
    BY DEF JobInv, Ops, Ended
  <1>2. deployment.queued => t = tail
    BY OnTail DEF advanceAlarm
  <1>3. UNCHANGED <<deployment, clock, creates, chainAsset, summary, leases, slot>>
    BY DEF advanceAlarm, outside, providerVars, marketVars
  <1>4. CASE UNCHANGED seenReady /\ JobGoes(t)
    BY <1>2, <1>3, <1>4, StaysAround, GoesKeeps
  <1>5. CASE /\ job.archive \in {"PENDING", "RETRY"} /\ UNCHANGED <<job, seenReady>>
             /\ Await(t, o, "archive", job, "none")
    <2> DEFINE w == [op |-> o, pc |-> "archive", rec |-> job, arg |-> "none"]
    <2>1. w.pc = "archive" /\ w.rec = job
      OBVIOUS
    <2>2. job.state \in Ended
      BY <1>1, <1>5 DEF RecordOK
    <2> HIDE DEF w
    <2>3. WaitsOK(w) /\ StoredOK(w, job')
      BY <1>1, <2>1, <2>2 DEF WaitsOK, StoredOK
    <2>4. "archive" \in Calls /\ "none" \in Args /\ RecordOK(job')
      BY <1>1, <1>5 DEF Calls, Args, RecordOK
    <2>. QED BY <1>1, <1>4, <1>5, <2>3, <2>4, AwaitGoes DEF w
  <1>6. CASE expireJob(t, o, job) /\ UNCHANGED seenReady
    BY <1>1, <1>4, <1>6, EndJobGoes DEF expireJob
  <1>7. CASE job.state \in Active /\ handleProviderEvent(t, o, "ready", job, "own")
    <2>1. job.asset # 0
      BY <1>1, <1>7 DEF RecordOK
    <2>2. JobGoes(t) /\ seenReady' \in {"none", "PROCESSING", "VERIFIED"}
      BY <1>1, <1>7, <2>1, ProviderEventGoes
    <2>. QED BY <1>2, <1>3, <2>2, StaysAround, GoesKeeps
  <1>8. CASE reconcileUpload(t, o, job) /\ UNCHANGED seenReady
    BY <1>1, <1>4, <1>8, ReconcileGoes
  <1>9. CASE job.pub # 0 /\ advanceFinalization(t, o, job) /\ UNCHANGED seenReady
    BY <1>1, <1>4, <1>9, AdvanceGoes
  <1>10. CASE Return(t) /\ UNCHANGED <<job, seenReady>>
    BY <1>1, <1>4, <1>10, ReturnGoes DEF RecordOK
  <1>. QED BY <1>5, <1>6, <1>7, <1>8, <1>9, <1>10 DEF advanceAlarm

\* A lease written into a record.
LEMMA Leased ==
    ASSUME NEW r, RecordOK(r), NEW s \in Slots
    PROVE  RecordOK(leased(r, s)) /\ leased(r, s).state = r.state
  <1>1. /\ leased(r, s) \in JobRecords /\ leased(r, s).state = r.state
        /\ leased(r, s).asset = r.asset /\ leased(r, s).pub = r.pub /\ leased(r, s).archive = r.archive
    BY DEF leased, RecordOK, JobRecords, Slots
  <1>. QED BY <1>1 DEF RecordOK

LEMMA Granted ==
    ASSUME JobTypes, NEW lease \in Nat
    PROVE  grantLease(lease) \in Slots
  BY JobBoundsAssumption DEF JobTypes, grantLease, Slots

LEMMA AdmissionKeeps ==
    ASSUME JobInv, NEW t \in Places, requestAdmission(t)
    PROVE  JobInv'
  <1> DEFINE o == task[t].op
             rec == task[t].rec
             resumes == deployment.queued /\ rec.asset # 0 /\ rec.tus
             admitted(s) ==
               /\ slot' = s
               /\ IF s.expires <= clock THEN Throw(t, o) /\ UNCHANGED job
                  ELSE /\ UNCHANGED jobAlarm
                       /\ IF task[t].arg = "renew" THEN job' = leased(rec, s) /\ Return(t)
                          ELSE createUploadNext(t, o, leased([rec EXCEPT !.state = "LEASED"], s))
  <1>1. JobTypes /\ RecordOK(job) /\ task[t].pc = "admit" /\ Waiting(task[t]) /\ slot \in Slots
    BY DEF JobInv, JobTypes, requestAdmission, Waiting
  <1>2. /\ deployment.queued => t = tail
        /\ RecordOK(rec) /\ o \in Ops /\ (task[t].arg # "renew" => rec.state \in startable)
    BY <1>1, OnTail, WaitsFor DEF WaitsOK
  <1>3. /\ UNCHANGED <<deployment, clock, creates, chainAsset, summary, seenReady>> /\ leases' \in {leases, leases + 1}
    BY DEF requestAdmission, providerVars, marketVars
  <1>4. ASSUME NEW s \in Slots, admitted(s)
        PROVE  JobInv'
    <2>1. Around
      BY <1>1, <1>3, <1>4 DEF Around, JobTypes
    <2>2. CASE Throw(t, o) /\ UNCHANGED job
      BY <1>1, <1>2, <2>1, <2>2, ReturnGoes, GoesKeeps DEF RecordOK
    <2>3. CASE job' = leased(rec, s) /\ Return(t)
      BY <1>2, <2>1, <2>3, Leased, ReturnGoes, GoesKeeps
    <2>4. CASE task[t].arg # "renew" /\ createUploadNext(t, o, leased([rec EXCEPT !.state = "LEASED"], s))
      <3> DEFINE mid == [rec EXCEPT !.state = "LEASED"]
      <3>1. rec.state \in {"AUTHORIZED", "LEASED"} /\ rec \in JobRecords
        BY <1>2, <2>4 DEF startable, RecordOK
      <3>2. mid \in JobRecords /\ mid.state = "LEASED" /\ mid.asset = rec.asset /\ mid.pub = rec.pub
            /\ mid.archive = rec.archive
        BY <3>1 DEF JobRecords, States
      <3>3. RecordOK(mid)
        BY <1>2, <3>1, <3>2 DEF RecordOK, Early, Unstarted, Ended, Active, Finalizing
      <3> HIDE DEF mid
      <3>4. RecordOK(leased(mid, s)) /\ leased(mid, s).state \in startable
        BY <3>2, <3>3, Leased DEF startable
      <3>. QED BY <1>2, <2>1, <2>4, <3>4, CreateNextGoes, GoesKeeps DEF mid
    <2>. QED BY <1>4, <2>2, <2>3, <2>4
  <1>5. CASE Return(t) /\ UNCHANGED <<job, slot>>
    <2>1. Around
      BY <1>1, <1>3, <1>5 DEF Around, JobTypes
    <2>. QED BY <1>1, <1>2, <1>5, <2>1, ReturnGoes, GoesKeeps DEF RecordOK
  <1>6. grantLease(slot.lease) \in Slots /\ grantLease(leases + 1) \in Slots
    BY <1>1, Granted DEF Slots, JobTypes
  <1> HIDE DEF admitted
  <1>7. \/ admitted(IF resumes THEN grantLease(slot.lease) ELSE slot)
        \/ admitted(grantLease(leases + 1))
        \/ Return(t) /\ UNCHANGED <<job, slot>>
    BY DEF requestAdmission, admitted
  <1>. QED BY <1>1, <1>4, <1>5, <1>6, <1>7

LEMMA HeartbeatKeeps ==
    ASSUME JobInv, NEW t \in Places, heartbeatAdmissionLease(t)
    PROVE  JobInv'
  <1> DEFINE o == task[t].op
             rec == task[t].rec
  <1>1. JobTypes /\ RecordOK(job) /\ task[t].pc = "heartbeat" /\ Waiting(task[t]) /\ slot \in Slots
    BY DEF JobInv, JobTypes, heartbeatAdmissionLease, Waiting
  <1>2. /\ deployment.queued => t = tail
        /\ RecordOK(rec) /\ o \in Ops /\ rec.state \in {"UPLOAD_READY", "UPLOADING"}
    BY <1>1, OnTail, WaitsFor DEF WaitsOK
  <1>3. grantLease(slot.lease) \in Slots
    BY <1>1, Granted DEF Slots
  <1>4. /\ UNCHANGED <<deployment, clock, creates, chainAsset, summary, seenReady, leases>>
        /\ slot' \in {slot, grantLease(slot.lease)}
    BY DEF heartbeatAdmissionLease, providerVars, marketVars
  <1>5. Around
    BY <1>1, <1>3, <1>4 DEF Around, JobTypes
  <1>6. CASE job' = leased(transitionJob(rec, "UPLOADING"), grantLease(slot.lease)) /\ Return(t)
    <2>1. Leads(rec, "UPLOADING")
      BY <1>2 DEF Leads, RecordOK, States, Active, Final, Ended, Early, Unstarted, Finalizing
    <2>2. RecordOK(transitionJob(rec, "UPLOADING"))
      BY <1>1, <1>2, <2>1, Moves
    <2>3. RecordOK(job')
      BY <1>3, <1>6, <2>2, Leased
    <2>. QED BY <1>2, <1>5, <1>6, <2>3, ReturnGoes, GoesKeeps
  <1>7. CASE endJob(t, o, rec, "UPLOAD_EXPIRED")
    BY <1>2, <1>5, <1>7, EndJobGoes, GoesKeeps DEF Ended
  <1>8. CASE Return(t) /\ UNCHANGED job
    BY <1>1, <1>2, <1>5, <1>8, ReturnGoes, GoesKeeps DEF RecordOK
  <1>. QED BY <1>6, <1>7, <1>8 DEF heartbeatAdmissionLease

LEMMA OffsetKeeps ==
    ASSUME JobInv, NEW t \in Places, readTusOffset(t)
    PROVE  JobInv'
  <1> DEFINE o == task[t].op
  <1>1. JobTypes /\ RecordOK(job) /\ task[t].pc = "offset" /\ Waiting(task[t])
    BY DEF JobInv, readTusOffset, Waiting
  <1>2. /\ deployment.queued => t = tail
        /\ RecordOK(task[t].rec) /\ o \in Ops
    BY <1>1, OnTail, WaitsFor
  <1>3. Around
    BY StaysAround DEF readTusOffset, providerVars, marketVars
  <1>4. CASE serveIntent(t, o, task[t].rec)
    BY <1>2, <1>3, <1>4, ServeGoes, GoesKeeps
  <1>5. CASE Throw(t, o) /\ UNCHANGED job
    BY <1>1, <1>2, <1>3, <1>5, ReturnGoes, GoesKeeps DEF RecordOK
  <1>6. CASE terminateStreamJob(t, o, "UPLOAD_EXPIRED")
    BY <1>2, <1>3, <1>6, TerminateGoes, GoesKeeps DEF Ended
  <1>. QED BY <1>4, <1>5, <1>6 DEF readTusOffset

\* The admission is told how the job stands.
LEMMA ToldKeeps ==
    ASSUME JobInv, NEW t \in Places, updateAdmission(t)
    PROVE  JobInv'
  <1> DEFINE o == task[t].op
             rec == task[t].rec
             mark == task[t].arg
  <1>1. JobTypes /\ RecordOK(job) /\ task[t].pc = "mark" /\ Waiting(task[t]) /\ slot \in Slots
    BY DEF JobInv, JobTypes, updateAdmission, Waiting
  <1>2. /\ deployment.queued => t = tail
        /\ RecordOK(rec) /\ o \in Ops /\ (mark = "READY_VERIFIED" => rec.pub # 0)
    BY <1>1, OnTail, WaitsFor DEF WaitsOK
  <1>3. markSlot(slot, mark) \in Slots
    <2>1. grantLease(slot.lease) \in Slots /\ NoSlot \in Slots /\ [slot EXCEPT !.state = "ambiguous"] \in Slots
      BY <1>1, Granted DEF Slots, NoSlot
    <2>. QED BY <2>1 DEF markSlot
  <1>4. /\ UNCHANGED <<deployment, clock, creates, chainAsset, summary, leases>>
        /\ slot' \in {slot, markSlot(slot, mark)} /\ seenReady' \in {seenReady, "none", "VERIFIED"}
    BY DEF updateAdmission, providerVars, marketVars
  <1>5. Around
    BY <1>1, <1>3, <1>4 DEF Around, JobTypes
  <1>6. CASE mark = "READY_VERIFIED" /\ advanceFinalization(t, o, rec)
    BY <1>2, <1>5, <1>6, AdvanceGoes, GoesKeeps
  <1>7. CASE (Return(t) \/ Throw(t, o)) /\ UNCHANGED job
    BY <1>1, <1>2, <1>5, <1>7, ReturnGoes, GoesKeeps DEF RecordOK
  <1>. QED BY <1>6, <1>7 DEF updateAdmission

LEMMA PollGoes ==
    ASSUME JobInv, NEW t, NEW o \in Ops, NEW rec, RecordOK(rec), rec.state \in Active, pollStreamUpload(t, o, rec)
    PROVE  JobGoes(t) /\ seenReady' \in {seenReady, "none", "PROCESSING", "VERIFIED"}
  <1>1. /\ JobTypes /\ RecordOK(job) /\ rec.asset # 0 /\ "own" \in {"hook", "own"} /\ "none" \in Args
        /\ "PROVIDER_FAILED" \in Ended /\ "UPLOAD_EXPIRED" \in Ended
    BY DEF JobInv, RecordOK, Ended, Args
  <1>2. CASE UNCHANGED seenReady
    <2>1. CASE terminateStreamJob(t, o, "PROVIDER_FAILED") \/ terminateStreamJob(t, o, "UPLOAD_EXPIRED")
      BY <1>1, <1>2, <2>1, TerminateGoes
    <2>2. CASE job' = transitionJob(rec, "PROCESSING") /\ Return(t)
      <3>1. Leads(rec, "PROCESSING")
        BY <1>1 DEF Leads, States, Active, Final, Ended, Early, Unstarted, Finalizing
      <3>. QED BY <1>1, <1>2, <2>2, <3>1, Moves, ReturnGoes
    <2>3. CASE job' \in {job, [rec EXCEPT !.since = clock]} /\ Return(t)
      <3> DEFINE next == [rec EXCEPT !.since = clock]
      <3>1. /\ next \in JobRecords /\ next.state = rec.state /\ next.asset = rec.asset /\ next.pub = rec.pub
            /\ next.archive = rec.archive
        BY <1>1 DEF RecordOK, JobRecords, JobTypes
      <3>2. RecordOK(next)
        BY <3>1 DEF RecordOK
      <3>. QED BY <1>1, <1>2, <2>3, <3>2, ReturnGoes
    <2>4. CASE Await(t, o, "confirm", rec, "none") /\ UNCHANGED job
      <3>1. RecordOK(job')
        BY <1>1, <2>4 DEF RecordOK
      <3>. QED BY <1>1, <1>2, <2>4, <3>1, CallGoes
    <2>5. CASE handleProviderEvent(t, o, "ready", rec, "own")
      BY <1>1, <2>5, ProviderEventGoes
    <2>. QED BY <2>1, <2>2, <2>3, <2>4, <2>5 DEF pollStreamUpload
  <1>3. CASE handleProviderEvent(t, o, "ready", rec, "own")
    BY <1>1, <1>3, ProviderEventGoes
  <1>. QED BY <1>2, <1>3 DEF pollStreamUpload

LEMMA ReadKeeps ==
    ASSUME JobInv, NEW t \in Places, readAsset(t) \/ confirmStuck(t)
    PROVE  JobInv'
  <1> DEFINE o == task[t].op
             rec == task[t].rec
  <1>1. JobTypes /\ RecordOK(job) /\ task[t].pc \in {"read", "confirm"} /\ Waiting(task[t])
    BY DEF JobInv, readAsset, confirmStuck, Waiting
  <1>2. /\ deployment.queued => t = tail
        /\ RecordOK(rec) /\ o \in Ops
        /\ task[t].pc = "read" => rec.state \in Active /\ (stream \/ deployment.queued)
    BY <1>1, OnTail, WaitsFor DEF WaitsOK
  <1>3. UNCHANGED <<deployment, clock, creates, chainAsset, summary, leases, slot>>
    BY DEF readAsset, confirmStuck, outside, providerVars, marketVars
  <1>4. CASE JobGoes(t) /\ seenReady' \in {seenReady, "none", "PROCESSING", "VERIFIED"}
    BY <1>2, <1>3, <1>4, StaysAround, GoesKeeps
  <1>5. CASE Return(t) /\ UNCHANGED <<job, seenReady>>
    BY <1>1, <1>4, <1>5, ReturnGoes DEF RecordOK
  <1>6. CASE task[t].pc = "read" /\ pollStreamUpload(t, o, rec)
    BY <1>2, <1>4, <1>6, PollGoes
  <1>7. CASE task[t].pc = "read" /\ ~stream /\ \E event : handleProviderEvent(t, o, event, job, "own")
    <2>1. job.asset # 0
      BY <1>2, <1>7 DEF JobInv, QueueOK, StoredOK, tail
    <2>2. PICK event : handleProviderEvent(t, o, event, job, "own")
      BY <1>7
    <2>. QED BY <1>1, <1>2, <1>4, <2>1, <2>2, ProviderEventGoes
  <1>8. CASE terminateStreamJob(t, o, "PROVIDER_FAILED") /\ UNCHANGED seenReady
    BY <1>2, <1>4, <1>8, TerminateGoes DEF Ended
  <1>9. CASE readAsset(t)
    BY <1>5, <1>6, <1>7, <1>9 DEF readAsset
  <1>10. CASE confirmStuck(t)
    BY <1>5, <1>8, <1>10 DEF confirmStuck
  <1>. QED BY <1>9, <1>10

\* The asset is verified: the record becomes that of a verified asset only if the copy was current.
LEMMA VerifiedKeeps ==
    ASSUME JobInv, NEW t \in Places, verified(t)
    PROVE  JobInv'
  <1> DEFINE o == task[t].op
             rec == task[t].rec
             ready == [transitionJob(rec, "READY_VERIFIED") EXCEPT !.tus = FALSE, !.check = FALSE, !.pub = rec.asset]
  <1>1. JobTypes /\ RecordOK(job) /\ task[t].pc = "verify" /\ Waiting(task[t])
    BY DEF JobInv, verified, Waiting
  <1>2. /\ deployment.queued => t = tail
        /\ RecordOK(rec) /\ o \in Ops /\ rec.asset # 0
    BY <1>1, OnTail, WaitsFor DEF WaitsOK
  <1>3. Around
    <2>1. UNCHANGED <<deployment, clock, creates, chainAsset, summary, leases, slot>>
      BY DEF verified, providerVars, marketVars
    <2>2. seenReady' \in {seenReady, "none"}
      BY DEF verified
    <2>. QED BY <2>1, <2>2, StaysAround
  <1>4. CASE \E check \in BOOLEAN : job' = [job EXCEPT !.check = check] /\ Return(t)
    <2>1. PICK check \in BOOLEAN : job' = [job EXCEPT !.check = check]
      BY <1>4
    <2>2. /\ job' \in JobRecords /\ job'.state = job.state /\ job'.asset = job.asset /\ job'.pub = job.pub
          /\ job'.archive = job.archive
      BY <1>1, <2>1 DEF RecordOK, JobRecords
    <2>3. RecordOK(job')
      BY <1>1, <2>2 DEF RecordOK
    <2>. QED BY <1>2, <1>3, <1>4, <2>3, ReturnGoes, GoesKeeps
  <1>5. CASE /\ legal(rec.state, "READY_VERIFIED") /\ job' = ready
             /\ Await(t, o, "mark", ready, "READY_VERIFIED")
    <2> DEFINE moved == transitionJob(rec, "READY_VERIFIED")
    <2>1. rec \in JobRecords /\ rec.state \in States /\ clock \in Nat
          /\ (rec.state = "READY_VERIFIED" \/ rec.state \notin Final)
      BY <1>1, <1>2, <1>5, FinalStays DEF RecordOK, JobRecords, JobTypes
    <2>2. rec.archive = "NONE"
      BY <1>2, <2>1 DEF RecordOK, Ended, Final
    <2>3. moved = rec \/ moved = [rec EXCEPT !.state = "READY_VERIFIED", !.since = clock, !.archive = "NONE"]
      BY <2>2 DEF transitionJob, Ended
    <2>4. /\ moved \in JobRecords /\ moved.state = "READY_VERIFIED" /\ moved.asset = rec.asset
          /\ moved.archive = "NONE"
      BY <2>1, <2>2, <2>3 DEF JobRecords, States, Finalizing, transitionJob
    <2>5. ready = [moved EXCEPT !.tus = FALSE, !.check = FALSE, !.pub = rec.asset]
      OBVIOUS
    <2> HIDE DEF moved, ready
    <2>6. /\ ready \in JobRecords /\ ready.state = "READY_VERIFIED" /\ ready.asset = rec.asset
          /\ ready.pub = rec.asset /\ ready.archive = "NONE"
      BY <2>1, <2>4, <2>5 DEF JobRecords
    <2>7. RecordOK(ready)
      BY <1>2, <2>6 DEF RecordOK, Ended, Early, Unstarted, Active, Finalizing
    <2>8. ready.pub # 0 /\ "READY_VERIFIED" \in Args
      BY <1>2, <2>6 DEF Args, States, Finalizing
    <2>. QED BY <1>2, <1>3, <1>5, <2>7, <2>8, CallGoes, GoesKeeps
  <1>6. CASE Return(t) /\ UNCHANGED job
    BY <1>1, <1>2, <1>3, <1>6, ReturnGoes, GoesKeeps DEF RecordOK
  <1>7. CASE \E to \in {"UPLOAD_EXPIRED", "PROVIDER_FAILED"} : terminateStreamJob(t, o, to)
    BY <1>2, <1>3, <1>7, TerminateGoes, GoesKeeps DEF Ended
  <1>. QED BY <1>4, <1>5, <1>6, <1>7 DEF verified

\* The finalization is answered, or a job with the old profile is settled.
LEMMA FinalizeKeeps ==
    ASSUME JobInv, NEW t \in Places, forwardFinalize(t) \/ settleLegacyProfileJob(t)
    PROVE  JobInv'
  <1> DEFINE o == task[t].op
             rec == task[t].rec
  <1>1. JobTypes /\ RecordOK(job) /\ task[t].pc \in {"finalize", "settle"} /\ Waiting(task[t])
    BY DEF JobInv, forwardFinalize, settleLegacyProfileJob, Waiting
  <1>2. /\ deployment.queued => t = tail
        /\ RecordOK(rec) /\ o \in Ops /\ rec.pub # 0
    BY <1>1, OnTail, WaitsFor DEF WaitsOK
  <1>3. Around
    BY StaysAround DEF forwardFinalize, settleLegacyProfileJob, providerVars, marketVars
  <1>4. ASSUME NEW to \in {"ONCHAIN_PUBLISHED", "FINALIZE_QUEUED", "FINALIZE_RETRY"}, legal(rec.state, to),
               to = "ONCHAIN_PUBLISHED" => chainAsset = rec.pub, job' = transitionJob(rec, to),
               Return(t) \/ Await(t, o, "mark", transitionJob(rec, to), to)
        PROVE  JobInv'
    <2>1. rec.state \in States /\ rec.asset # 0 /\ rec.pub = rec.asset
      BY <1>2 DEF RecordOK, JobRecords
    <2>2. Leads(rec, to)
      BY <1>2, <1>4, <2>1, FinalStays DEF Leads, States, Final, Finalizing, Early, Unstarted, Active
    <2>3. RecordOK(transitionJob(rec, to)) /\ to \in Args
      BY <1>1, <1>2, <2>2, Moves DEF Leads, Args
    <2>. QED BY <1>2, <1>3, <1>4, <2>3, CallGoes, ReturnGoes, GoesKeeps
  <1>5. CASE (Return(t) \/ Throw(t, o)) /\ UNCHANGED job
    BY <1>1, <1>2, <1>3, <1>5, ReturnGoes, GoesKeeps DEF RecordOK
  <1>6. CASE expireJob(t, o, rec)
    BY <1>2, <1>3, <1>6, EndJobGoes, GoesKeeps DEF expireJob, Ended
  <1>7. CASE forwardFinalize(t)
    BY <1>4, <1>5, <1>7 DEF forwardFinalize
  <1>8. CASE settleLegacyProfileJob(t)
    BY <1>4, <1>5, <1>6, <1>8 DEF settleLegacyProfileJob
  <1>. QED BY <1>7, <1>8

\* The deletion of an asset is noted on the copy, for the alarm or for the operator.
LEMMA DeletedKeeps ==
    ASSUME JobInv, NEW t \in Places, deleteAsset(t)
    PROVE  JobInv'
  <1> DEFINE o == task[t].op
             rec == task[t].rec
  <1>1. JobTypes /\ RecordOK(job) /\ task[t].pc = "delete" /\ Waiting(task[t])
    BY DEF JobInv, deleteAsset, Waiting
  <1>2. RecordOK(rec) /\ o \in Ops /\ rec.asset # 0
    BY <1>1, WaitsFor DEF WaitsOK
  <1>3. Around
    BY StaysAround DEF deleteAsset, marketVars
  <1>4. PICK found \in {"DELETED", "MISSING", "AMBIGUOUS"} : job' = [rec EXCEPT !.deleted = found]
    BY DEF deleteAsset
  <1>5. /\ job' \in JobRecords /\ job'.state = rec.state /\ job'.asset = rec.asset /\ job'.pub = rec.pub
        /\ job'.archive = rec.archive
    BY <1>2, <1>4 DEF RecordOK, JobRecords
  <1>6. RecordOK(job')
    BY <1>2, <1>5 DEF RecordOK
  <1>7. IF task[t].arg = "purge" THEN Return(t) ELSE Await(t, o, "mark", job', job'.state)
    BY DEF deleteAsset
  <1>8. CASE deployment.queued => t = tail
    <2>1. job'.state \in Args /\ (job'.state = "READY_VERIFIED" => job'.pub # 0)
      BY <1>5, <1>6 DEF RecordOK, JobRecords, Args, Finalizing
    <2>2. CASE Return(t)
      BY <1>3, <1>6, <1>8, <2>2, ReturnGoes, GoesKeeps
    <2>3. CASE Await(t, o, "mark", job', job'.state)
      BY <1>2, <1>3, <1>6, <1>8, <2>1, <2>3, CallGoes, GoesKeeps
    <2>. QED BY <1>7, <2>2, <2>3
  <1>9. CASE deployment.queued /\ t # tail
    <2>1. t \in Handlers /\ task[t].arg = "purge"
      BY <1>1, <1>9 DEF Places, JobInv, QueueOK
    <2>2. task' = [task EXCEPT ![t] = NoTask] /\ NoTask.pc = "idle" /\ NoTask \in Tasks
      BY <1>7, <2>1 DEF Return, NoTask, NoJob, Tasks, Ops, Args, JobRecords, States
    <2>. QED BY <1>2, <1>3, <1>5, <1>6, <1>9, <2>1, <2>2, PurgeKeeps
  <1>. QED BY <1>8, <1>9

\* The provider took a create call.  In a queued deployment it is the first, and nothing else waits.
LEMMA CreatedKeeps ==
    ASSUME JobInv, NEW t \in Places, createUpload(t)
    PROVE  JobInv'
  <1> DEFINE o == task[t].op
             rec == task[t].rec
             new == creates + 1
             ready == [transitionJob(rec, "UPLOAD_READY") EXCEPT !.asset = new, !.tus = TRUE, !.created = clock]
             expired == transitionJob(ready, "UPLOAD_EXPIRED")
             ambiguous == transitionJob(rec, "CREATE_AMBIGUOUS")
  <1>1. /\ JobTypes /\ RecordOK(job) /\ task[t].pc = "create" /\ Waiting(task[t])
        /\ creates \in Nat /\ new \in Nat /\ new # 0 /\ clock \in Nat /\ task \in [Places -> Tasks]
    BY DEF JobInv, JobTypes, createUpload, Waiting
  <1>2. /\ deployment.queued => t = tail
        /\ WaitsOK(task[t]) /\ RecordOK(rec) /\ rec \in JobRecords /\ o \in Ops
        /\ rec.state = "PROVIDER_CREATE_PENDING" /\ (deployment.queued => creates = 0)
    BY <1>1, OnTail, WaitsFor DEF WaitsOK, RecordOK
  <1>3. rec.asset = 0 /\ rec.pub = 0 /\ rec.archive = "NONE"
    BY <1>2 DEF RecordOK, Early, Ended
  <1>4. /\ UNCHANGED <<deployment, clock, seenReady, slot, leases, chainAsset, summary>> /\ creates' = new
    BY DEF createUpload, marketVars
  <1>5. ready = [rec EXCEPT !.state = "UPLOAD_READY", !.since = clock, !.archive = "NONE",
                            !.asset = new, !.tus = TRUE, !.created = clock]
    BY <1>1, <1>2, <1>3 DEF transitionJob, Ended, JobRecords
  <1>6. /\ ready \in JobRecords /\ ready.state = "UPLOAD_READY" /\ ready.asset = new /\ ready.pub = 0
        /\ ready.archive = "NONE"
    BY <1>1, <1>2, <1>3, <1>5 DEF JobRecords, States, Active
  <1> HIDE DEF ready
  <1>7. expired = [ready EXCEPT !.state = "UPLOAD_EXPIRED", !.since = clock, !.archive = "PENDING"]
    BY <1>6 DEF transitionJob, Ended
  <1>8. /\ expired \in JobRecords /\ expired.state = "UPLOAD_EXPIRED" /\ expired.asset = new /\ expired.pub = 0
        /\ expired.archive = "PENDING"
    BY <1>1, <1>6, <1>7 DEF JobRecords, States, Final, Ended
  <1>9. ambiguous = [rec EXCEPT !.state = "CREATE_AMBIGUOUS", !.since = clock, !.archive = "NONE"]
    BY <1>2, <1>3 DEF transitionJob, Ended
  <1>10. /\ ambiguous \in JobRecords /\ ambiguous.state = "CREATE_AMBIGUOUS" /\ ambiguous.asset = 0
         /\ ambiguous.pub = 0 /\ ambiguous.archive = "NONE"
    BY <1>1, <1>2, <1>3, <1>9 DEF JobRecords, States
  <1> HIDE DEF expired, ambiguous
  <1>11. legal("UPLOAD_READY", "UPLOAD_EXPIRED")
    BY DEF legal, JOB_STATE_TRANSITIONS, Active
  \* Whatever the provider answered, the record written is what the handler goes on with.
  <1>12. /\ job' \in {ready, expired, ambiguous}
         /\ \E pc \in {"mark", "delete"} : \E arg \in {"UPLOAD_READY", "UPLOAD_EXPIRED", "CREATE_AMBIGUOUS"} :
               /\ pc = "delete" => job'.asset # 0
               /\ task' = [task EXCEPT ![t] = [op |-> o, pc |-> pc, rec |-> job', arg |-> arg]]
    <2>1. CASE /\ job' = ready
               /\ Await(t, o, "mark", ready, "UPLOAD_READY")
      BY <2>1 DEF Await
    <2>2. CASE job' = expired /\ deleteStreamUpload(t, o, job')
      BY <1>8, <2>2 DEF deleteStreamUpload, Await
    <2>3. CASE endStudioJob(t, o, ready, "UPLOAD_EXPIRED")
      BY <1>6, <1>11, <2>3 DEF endStudioJob, Await, expired
    <2>4. CASE /\ job' = ambiguous
               /\ Await(t, o, "mark", job', "CREATE_AMBIGUOUS")
      BY <2>4 DEF Await
    <2>. QED BY <2>1, <2>2, <2>3, <2>4 DEF createUpload, ready, expired, ambiguous
  <1>13. RecordOK(job)'
    BY <1>1, <1>4, <1>6, <1>8, <1>10, <1>12
       DEF RecordOK, Ended, Early, Unstarted, Active, Finalizing
  <1>14. PICK w \in Tasks : /\ task' = [task EXCEPT ![t] = w] /\ w.pc \in {"mark", "delete"}
                            /\ w.rec = job' /\ w.arg # "READY_VERIFIED" /\ (w.pc = "delete" => w.rec.asset # 0)
    <2>1. PICK pc \in {"mark", "delete"}, arg \in {"UPLOAD_READY", "UPLOAD_EXPIRED", "CREATE_AMBIGUOUS"} :
               /\ pc = "delete" => job'.asset # 0
               /\ task' = [task EXCEPT ![t] = [op |-> o, pc |-> pc, rec |-> job', arg |-> arg]]
      BY <1>12
    <2> DEFINE w == [op |-> o, pc |-> pc, rec |-> job', arg |-> arg]
    <2>2. w.pc = pc /\ w.rec = job' /\ w.arg = arg
      OBVIOUS
    <2>3. job' \in JobRecords
      BY <1>6, <1>8, <1>10, <1>12
    <2>4. w \in Tasks
      BY <1>2, <2>3 DEF Tasks, Calls, Args, States, Active, Final, Ended
    <2> HIDE DEF w
    <2>. QED BY <2>1, <2>2, <2>4 DEF w
  <1>15. /\ task' \in [Places -> Tasks] /\ task'[t] = w
         /\ \A u \in Places : u # t => task'[u] = task[u]
    BY <1>1, <1>14
  <1>16. WaitsOK(task[t])'
    BY <1>13, <1>14, <1>15 DEF WaitsOK
  <1>17. ASSUME NEW u \in Places, u # t, Waiting(task[u])
         PROVE  ~deployment.queued /\ WaitsOK(task[u])'
    <2>1. WaitsOK(task[u])
      BY <1>17 DEF JobInv
    <2>2. ~deployment.queued
      BY <1>1, <1>2, <1>17, <2>1 DEF JobInv, QueueOK, Places, Waiting, WaitsOK, RecordOK, tail
    <2>3. RecordOK(task[u].rec)'
      BY <1>1, <1>4, <1>15, <1>17, <2>1, <2>2 DEF WaitsOK, RecordOK
    <2>. QED BY <1>4, <1>15, <1>17, <2>1, <2>2, <2>3 DEF WaitsOK, stream
  <1>18. JobTypes'
    BY <1>1, <1>4, <1>15 DEF JobTypes
  <1>19. ASSUME deployment.queued
         PROVE  QueueOK'
    <2>1. t = tail /\ tail \notin Handlers /\ creates' <= 1
      BY <1>2, <1>4, <1>19, JobBoundsAssumption DEF tail
    <2>2. \A u \in Handlers : task'[u].pc = "idle"
      BY <1>15, <1>17, <1>19, <2>1 DEF Places, JobInv, QueueOK, Waiting
    <2>3. StoredOK(task[tail], job)'
      BY <1>14, <1>15, <2>1 DEF StoredOK, tail
    <2>. QED BY <2>1, <2>2, <2>3 DEF QueueOK
  <1>20. \A u \in Places : Waiting(task'[u]) => WaitsOK(task[u])'
    BY <1>15, <1>16, <1>17
  <1>. QED BY <1>4, <1>13, <1>18, <1>19, <1>20 DEF JobInv, Waiting

\* Steps that end handlers or leave them, and with which every version of the record still says
\* what holds.
LEMMA RestKeeps ==
    ASSUME JobInv, JobTypes', UNCHANGED <<deployment, creates>>,
           \A r : RecordOK(r) => RecordOK(r)', RecordOK(job)',
           \A u \in Places : task'[u] \in {task[u], NoTask},
           job' = job \/ task'[tail] = NoTask \/ ~deployment.queued
    PROVE  JobInv'
  <1>1. NoTask.pc = "idle"
    BY DEF NoTask
  <1>2. \A u \in Places : Waiting(task'[u]) => WaitsOK(task[u])'
    BY <1>1 DEF JobInv, Waiting, WaitsOK, stream
  <1>3. ASSUME deployment.queued
        PROVE  QueueOK'
    <2>1. QueueOK
      BY <1>3 DEF JobInv
    <2>2. \A u \in Handlers : task'[u].pc = "idle" \/ (task'[u].pc = "delete" /\ task'[u].arg = "purge")
      BY <1>1, <2>1 DEF QueueOK, Places
    <2>3. StoredOK(task[tail], job)'
      BY <1>1, <1>3, <2>1 DEF QueueOK, StoredOK, Places, tail
    <2>. QED BY <2>1, <2>2, <2>3 DEF QueueOK
  <1>. QED BY <1>2, <1>3 DEF JobInv, Waiting

LEMMA NoTaskTyped == NoTask \in Tasks /\ NoTask.pc = "idle"
  BY DEF NoTask, NoJob, Tasks, Ops, Args, JobRecords, States

\* The summary is written once, and by a record that ended.
LEMMA ArchiveKeeps ==
    ASSUME JobInv, NEW t \in Places, advanceTerminalArchive(t)
    PROVE  JobInv'
  <1> DEFINE rec == task[t].rec
  <1>1. JobTypes /\ RecordOK(job) /\ task[t].pc = "archive" /\ Waiting(task[t]) /\ task \in [Places -> Tasks]
    BY DEF JobInv, JobTypes, advanceTerminalArchive, Waiting
  <1>2. /\ deployment.queued => t = tail
        /\ RecordOK(rec) /\ rec.state \in Ended
    BY <1>1, OnTail, WaitsFor DEF WaitsOK
  <1>3. /\ UNCHANGED <<deployment, clock, creates, chainAsset, seenReady, slot, leases>>
        /\ task' = [task EXCEPT ![t] = NoTask]
    BY DEF advanceTerminalArchive, providerVars, marketVars, Return
  <1>4. /\ summary' = summary \/ (summary = "none" /\ summary' = rec.state)
        /\ \E a \in {"RETRY", "COMMITTED"} :
              job' = [rec EXCEPT !.archive = a] /\ (a = "COMMITTED" => summary' = rec.state)
    BY DEF advanceTerminalArchive
  <1>5. \A r : RecordOK(r) => RecordOK(r)'
    <2>1. ASSUME NEW r, RecordOK(r), r.archive = "COMMITTED"
          PROVE  summary' = summary
      BY <1>4, <2>1 DEF RecordOK, JobRecords, States, Active, Finalizing, Final, Ended
    <2>. QED BY <1>3, <2>1 DEF RecordOK
  <1>6. RecordOK(job)'
    <2>1. PICK a \in {"RETRY", "COMMITTED"} :
             job' = [rec EXCEPT !.archive = a] /\ (a = "COMMITTED" => summary' = rec.state)
      BY <1>4
    <2>2. /\ job' \in JobRecords /\ job'.state = rec.state /\ job'.asset = rec.asset /\ job'.pub = rec.pub
          /\ job'.archive = a
      BY <1>2, <2>1 DEF RecordOK, JobRecords
    <2>. QED BY <1>2, <1>3, <2>1, <2>2 DEF RecordOK
  <1>7. task' \in [Places -> Tasks] /\ \A u \in Places : task'[u] \in {task[u], NoTask}
    BY <1>1, <1>3, NoTaskTyped
  <1>8. JobTypes'
    BY <1>1, <1>3, <1>7 DEF JobTypes
  <1>9. task'[tail] = NoTask \/ ~deployment.queued
    BY <1>1, <1>2, <1>3
  <1>. QED BY <1>3, <1>5, <1>6, <1>7, <1>8, <1>9, RestKeeps

LEMMA ResumesKeeps ==
    ASSUME JobInv, NEW t \in Places, Resumes(t)
    PROVE  JobInv'
  BY WakeKeeps, AdmissionKeeps, HeartbeatKeeps, OffsetKeeps, CreatedKeeps, ToldKeeps, ReadKeeps, VerifiedKeeps,
     FinalizeKeeps, DeletedKeeps, ArchiveKeeps DEF Resumes

\* The object dies: a create under way may have reached the provider.
LEMMA CrashKeeps ==
    ASSUME JobInv, Crash
    PROVE  JobInv'
  <1>1. /\ JobTypes /\ RecordOK(job) /\ creates \in Nat
        /\ task' = [t \in Places |-> NoTask]
        /\ UNCHANGED <<deployment, clock, job, seenReady, slot, leases, chainAsset, summary>>
    BY DEF JobInv, JobTypes, Crash, marketVars
  <1>2. task' \in [Places -> Tasks] /\ \A u \in Places : task'[u] = NoTask /\ ~Waiting(task'[u])
    BY <1>1, NoTaskTyped DEF Waiting
  <1>3. CASE creates' = creates
    <2>1. JobTypes'
      BY <1>1, <1>2, <1>3 DEF JobTypes
    <2>2. \A r : RecordOK(r) => RecordOK(r)'
      BY <1>1, <1>3 DEF RecordOK
    <2>3. RecordOK(job)'
      BY <1>1, <1>3 DEF RecordOK
    <2>. QED BY <1>1, <1>2, <1>3, <2>1, <2>2, <2>3, RestKeeps
  <1>4. CASE creates' = creates + 1 /\ \E t \in Places : task[t].pc = "create"
    <2>1. PICK t \in Places : task[t].pc = "create"
      BY <1>4
    <2>2. WaitsOK(task[t]) /\ (deployment.queued => t = tail)
      BY <2>1, OnTail, WaitsFor DEF Waiting
    <2>3. deployment.queued => creates = 0 /\ job.state \notin Unstarted
      BY <2>1, <2>2 DEF WaitsOK, JobInv, QueueOK, StoredOK
    <2>4. JobTypes'
      BY <1>1, <1>2, <1>4 DEF JobTypes
    <2>5. RecordOK(job)'
      BY <1>1, <1>4, <2>3 DEF RecordOK
    <2>6. deployment.queued => QueueOK'
      <3>1. 0 \in Places /\ \A u \in Places : task'[u].pc = "idle"
        BY <1>2, NoTaskTyped DEF Places, tail
      <3>. QED BY <1>1, <1>4, <2>3, <3>1 DEF QueueOK, StoredOK, Places, tail
    <2>. QED BY <1>1, <1>2, <2>4, <2>5, <2>6 DEF JobInv, Waiting
  <1>. QED BY <1>3, <1>4 DEF Crash, providerVars

\* Time, the admission, the provider and the chain.
LEMMA WorldKeeps ==
    ASSUME JobInv, \/ Tick \/ LeaseLapses \/ FinalizeLands \/ TakeDown \/ UNCHANGED jobVars
                   \/ \E a \in DOMAIN video : ProviderWorks(a)
    PROVE  JobInv'
  <1>1. /\ JobTypes /\ RecordOK(job) /\ clock \in Nat
        /\ UNCHANGED <<deployment, creates, job, task, summary, leases, seenReady>>
        /\ clock' \in {clock, clock + 1} /\ slot' \in {slot, NoSlot}
        /\ chainAsset' = chainAsset \/ chainAsset = 0
    BY DEF JobInv, JobTypes, Tick, LeaseLapses, FinalizeLands, TakeDown, ProviderWorks, providerVars, marketVars,
           jobVars, boundVars
  <1>2. JobTypes'
    BY <1>1 DEF JobTypes, Slots, NoSlot
  <1>3. \A r : RecordOK(r) => RecordOK(r)'
    BY <1>1 DEF RecordOK
  <1>4. RecordOK(job)'
    BY <1>1 DEF RecordOK
  <1>. QED BY <1>1, <1>2, <1>3, <1>4, RestKeeps

\* The alarm is taken off.
LEMMA AlarmStarts ==
    ASSUME JobInv, alarm
    PROVE  JobInv'
  <1> DEFINE w == [NoTask EXCEPT !.op = "alarm", !.pc = "alarm"]
  <1>1. /\ JobTypes /\ RecordOK(job) /\ tail \in Places /\ task \in [Places -> Tasks] /\ tail \notin Handlers
        /\ task' = [task EXCEPT ![tail] = w]
        /\ UNCHANGED <<deployment, clock, creates, chainAsset, summary, leases, slot, seenReady, job>>
    BY JobBoundsAssumption DEF JobInv, JobTypes, Places, alarm, outside, providerVars, marketVars, tail
  <1>2. w \in Tasks /\ w.pc = "alarm"
    BY NoTaskTyped DEF Tasks, Ops
  <1> HIDE DEF w
  <1>3. /\ task' \in [Places -> Tasks] /\ task'[tail] = w
        /\ \A u \in Places : u # tail => task'[u] = task[u]
    BY <1>1, <1>2
  <1>4. JobTypes' /\ RecordOK(job)'
    BY <1>1, <1>3 DEF JobTypes, RecordOK
  <1>5. \A u \in Places : Waiting(task'[u]) => WaitsOK(task[u])'
    BY <1>1, <1>2, <1>3 DEF JobInv, Waiting, WaitsOK, RecordOK, stream
  <1>6. deployment.queued => QueueOK'
    <2>1. \A u \in Handlers : task'[u] = task[u]
      BY <1>1, <1>3 DEF Places
    <2>. QED BY <1>1, <1>2, <1>3, <2>1 DEF JobInv, QueueOK, StoredOK
  <1>. QED BY <1>1, <1>4, <1>5, <1>6 DEF JobInv, Waiting

LEMMA JobKeeps ==
    ASSUME JobInv, JobNext \/ UNCHANGED jobVars
    PROVE  JobInv'
  BY FetchKeeps, ResumesKeeps, CrashKeeps, WorldKeeps, AlarmStarts DEF JobNext

\* No job, or one stored before the profile was renamed.
LEMMA JobStarts == JobInit => JobInv
  <1> SUFFICES ASSUME JobInit PROVE JobInv
    OBVIOUS
  <1>1. deployment \in [kind : {"studio", "stream"}, queued : BOOLEAN, legacy : BOOLEAN]
    <2>1. PICK s \in Scenarios : deployment = [kind |-> s.kind, queued |-> s.queued, legacy |-> s.legacy]
      BY DEF JobInit
    <2>2. s.kind \in {"studio", "stream"} /\ s.queued \in BOOLEAN /\ s.legacy \in BOOLEAN
      BY ScenariosAssumption
    <2>. QED BY <2>1, <2>2
  <1>2. NoJob \in JobRecords /\ NoJob.state = "NONE" /\ NoJob.asset = 0 /\ NoJob.pub = 0 /\ NoJob.archive = "NONE"
    BY DEF NoJob, JobRecords, States
  <1>3. creates \in {0, 1} /\ RecordOK(job)
    <2>1. CASE job = NoJob
      <3>1. creates = 0
        BY <1>2, <2>1 DEF JobInit
      <3>. QED BY <1>2, <2>1, <3>1 DEF RecordOK, Ended, Early, Unstarted, Active, Finalizing
    <2>2. CASE job # NoJob
      <3>1. PICK s \in {"UPLOADING"} \cup Finalizing :
               job = [NoJob EXCEPT !.state = s, !.asset = 1, !.tus = s = "UPLOADING",
                                   !.pub = IF s \in Finalizing THEN 1 ELSE 0]
        BY <2>2 DEF JobInit
      <3>2. /\ job.state = s /\ job.asset = 1 /\ job.pub = (IF s \in Finalizing THEN 1 ELSE 0)
            /\ job.archive = "NONE" /\ job \in JobRecords
        <4>1. s \in States /\ (s = "UPLOADING") \in BOOLEAN /\ (IF s \in Finalizing THEN 1 ELSE 0) \in Nat
          BY DEF States, Active
        <4>. QED BY <1>2, <3>1, <4>1 DEF JobRecords
      <3>3. creates = 1
        BY <3>2 DEF JobInit
      <3>. QED BY <3>2, <3>3 DEF RecordOK, Ended, Early, Unstarted, Active, Finalizing
    <2>. QED BY <2>1, <2>2
  <1>4. task = [t \in Places |-> NoTask] /\ \A t \in Places : task[t].pc = "idle"
    BY NoTaskTyped DEF JobInit
  <1>5. JobTypes
    BY <1>1, <1>3, <1>4, NoTaskTyped DEF JobInit, JobTypes, Slots, NoSlot
  <1>6. QueueOK
    BY <1>3, <1>4 DEF QueueOK, StoredOK, Places
  <1>. QED BY <1>3, <1>4, <1>5, <1>6 DEF JobInv, Waiting

-----------------------------------------------------------------------------
(* The runs' properties, for every value of the constants. *)

LEMMA UploadsInv == UploadsSpec => [](JobInv /\ WatchInv)
  <1>1. UploadsInit => JobInv /\ WatchInv
    BY JobStarts, WatchStarts DEF UploadsInit
  <1>2. JobInv /\ WatchInv /\ [UploadsNext]_uploadsVars => (JobInv /\ WatchInv)'
    BY JobKeeps, WatchKeeps DEF UploadsNext, uploadsVars
  <1>. QED BY <1>1, <1>2, PTL DEF UploadsSpec

\* The record of an upload job agrees with the provider, the chain and the archive: a queued
\* deployment asks for one asset, a published record is on chain, a committed archive names the
\* state.  And the watch takes an asset for healthy after a drift only on two looks.
THEOREM UploadsSafeCorrect == UploadsSpec => []UploadsSafe
  <1>1. JobInv => JobSafe
    <2>1. JobInv => JobTypeOK
      BY DEF JobInv, JobTypes, RecordOK, JobRecords, Slots, JobTypeOK, States, JOB_STATE_TRANSITIONS
    <2>2. JobInv => OneCreate /\ PublishedOnChain /\ SummaryMatches
      BY DEF JobInv, QueueOK, RecordOK, OneCreate, PublishedOnChain, SummaryMatches
    <2>. QED BY <2>1, <2>2 DEF JobSafe
  <1>2. WatchInv => ReconcileTypeOK /\ RecoveryConfirmed
    BY DEF WatchInv, WatchTypes, ReconcileRecords, Sightings, ReconcileTypeOK, RecordBacked
  <1>3. JobInv /\ WatchInv => UploadsSafe
    BY <1>1, <1>2 DEF UploadsSafe
  <1>. QED BY <1>3, UploadsInv, PTL

\* Sales are suspended on a drift of one code seen twice, a confirmation time apart, and on less never.
THEOREM SuspensionConfirmedCorrect == UploadsSpec => SuspensionConfirmed
  <1> DEFINE Step == suspension = "none" /\ suspension' # "none" => confirmed(drifting')
  <1>1. WatchInv /\ [UploadsNext]_uploadsVars => [Step]_reconcileVars
    BY WatchKeeps DEF UploadsNext, uploadsVars
  <1>2. [][Step]_reconcileVars <=> SuspensionConfirmed
    BY DEF SuspensionConfirmed
  <1> HIDE DEF Step
  <1>. QED BY <1>1, <1>2, UploadsInv, PTL DEF UploadsSpec
=============================================================================
