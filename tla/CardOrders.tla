----------------------------- MODULE CardOrders -----------------------------
(***************************************************************************)
(* The card path of the payment service: the order book in D1              *)
(* (workers/payment-service/src/card-orders.ts), the provider events       *)
(* applied to it (card-events.ts) and the single operator that sends       *)
(* issue_card_ticket and void_card_ticket to Market V2                     *)
(* (card-operator.ts, card-operator-object.ts).                            *)
(*                                                                         *)
(* Webhook deliveries, the buyer's signing request and the operator run    *)
(* concurrently.  Every database statement and every remote call is a step *)
(* of its own: what one of them read may be stale when it writes.  A       *)
(* delivery may fail and be repeated, the operator may die anywhere, a     *)
(* transaction may land at any time after it was sent, or never.           *)
(* The provider sends events of orders this service opened only.           *)
(***************************************************************************)
EXTENDS Naturals, Sequences, FiniteSets

CONSTANTS
  Orders,       \* card orders; each has a ticket key and a payment reference of its own
  Kinds,        \* the kinds of provider event a run delivers
  Handlers,     \* concurrent webhook invocations
  MaxAttempts,  \* MAX_SEND_ATTEMPTS
  SignatureTtl, \* MAX_DEVICE_SIGNATURE_TTL_MS, in ticks
  ExpiryMargin, \* DEVICE_EXPIRY_MARGIN_MS, in ticks
  MaxNow,       \* bound on the clock
  MaxTx,        \* bound on the transactions signed
  MaxRefusals,  \* bound on the calls the Market refuses for reasons of its own
  MaxFaults     \* bound on failed deliveries, failed RPC calls and operator deaths

ASSUME CardOrdersAssumption ==
  /\ Kinds \subseteq {"purchase", "mispriced", "refund", "chargeback_lost", "chargeback_opened"}
  /\ MaxAttempts \in Nat \ {0} /\ SignatureTtl \in Nat \ {0} /\ ExpiryMargin \in Nat
  /\ MaxNow \in Nat \ {0} /\ MaxTx \in Nat /\ MaxRefusals \in Nat /\ MaxFaults \in Nat

VARIABLES
  card_orders,  \* the table card_orders: one row per order
  card_events,  \* the table card_events: the recorded outcome of each event, or "none"
  card_ledger,  \* the table card_ledger: the events with a money row
  handlers,     \* what each webhook invocation is about to do
  signer,       \* the signCardOrder request under way
  operator,     \* the CardOperator alarm under way
  txs,          \* the transactions signed so far, by hash
  tickets,      \* get_ticket of each order's ticket id, in final state
  now,          \* the clock
  refusals,     \* refusals so far
  faults        \* faults so far

vars == <<card_orders, card_events, card_ledger, handlers, signer, operator, txs, tickets, now, refusals, faults>>
-----------------------------------------------------------------------------
None == 0
Hashes == 1..MaxTx
Status == {"absent", "created", "awaiting_payment", "paid", "issued", "void_pending", "voided", "cancelled"}
LastError == {"none", "device_signature_missing", "device_signature_expired", "ticket_conflict", "send_failed",
              "outcome_unknown", "ticket_not_voidable", "rpc_unavailable", "reserve_exhausted"}

\* The columns of card_orders that some step reads again.
\* A device binding is known by the time its signature expires; None: not signed.
Row == [status : Status, expires : 0..(MaxNow + SignatureTtl), pending : 0..MaxTx, issue_tx : 0..MaxTx,
        attempts : 0..MaxAttempts, last_error : LastError]
NoRow == [status |-> "absent", expires |-> None, pending |-> None, issue_tx |-> None,
          attempts |-> 0, last_error |-> "none"]

Event == [kind : Kinds, order : Orders]
Outcome == {"applied", "recorded", "amount_mismatch", "order_not_open", "already_closed"}

\* A transaction: signed (never handed to a node yet), sent, or executed with an outcome.
Tx == [kind : {"issue", "void"}, order : Orders, expires : 0..(MaxNow + SignatureTtl),
       state : {"signed", "sent", "success", "failure", "reserve_exhausted"}]
failed(outcome) == outcome \in {"failure", "reserve_exhausted"}
Executed(tx) == tx.state \notin {"signed", "sent"}

\* A ticket under the order's ticket id: none, the order's own (live or voided) or one of another payment.
TicketState == {"none", "live", "voided", "other"}
ours(ticket) == ticket \in {"live", "voided"}

Idle == [step |-> "idle"]
NoBatch == [step |-> "idle", batch |-> {}]
-----------------------------------------------------------------------------
Init ==
  /\ card_orders = [o \in Orders |-> NoRow]
  /\ card_events = [e \in Event |-> "none"]
  /\ card_ledger = {}
  /\ handlers = [h \in Handlers |-> Idle]
  /\ signer = Idle
  /\ operator = NoBatch
  /\ txs = << >>
  /\ tickets = [o \in Orders |-> "none"]
  /\ now = 1 /\ refusals = 0 /\ faults = 0

Opened(o) == card_orders[o].status # "absent"
-----------------------------------------------------------------------------
(* The buyer: POST /v1/card-orders and POST /v1/card-orders/<id>/device. *)

\* The ticket id must be unused on chain and by any other order (the unique index);
\* reading the price and opening the provider order leave no state behind.
createCardOrder(o) ==
  /\ ~Opened(o) /\ tickets[o] = "none"
  /\ card_orders' = [card_orders EXCEPT ![o].status = "created"]
  /\ UNCHANGED <<card_events, card_ledger, handlers, signer, operator, txs, tickets, now, refusals, faults>>

signable(row) == row.status \in {"created", "awaiting_payment", "paid"} /\ row.pending = None

signCardOrder_read(o) ==
  /\ signer = Idle /\ Opened(o) /\ signable(card_orders[o])
  /\ \E expires \in (now + 1)..(now + SignatureTtl) :
       signer' = [step |-> "store", order |-> o, status |-> card_orders[o].status, expires |-> expires]
  /\ UNCHANGED <<card_orders, card_events, card_ledger, handlers, operator, txs, tickets, now, refusals, faults>>

\* Mutant: the status read is not part of the update.
sign_unconditional(row, read) == row.pending = None
sign_applies(row, read) == row.status = read /\ row.pending = None

signCardOrder_store ==
  /\ signer.step = "store"
  /\ LET o == signer.order
         row == card_orders[o]
     IN card_orders' = IF sign_applies(row, signer.status)
                       THEN [card_orders EXCEPT ![o] = [row EXCEPT
                               !.status = IF signer.status = "created" THEN "awaiting_payment" ELSE signer.status,
                               !.expires = signer.expires, !.last_error = "none"]]
                       ELSE card_orders
  /\ signer' = Idle
  /\ UNCHANGED <<card_events, card_ledger, handlers, operator, txs, tickets, now, refusals, faults>>
-----------------------------------------------------------------------------
(* Provider events: handleCardWebhook and POST /internal/card-events. *)

UnchangedByEvents == UNCHANGED <<signer, operator, txs, tickets, now, refusals>>
Goto(h, state) == handlers' = [handlers EXCEPT ![h] = state]

\* An event that is already recorded is a duplicate and changes nothing.
applyCardEvent(h, e) ==
  /\ handlers[h] = Idle /\ Opened(e.order) /\ card_events[e] = "none"
  /\ Goto(h, [step |-> "read", event |-> e])
  /\ UNCHANGED <<card_orders, card_events, card_ledger, faults>> /\ UnchangedByEvents

\* A mispriced event is a purchase for another amount or currency than the order's.
is_purchase(e) == e.kind \in {"purchase", "mispriced"}
\* Mutant: any purchase pays for the order.
amount_unchecked(e) == TRUE
amount_matches(e) == e.kind # "mispriced"
Recording(e, outcome) == [step |-> "record", event |-> e, outcome |-> outcome]

read_order(h) ==
  /\ handlers[h].step = "read"
  /\ LET e == handlers[h].event
         row == card_orders[e.order]
     IN Goto(h, CASE ~amount_matches(e) -> Recording(e, "amount_mismatch")
                  [] e.kind = "chargeback_opened" -> Recording(e, "recorded")
                  [] OTHER -> [step |-> "ledger", event |-> e, status |-> row.status, pending |-> row.pending])
  /\ UNCHANGED <<card_orders, card_events, card_ledger, faults>> /\ UnchangedByEvents

\* close: an order that looked unsent is cancelled; one that did not, or is sent by now, is to be voided.
looks_unsent(read) == read.status \in {"created", "awaiting_payment"} \/ (read.status = "paid" /\ read.pending = None)

ledger(h) ==
  /\ handlers[h].step = "ledger"
  /\ card_ledger' = card_ledger \union {handlers[h].event}
  /\ Goto(h, [handlers[h] EXCEPT !.step = IF is_purchase(handlers[h].event) THEN "pay"
                                          ELSE IF looks_unsent(handlers[h]) THEN "cancel" ELSE "void"])
  /\ UNCHANGED <<card_orders, card_events, faults>> /\ UnchangedByEvents

payable(row) == row.status \in {"created", "awaiting_payment"}

transition_paid(h) ==
  /\ handlers[h].step = "pay"
  /\ LET e == handlers[h].event
         row == card_orders[e.order]
     IN /\ card_orders' = IF payable(row) THEN [card_orders EXCEPT ![e.order].status = "paid"] ELSE card_orders
        /\ Goto(h, Recording(e, IF payable(row) THEN "applied" ELSE "order_not_open"))
  /\ UNCHANGED <<card_events, card_ledger, faults>> /\ UnchangedByEvents

\* Mutant: a send stored since the read is not noticed.
cancellable_by_status(row, read) == row.status = read.status
cancellable(row, read) == row.status = read.status /\ row.pending = None

close_cancel(h) ==
  /\ handlers[h].step = "cancel"
  /\ LET e == handlers[h].event
         ok == cancellable(card_orders[e.order], handlers[h])
     IN /\ card_orders' = IF ok THEN [card_orders EXCEPT ![e.order].status = "cancelled"] ELSE card_orders
        /\ Goto(h, IF ok THEN Recording(e, "applied") ELSE [handlers[h] EXCEPT !.step = "void"])
  /\ UNCHANGED <<card_events, card_ledger, faults>> /\ UnchangedByEvents

to_void(row) == row.status \in {"paid", "issued"}

close_void(h) ==
  /\ handlers[h].step = "void"
  /\ LET e == handlers[h].event
         row == card_orders[e.order]
     IN /\ card_orders' = IF to_void(row)
                          THEN [card_orders EXCEPT ![e.order] = [row EXCEPT !.status = "void_pending", !.attempts = 0, !.last_error = "none"]]
                          ELSE card_orders
        /\ Goto(h, Recording(e, IF to_void(row) THEN "applied" ELSE "already_closed"))
  /\ UNCHANGED <<card_events, card_ledger, faults>> /\ UnchangedByEvents

\* INSERT OR IGNORE: the first of two concurrent deliveries names the outcome.
record_event(h) ==
  /\ handlers[h].step = "record"
  /\ card_events' = [card_events EXCEPT ![handlers[h].event] = IF @ = "none" THEN handlers[h].outcome ELSE @]
  /\ Goto(h, Idle)
  /\ UNCHANGED <<card_orders, card_ledger, faults>> /\ UnchangedByEvents

\* A storage failure answers 500 and the provider delivers the event again.
delivery_fails(h) ==
  /\ handlers[h] # Idle /\ faults < MaxFaults
  /\ faults' = faults + 1
  /\ Goto(h, Idle)
  /\ UNCHANGED <<card_orders, card_events, card_ledger>> /\ UnchangedByEvents
-----------------------------------------------------------------------------
(* The operator: one alarm at a time, one order at a time. *)

UnchangedByOperator == UNCHANGED <<card_events, card_ledger, handlers, signer, now, refusals>>
\* UPDATE ... WHERE order_id = ? AND status = <the status read>.
\* Mutant: the update does not ask for the status read.
applies_always(read) == TRUE
applies(read) == card_orders[read.order].status = read.row.status
update(read, new) == card_orders' = IF applies(read) THEN [card_orders EXCEPT ![read.order] = new] ELSE card_orders

due(row) == row.status \in {"paid", "void_pending"} /\ row.attempts < MaxAttempts

runCardOperator ==
  /\ operator = NoBatch
  /\ \E o \in Orders : Opened(o) /\ due(card_orders[o])
  /\ operator' = [step |-> "idle", batch |-> {[order |-> o, row |-> card_orders[o]] : o \in {x \in Orders : Opened(x) /\ due(card_orders[x])}}]
  /\ UNCHANGED <<card_orders, txs, tickets, faults>> /\ UnchangedByOperator

Working(step) == operator.step = step
Job == operator.job
Current == card_orders[Job.order]
NextOrder == operator' = [step |-> "idle", batch |-> operator.batch]
Continue(step) == operator' = [operator EXCEPT !.step = step]

\* issue and voidTicket begin by reading the ticket.
readTicket ==
  /\ Working("idle")
  /\ \E job \in operator.batch :
       operator' = [step |-> job.row.status, job |-> job, before |-> tickets[job.order], batch |-> operator.batch \ {job}]
  /\ UNCHANGED <<card_orders, txs, tickets, faults>> /\ UnchangedByOperator

issue_found ==
  /\ Working("paid") /\ operator.before # "none"
  /\ update(Job, IF ours(operator.before)
                 THEN [Current EXCEPT !.status = "issued", !.issue_tx = Job.row.pending, !.pending = None, !.last_error = "none"]
                 ELSE [Current EXCEPT !.last_error = "ticket_conflict", !.attempts = MaxAttempts])
  /\ NextOrder
  /\ UNCHANGED <<txs, tickets, faults>> /\ UnchangedByOperator

\* What txStatus may answer: an executed transaction's outcome; always also that nothing is known.
tx_status(hash) == {"unknown"} \union {txs[h].state : h \in {x \in DOMAIN txs : x = hash /\ Executed(txs[x])}}
\* Mutant: an unknown outcome is taken for a failure.
resend_unless_done(status) == status # "success"
\* Mutant: a reserve refusal is not a failure.
resend_after_failure(status) == status = "failure"
may_resend(status) == failed(status)

Unsettled == Working("paid") /\ operator.before = "none" /\ Job.row.pending # None

issue_wait ==
  /\ Unsettled /\ \E status \in tx_status(Job.row.pending) : ~may_resend(status)
  /\ update(Job, [Current EXCEPT !.last_error = "outcome_unknown"])
  /\ NextOrder
  /\ UNCHANGED <<txs, tickets, faults>> /\ UnchangedByOperator

issue_clear ==
  /\ Unsettled /\ \E status \in tx_status(Job.row.pending) : may_resend(status)
  /\ update(Job, [Current EXCEPT !.pending = None])
  /\ IF applies(Job) THEN operator' = [operator EXCEPT !.job.row.pending = None] ELSE NextOrder
  /\ UNCHANGED <<txs, tickets, faults>> /\ UnchangedByOperator

binding_fault(row) ==
  IF row.expires = None THEN "device_signature_missing"
  ELSE IF row.expires <= now + ExpiryMargin THEN "device_signature_expired" ELSE "none"

issue_unsigned ==
  /\ Working("paid") /\ operator.before = "none" /\ Job.row.pending = None
  /\ binding_fault(Job.row) # "none"
  /\ update(Job, [Current EXCEPT !.last_error = binding_fault(Job.row)])
  /\ NextOrder
  /\ UNCHANGED <<txs, tickets, faults>> /\ UnchangedByOperator

\* The hash is stored before the transaction is sent; if the order moved on nothing is sent.
store_hash(kind) ==
  /\ Len(txs) < MaxTx
  /\ update(Job, [Current EXCEPT !.pending = Len(txs) + 1, !.attempts = Job.row.attempts + 1])
  /\ IF applies(Job)
     THEN /\ txs' = Append(txs, [kind |-> kind, order |-> Job.order, expires |-> Job.row.expires, state |-> "signed"])
          /\ Continue("send")
     ELSE NextOrder /\ txs' = txs

issue_sign ==
  /\ Working("paid") /\ operator.before = "none" /\ Job.row.pending = None
  /\ binding_fault(Job.row) = "none"
  /\ store_hash("issue")
  /\ UNCHANGED <<tickets, faults>> /\ UnchangedByOperator

\* With no ticket and no issue that may still land there is nothing to void.
\* Mutant: the status of a stored transaction is not asked for.
nothing_was_sent(row) == row.pending = None
nothing_can_land(row) == row.pending = None \/ \E status \in tx_status(row.pending) : failed(status)
Unissued == Working("void_pending") /\ operator.before = "none" /\ Job.row.issue_tx = None

void_cancel ==
  /\ Unissued /\ nothing_can_land(Job.row)
  /\ update(Job, [Current EXCEPT !.status = "cancelled", !.pending = None, !.last_error = "none"])
  /\ NextOrder
  /\ UNCHANGED <<txs, tickets, faults>> /\ UnchangedByOperator

void_wait ==
  /\ Unissued /\ Job.row.pending # None
  /\ update(Job, [Current EXCEPT !.last_error = "outcome_unknown"])
  /\ NextOrder
  /\ UNCHANGED <<txs, tickets, faults>> /\ UnchangedByOperator

void_found ==
  /\ Working("void_pending") /\ operator.before = "voided"
  /\ update(Job, [Current EXCEPT !.status = "voided", !.pending = None, !.last_error = "none"])
  /\ NextOrder
  /\ UNCHANGED <<txs, tickets, faults>> /\ UnchangedByOperator

void_refused ==
  /\ Working("void_pending")
  /\ ~ours(operator.before) /\ (operator.before = "none" => Job.row.issue_tx # None)
  /\ update(Job, [Current EXCEPT !.last_error = "ticket_not_voidable", !.attempts = MaxAttempts])
  /\ NextOrder
  /\ UNCHANGED <<txs, tickets, faults>> /\ UnchangedByOperator

void_sign ==
  /\ Working("void_pending") /\ operator.before = "live"
  /\ store_hash("void")
  /\ UNCHANGED <<tickets, faults>> /\ UnchangedByOperator

Hash == Len(txs)  \* the transaction under way is the last one signed

send ==
  /\ Working("send")
  /\ txs' = [txs EXCEPT ![Hash].state = "sent"]
  /\ Continue("sent")
  /\ UNCHANGED <<card_orders, tickets, faults>> /\ UnchangedByOperator

\* The send returned (with the outcome, or not knowing it) and the ticket is read once more.
issue_finish ==
  /\ Working("sent") /\ Job.row.status = "paid"
  /\ \E outcome \in tx_status(Hash) :
       update(Job,
         CASE ours(tickets[Job.order]) ->
                [Current EXCEPT !.status = "issued", !.issue_tx = Hash, !.pending = None, !.last_error = "none"]
           [] ~ours(tickets[Job.order]) /\ outcome = "unknown" ->
                [Current EXCEPT !.last_error = "outcome_unknown"]
           [] ~ours(tickets[Job.order]) /\ outcome = "reserve_exhausted" ->
                [Current EXCEPT !.last_error = "reserve_exhausted", !.pending = None, !.attempts = Job.row.attempts]
           [] OTHER -> [Current EXCEPT !.last_error = "send_failed", !.pending = None])
  /\ NextOrder
  /\ UNCHANGED <<txs, tickets, faults>> /\ UnchangedByOperator

void_finish ==
  /\ Working("sent") /\ Job.row.status = "void_pending"
  /\ \E outcome \in tx_status(Hash) :
       update(Job,
         IF tickets[Job.order] = "voided"
         THEN [Current EXCEPT !.status = "voided", !.pending = None, !.last_error = "none"]
         ELSE [Current EXCEPT !.last_error = IF outcome = "unknown" THEN "outcome_unknown" ELSE "send_failed"])
  /\ NextOrder
  /\ UNCHANGED <<txs, tickets, faults>> /\ UnchangedByOperator

\* A view call threw: the order keeps its state and the next one is worked on.
rpc_unavailable ==
  /\ operator.step \in {"paid", "void_pending", "sent"}
  /\ faults < MaxFaults /\ faults' = faults + 1
  /\ update(Job, [Current EXCEPT !.last_error = "rpc_unavailable"])
  /\ NextOrder
  /\ UNCHANGED <<txs, tickets>> /\ UnchangedByOperator

\* The Durable Object is evicted or its alarm is cut off; the next alarm starts over.
operator_dies ==
  /\ operator # NoBatch /\ faults < MaxFaults
  /\ faults' = faults + 1
  /\ operator' = NoBatch
  /\ UNCHANGED <<card_orders, txs, tickets>> /\ UnchangedByOperator
-----------------------------------------------------------------------------
(* NEAR and Market V2, as far as this service sees them. *)

UnchangedByChain == UNCHANGED <<card_orders, card_events, card_ledger, handlers, signer, operator>>

\* issue_card_ticket and void_card_ticket fail on these; any other refusal (a purchase pause,
\* a publication off sale, no reserve headroom) is the Market's and counted in refusals.
contract_accepts(tx) ==
  IF tx.kind = "issue" THEN tickets[tx.order] = "none" /\ now < tx.expires ELSE tickets[tx.order] = "live"

executes(hash) ==
  /\ hash \in DOMAIN txs /\ txs[hash].state = "sent"
  /\ \E outcome \in {"success", "failure", "reserve_exhausted"} :
       /\ outcome = "success" => contract_accepts(txs[hash])
       /\ outcome = "reserve_exhausted" => contract_accepts(txs[hash]) /\ txs[hash].kind = "issue"
       /\ IF outcome # "success" /\ contract_accepts(txs[hash])
          THEN refusals < MaxRefusals /\ refusals' = refusals + 1
          ELSE refusals' = refusals
       /\ txs' = [txs EXCEPT ![hash].state = outcome]
       /\ tickets' = IF outcome = "success"
                     THEN [tickets EXCEPT ![txs[hash].order] = IF txs[hash].kind = "issue" THEN "live" ELSE "voided"]
                     ELSE tickets
  /\ UNCHANGED <<now, faults>> /\ UnchangedByChain

\* The ticket key is used for a purchase on another rail.
other_purchase(o) ==
  /\ tickets[o] = "none" /\ refusals < MaxRefusals /\ refusals' = refusals + 1
  /\ tickets' = [tickets EXCEPT ![o] = "other"]
  /\ UNCHANGED <<txs, now, faults>> /\ UnchangedByChain

Tick ==
  /\ now < MaxNow /\ now' = now + 1
  /\ UNCHANGED <<txs, tickets, refusals, faults>> /\ UnchangedByChain
-----------------------------------------------------------------------------
Processing(h) ==
  \/ read_order(h) \/ ledger(h) \/ transition_paid(h)
  \/ close_cancel(h) \/ close_void(h) \/ record_event(h)

Webhook(h) ==
  \/ \E e \in Event : applyCardEvent(h, e)
  \/ Processing(h) \/ delivery_fails(h)

OperatorStep ==
  \/ runCardOperator \/ readTicket
  \/ issue_found \/ issue_wait \/ issue_clear \/ issue_unsigned \/ issue_sign \/ issue_finish
  \/ void_cancel \/ void_wait \/ void_found \/ void_refused \/ void_sign \/ void_finish
  \/ send

Operator == OperatorStep \/ rpc_unavailable \/ operator_dies

Chain ==
  \/ \E hash \in Hashes : executes(hash)
  \/ \E o \in Orders : other_purchase(o)
  \/ Tick

Next ==
  \/ \E o \in Orders : createCardOrder(o) \/ signCardOrder_read(o)
  \/ signCardOrder_store
  \/ \E h \in Handlers : Webhook(h)
  \/ Operator
  \/ Chain

Spec == Init /\ [][Next]_vars

\* The cron wakes the operator every five minutes, an invocation that does not fail runs to its
\* end, a transaction handed to a node is executed, and a node that is asked again and again for
\* the outcome of an executed transaction tells it some time.
Fairness ==
  /\ \A h \in Handlers : WF_vars(Processing(h))
  /\ WF_vars(OperatorStep)
  /\ SF_vars(issue_clear) /\ SF_vars(void_cancel)
  /\ \A hash \in Hashes : WF_vars(executes(hash))

FairSpec == Spec /\ Fairness
-----------------------------------------------------------------------------
HandlerState ==
  {Idle}
    \union [step : {"read"}, event : Event]
    \union [step : {"ledger", "pay", "cancel", "void"}, event : Event, status : Status, pending : 0..MaxTx]
    \union [step : {"record"}, event : Event, outcome : Outcome]
JobOf == [order : Orders, row : Row]

\* Every table row, every step under way and every transaction has the shape the code gives it; no
\* order is worked on beyond its last attempt.
TypeOK ==
  /\ card_orders \in [Orders -> Row]
  /\ card_events \in [Event -> Outcome \union {"none"}]
  /\ card_ledger \subseteq Event
  /\ \A h \in Handlers : handlers[h] \in HandlerState
  /\ signer \in {Idle} \union [step : {"store"}, order : Orders, status : Status, expires : 1..(MaxNow + SignatureTtl)]
  /\ operator.step = "idle" \/ operator.job \in JobOf
  /\ operator.batch \subseteq JobOf
  /\ txs \in Seq(Tx) /\ Len(txs) <= MaxTx
  /\ tickets \in [Orders -> TicketState]
  /\ now \in 1..MaxNow /\ refusals \in 0..MaxRefusals /\ faults \in 0..MaxFaults

\* What a closed order says is true on chain, and stays true whatever was in flight when it was
\* closed: an issued order has a live ticket, a voided one a voided ticket, and no ticket of a
\* cancelled order is or becomes live (close and voidTicket against a send under way).
StatusMatchesChain == \A o \in Orders :
  /\ card_orders[o].status = "issued" => tickets[o] = "live"
  /\ card_orders[o].status = "voided" => tickets[o] = "voided"
  /\ card_orders[o].status = "cancelled" => tickets[o] # "live"

\* A ticket is issued only against a purchase event for the order's own amount, and the sale is in
\* the ledger before the ticket is on chain (applyCardEvent's amount check and its ledger row).
PaidForTicket == \A o \in Orders :
  ours(tickets[o]) => \E e \in card_ledger : e.order = o /\ e.kind = "purchase"

\* The order book is well typed and every ticket the operator issued was paid for.
CardSafe == TypeOK /\ PaidForTicket

\* An issue whose outcome is not known to be a failure is never sent a second time (issue's use of
\* the stored hash and of txStatus), whatever dies between storing, sending and reading.
NoBlindResend == \A o \in Orders :
  Cardinality({hash \in DOMAIN txs : txs[hash].order = o /\ txs[hash].kind = "issue" /\ ~failed(txs[hash].state)}) <= 1

\* Once a refund or a lost chargeback was applied the order stays closed: no later or stale write of
\* the operator, the buyer or another delivery opens it again (the conditional updates).
AppliedRefundCloses == \A e \in Event :
  (e.kind \in {"refund", "chargeback_lost"} /\ card_events[e] = "applied")
     => card_orders[e.order].status \in {"void_pending", "voided", "cancelled"}

Rank == [absent |-> 0, created |-> 1, awaiting_payment |-> 2, paid |-> 3, issued |-> 4, void_pending |-> 5, voided |-> 6, cancelled |-> 6]
Closed == {"voided", "cancelled"}

\* A redelivered or reordered event, a stale signature request or a stale operator write never moves
\* an order backwards, and a voided or cancelled order is final.
NeverBackwards == [][\A o \in Orders :
  /\ Rank[card_orders'[o].status] >= Rank[card_orders[o].status]
  /\ card_orders[o].status \in Closed => card_orders'[o].status = card_orders[o].status]_vars

\* A refund or lost chargeback cancels an order before any send and turns an issued or in-flight one
\* into void_pending: every one that close has dealt with and applyCardEvent recorded does.
RefundCloses == \A e \in Event :
  (e.kind \in {"refund", "chargeback_lost"} /\ card_events[e] # "none")
     => card_orders[e.order].status \in {"void_pending", "voided", "cancelled"}

Pending(o, hash) == card_orders[o].pending = hash /\ hash \in DOMAIN txs

\* While an order may still be worked on, the hash of an executed transaction does not stay on it:
\* the ticket or the transaction's status settles what was unknown.
UnknownSettles == \A o \in Orders : \A hash \in Hashes :
  (Pending(o, hash) /\ Executed(txs[hash]) /\ due(card_orders[o])) ~> ~Pending(o, hash) \/ ~due(card_orders[o])

\* An order to be voided is voided or cancelled, unless its sends are used up.
VoidsComplete == \A o \in Orders :
  (card_orders[o].status = "void_pending") ~> (card_orders[o].status \in Closed \/ card_orders[o].attempts = MaxAttempts)
=============================================================================
