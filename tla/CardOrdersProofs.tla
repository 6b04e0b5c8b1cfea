-------------------------- MODULE CardOrdersProofs --------------------------
(***************************************************************************)
(* CardInv is inductive.  The operator works with rows, tickets and        *)
(* outcomes it read earlier; what makes its writes safe is that nobody     *)
(* else stores or clears a hash (BatchInv, JobInv), that an order which    *)
(* may still be issued holds the hash of its only live issue (RowInv), and *)
(* that the chain never takes a ticket of the order's own back (ChainInv). *)
(* PaidInv and CloseInv say what a delivery under way has already done.    *)
(***************************************************************************)
EXTENDS CardOrders, FiniteSetTheorems, TLAPS

\* The shape of the operator: between two orders, or at a step of one of them.
OperatorState ==
  [step : {"idle"}, batch : SUBSET JobOf]
    \union [step : {"paid", "void_pending", "send", "sent"}, job : JobOf, before : TicketState, batch : SUBSET JobOf]

\* The types, with the domains that make them useful: TypeOK leaves the operator's shape open.
CardTypes ==
  /\ TypeOK
  /\ handlers \in [Handlers -> HandlerState]
  /\ operator \in OperatorState

\* An order in one of these states is closed to issuing.
Late == {"void_pending", "voided", "cancelled"}

\* The issues of an order that may still become, or are, a ticket.
LiveIssues(o) ==
  {hash \in DOMAIN txs : txs[hash].order = o /\ txs[hash].kind = "issue" /\ ~failed(txs[hash].state)}

\* What of a row read at the start of the run is still in the table: only the operator stores or
\* clears a hash, and only it ends a void.
Fresh(job) ==
  /\ job.row.pending = card_orders[job.order].pending
  /\ job.row.issue_tx = card_orders[job.order].issue_tx
  /\ job.row.status = "void_pending" => card_orders[job.order].status = "void_pending"
Workable(job) == job.row.status \in {"paid", "void_pending"} /\ job.row.attempts < MaxAttempts

\* The rows the operator read are stale, but nobody else stores a hash.
BatchInv ==
  /\ \A job, other \in operator.batch : job.order = other.order => job = other
  /\ \A job \in operator.batch : Workable(job) /\ Fresh(job)

\* A job under way is worked on in the state it was read in, its transaction is the last one signed,
\* and what the ticket was when it was read can only have moved forward.
KindOf(status) == IF status = "paid" THEN "issue" ELSE "void"
JobInv ==
  operator.step # "idle" =>
    /\ Workable(Job)
    /\ \A other \in operator.batch : other.order # Job.order
    /\ operator.step \in {"paid", "void_pending"} => operator.step = Job.row.status /\ Fresh(Job)
    /\ operator.step \in {"send", "sent"} =>
         /\ Len(txs) > 0 /\ Current.pending = Len(txs)
         /\ txs[Len(txs)].order = Job.order /\ txs[Len(txs)].kind = KindOf(Job.row.status)
         /\ operator.step = "send" => txs[Len(txs)].state = "signed"
    /\ operator.before = "live" => ours(tickets[Job.order])
    /\ operator.before = "voided" => tickets[Job.order] = "voided"
    /\ operator.step = "void_pending" /\ operator.before = "none" =>
         \A hash \in LiveIssues(Job.order) : Current.pending = hash \/ Current.issue_tx # None

\* What a row may say, given the transactions and the ticket of its order.
RowGood(o, row) ==
  /\ row.status \in {"absent", "created", "awaiting_payment"} => row.pending = None
  /\ row.status = "issued" => row.issue_tx # None
  /\ row.status \in {"absent", "created", "awaiting_payment", "paid"} => LiveIssues(o) \subseteq {row.pending}
  /\ row.status = "void_pending" =>
       \A hash \in LiveIssues(o) : row.pending = hash \/ row.issue_tx # None \/ ours(tickets[o])
  /\ row.status = "cancelled" => LiveIssues(o) = {}
RowInv == \A o \in Orders : RowGood(o, card_orders[o])

\* The chain: a ticket of the order's own was issued by a live issue, and only an order to be
\* voided has a void.
ChainInv ==
  /\ \A o \in Orders : ours(tickets[o]) => \E hash \in LiveIssues(o) : txs[hash].state = "success"
  /\ \A o \in Orders : tickets[o] = "voided" => card_orders[o].status \in Late
  /\ \A hash \in DOMAIN txs :
       /\ txs[hash].kind = "void" => card_orders[txs[hash].order].status \in Late
       /\ txs[hash].kind = "issue" /\ txs[hash].state = "success" => ours(tickets[txs[hash].order])
  /\ \A o \in Orders : \A x, y \in LiveIssues(o) : x = y

\* Only a purchase for the right amount pays, and its money row comes first.
Paid(o) == \E e \in card_ledger : e.order = o /\ e.kind = "purchase"
PaidInv ==
  /\ \A h \in Handlers : handlers[h].step = "pay" => handlers[h].event.kind = "purchase" /\ handlers[h].event \in card_ledger
  /\ \A h \in Handlers : handlers[h].step = "ledger" => handlers[h].event.kind \in {"purchase", "refund", "chargeback_lost"}
  /\ \A o \in Orders : card_orders[o].status = "paid" => Paid(o)
  /\ \A hash \in DOMAIN txs : txs[hash].kind = "issue" => Paid(txs[hash].order)

\* A delivery that says it closed the order has.
Closes(e) == e.kind \in {"refund", "chargeback_lost"}
CloseInv ==
  /\ \A h \in Handlers :
       /\ handlers[h].step = "cancel" => looks_unsent(handlers[h])
       /\ handlers[h].step = "pay" => ~Closes(handlers[h].event)
       /\ handlers[h].step = "record" /\ handlers[h].outcome = "applied" /\ Closes(handlers[h].event)
            => card_orders[handlers[h].event.order].status \in Late
  /\ signer.step = "store" => signer.status \in {"created", "awaiting_payment", "paid"}

CardInv ==
  /\ CardTypes /\ BatchInv /\ JobInv /\ RowInv /\ ChainInv /\ PaidInv /\ CloseInv
  /\ StatusMatchesChain /\ AppliedRefundCloses
-----------------------------------------------------------------------------
\* The initial state satisfies every part.
LEMMA InitCard == Init => CardInv
<1> SUFFICES ASSUME Init PROVE CardInv
  OBVIOUS
<1> USE CardOrdersAssumption DEF Init, None, Idle, NoBatch, NoRow
<1>1. CardTypes
  BY DEF CardTypes, TypeOK, Row, HandlerState, OperatorState, Status, LastError, TicketState, Tx
<1>2. BatchInv /\ JobInv
  BY DEF BatchInv, JobInv
<1>3. \A o \in Orders : LiveIssues(o) = {}
  BY DEF LiveIssues
<1>4. RowInv /\ ChainInv /\ StatusMatchesChain
  BY <1>3 DEF RowInv, RowGood, ChainInv, StatusMatchesChain, ours, Late
<1>5. PaidInv /\ CloseInv /\ AppliedRefundCloses
  BY DEF PaidInv, CloseInv, AppliedRefundCloses
<1>. QED  BY <1>1, <1>2, <1>4, <1>5 DEF CardInv

\* An order never goes backwards, and a voided or cancelled one is final.
Forward(old, new) == Rank[new] >= Rank[old] /\ (old \in Closed => new = old)
Advances == \A o \in Orders : Forward(card_orders[o].status, card_orders'[o].status)

\* The status changes that go forward.
LEMMA ForwardMoves ==
  ASSUME NEW old \in Status, NEW new \in Status,
         \/ new = old
         \/ old = "absent" /\ new = "created"
         \/ old = "created" /\ new = "awaiting_payment"
         \/ old \in {"created", "awaiting_payment"} /\ new = "paid"
         \/ old \in {"created", "awaiting_payment", "paid"} /\ new = "cancelled"
         \/ old \in {"paid", "issued"} /\ new = "void_pending"
         \/ old = "paid" /\ new = "issued"
         \/ old = "void_pending" /\ new \in {"voided", "cancelled"}
  PROVE  Forward(old, new)
  BY DEF Forward, Rank, Closed, Status

\* The status of a row.
LEMMA StatusType ==
  ASSUME CardTypes
  PROVE  \A o \in Orders : card_orders[o].status \in Status
  BY DEF CardTypes, TypeOK, Row

\* A step that changes no status goes nowhere.
LEMMA SameStatus ==
  ASSUME CardTypes, \A o \in Orders : card_orders'[o].status = card_orders[o].status
  PROVE  Advances
  BY ForwardMoves, StatusType DEF Advances

\* What an event, a buyer or the clock may do to the rows: never to a hash, and to a status only this.
Moves(row, new, ticket) ==
  /\ new.pending = row.pending /\ new.issue_tx = row.issue_tx
  /\ \/ new.status = row.status
     \/ row.status = "absent" /\ new.status = "created"
     \/ row.status = "created" /\ new.status = "awaiting_payment"
     \/ row.status \in {"created", "awaiting_payment"} /\ new.status = "paid"
     \/ row.status \in {"created", "awaiting_payment", "paid"} /\ row.pending = None /\ new.status = "cancelled"
     \/ row.status \in {"paid", "issued"} /\ new.status = "void_pending"
RowsMove ==
  /\ UNCHANGED <<operator, txs, tickets>>
  /\ \A o \in Orders : Moves(card_orders[o], card_orders'[o], tickets[o])

\* The hash of a live issue is a position in the list of transactions, never None.
LEMMA LiveIssuesType == ASSUME CardTypes, NEW o \in Orders
                        PROVE  LiveIssues(o) \subseteq 1..Len(txs) /\ None \notin LiveIssues(o)
  BY DEF CardTypes, TypeOK, LiveIssues, None

\* The transactions, one by one.
LEMMA TxType ==
  ASSUME CardTypes
  PROVE  /\ txs \in Seq(Tx) /\ Len(txs) \in Nat /\ DOMAIN txs = 1..Len(txs)
         /\ \A hash \in DOMAIN txs : txs[hash] \in Tx /\ txs[hash].order \in Orders
<1>1. txs \in Seq(Tx)
  BY DEF CardTypes, TypeOK
<1>2. \A hash \in DOMAIN txs : txs[hash] \in Tx
  BY <1>1
<1>3. \A tx \in Tx : tx.order \in Orders
  BY DEF Tx
<1>. QED  BY <1>1, <1>2, <1>3

\* Moving rows this way keeps every part that speaks of the operator and the chain.
LEMMA RowsMoveKeeps ==
  ASSUME CardInv, RowsMove, CardTypes'
  PROVE  BatchInv' /\ JobInv' /\ RowInv' /\ ChainInv' /\ StatusMatchesChain' /\ Advances
<1> USE DEF CardInv, RowsMove
<1>0. \A o \in Orders : LiveIssues(o)' = LiveIssues(o)
  BY DEF LiveIssues
<1>1. operator.batch \subseteq JobOf
  BY DEF CardTypes, TypeOK
<1>2. BatchInv'
  BY <1>1 DEF BatchInv, Fresh, Workable, JobOf, Moves
<1>3. operator.step # "idle" => Job \in JobOf
  BY DEF CardTypes, TypeOK, Job
<1>4. JobInv'
  BY <1>0, <1>3 DEF JobInv, Fresh, Workable, JobOf, Moves, Job, Current
<1>5. RowInv'
  BY <1>0, LiveIssuesType DEF RowInv, RowGood, Moves
<1>6. ChainInv'
  <2>1. \A o \in Orders : card_orders[o].status \in Late => card_orders'[o].status \in Late
    BY DEF Moves, Late
  <2>. QED  BY <1>0, <2>1, TxType DEF ChainInv
<1>7. StatusMatchesChain'
  BY LiveIssuesType DEF StatusMatchesChain, RowInv, RowGood, ChainInv, Moves, ours
<1>8. Advances
  <2>1. \A o \in Orders : card_orders[o].status \in Status /\ card_orders'[o].status \in Status
    BY StatusType DEF CardTypes, TypeOK, Row
  <2>. QED  BY <2>1, ForwardMoves DEF Advances, Moves
<1>. QED  BY <1>2, <1>4, <1>5, <1>6, <1>7, <1>8
-----------------------------------------------------------------------------
\* Steps that deliver no event.
Unpaid == \A o \in Orders :
  /\ card_orders'[o].status = "paid" => card_orders[o].status = "paid"
  /\ card_orders[o].status \in Late => card_orders'[o].status \in Late

\* A step that delivers no event, pays for nothing and reopens nothing keeps the events' parts.
LEMMA NoDelivery ==
  ASSUME CardInv, Unpaid, UNCHANGED <<handlers, card_events, card_ledger>>,
         signer'.step = "store" => signer'.status \in {"created", "awaiting_payment", "paid"},
         \A hash \in DOMAIN txs' : txs'[hash].kind = "issue" => Paid(txs'[hash].order)
  PROVE  PaidInv' /\ CloseInv' /\ AppliedRefundCloses'
<1> USE DEF CardInv, Unpaid
<1>1. PaidInv'
  BY DEF PaidInv, Paid
<1>2. \A h \in Handlers : handlers[h].step = "record" => handlers[h].event \in Event
  BY DEF CardTypes, TypeOK, HandlerState, Idle
<1>3. CloseInv'
  BY <1>2 DEF CloseInv, looks_unsent, Event
<1>4. AppliedRefundCloses'
  BY DEF AppliedRefundCloses, Event, Late
<1>. QED  BY <1>1, <1>3, <1>4

\* createCardOrder.
LEMMA CreateKeeps == ASSUME CardInv, NEW o \in Orders, createCardOrder(o) PROVE CardInv' /\ Advances
<1> USE DEF CardInv, createCardOrder
<1>1. CardTypes'
  BY DEF CardTypes, TypeOK, Row, Status
<1>2. RowsMove /\ Unpaid
  BY DEF RowsMove, Moves, Unpaid, Opened, Late, CardTypes, TypeOK, Row
<1>3. BatchInv' /\ JobInv' /\ RowInv' /\ ChainInv' /\ StatusMatchesChain' /\ Advances
  BY <1>1, <1>2, RowsMoveKeeps
<1>4. PaidInv' /\ CloseInv' /\ AppliedRefundCloses'
  BY <1>2, NoDelivery DEF CloseInv, PaidInv
<1>. QED  BY <1>1, <1>3, <1>4

\* signCardOrder reads the order.
LEMMA SignReadKeeps == ASSUME CardInv, NEW o \in Orders, signCardOrder_read(o) PROVE CardInv' /\ Advances
<1> USE DEF CardInv, signCardOrder_read
<1>0. card_orders[o] \in Row /\ now \in 1..MaxNow /\ SignatureTtl \in Nat /\ MaxNow \in Nat
  BY CardOrdersAssumption DEF CardTypes, TypeOK
<1>1. CardTypes'
  BY <1>0 DEF CardTypes, TypeOK, Row
<1>2. RowsMove /\ Unpaid
  BY DEF RowsMove, Moves, Unpaid
<1>3. BatchInv' /\ JobInv' /\ RowInv' /\ ChainInv' /\ StatusMatchesChain' /\ Advances
  BY <1>1, <1>2, RowsMoveKeeps
<1>4. PaidInv' /\ CloseInv' /\ AppliedRefundCloses'
  BY <1>2, NoDelivery DEF PaidInv, signable
<1>. QED  BY <1>1, <1>3, <1>4

\* signCardOrder stores the signature it made for the order it read.
LEMMA SignStoreKeeps == ASSUME CardInv, signCardOrder_store PROVE CardInv' /\ Advances
<1> USE DEF CardInv, signCardOrder_store
<1>0. signer.order \in Orders /\ signer.expires \in 1..(MaxNow + SignatureTtl)
       /\ signer.status \in {"created", "awaiting_payment", "paid"}
  BY DEF CardTypes, TypeOK, Idle, CloseInv
<1>1. CardTypes'
  <2>1. signer.expires \in 0..(MaxNow + SignatureTtl)
    BY <1>0, CardOrdersAssumption
  <2>2. card_orders \in [Orders -> Row] /\ card_orders[signer.order] \in Row
    BY <1>0 DEF CardTypes, TypeOK
  <2>3. card_orders'[signer.order] \in Row
    BY <1>0, <2>1, <2>2 DEF Row, Status, LastError, sign_applies
  <2>4. card_orders' \in [Orders -> Row]
    BY <2>2, <2>3
  <2>5. signer' = Idle
    OBVIOUS
  <2>. QED  BY <2>4, <2>5 DEF CardTypes, TypeOK
<1>2. RowsMove /\ Unpaid
  BY <1>0 DEF RowsMove, Moves, Unpaid, Late, CardTypes, TypeOK, Row, sign_applies
<1>3. BatchInv' /\ JobInv' /\ RowInv' /\ ChainInv' /\ StatusMatchesChain' /\ Advances
  BY <1>1, <1>2, RowsMoveKeeps
<1>4. PaidInv' /\ CloseInv' /\ AppliedRefundCloses'
  BY <1>2, NoDelivery DEF PaidInv, Idle
<1>. QED  BY <1>1, <1>3, <1>4

\* Time passes.
LEMMA TickKeeps == ASSUME CardInv, Tick PROVE CardInv' /\ Advances
<1> USE DEF CardInv, Tick, UnchangedByChain
<1>1. CardTypes'
  BY CardOrdersAssumption DEF CardTypes, TypeOK
<1>2. RowsMove /\ Unpaid
  BY DEF RowsMove, Moves, Unpaid
<1>3. BatchInv' /\ JobInv' /\ RowInv' /\ ChainInv' /\ StatusMatchesChain' /\ Advances
  BY <1>1, <1>2, RowsMoveKeeps
<1>4. PaidInv' /\ CloseInv' /\ AppliedRefundCloses'
  BY <1>2, NoDelivery DEF PaidInv, CloseInv
<1>. QED  BY <1>1, <1>3, <1>4
-----------------------------------------------------------------------------
\* A delivery moves one handler; the others keep their place.
Others(h) == \A g \in Handlers : g # h => handlers'[g] = handlers[g]

\* A delivery, by its step.
LEMMA HandlerType ==
  ASSUME CardTypes, NEW h \in Handlers
  PROVE  /\ handlers[h].step \in {"idle", "read", "ledger", "pay", "cancel", "void", "record"}
         /\ handlers[h].step # "idle" => handlers[h].event \in Event
         /\ handlers[h].step \in {"ledger", "pay", "cancel", "void"} =>
              handlers[h].status \in Status /\ handlers[h].pending \in 0..MaxTx
         /\ handlers[h].step = "record" => handlers[h].outcome \in Outcome
         /\ handlers[h] = Idle <=> handlers[h].step = "idle"
<1>1. handlers[h] \in HandlerState
  BY DEF CardTypes
<1>. QED  BY <1>1 DEF HandlerState, Idle

\* Deliveries leave the operator's and the chain's parts alone and only add to the ledger.
LEMMA DeliveryKeeps ==
  ASSUME CardInv, NEW h \in Handlers, UnchangedByEvents, CardTypes', RowsMove,
         card_ledger \subseteq card_ledger',
         \A o \in Orders : card_orders'[o].status = "paid" => card_orders[o].status = "paid" \/ Paid(o),
         Others(h), handlers'[h] \in HandlerState,
         handlers'[h].step = "pay" => handlers'[h].event.kind = "purchase" /\ handlers'[h].event \in card_ledger',
         handlers'[h].step = "ledger" => handlers'[h].event.kind \in {"purchase", "refund", "chargeback_lost"},
         handlers'[h].step = "cancel" => looks_unsent(handlers'[h]),
         handlers'[h].step = "record" /\ handlers'[h].outcome = "applied" /\ Closes(handlers'[h].event)
           => card_orders'[handlers'[h].event.order].status \in Late,
         AppliedRefundCloses'
  PROVE  CardInv' /\ Advances
<1> USE DEF CardInv
<1>1. BatchInv' /\ JobInv' /\ RowInv' /\ ChainInv' /\ StatusMatchesChain' /\ Advances
  BY RowsMoveKeeps
<1>2. PaidInv'
  BY DEF PaidInv, Paid, Others, UnchangedByEvents
<1>3. \A o \in Orders : card_orders[o].status \in Late => card_orders'[o].status \in Late
  BY DEF RowsMove, Moves, Late
<1>4. \A g \in Handlers : handlers[g].step = "record" => handlers[g].event.order \in Orders
  BY HandlerType DEF Event
<1>5. CloseInv'
  BY <1>3, <1>4 DEF CloseInv, looks_unsent, Others, UnchangedByEvents, Closes
<1>. QED  BY <1>1, <1>2, <1>5

\* A delivery begins.
LEMMA ApplyKeeps == ASSUME CardInv, NEW h \in Handlers, NEW e \in Event, applyCardEvent(h, e) PROVE CardInv' /\ Advances
<1> USE DEF CardInv, applyCardEvent, Goto, UnchangedByEvents
<1>1. handlers' \in [Handlers -> HandlerState] /\ handlers'[h] = [step |-> "read", event |-> e]
  BY DEF CardTypes, HandlerState
<1>2. CardTypes'
  BY <1>1 DEF CardTypes, TypeOK
<1>3. RowsMove /\ Others(h)
  BY DEF RowsMove, Moves, Others, CardTypes
<1>4. AppliedRefundCloses'
  BY DEF AppliedRefundCloses
<1>. QED  BY <1>1, <1>2, <1>3, <1>4, DeliveryKeeps

\* applyCardEvent reads the order.
LEMMA ReadOrderKeeps == ASSUME CardInv, NEW h \in Handlers, read_order(h) PROVE CardInv' /\ Advances
<1> USE DEF CardInv, read_order, Goto, UnchangedByEvents
<1>0. handlers[h].event \in Event /\ card_orders[handlers[h].event.order] \in Row
  BY HandlerType DEF Event, CardTypes, TypeOK
<1> DEFINE e == handlers[h].event
           row == card_orders[e.order]
           next == handlers'[h]
<1>1. \/ next = Recording(e, "amount_mismatch")
      \/ next = Recording(e, "recorded")
      \/ /\ e.kind \in {"purchase", "refund", "chargeback_lost"}
         /\ next = [step |-> "ledger", event |-> e, status |-> row.status, pending |-> row.pending]
  <2>1. e.kind \in {"purchase", "mispriced", "refund", "chargeback_lost", "chargeback_opened"}
    BY <1>0, CardOrdersAssumption DEF Event
  <2>. QED  BY <2>1 DEF CardTypes, amount_matches
<1>2. next \in HandlerState
  BY <1>0, <1>1 DEF HandlerState, Recording, Outcome, Row
<1>3. handlers' \in [Handlers -> HandlerState] /\ Others(h)
  BY <1>2 DEF CardTypes, Others
<1>4. CardTypes'
  BY <1>3 DEF CardTypes, TypeOK
<1>5. RowsMove
  BY DEF RowsMove, Moves
<1>6. AppliedRefundCloses'
  BY DEF AppliedRefundCloses
<1>7. /\ next.step \in {"record", "ledger"}
      /\ next.step = "record" => next.outcome # "applied"
      /\ next.step = "ledger" => next.event.kind \in {"purchase", "refund", "chargeback_lost"}
  BY <1>1 DEF Recording
<1>8. UNCHANGED <<card_orders, card_ledger>> /\ UnchangedByEvents
  OBVIOUS
<1> HIDE DEF next, read_order, Goto, UnchangedByEvents
<1>. QED  BY <1>2, <1>3, <1>4, <1>5, <1>6, <1>7, <1>8, DeliveryKeeps DEF next

\* The money row is written.
LEMMA LedgerKeeps == ASSUME CardInv, NEW h \in Handlers, ledger(h) PROVE CardInv' /\ Advances
<1> USE DEF CardInv, ledger, Goto, UnchangedByEvents
<1> DEFINE e == handlers[h].event
           next == handlers'[h]
<1>0. e \in Event /\ e.kind \in {"purchase", "refund", "chargeback_lost"}
  BY HandlerType DEF PaidInv
<1>1. /\ next.step \in {"pay", "cancel", "void"} /\ next = [handlers[h] EXCEPT !.step = next.step]
      /\ next.step = "pay" => is_purchase(e)
      /\ next.step = "cancel" => looks_unsent(handlers[h])
  BY DEF CardTypes
<1>2. handlers[h] \in [step : {"ledger", "pay", "cancel", "void"}, event : Event, status : Status, pending : 0..MaxTx]
  BY DEF CardTypes, HandlerState, Idle
<1>3. next \in HandlerState /\ next.event = e /\ next.status = handlers[h].status /\ next.pending = handlers[h].pending
  BY <1>1, <1>2 DEF HandlerState
<1>4. handlers' \in [Handlers -> HandlerState] /\ Others(h)
  BY <1>3 DEF CardTypes, Others
<1>5. card_ledger' = card_ledger \union {e} /\ UNCHANGED <<card_orders, card_events, faults>> /\ UnchangedByEvents
  OBVIOUS
<1> HIDE DEF next, e, ledger, Goto, UnchangedByEvents
<1>6. CardTypes'
  BY <1>0, <1>4, <1>5 DEF CardTypes, TypeOK, UnchangedByEvents
<1>7. RowsMove /\ AppliedRefundCloses'
  BY <1>5 DEF RowsMove, Moves, AppliedRefundCloses, UnchangedByEvents
<1>8. next.step = "pay" => next.event.kind = "purchase" /\ next.event \in card_ledger'
  BY <1>0, <1>1, <1>3, <1>5 DEF is_purchase
<1>9. next.step = "cancel" => looks_unsent(next)
  BY <1>1, <1>3 DEF looks_unsent
<1>. QED  BY <1>1, <1>3, <1>4, <1>5, <1>6, <1>7, <1>8, <1>9, DeliveryKeeps DEF next

\* The three updates of a row by an event all have this form.
LEMMA RowStep ==
  ASSUME CardTypes, NEW o \in Orders, NEW row \in Row,
         Moves(card_orders[o], row, tickets[o]),
         card_orders' = [card_orders EXCEPT ![o] = row], UNCHANGED <<operator, txs, tickets>>
  PROVE  /\ RowsMove /\ card_orders' \in [Orders -> Row] /\ card_orders'[o] = row
         /\ \A p \in Orders : p # o => card_orders'[p] = card_orders[p]
<1>1. card_orders \in [Orders -> Row]
  BY DEF CardTypes, TypeOK
<1>. QED  BY <1>1 DEF RowsMove, Moves

\* A step that leaves every row alone.
LEMMA NoRowStep ==
  ASSUME UNCHANGED <<card_orders, operator, txs, tickets>>
  PROVE  RowsMove
  BY DEF RowsMove, Moves

\* A delivery about to record its outcome.
LEMMA RecordingType ==
  ASSUME NEW e \in Event, NEW outcome \in Outcome
  PROVE  /\ Recording(e, outcome) \in HandlerState
         /\ Recording(e, outcome).step = "record"
         /\ Recording(e, outcome).event = e /\ Recording(e, outcome).outcome = outcome
  BY DEF Recording, HandlerState

\* A purchase pays for the order.
LEMMA PayKeeps == ASSUME CardInv, NEW h \in Handlers, transition_paid(h) PROVE CardInv' /\ Advances
<1> USE DEF CardInv, UnchangedByEvents
<1> DEFINE e == handlers[h].event
           row == card_orders[e.order]
           new == [row EXCEPT !.status = "paid"]
           next == handlers'[h]
<1>0. /\ handlers[h].step = "pay" /\ e \in Event /\ e.order \in Orders /\ row \in Row
      /\ e.kind = "purchase" /\ e \in card_ledger
  BY HandlerType DEF Event, CardTypes, TypeOK, PaidInv, transition_paid
<1>1. /\ next = Recording(e, IF payable(row) THEN "applied" ELSE "order_not_open")
      /\ handlers' = [handlers EXCEPT ![h] = next]
  BY DEF transition_paid, Goto, CardTypes
<1>2. /\ next \in HandlerState /\ next.step = "record" /\ next.event = e
      /\ handlers' \in [Handlers -> HandlerState] /\ Others(h)
  BY <1>0, <1>1, RecordingType DEF CardTypes, Others, Outcome
<1>3. /\ UNCHANGED <<card_events, card_ledger, faults>> /\ UnchangedByEvents
      /\ card_orders' = IF payable(row) THEN [card_orders EXCEPT ![e.order] = new] ELSE card_orders
  BY DEF transition_paid, CardTypes, TypeOK
<1>4. RowsMove /\ card_orders' \in [Orders -> Row]
  <2>1. CASE payable(row)
    <3>1. new \in Row /\ Moves(row, new, tickets[e.order])
      BY <1>0, <2>1 DEF Row, Status, Moves, payable
    <3>. QED  BY <1>0, <1>3, <2>1, <3>1, RowStep
  <2>2. CASE ~payable(row)
    BY <1>3, <2>2, NoRowStep DEF CardTypes, TypeOK
  <2>. QED  BY <2>1, <2>2
<1>5. CardTypes'
  BY <1>2, <1>3, <1>4 DEF CardTypes, TypeOK
<1>6. \A o \in Orders : card_orders'[o].status = "paid" => card_orders[o].status = "paid" \/ Paid(o)
  BY <1>0, <1>3 DEF Paid, CardTypes, TypeOK
<1>7. AppliedRefundCloses'
  BY <1>3, <1>4 DEF AppliedRefundCloses, RowsMove, Moves, Event
<1> HIDE DEF new, row, e, next
<1>. QED  BY <1>0, <1>2, <1>3, <1>4, <1>5, <1>6, <1>7, DeliveryKeeps DEF Closes, next

\* close cancels an order that was never sent.
LEMMA CancelKeeps == ASSUME CardInv, NEW h \in Handlers, close_cancel(h) PROVE CardInv' /\ Advances
<1> USE DEF CardInv, UnchangedByEvents
<1> DEFINE e == handlers[h].event
           row == card_orders[e.order]
           new == [row EXCEPT !.status = "cancelled"]
           ok == cancellable(row, handlers[h])
           next == handlers'[h]
<1>0. /\ handlers[h].step = "cancel" /\ e \in Event /\ e.order \in Orders /\ row \in Row
      /\ looks_unsent(handlers[h])
  BY HandlerType DEF Event, CardTypes, TypeOK, CloseInv, close_cancel
<1>1. /\ next = IF ok THEN Recording(e, "applied") ELSE [handlers[h] EXCEPT !.step = "void"]
      /\ handlers' = [handlers EXCEPT ![h] = next]
  BY DEF close_cancel, Goto, CardTypes
<1>2. [handlers[h] EXCEPT !.step = "void"] \in HandlerState /\ [handlers[h] EXCEPT !.step = "void"].step = "void"
  BY <1>0 DEF CardTypes, HandlerState, Idle
<1>3. /\ next \in HandlerState /\ next.step \in {"record", "void"}
      /\ next.step = "record" => ok /\ next.event = e
      /\ handlers' \in [Handlers -> HandlerState] /\ Others(h)
  BY <1>0, <1>1, <1>2, RecordingType DEF CardTypes, Others, Outcome
<1>4. /\ UNCHANGED <<card_events, card_ledger, faults>> /\ UnchangedByEvents
      /\ card_orders' = IF ok THEN [card_orders EXCEPT ![e.order] = new] ELSE card_orders
  BY DEF close_cancel, CardTypes, TypeOK
<1>5. /\ RowsMove /\ card_orders' \in [Orders -> Row]
      /\ ok => card_orders'[e.order].status = "cancelled"
  <2>1. CASE ok
    <3>1. new \in Row /\ Moves(row, new, tickets[e.order]) /\ new.status = "cancelled"
      BY <1>0, <2>1 DEF Row, Status, Moves, cancellable, looks_unsent
    <3>. QED  BY <1>0, <1>4, <2>1, <3>1, RowStep
  <2>2. CASE ~ok
    BY <1>4, <2>2, NoRowStep DEF CardTypes, TypeOK
  <2>. QED  BY <2>1, <2>2
<1>6. CardTypes'
  BY <1>3, <1>4, <1>5 DEF CardTypes, TypeOK
<1>7. AppliedRefundCloses'
  BY <1>4, <1>5 DEF AppliedRefundCloses, RowsMove, Moves, Event
<1>8. \A o \in Orders : card_orders'[o].status = "paid" => card_orders[o].status = "paid"
  BY <1>0, <1>4, <1>5 DEF CardTypes, TypeOK
<1>9. next.step = "record" => card_orders'[next.event.order].status \in Late
  BY <1>3, <1>5 DEF Late
<1> HIDE DEF new, row, e, next, ok
<1>. QED  BY <1>3, <1>4, <1>5, <1>6, <1>7, <1>8, <1>9, DeliveryKeeps DEF next

\* close turns a paid or issued order into one to be voided.
LEMMA VoidKeeps == ASSUME CardInv, NEW h \in Handlers, close_void(h) PROVE CardInv' /\ Advances
<1> USE DEF CardInv, UnchangedByEvents
<1> DEFINE e == handlers[h].event
           row == card_orders[e.order]
           new == [row EXCEPT !.status = "void_pending", !.attempts = 0, !.last_error = "none"]
           next == handlers'[h]
<1>0. handlers[h].step = "void" /\ e \in Event /\ e.order \in Orders /\ row \in Row
  BY HandlerType DEF Event, CardTypes, TypeOK, close_void
<1>1. /\ next = Recording(e, IF to_void(row) THEN "applied" ELSE "already_closed")
      /\ handlers' = [handlers EXCEPT ![h] = next]
  BY DEF close_void, Goto, CardTypes
<1>2. /\ next \in HandlerState /\ next.step = "record" /\ next.event = e
      /\ next.outcome = "applied" => to_void(row)
      /\ handlers' \in [Handlers -> HandlerState] /\ Others(h)
  BY <1>0, <1>1, RecordingType DEF CardTypes, Others, Outcome
<1>3. /\ UNCHANGED <<card_events, card_ledger, faults>> /\ UnchangedByEvents
      /\ card_orders' = IF to_void(row) THEN [card_orders EXCEPT ![e.order] = new] ELSE card_orders
  BY DEF close_void
<1>4. /\ RowsMove /\ card_orders' \in [Orders -> Row]
      /\ to_void(row) => card_orders'[e.order].status = "void_pending"
  <2>1. CASE to_void(row)
    <3>0. 0 \in 0..MaxAttempts
      BY CardOrdersAssumption
    <3>1. new \in Row /\ new.pending = row.pending /\ new.issue_tx = row.issue_tx /\ new.status = "void_pending"
      BY <1>0, <3>0 DEF Row, Status, LastError
    <3>2. Moves(row, new, tickets[e.order])
      BY <2>1, <3>1 DEF Moves, to_void
    <3>. QED  BY <1>0, <1>3, <2>1, <3>1, <3>2, RowStep
  <2>2. CASE ~to_void(row)
    BY <1>3, <2>2, NoRowStep DEF CardTypes, TypeOK
  <2>. QED  BY <2>1, <2>2
<1>5. CardTypes'
  BY <1>2, <1>3, <1>4 DEF CardTypes, TypeOK
<1>6. \A o \in Orders : card_orders'[o].status = "paid" => card_orders[o].status = "paid"
  BY <1>0, <1>3, <1>4 DEF CardTypes, TypeOK
<1>7. AppliedRefundCloses'
  BY <1>3, <1>4 DEF AppliedRefundCloses, RowsMove, Moves, Event
<1>8. next.outcome = "applied" => card_orders'[next.event.order].status \in Late
  BY <1>2, <1>4 DEF Late
<1> HIDE DEF new, row, e, next
<1>. QED  BY <1>2, <1>3, <1>4, <1>5, <1>6, <1>7, <1>8, DeliveryKeeps DEF next

\* The outcome is recorded.
LEMMA RecordKeeps == ASSUME CardInv, NEW h \in Handlers, record_event(h) PROVE CardInv' /\ Advances
<1> USE DEF CardInv, UnchangedByEvents
<1>0. handlers[h].step = "record" /\ handlers[h].event \in Event /\ handlers[h].outcome \in Outcome
  BY HandlerType DEF record_event
<1>1. /\ handlers' = [handlers EXCEPT ![h] = Idle] /\ handlers'[h] = Idle
      /\ handlers' \in [Handlers -> HandlerState] /\ Others(h)
  BY DEF record_event, Goto, CardTypes, HandlerState, Others
<1>2. /\ UNCHANGED <<card_orders, card_ledger, faults>> /\ UnchangedByEvents
      /\ card_events' = [card_events EXCEPT ![handlers[h].event] = IF @ = "none" THEN handlers[h].outcome ELSE @]
  BY DEF record_event
<1>3. card_events' \in [Event -> Outcome \union {"none"}]
  BY <1>0, <1>2 DEF CardTypes, TypeOK
<1>4. CardTypes'
  BY <1>1, <1>2, <1>3 DEF CardTypes, TypeOK
<1>5. AppliedRefundCloses'
  BY <1>0, <1>2 DEF AppliedRefundCloses, CloseInv, Closes, Late, CardTypes, TypeOK
<1>6. RowsMove
  BY <1>2, NoRowStep
<1>. QED  BY <1>1, <1>2, <1>4, <1>5, <1>6, DeliveryKeeps DEF Idle

\* A delivery fails.
LEMMA FailKeeps == ASSUME CardInv, NEW h \in Handlers, delivery_fails(h) PROVE CardInv' /\ Advances
<1> USE DEF CardInv, UnchangedByEvents
<1>1. /\ handlers'[h] = Idle /\ handlers' \in [Handlers -> HandlerState] /\ Others(h)
      /\ UNCHANGED <<card_orders, card_events, card_ledger>> /\ UnchangedByEvents
  BY DEF delivery_fails, Goto, CardTypes, HandlerState, Others
<1>2. CardTypes'
  BY <1>1, CardOrdersAssumption DEF delivery_fails, CardTypes, TypeOK
<1>3. RowsMove /\ AppliedRefundCloses'
  BY <1>1, NoRowStep DEF AppliedRefundCloses
<1>. QED  BY <1>1, <1>2, <1>3, DeliveryKeeps DEF Idle
-----------------------------------------------------------------------------
\* The operator, at a step of an order.
LEMMA OperatorType ==
  ASSUME CardTypes
  PROVE  /\ operator.batch \subseteq JobOf
         /\ operator.step = "idle" => operator = [step |-> "idle", batch |-> operator.batch]
         /\ operator.step # "idle" =>
              /\ Job \in JobOf /\ Job.order \in Orders /\ Job.row \in Row /\ Current \in Row
              /\ operator.before \in TicketState
              /\ operator.step \in {"paid", "void_pending", "send", "sent"}
              /\ operator = [step |-> operator.step, job |-> Job, before |-> operator.before, batch |-> operator.batch]
<1>1. operator \in OperatorState /\ card_orders \in [Orders -> Row]
  BY DEF CardTypes, TypeOK
<1>2. \A job \in JobOf : job.order \in Orders /\ job.row \in Row
  BY DEF JobOf
<1>. QED  BY <1>1, <1>2 DEF OperatorState, Job, Current

StatusMoves(old, new) ==
  new = old \/ (old = "paid" /\ new = "issued") \/ (old = "void_pending" /\ new \in {"voided", "cancelled"})
StatusTrue(o, status) ==
  /\ status = "issued" => tickets[o] = "live"
  /\ status = "voided" => tickets[o] = "voided"
  /\ status = "cancelled" => tickets[o] # "live"

\* Every step that ends the work on an order has this form.
LEMMA FinishKeeps ==
  ASSUME CardInv, operator.step # "idle", UnchangedByOperator, UNCHANGED <<txs, tickets>>,
         faults' \in 0..MaxFaults, NextOrder, NEW new \in Row, update(Job, new),
         applies(Job) => /\ StatusMoves(Current.status, new.status)
                         /\ RowGood(Job.order, new) /\ StatusTrue(Job.order, new.status)
  PROVE  CardInv' /\ Advances
<1> USE DEF CardInv
<1> DEFINE o == Job.order
<1>0. /\ Job \in JobOf /\ o \in Orders /\ Current \in Row /\ operator.batch \subseteq JobOf
      /\ card_orders \in [Orders -> Row]
  BY OperatorType DEF CardTypes, TypeOK
<1>1. /\ operator' = [step |-> "idle", batch |-> operator.batch]
      /\ operator'.step = "idle" /\ operator'.batch = operator.batch
  BY DEF NextOrder
<1>2. /\ card_orders' \in [Orders -> Row]
      /\ \A p \in Orders : p # o => card_orders'[p] = card_orders[p]
      /\ card_orders'[o] = IF applies(Job) THEN new ELSE Current
  BY <1>0 DEF update, Current
<1>3. CardTypes'
  <2>1. operator' \in OperatorState
    BY <1>0, <1>1 DEF OperatorState
  <2>. QED  BY <1>0, <1>1, <1>2, <2>1 DEF CardTypes, TypeOK, UnchangedByOperator
<1>4. \A p \in Orders : LiveIssues(p)' = LiveIssues(p)
  BY DEF LiveIssues
<1>5. /\ StatusMoves(Current.status, card_orders'[o].status)
      /\ RowGood(o, card_orders'[o]) /\ StatusTrue(o, card_orders'[o].status)
  BY <1>0, <1>2 DEF StatusMoves, RowInv, Current, StatusMatchesChain, StatusTrue
<1>6. Unpaid
  BY <1>2, <1>5 DEF Unpaid, StatusMoves, Current, Late
<1>7. BatchInv'
  <2>1. \A job \in operator.batch : job.order \in Orders /\ job.order # o
    BY <1>0 DEF JobInv, JobOf
  <2>. QED  BY <1>1, <1>2, <2>1 DEF BatchInv, Workable, Fresh
<1>8. JobInv'
  BY <1>1 DEF JobInv
<1>9. RowInv'
  BY <1>2, <1>4, <1>5 DEF RowInv, RowGood
<1>10. ChainInv'
  <2>1. \A p \in Orders : card_orders[p].status \in Late => card_orders'[p].status \in Late
    BY <1>6 DEF Unpaid
  <2>. QED  BY <1>4, <2>1, TxType DEF ChainInv
<1>11. StatusMatchesChain'
  BY <1>2, <1>5 DEF StatusMatchesChain, StatusTrue
<1>12. PaidInv' /\ CloseInv' /\ AppliedRefundCloses'
  BY <1>6, NoDelivery DEF UnchangedByOperator, PaidInv, CloseInv
<1>13. Advances
  <2>1. \A p \in Orders : card_orders[p].status \in Status /\ card_orders'[p].status \in Status
    BY <1>2, StatusType DEF Row
  <2>. QED  BY <1>2, <1>5, <2>1, ForwardMoves DEF Advances, StatusMoves, Current
<1>. QED  BY <1>3, <1>7, <1>8, <1>9, <1>10, <1>11, <1>12, <1>13

\* An update that only notes an error or an attempt.
LEMMA NoteKeeps ==
  ASSUME CardInv, operator.step # "idle", UnchangedByOperator, UNCHANGED <<txs, tickets>>,
         faults' \in 0..MaxFaults, NextOrder, NEW new \in Row, update(Job, new),
         new.status = Current.status, new.pending = Current.pending, new.issue_tx = Current.issue_tx
  PROVE  CardInv' /\ Advances
<1>1. Job.order \in Orders
  BY OperatorType DEF CardInv
<1>2. StatusMoves(Current.status, new.status) /\ RowGood(Job.order, new) /\ StatusTrue(Job.order, new.status)
  BY <1>1 DEF CardInv, StatusMoves, StatusTrue, StatusMatchesChain, RowInv, RowGood, Current
<1>. QED  BY <1>2, FinishKeeps

\* The bounds of a row's counters.
LEMMA Zeros == None \in 0..MaxTx /\ 0 \in 0..MaxAttempts /\ MaxAttempts \in 0..MaxAttempts
  BY CardOrdersAssumption DEF None

\* The row of an order with a note on it.
LEMMA NoteType ==
  ASSUME NEW row \in Row, NEW note \in LastError, NEW n \in 0..MaxAttempts
  PROVE  /\ [row EXCEPT !.last_error = note] \in Row
         /\ [row EXCEPT !.last_error = note].status = row.status
         /\ [row EXCEPT !.last_error = note].pending = row.pending
         /\ [row EXCEPT !.last_error = note].issue_tx = row.issue_tx
         /\ [row EXCEPT !.last_error = note, !.attempts = n] \in Row
         /\ [row EXCEPT !.last_error = note, !.attempts = n].status = row.status
         /\ [row EXCEPT !.last_error = note, !.attempts = n].pending = row.pending
         /\ [row EXCEPT !.last_error = note, !.attempts = n].issue_tx = row.issue_tx
  BY DEF Row

\* The steps that can only note something: the outcome is unknown, the buyer has not signed, the
\* ticket is not one to void, the node did not answer.
LEMMA NotesKeep ==
  ASSUME CardInv, issue_wait \/ issue_unsigned \/ void_wait \/ void_refused \/ rpc_unavailable
  PROVE  CardInv' /\ Advances
<1>0. operator.step # "idle" /\ UnchangedByOperator /\ NextOrder /\ UNCHANGED <<txs, tickets>>
  BY DEF issue_wait, issue_unsigned, void_wait, void_refused, rpc_unavailable, Unsettled, Unissued, Working
<1>1. faults' \in 0..MaxFaults
  BY CardOrdersAssumption DEF CardInv, CardTypes, TypeOK, issue_wait, issue_unsigned, void_wait, void_refused, rpc_unavailable
<1>2. Current \in Row /\ MaxAttempts \in 0..MaxAttempts
  BY <1>0, OperatorType, CardOrdersAssumption DEF CardInv
<1>3. ASSUME NEW note \in LastError, update(Job, [Current EXCEPT !.last_error = note])
      PROVE  CardInv' /\ Advances
  BY <1>0, <1>1, <1>2, <1>3, NoteType, NoteKeeps
<1>4. CASE issue_wait
  BY <1>3, <1>4 DEF issue_wait, LastError
<1>5. CASE issue_unsigned
  BY <1>3, <1>5 DEF issue_unsigned, binding_fault, LastError
<1>6. CASE void_wait
  BY <1>3, <1>6 DEF void_wait, LastError
<1>7. CASE void_refused
  <2> DEFINE new == [Current EXCEPT !.last_error = "ticket_not_voidable", !.attempts = MaxAttempts]
  <2>1. /\ new \in Row /\ new.status = Current.status
        /\ new.pending = Current.pending /\ new.issue_tx = Current.issue_tx
    BY <1>2, NoteType DEF LastError
  <2>2. update(Job, new)
    BY <1>7 DEF void_refused
  <2> HIDE DEF new
  <2>. QED  BY <1>0, <1>1, <2>1, <2>2, NoteKeeps
<1>8. CASE rpc_unavailable
  BY <1>3, <1>8 DEF rpc_unavailable, LastError
<1>. QED  BY <1>4, <1>5, <1>6, <1>7, <1>8

\* A transaction's outcome, as txStatus may tell it.
LEMMA OutcomeType ==
  ASSUME CardTypes, NEW hash, NEW status \in tx_status(hash), status # "unknown"
  PROVE  hash \in DOMAIN txs /\ txs[hash].state = status /\ status \in {"success", "failure", "reserve_exhausted"}
<1>1. \A x \in DOMAIN txs : txs[x].state \in {"signed", "sent", "success", "failure", "reserve_exhausted"}
  BY TxType DEF Tx
<1>. QED  BY <1>1 DEF tx_status, Executed

\* The order of an issue under way has no live issue but its own, and no voided ticket.
LEMMA PaidRow ==
  ASSUME CardInv, operator.step # "idle", applies(Job), Job.row.status = "paid"
  PROVE  /\ LiveIssues(Job.order) \subseteq {Current.pending}
         /\ tickets[Job.order] # "voided"
         /\ tickets[Job.order] = "live" => Current.pending # None
  <1>1. Job.order \in Orders /\ Current.status = "paid"
    BY OperatorType DEF CardInv, applies, Current
  <1>2. LiveIssues(Job.order) \subseteq {Current.pending} /\ None \notin LiveIssues(Job.order)
    BY <1>1, LiveIssuesType DEF CardInv, RowInv, RowGood, Current
  <1>. QED  BY <1>1, <1>2 DEF CardInv, ChainInv, Late, ours, Current

\* The ticket is there already.
LEMMA IssueFoundKeeps == ASSUME CardInv, issue_found PROVE CardInv' /\ Advances
<1>0. /\ operator.step # "idle" /\ operator.step = "paid" /\ UnchangedByOperator /\ NextOrder
      /\ UNCHANGED <<txs, tickets>> /\ faults' \in 0..MaxFaults
  BY DEF issue_found, Working, CardInv, CardTypes, TypeOK
<1>1. /\ Current \in Row /\ Job.row \in Row /\ Job.order \in Orders /\ Job.row.status = "paid"
      /\ Job.row.pending = Current.pending
  BY <1>0, OperatorType DEF CardInv, JobInv, Fresh, Current
<1>2. CASE ours(operator.before)
  <2> DEFINE new == [Current EXCEPT !.status = "issued", !.issue_tx = Job.row.pending, !.pending = None, !.last_error = "none"]
  <2>1. new \in Row /\ new.status = "issued" /\ new.issue_tx = Current.pending /\ new.pending = None
    BY <1>1, Zeros DEF Row, Status, LastError
  <2>2. update(Job, new)
    BY <1>2 DEF issue_found
  <2>3. ours(tickets[Job.order])
    BY <1>0, <1>2 DEF CardInv, JobInv, ours
  <2>4. ASSUME applies(Job)
        PROVE  StatusMoves(Current.status, new.status) /\ RowGood(Job.order, new) /\ StatusTrue(Job.order, new.status)
    <3>1. Current.status = "paid" /\ tickets[Job.order] = "live" /\ Current.pending # None
      BY <1>0, <1>1, <2>3, <2>4, PaidRow DEF applies, Current, ours
    <3>. QED  BY <2>1, <3>1 DEF StatusMoves, RowGood, StatusTrue
  <2> HIDE DEF new
  <2>. QED  BY <1>0, <2>1, <2>2, <2>4, FinishKeeps
<1>3. CASE ~ours(operator.before)
  <2> DEFINE new == [Current EXCEPT !.last_error = "ticket_conflict", !.attempts = MaxAttempts]
  <2>1. /\ new \in Row /\ new.status = Current.status
        /\ new.pending = Current.pending /\ new.issue_tx = Current.issue_tx
    <3>1. "ticket_conflict" \in LastError
      BY DEF LastError
    <3>. QED  BY <1>1, <3>1, NoteType, Zeros
  <2>2. update(Job, new)
    BY <1>3 DEF issue_found
  <2> HIDE DEF new
  <2>. QED  BY <1>0, <2>1, <2>2, NoteKeeps
<1>. QED  BY <1>2, <1>3

\* The issue was sent and the ticket is read once more.
LEMMA IssueFinishKeeps == ASSUME CardInv, issue_finish PROVE CardInv' /\ Advances
<1>0. /\ operator.step # "idle" /\ operator.step = "sent" /\ UnchangedByOperator /\ NextOrder
      /\ UNCHANGED <<txs, tickets>> /\ faults' \in 0..MaxFaults /\ Job.row.status = "paid"
  BY DEF issue_finish, Working, CardInv, CardTypes, TypeOK
<1>1. /\ Current \in Row /\ Job.row \in Row /\ Job.order \in Orders
      /\ Len(txs) > 0 /\ Current.pending = Len(txs) /\ Len(txs) \in 0..MaxTx
      /\ txs[Len(txs)].order = Job.order /\ txs[Len(txs)].kind = "issue"
  BY <1>0, OperatorType, TxType DEF CardInv, JobInv, KindOf, CardTypes, TypeOK
<1>2. PICK outcome \in tx_status(Hash) :
        update(Job,
          CASE ours(tickets[Job.order]) ->
                 [Current EXCEPT !.status = "issued", !.issue_tx = Hash, !.pending = None, !.last_error = "none"]
            [] ~ours(tickets[Job.order]) /\ outcome = "unknown" ->
                 [Current EXCEPT !.last_error = "outcome_unknown"]
            [] ~ours(tickets[Job.order]) /\ outcome = "reserve_exhausted" ->
                 [Current EXCEPT !.last_error = "reserve_exhausted", !.pending = None, !.attempts = Job.row.attempts]
            [] OTHER -> [Current EXCEPT !.last_error = "send_failed", !.pending = None])
  BY DEF issue_finish
<1>3. CASE ours(tickets[Job.order])
  <2> DEFINE new == [Current EXCEPT !.status = "issued", !.issue_tx = Hash, !.pending = None, !.last_error = "none"]
  <2>1. new \in Row /\ new.status = "issued" /\ new.issue_tx = Len(txs) /\ new.pending = None
    BY <1>1, Zeros DEF Row, Status, LastError, Hash
  <2>2. update(Job, new)
    BY <1>2, <1>3
  <2>3. ASSUME applies(Job)
        PROVE  StatusMoves(Current.status, new.status) /\ RowGood(Job.order, new) /\ StatusTrue(Job.order, new.status)
    <3>1. Current.status = "paid" /\ tickets[Job.order] = "live"
      BY <1>0, <1>3, <2>3, PaidRow DEF applies, Current, ours
    <3>. QED  BY <1>1, <2>1, <3>1 DEF StatusMoves, RowGood, StatusTrue, None
  <2> HIDE DEF new
  <2>. QED  BY <1>0, <2>1, <2>2, <2>3, FinishKeeps
<1>4. CASE ~ours(tickets[Job.order]) /\ outcome = "unknown"
  <2>1. update(Job, [Current EXCEPT !.last_error = "outcome_unknown"])
    BY <1>2, <1>4
  <2>2. "outcome_unknown" \in LastError /\ 0 \in 0..MaxAttempts
    BY CardOrdersAssumption DEF LastError
  <2>. QED  BY <1>0, <1>1, <2>1, <2>2, NoteType, NoteKeeps
<1>5. CASE ~ours(tickets[Job.order]) /\ outcome # "unknown"
  \* The transaction was executed and the ticket is not there: it failed.
  <2>1. LiveIssues(Job.order) \subseteq {Current.pending} => LiveIssues(Job.order) = {}
    <3>1. Hash \in DOMAIN txs /\ txs[Hash].state \in {"success", "failure", "reserve_exhausted"}
      BY <1>2, <1>5, OutcomeType DEF CardInv
    <3>2. txs[Hash].state # "success"
      BY <1>1, <1>5, <3>1 DEF CardInv, ChainInv, Hash
    <3>. QED  BY <1>1, <3>1, <3>2 DEF LiveIssues, failed, Hash
  <2>2. \E n \in 0..MaxAttempts, note \in LastError :
          LET new == [Current EXCEPT !.last_error = note, !.pending = None, !.attempts = n] IN update(Job, new)
    <3>1. CASE outcome = "reserve_exhausted"
      <4>1. Job.row.attempts \in 0..MaxAttempts /\ "reserve_exhausted" \in LastError
        BY <1>1 DEF Row, LastError
      <4>. QED  BY <1>2, <1>5, <3>1, <4>1
    <3>2. CASE outcome # "reserve_exhausted"
      <4>1. Current.attempts \in 0..MaxAttempts /\ "send_failed" \in LastError
        BY <1>1 DEF Row, LastError
      <4>2. [Current EXCEPT !.last_error = "send_failed", !.pending = None]
             = [Current EXCEPT !.last_error = "send_failed", !.pending = None, !.attempts = Current.attempts]
        BY <1>1 DEF Row
      <4>3. update(Job, [Current EXCEPT !.last_error = "send_failed", !.pending = None])
        BY <1>2, <1>5, <3>2
      <4>. QED  BY <4>1, <4>2, <4>3
    <3>. QED  BY <3>1, <3>2
  <2>3. PICK n \in 0..MaxAttempts, note \in LastError :
          update(Job, [Current EXCEPT !.last_error = note, !.pending = None, !.attempts = n])
    BY <2>2
  <2> DEFINE new == [Current EXCEPT !.last_error = note, !.pending = None, !.attempts = n]
  <2>4. new \in Row /\ new.status = Current.status /\ new.pending = None
    BY <1>1, Zeros DEF Row
  <2>5. ASSUME applies(Job)
        PROVE  StatusMoves(Current.status, new.status) /\ RowGood(Job.order, new) /\ StatusTrue(Job.order, new.status)
    <3>1. Current.status = "paid" /\ LiveIssues(Job.order) = {}
      BY <1>0, <2>1, <2>5, PaidRow DEF applies, Current
    <3>. QED  BY <2>4, <3>1 DEF StatusMoves, RowGood, StatusTrue
  <2>6. update(Job, new)
    BY <2>3
  <2> HIDE DEF new
  <2>. QED  BY <1>0, <2>4, <2>5, <2>6, FinishKeeps
<1>. QED  BY <1>3, <1>4, <1>5

\* An order without a ticket is cancelled when no issue may land any more.
LEMMA VoidCancelKeeps == ASSUME CardInv, void_cancel PROVE CardInv' /\ Advances
<1>0. /\ operator.step # "idle" /\ operator.step = "void_pending" /\ UnchangedByOperator /\ NextOrder
      /\ UNCHANGED <<txs, tickets>> /\ faults' \in 0..MaxFaults
      /\ operator.before = "none" /\ Job.row.issue_tx = None /\ nothing_can_land(Job.row)
  BY DEF void_cancel, Unissued, Working, CardInv, CardTypes, TypeOK
<1>1. /\ Current \in Row /\ Job.row \in Row /\ Job.order \in Orders /\ Job.row.status = "void_pending"
      /\ Job.row.pending = Current.pending /\ Current.issue_tx = None
  BY <1>0, OperatorType DEF CardInv, JobInv, Fresh, Current
\* No issue of the order may land any more.
<1>2. LiveIssues(Job.order) = {}
  <2>1. \A hash \in LiveIssues(Job.order) : Current.pending = hash /\ hash # None
    BY <1>0, <1>1, LiveIssuesType DEF CardInv, JobInv
  <2>2. Current.pending # None => \E status \in tx_status(Current.pending) : failed(status)
    BY <1>0, <1>1 DEF nothing_can_land
  <2>3. Current.pending # None => failed(txs[Current.pending].state)
    BY <2>2, OutcomeType DEF CardInv, failed
  <2>. QED  BY <2>1, <2>3 DEF LiveIssues
<1> DEFINE new == [Current EXCEPT !.status = "cancelled", !.pending = None, !.last_error = "none"]
<1>3. new \in Row /\ new.status = "cancelled" /\ new.pending = None
  BY <1>1, Zeros DEF Row, Status, LastError
<1>4. update(Job, new)
  BY DEF void_cancel
<1>5. ASSUME applies(Job)
      PROVE  StatusMoves(Current.status, new.status) /\ RowGood(Job.order, new) /\ StatusTrue(Job.order, new.status)
  <2>1. Current.status = "void_pending"
    BY <1>1, <1>5 DEF applies, Current
  <2>2. tickets[Job.order] # "live"
    BY <1>1, <1>2 DEF CardInv, ChainInv, ours
  <2>. QED  BY <1>2, <1>3, <2>1, <2>2 DEF StatusMoves, RowGood, StatusTrue
<1> HIDE DEF new
<1>. QED  BY <1>0, <1>3, <1>4, <1>5, FinishKeeps

\* A row that says voided.
LEMMA VoidedType ==
  ASSUME NEW row \in Row
  PROVE  LET new == [row EXCEPT !.status = "voided", !.pending = None, !.last_error = "none"]
         IN  new \in Row /\ new.status = "voided"
  BY Zeros DEF Row, Status, LastError

\* The ticket is voided already.
LEMMA VoidFoundKeeps == ASSUME CardInv, void_found PROVE CardInv' /\ Advances
<1>0. /\ operator.step # "idle" /\ operator.step = "void_pending" /\ UnchangedByOperator /\ NextOrder
      /\ UNCHANGED <<txs, tickets>> /\ faults' \in 0..MaxFaults /\ operator.before = "voided"
  BY DEF void_found, Working, CardInv, CardTypes, TypeOK
<1>1. /\ Current \in Row /\ Job.order \in Orders /\ Job.row.status = "void_pending"
      /\ tickets[Job.order] = "voided"
  BY <1>0, OperatorType DEF CardInv, JobInv
<1> DEFINE new == [Current EXCEPT !.status = "voided", !.pending = None, !.last_error = "none"]
<1>3. new \in Row /\ new.status = "voided"
  BY <1>1, VoidedType
<1>4. update(Job, new)
  BY DEF void_found
<1>5. applies(Job) =>
        StatusMoves(Current.status, new.status) /\ RowGood(Job.order, new) /\ StatusTrue(Job.order, new.status)
  BY <1>1, <1>3 DEF applies, Current, StatusMoves, RowGood, StatusTrue
<1> HIDE DEF new
<1>. QED  BY <1>0, <1>3, <1>4, <1>5, FinishKeeps

\* The void was sent and the ticket is read once more.
LEMMA VoidFinishKeeps == ASSUME CardInv, void_finish PROVE CardInv' /\ Advances
<1>0. /\ operator.step # "idle" /\ UnchangedByOperator /\ NextOrder
      /\ UNCHANGED <<txs, tickets>> /\ faults' \in 0..MaxFaults
  BY DEF void_finish, Working, CardInv, CardTypes, TypeOK
<1>1. Current \in Row /\ Job.order \in Orders /\ Job.row.status = "void_pending"
  BY <1>0, OperatorType DEF CardInv, void_finish
<1>2. CASE tickets[Job.order] = "voided"
  <2> DEFINE new == [Current EXCEPT !.status = "voided", !.pending = None, !.last_error = "none"]
  <2>1. new \in Row /\ new.status = "voided"
    BY <1>1, VoidedType
  <2>2. update(Job, new)
    BY <1>2 DEF void_finish
  <2>3. applies(Job) =>
          StatusMoves(Current.status, new.status) /\ RowGood(Job.order, new) /\ StatusTrue(Job.order, new.status)
    BY <1>1, <1>2, <2>1 DEF applies, Current, StatusMoves, RowGood, StatusTrue
  <2> HIDE DEF new
  <2>. QED  BY <1>0, <2>1, <2>2, <2>3, FinishKeeps
<1>3. CASE tickets[Job.order] # "voided"
  <2>1. \E note \in LastError : update(Job, [Current EXCEPT !.last_error = note])
    BY <1>3 DEF void_finish, LastError
  <2>. QED  BY <1>0, <1>1, <2>1, Zeros, NoteType, NoteKeeps
<1>. QED  BY <1>2, <1>3

\* The operator takes up its due orders, starts over, or reads the next ticket.
LEMMA RunKeeps == ASSUME CardInv, runCardOperator PROVE CardInv' /\ Advances
<1> USE DEF CardInv
<1> DEFINE batch == {[order |-> o, row |-> card_orders[o]] : o \in {x \in Orders : Opened(x) /\ due(card_orders[x])}}
<1>1. /\ operator' = [step |-> "idle", batch |-> batch] /\ operator'.step = "idle" /\ operator'.batch = batch
      /\ UNCHANGED <<card_orders, txs, tickets, faults>> /\ UnchangedByOperator
  BY DEF runCardOperator
<1>2. batch \subseteq JobOf
  BY DEF JobOf, CardTypes, TypeOK
<1>3. CardTypes'
  <2>1. operator' \in OperatorState
    BY <1>1, <1>2 DEF OperatorState
  <2>. QED  BY <1>1, <1>2, <2>1 DEF CardTypes, TypeOK, UnchangedByOperator
<1>4. BatchInv'
  BY <1>1 DEF BatchInv, Workable, Fresh, due
<1>5. JobInv'
  BY <1>1 DEF JobInv
<1> HIDE DEF batch
<1>6. RowInv' /\ ChainInv' /\ StatusMatchesChain'
  BY <1>1 DEF RowInv, RowGood, ChainInv, StatusMatchesChain, LiveIssues
<1>7. PaidInv' /\ CloseInv' /\ AppliedRefundCloses'
  BY <1>1, NoDelivery DEF UnchangedByOperator, PaidInv, CloseInv, Unpaid
<1>8. Advances
  BY <1>1, SameStatus
<1>. QED  BY <1>3, <1>4, <1>5, <1>6, <1>7, <1>8

\* The operator dies.
LEMMA DiesKeeps == ASSUME CardInv, operator_dies PROVE CardInv' /\ Advances
<1> USE DEF CardInv
<1>1. /\ operator' = [step |-> "idle", batch |-> {}] /\ operator'.step = "idle" /\ operator'.batch = {}
      /\ UNCHANGED <<card_orders, txs, tickets>> /\ UnchangedByOperator
  BY DEF operator_dies, NoBatch
<1>2. faults' \in 0..MaxFaults
  BY CardOrdersAssumption DEF operator_dies, CardTypes, TypeOK
<1>3. CardTypes'
  BY <1>1, <1>2 DEF CardTypes, TypeOK, UnchangedByOperator, OperatorState
<1>4. BatchInv' /\ JobInv'
  BY <1>1 DEF BatchInv, JobInv
<1>6. RowInv' /\ ChainInv' /\ StatusMatchesChain'
  BY <1>1 DEF RowInv, RowGood, ChainInv, StatusMatchesChain, LiveIssues
<1>7. PaidInv' /\ CloseInv' /\ AppliedRefundCloses'
  BY <1>1, NoDelivery DEF UnchangedByOperator, PaidInv, CloseInv, Unpaid
<1>8. Advances
  BY <1>1, SameStatus
<1>. QED  BY <1>3, <1>4, <1>6, <1>7, <1>8

\* The ticket of the next order is read.
LEMMA ReadTicketKeeps == ASSUME CardInv, readTicket PROVE CardInv' /\ Advances
<1> USE DEF CardInv
<1>0. PICK job \in operator.batch :
        operator' = [step |-> job.row.status, job |-> job, before |-> tickets[job.order], batch |-> operator.batch \ {job}]
  BY DEF readTicket
<1>1. /\ operator'.step = job.row.status /\ operator'.job = job /\ operator'.before = tickets[job.order]
      /\ operator'.batch = operator.batch \ {job}
      /\ UNCHANGED <<card_orders, txs, tickets, faults>> /\ UnchangedByOperator
  BY <1>0 DEF readTicket
<1>2. /\ job \in JobOf /\ job.order \in Orders /\ operator.batch \subseteq JobOf
      /\ Workable(job) /\ Fresh(job)
      /\ \A other \in operator'.batch : other.order # job.order
  BY <1>1, OperatorType DEF JobOf, BatchInv
<1>3. CardTypes'
  <2>1. operator' \in OperatorState
    BY <1>0, <1>2 DEF OperatorState, Workable, CardTypes, TypeOK
  <2>. QED  BY <1>1, <1>2, <2>1 DEF CardTypes, TypeOK, UnchangedByOperator
<1>4. BatchInv'
  BY <1>1 DEF BatchInv, Workable, Fresh
<1>5. \A o \in Orders : LiveIssues(o)' = LiveIssues(o)
  BY <1>1 DEF LiveIssues
<1>6. JobInv'
  <2>1. Workable(job)' /\ Fresh(job)'
    BY <1>1, <1>2 DEF Workable, Fresh
  <2>2. job.row.status = "void_pending" /\ tickets[job.order] = "none" =>
          \A hash \in LiveIssues(job.order) : card_orders[job.order].pending = hash \/ card_orders[job.order].issue_tx # None
    BY <1>2 DEF RowInv, RowGood, ours, Fresh
  <2>. QED  BY <1>1, <1>2, <1>5, <2>1, <2>2 DEF JobInv, Job, Current, ours, Workable
<1>7. RowInv' /\ ChainInv' /\ StatusMatchesChain'
  BY <1>1, <1>5 DEF RowInv, RowGood, ChainInv, StatusMatchesChain
<1>8. PaidInv' /\ CloseInv' /\ AppliedRefundCloses'
  BY <1>1, NoDelivery DEF UnchangedByOperator, PaidInv, CloseInv, Unpaid
<1>9. Advances
  BY <1>1, SameStatus
<1>. QED  BY <1>3, <1>4, <1>6, <1>7, <1>8, <1>9

\* The signed transaction is handed to a node.
LEMMA SendKeeps == ASSUME CardInv, send PROVE CardInv' /\ Advances
<1> USE DEF CardInv
<1> DEFINE tx == txs[Hash]
           new == [tx EXCEPT !.state = "sent"]
<1>0. operator.step = "send" /\ operator.step # "idle"
  BY DEF send, Working
<1>1. /\ Job \in JobOf /\ Job.order \in Orders /\ operator.before \in TicketState /\ operator.batch \subseteq JobOf
      /\ operator = [step |-> operator.step, job |-> Job, before |-> operator.before, batch |-> operator.batch]
  BY <1>0, OperatorType
<1>2. /\ operator' = [step |-> "sent", job |-> Job, before |-> operator.before, batch |-> operator.batch]
      /\ operator'.step = "sent" /\ operator'.job = Job /\ operator'.before = operator.before
      /\ operator'.batch = operator.batch
      /\ UNCHANGED <<card_orders, tickets, faults>> /\ UnchangedByOperator
  BY <1>1 DEF send, Continue
<1>3. Hash \in DOMAIN txs /\ tx \in Tx /\ tx.order \in Orders /\ Len(txs) \in Nat /\ DOMAIN txs = 1..Len(txs)
  BY <1>0, TxType DEF JobInv, Hash
<1>4. new \in Tx /\ new.order = tx.order /\ new.kind = tx.kind /\ new.state = "sent" /\ new.expires = tx.expires
  BY <1>3 DEF Tx
<1>5. txs' = [txs EXCEPT ![Hash] = new]
  BY DEF send
\* A transaction not handed over yet is as live as one that was.
<1>6. tx.state = "signed"
  BY <1>0 DEF JobInv, Hash
<1> HIDE DEF new, tx
<1>7. /\ txs' \in Seq(Tx) /\ Len(txs') = Len(txs) /\ DOMAIN txs' = DOMAIN txs
      /\ \A x \in DOMAIN txs : txs'[x] = IF x = Hash THEN new ELSE txs[x]
  BY <1>3, <1>4, <1>5, TxType
<1>8. \A x \in DOMAIN txs :
        /\ txs'[x].order = txs[x].order /\ txs'[x].kind = txs[x].kind
        /\ failed(txs'[x].state) <=> failed(txs[x].state)
        /\ txs'[x].state = "success" <=> txs[x].state = "success"
  BY <1>4, <1>6, <1>7 DEF failed, tx
<1>9. \A o \in Orders : LiveIssues(o)' = LiveIssues(o)
  BY <1>7, <1>8 DEF LiveIssues
<1>10. CardTypes'
  <2>1. operator' \in OperatorState
    BY <1>1, <1>2 DEF OperatorState
  <2>. QED  BY <1>1, <1>2, <1>7, <2>1 DEF CardTypes, TypeOK, UnchangedByOperator
<1>11. BatchInv'
  BY <1>2 DEF BatchInv, Workable, Fresh
<1>12. JobInv'
  <2>1. Len(txs) \in DOMAIN txs
    BY <1>3 DEF Hash
  <2>. QED  BY <1>0, <1>2, <1>7, <1>8, <2>1 DEF JobInv, Job, Current, Workable, ours, KindOf
<1>13. RowInv' /\ ChainInv' /\ StatusMatchesChain'
  <2>1. ChainInv'
    <3>1. \A o \in Orders : ours(tickets[o]) => \E hash \in LiveIssues(o) : txs'[hash].state = "success"
      BY <1>8 DEF ChainInv, LiveIssues
    <3>. QED  BY <1>2, <1>7, <1>8, <1>9, <3>1 DEF ChainInv
  <2>. QED  BY <1>2, <1>9, <2>1 DEF RowInv, RowGood, StatusMatchesChain
<1>14. PaidInv' /\ CloseInv' /\ AppliedRefundCloses'
  BY <1>2, <1>7, <1>8, NoDelivery DEF UnchangedByOperator, PaidInv, CloseInv, Unpaid
<1>15. Advances
  BY <1>2, SameStatus
<1>. QED  BY <1>10, <1>11, <1>12, <1>13, <1>14, <1>15

\* A hash is stored and the transaction of that hash signed: an issue when no other may still land,
\* a void when the ticket is live.
LEMMA StoreKeeps ==
  ASSUME CardInv, operator.step \in {"paid", "void_pending"}, UNCHANGED <<tickets, faults>>, UnchangedByOperator,
         NEW kind \in {"issue", "void"}, store_hash(kind), kind = KindOf(Job.row.status),
         kind = "issue" => Job.row.pending = None,
         kind = "void" => operator.before = "live"
  PROVE  CardInv' /\ Advances
<1> USE DEF CardInv
<1> DEFINE o == Job.order
           tx == [kind |-> kind, order |-> o, expires |-> Job.row.expires, state |-> "signed"]
           new == [Current EXCEPT !.pending = Len(txs) + 1, !.attempts = Job.row.attempts + 1]
<1>1. /\ operator.step # "idle" /\ Job \in JobOf /\ o \in Orders /\ Job.row \in Row /\ Current \in Row
      /\ operator.before \in TicketState /\ operator.batch \subseteq JobOf
      /\ operator = [step |-> operator.step, job |-> Job, before |-> operator.before, batch |-> operator.batch]
      /\ Workable(Job) /\ Fresh(Job) /\ operator.step = Job.row.status
      /\ card_orders \in [Orders -> Row]
  BY OperatorType DEF JobInv, CardTypes, TypeOK
<1>2. new \in Row /\ new.status = Current.status /\ new.issue_tx = Current.issue_tx /\ new.pending = Len(txs) + 1
  <2>1. Len(txs) + 1 \in 0..MaxTx
    BY CardOrdersAssumption, TxType DEF store_hash
  <2>2. Job.row.attempts + 1 \in 0..MaxAttempts
    BY <1>1, CardOrdersAssumption DEF Workable, Row
  <2>. QED  BY <1>1, <2>1, <2>2 DEF Row
<1>3. CASE ~applies(Job)
  <2>1. update(Job, Current) /\ NextOrder /\ UNCHANGED <<txs, tickets>> /\ faults' \in 0..MaxFaults
    BY <1>3 DEF store_hash, update, CardTypes, TypeOK
  <2>. QED  BY <1>1, <2>1, NoteKeeps
<1>4. CASE applies(Job)
  <2>1. /\ operator' = [step |-> "send", job |-> Job, before |-> operator.before, batch |-> operator.batch]
        /\ operator'.step = "send" /\ operator'.job = Job /\ operator'.before = operator.before
        /\ operator'.batch = operator.batch
    BY <1>1, <1>4 DEF store_hash, Continue
  <2>2. /\ card_orders' \in [Orders -> Row] /\ card_orders'[o] = new
        /\ \A p \in Orders : p # o => card_orders'[p] = card_orders[p]
    BY <1>1, <1>2, <1>4 DEF store_hash, update
  <2>3. Current.status = Job.row.status /\ Job.row.status \in {"paid", "void_pending"}
    BY <1>1, <1>4 DEF applies, Current, Workable
  <2>4. tx \in Tx /\ tx.kind = kind /\ tx.order = o /\ tx.state = "signed"
    BY <1>1 DEF Tx, Row
  <2>5. txs' = Append(txs, tx) /\ Len(txs) < MaxTx
    BY <1>4 DEF store_hash
  <2> HIDE DEF new, tx
  <2>6. /\ txs' \in Seq(Tx) /\ Len(txs') = Len(txs) + 1 /\ DOMAIN txs' = (DOMAIN txs) \union {Len(txs) + 1}
        /\ txs'[Len(txs) + 1] = tx /\ \A x \in DOMAIN txs : x # Len(txs) + 1 /\ txs'[x] = txs[x]
    BY <2>4, <2>5, TxType
  <2>7. \A p \in Orders : LiveIssues(p)' = IF p = o /\ kind = "issue" THEN LiveIssues(p) \union {Len(txs) + 1}
                                           ELSE LiveIssues(p)
    BY <2>4, <2>6 DEF LiveIssues, failed
  <2>8. kind = "issue" => LiveIssues(o) = {} /\ Current.status = "paid"
    <3>1. kind = "issue" => Current.status = "paid" /\ Current.pending = None
      BY <1>1, <2>3 DEF KindOf, Fresh, Current
    <3>. QED  BY <1>1, <3>1, LiveIssuesType DEF RowInv, RowGood, Current
  <2>9. kind = "void" => Current.status = "void_pending" /\ ours(tickets[o])
    BY <1>1, <2>3 DEF KindOf, JobInv
  <2>10. CardTypes'
    <3>1. operator' \in OperatorState
      BY <1>1, <2>1 DEF OperatorState
    <3>2. Len(txs') <= MaxTx
      BY <2>5, <2>6, TxType, CardOrdersAssumption
    <3>. QED  BY <1>1, <2>1, <2>2, <2>6, <3>1, <3>2 DEF CardTypes, TypeOK, UnchangedByOperator
  <2>11. BatchInv'
    <3>1. \A job \in operator.batch : job.order \in Orders /\ job.order # o
      BY <1>1 DEF JobInv, JobOf
    <3>. QED  BY <2>1, <2>2, <3>1 DEF BatchInv, Workable, Fresh
  <2>12. JobInv'
    BY <1>1, <1>2, <2>1, <2>2, <2>4, <2>6, TxType DEF JobInv, Job, Current, Workable, ours
  <2>13. RowInv'
    BY <1>2, <2>2, <2>3, <2>7, <2>8, <2>9 DEF RowInv, RowGood
  <2>14. \A p \in Orders : card_orders'[p].status = card_orders[p].status
    BY <1>2, <2>2 DEF Current
  <2>15. ChainInv'
    <3>1. \A p \in Orders : ours(tickets[p]) => \E hash \in LiveIssues(p)' : txs'[hash].state = "success"
      BY <2>6, <2>7 DEF ChainInv, LiveIssues
    <3>2. \A p \in Orders : \A x, y \in LiveIssues(p)' : x = y
      BY <2>7, <2>8 DEF ChainInv
    <3>3. kind = "void" => card_orders'[o].status \in Late
      BY <1>2, <2>2, <2>9 DEF Late
    <3>4. \A hash \in DOMAIN txs : txs[hash].order \in Orders
      BY TxType
    <3>. QED  BY <2>4, <2>6, <2>14, <3>1, <3>2, <3>3, <3>4 DEF ChainInv
  <2>16. StatusMatchesChain'
    BY <2>14 DEF StatusMatchesChain
  <2>17. PaidInv' /\ CloseInv' /\ AppliedRefundCloses'
    <3>1. kind = "issue" => Paid(o)
      BY <1>1, <2>8 DEF PaidInv, Current
    <3>. QED  BY <2>4, <2>6, <2>14, <3>1, NoDelivery DEF UnchangedByOperator, PaidInv, CloseInv, Unpaid
  <2>18. Advances
    BY <2>14, SameStatus
  <2>. QED  BY <2>10, <2>11, <2>12, <2>13, <2>15, <2>16, <2>17, <2>18
<1>. QED  BY <1>3, <1>4

\* issue and voidTicket sign.
LEMMA SignsKeep == ASSUME CardInv, issue_sign \/ void_sign PROVE CardInv' /\ Advances
<1>1. CASE issue_sign
  <2>1. operator.step = "paid" /\ Job.row.status = "paid"
    BY <1>1 DEF issue_sign, Working, CardInv, JobInv
  <2>. QED  BY <1>1, <2>1, StoreKeeps DEF issue_sign, KindOf
<1>2. CASE void_sign
  <2>1. operator.step = "void_pending" /\ Job.row.status = "void_pending"
    BY <1>2 DEF void_sign, Working, CardInv, JobInv
  <2>. QED  BY <1>2, <2>1, StoreKeeps DEF void_sign, KindOf
<1>. QED  BY <1>1, <1>2

\* A failed issue is forgotten, and the order may be sent again.
LEMMA IssueClearKeeps == ASSUME CardInv, issue_clear PROVE CardInv' /\ Advances
<1> USE DEF CardInv
<1> DEFINE o == Job.order
           new == [Current EXCEPT !.pending = None]
           job == [Job EXCEPT !.row.pending = None]
<1>1. /\ operator.step = "paid" /\ operator.step # "idle" /\ Job.row.pending # None
      /\ UNCHANGED <<txs, tickets, faults>> /\ UnchangedByOperator /\ update(Job, new)
      /\ \E status \in tx_status(Job.row.pending) : failed(status)
  BY DEF issue_clear, Unsettled, Working, may_resend
<1>2. /\ Job \in JobOf /\ o \in Orders /\ Job.row \in Row /\ Current \in Row
      /\ operator.before \in TicketState /\ operator.batch \subseteq JobOf
      /\ operator = [step |-> operator.step, job |-> Job, before |-> operator.before, batch |-> operator.batch]
      /\ Workable(Job) /\ Fresh(Job) /\ Job.row.status = "paid" /\ Job.row.pending = Current.pending
      /\ card_orders \in [Orders -> Row]
  BY <1>1, OperatorType DEF JobInv, CardTypes, TypeOK, Fresh, Current
<1>3. new \in Row /\ new.status = Current.status /\ new.issue_tx = Current.issue_tx /\ new.pending = None
  BY <1>2, Zeros DEF Row
<1>4. CASE ~applies(Job)
  <2>1. update(Job, Current) /\ NextOrder /\ faults' \in 0..MaxFaults
    BY <1>4 DEF issue_clear, update, CardTypes, TypeOK
  <2>. QED  BY <1>1, <1>2, <2>1, NoteKeeps
<1>5. CASE applies(Job)
  <2>1. /\ job \in JobOf /\ job.order = o /\ job.row.pending = None /\ job.row.status = "paid"
        /\ job.row.issue_tx = Job.row.issue_tx /\ job.row.attempts = Job.row.attempts
    BY <1>2, Zeros DEF JobOf, Row
  <2>2. /\ operator' = [step |-> "paid", job |-> job, before |-> operator.before, batch |-> operator.batch]
        /\ operator'.step = "paid" /\ operator'.job = job /\ operator'.before = operator.before
        /\ operator'.batch = operator.batch
    BY <1>1, <1>2, <1>5 DEF issue_clear
  <2>3. /\ card_orders' \in [Orders -> Row] /\ card_orders'[o] = new
        /\ \A p \in Orders : p # o => card_orders'[p] = card_orders[p]
    BY <1>1, <1>2, <1>3, <1>5 DEF update
  <2>4. Current.status = "paid"
    BY <1>2, <1>5 DEF applies, Current
  <2>5. \A p \in Orders : LiveIssues(p)' = LiveIssues(p)
    BY <1>1 DEF LiveIssues
  <2>6. LiveIssues(o) = {}
    <3>1. LiveIssues(o) \subseteq {Current.pending}
      BY <1>2, <2>4 DEF RowInv, RowGood, Current
    <3>2. failed(txs[Current.pending].state)
      BY <1>1, <1>2, OutcomeType DEF failed
    <3>. QED  BY <3>1, <3>2 DEF LiveIssues
  <2> HIDE DEF new, job
  <2>7. CardTypes'
    <3>1. operator' \in OperatorState
      BY <1>2, <2>1, <2>2 DEF OperatorState
    <3>. QED  BY <1>1, <1>2, <2>1, <2>2, <2>3, <3>1 DEF CardTypes, TypeOK, UnchangedByOperator
  <2>8. BatchInv'
    <3>1. \A other \in operator.batch : other.order \in Orders /\ other.order # o
      BY <1>1, <1>2 DEF JobInv, JobOf
    <3>. QED  BY <2>2, <2>3, <3>1 DEF BatchInv, Workable, Fresh
  <2>9. JobInv'
    BY <1>1, <1>2, <1>3, <2>1, <2>2, <2>3 DEF JobInv, Job, Current, Workable, Fresh, ours
  <2>10. RowInv'
    BY <1>1, <1>3, <2>3, <2>4, <2>5, <2>6 DEF RowInv, RowGood
  <2>11. \A p \in Orders : card_orders'[p].status = card_orders[p].status
    BY <1>3, <2>3 DEF Current
  <2>12. ChainInv' /\ StatusMatchesChain'
    BY <1>1, <2>5, <2>11, TxType DEF ChainInv, StatusMatchesChain
  <2>13. PaidInv' /\ CloseInv' /\ AppliedRefundCloses'
    BY <1>1, <2>11, NoDelivery DEF UnchangedByOperator, PaidInv, CloseInv, Unpaid
  <2>14. Advances
    BY <2>11, SameStatus
  <2>. QED  BY <2>7, <2>8, <2>9, <2>10, <2>12, <2>13, <2>14
<1>. QED  BY <1>4, <1>5
-----------------------------------------------------------------------------
\* NEAR executes a transaction, or the ticket is bought elsewhere.
LEMMA OtherPurchaseKeeps == ASSUME CardInv, NEW o \in Orders, other_purchase(o) PROVE CardInv' /\ Advances
<1> USE DEF CardInv
<1>1. /\ tickets' \in [Orders -> TicketState] /\ tickets[o] = "none" /\ tickets'[o] = "other"
      /\ \A p \in Orders : p # o => tickets'[p] = tickets[p]
      /\ refusals' \in 0..MaxRefusals
      /\ UNCHANGED <<txs, now, faults>> /\ UnchangedByChain
  BY CardOrdersAssumption DEF other_purchase, CardTypes, TypeOK, TicketState
<1>2. CardTypes'
  BY <1>1 DEF CardTypes, TypeOK, UnchangedByChain
<1>3. \A p \in Orders : LiveIssues(p)' = LiveIssues(p)
  BY <1>1 DEF LiveIssues
<1>4. BatchInv'
  BY <1>1 DEF UnchangedByChain, BatchInv, Workable, Fresh
<1>5. JobInv'
  <2>1. operator.step # "idle" => Job.order \in Orders
    BY OperatorType
  <2>. QED  BY <1>1, <1>3, <2>1 DEF UnchangedByChain, JobInv, Workable, Fresh, Job, Current, ours
<1>6. RowInv' /\ ChainInv' /\ StatusMatchesChain'
  <2>1. \A p \in Orders : ours(tickets'[p]) <=> ours(tickets[p])
    BY <1>1 DEF ours
  <2>. QED  BY <1>1, <1>3, <2>1, TxType DEF UnchangedByChain, RowInv, RowGood, ChainInv, StatusMatchesChain
<1>7. PaidInv' /\ CloseInv' /\ AppliedRefundCloses'
  BY <1>1, NoDelivery DEF UnchangedByChain, PaidInv, CloseInv, Unpaid
<1>8. Advances
  BY <1>1, SameStatus DEF UnchangedByChain
<1>. QED  BY <1>2, <1>4, <1>5, <1>6, <1>7, <1>8

\* A transaction is executed.
LEMMA ExecutesKeeps == ASSUME CardInv, NEW hash \in Hashes, executes(hash) PROVE CardInv' /\ Advances
<1> USE DEF CardInv
<1>1. PICK outcome \in {"success", "failure", "reserve_exhausted"} :
        /\ outcome = "success" => contract_accepts(txs[hash])
        /\ IF outcome # "success" /\ contract_accepts(txs[hash])
           THEN refusals < MaxRefusals /\ refusals' = refusals + 1
           ELSE refusals' = refusals
        /\ txs' = [txs EXCEPT ![hash].state = outcome]
        /\ tickets' = IF outcome = "success"
                      THEN [tickets EXCEPT ![txs[hash].order] = IF txs[hash].kind = "issue" THEN "live" ELSE "voided"]
                      ELSE tickets
  BY DEF executes
<1> DEFINE tx == txs[hash]
           new == [tx EXCEPT !.state = outcome]
           o == tx.order
<1>2. /\ hash \in DOMAIN txs /\ tx.state = "sent" /\ tx \in Tx /\ o \in Orders
      /\ DOMAIN txs = 1..Len(txs) /\ Len(txs) \in Nat
      /\ UNCHANGED <<now, faults>> /\ UnchangedByChain
  BY TxType DEF executes
<1>3. new \in Tx /\ new.order = o /\ new.kind = tx.kind /\ new.state = outcome
  BY <1>2 DEF Tx
<1>4. /\ txs' \in Seq(Tx) /\ Len(txs') = Len(txs) /\ DOMAIN txs' = DOMAIN txs
      /\ txs'[hash] = new /\ \A x \in DOMAIN txs : x # hash => txs'[x] = txs[x]
  BY <1>1, <1>2, <1>3, TxType
<1>5. /\ tickets' \in [Orders -> TicketState]
      /\ \A p \in Orders : p # o => tickets'[p] = tickets[p]
      /\ tickets'[o] = IF outcome = "success" THEN (IF tx.kind = "issue" THEN "live" ELSE "voided") ELSE tickets[o]
  BY <1>1, <1>2 DEF CardTypes, TypeOK, TicketState
<1>6. /\ outcome = "success" /\ tx.kind = "issue" => tickets[o] = "none"
      /\ outcome = "success" /\ tx.kind # "issue" => tickets[o] = "live"
      /\ tx.kind \in {"issue", "void"}
  BY <1>1, <1>2 DEF contract_accepts, Tx
<1>7. refusals' \in 0..MaxRefusals
  BY <1>1, CardOrdersAssumption DEF CardTypes, TypeOK
<1> HIDE DEF new
\* Executing never makes a failed issue live again.
<1>8. /\ \A p \in Orders : LiveIssues(p)' \subseteq LiveIssues(p)
      /\ \A p \in Orders : \A x \in LiveIssues(p) : x # hash => x \in LiveIssues(p)'
      /\ outcome = "success" /\ tx.kind = "issue" => hash \in LiveIssues(o)'
      /\ tx.kind = "issue" => hash \in LiveIssues(o)
      /\ tx.kind = "void" => \A p \in Orders : LiveIssues(p)' = LiveIssues(p)
  BY <1>2, <1>3, <1>4, <1>6 DEF LiveIssues, failed
\* A ticket of the order's own stays one, and a voided one stays voided.
<1>9. \A p \in Orders : /\ ours(tickets[p]) => ours(tickets'[p])
                        /\ tickets[p] = "voided" => tickets'[p] = "voided"
  BY <1>5, <1>6 DEF ours
<1>10. CardTypes'
  BY <1>2, <1>4, <1>5, <1>7 DEF CardTypes, TypeOK, UnchangedByChain
<1>11. BatchInv'
  BY <1>2 DEF UnchangedByChain, BatchInv, Workable, Fresh
<1>12. JobInv'
  <2>1. operator.step # "idle" => Job.order \in Orders
    BY OperatorType
  <2>2. operator.step \in {"send", "sent"} => Len(txs) \in DOMAIN txs
    BY <1>2 DEF JobInv
  <2>3. operator.step \in {"send", "sent"} => /\ txs'[Len(txs)].order = txs[Len(txs)].order
                                              /\ txs'[Len(txs)].kind = txs[Len(txs)].kind
    BY <1>3, <1>4, <2>2
  <2>4. operator.step = "send" => txs'[Len(txs)].state = txs[Len(txs)].state
    BY <1>2, <1>4, <2>2 DEF JobInv
  <2>. QED  BY <1>2, <1>4, <1>8, <1>9, <2>1, <2>3, <2>4 DEF UnchangedByChain, JobInv, Workable, Fresh, Job, Current
<1>13. UNCHANGED card_orders
  BY <1>2 DEF UnchangedByChain
<1>14. RowInv'
  BY <1>8, <1>9, <1>13 DEF RowInv, RowGood
<1>15. ChainInv'
  <2>1. \A p \in Orders : ours(tickets'[p]) => \E x \in LiveIssues(p)' : txs'[x].state = "success"
    <3> SUFFICES ASSUME NEW p \in Orders, ours(tickets'[p]) PROVE \E x \in LiveIssues(p)' : txs'[x].state = "success"
      OBVIOUS
    <3>1. CASE p = o /\ outcome = "success" /\ tx.kind = "issue"
      BY <1>3, <1>4, <1>8, <3>1
    <3>2. CASE ~(p = o /\ outcome = "success" /\ tx.kind = "issue")
      <4>1. ours(tickets[p])
        BY <1>5, <1>6, <3>2 DEF ours
      <4>2. PICK x \in LiveIssues(p) : txs[x].state = "success"
        BY <4>1 DEF ChainInv
      <4>3. x # hash /\ x \in DOMAIN txs
        BY <1>2, <4>2 DEF LiveIssues
      <4>. QED  BY <1>4, <1>8, <4>2, <4>3
    <3>. QED  BY <3>1, <3>2
  <2>2. \A p \in Orders : tickets'[p] = "voided" => card_orders[p].status \in Late
    <3>1. tx.kind = "void" => card_orders[o].status \in Late
      BY <1>2 DEF ChainInv
    <3>. QED  BY <1>5, <1>6, <3>1 DEF ChainInv
  <2>3. \A x \in DOMAIN txs' :
          /\ txs'[x].kind = "void" => card_orders[txs'[x].order].status \in Late
          /\ txs'[x].kind = "issue" /\ txs'[x].state = "success" => ours(tickets'[txs'[x].order])
    <3> SUFFICES ASSUME NEW x \in DOMAIN txs
                 PROVE  /\ txs'[x].kind = "void" => card_orders[txs'[x].order].status \in Late
                        /\ txs'[x].kind = "issue" /\ txs'[x].state = "success" => ours(tickets'[txs'[x].order])
      BY <1>4
    <3>1. CASE x = hash
      BY <1>2, <1>3, <1>4, <1>5, <3>1 DEF ChainInv, ours
    <3>2. CASE x # hash
      BY <1>4, <1>9, <3>2, TxType DEF ChainInv
    <3>. QED  BY <3>1, <3>2
  <2>4. \A p \in Orders : \A x, y \in LiveIssues(p)' : x = y
    BY <1>8 DEF ChainInv
  <2>. QED  BY <1>13, <2>1, <2>2, <2>3, <2>4 DEF ChainInv
<1>16. StatusMatchesChain'
  <2> SUFFICES ASSUME NEW p \in Orders
               PROVE  /\ card_orders[p].status = "issued" => tickets'[p] = "live"
                      /\ card_orders[p].status = "voided" => tickets'[p] = "voided"
                      /\ card_orders[p].status = "cancelled" => tickets'[p] # "live"
    BY <1>13 DEF StatusMatchesChain
  <2>1. CASE p = o /\ outcome = "success" /\ tx.kind = "issue"
    BY <1>6, <1>8, <2>1 DEF StatusMatchesChain, RowInv, RowGood
  <2>2. CASE p = o /\ outcome = "success" /\ tx.kind = "void"
    <3>1. card_orders[o].status \in Late /\ tickets'[o] = "voided"
      BY <1>2, <1>5, <2>2 DEF ChainInv
    <3>. QED  BY <2>2, <3>1 DEF Late
  <2>3. CASE ~(p = o /\ outcome = "success")
    BY <1>5, <2>3 DEF StatusMatchesChain
  <2>. QED  BY <1>6, <2>1, <2>2, <2>3
<1>17. PaidInv' /\ CloseInv' /\ AppliedRefundCloses'
  <2>1. \A x \in DOMAIN txs' : txs'[x].kind = "issue" => Paid(txs'[x].order)
    BY <1>2, <1>3, <1>4 DEF PaidInv
  <2>. QED  BY <1>2, <1>13, <2>1, NoDelivery DEF UnchangedByChain, CloseInv, Unpaid
<1>18. Advances
  BY <1>13, SameStatus
<1>. QED  BY <1>10, <1>11, <1>12, <1>14, <1>15, <1>16, <1>17, <1>18
-----------------------------------------------------------------------------
\* Every step of the card path.
LEMMA NextKeeps == ASSUME CardInv, [Next]_vars PROVE CardInv' /\ Advances
<1>1. ASSUME NEW o \in Orders, createCardOrder(o) \/ signCardOrder_read(o) PROVE CardInv' /\ Advances
  BY <1>1, CreateKeeps, SignReadKeeps
<1>2. ASSUME NEW h \in Handlers, Webhook(h) PROVE CardInv' /\ Advances
  BY <1>2, ApplyKeeps, ReadOrderKeeps, LedgerKeeps, PayKeeps, CancelKeeps, VoidKeeps, RecordKeeps, FailKeeps
     DEF Webhook, Processing
<1>3. ASSUME Operator PROVE CardInv' /\ Advances
  BY <1>3, NotesKeep, IssueFoundKeeps, IssueClearKeeps, IssueFinishKeeps, VoidCancelKeeps, VoidFoundKeeps,
     VoidFinishKeeps, RunKeeps, DiesKeeps, ReadTicketKeeps, SendKeeps, SignsKeep
     DEF Operator, OperatorStep
<1>4. ASSUME Chain PROVE CardInv' /\ Advances
  BY <1>4, ExecutesKeeps, OtherPurchaseKeeps, TickKeeps DEF Chain
<1>5. CASE UNCHANGED vars
  <2>1. CardInv'
    BY <1>5 DEF vars, CardInv, CardTypes, TypeOK, BatchInv, JobInv, RowInv, RowGood, ChainInv, PaidInv, CloseInv,
       StatusMatchesChain, AppliedRefundCloses, LiveIssues, Paid, Workable, Fresh, Job, Current
  <2>2. Advances
    BY <1>5, SameStatus DEF vars, CardInv
  <2>. QED  BY <2>1, <2>2
<1>. QED  BY <1>1, <1>2, <1>3, <1>4, <1>5, SignStoreKeeps DEF Next

\* The inductive invariant of the card path holds in every reachable state.
THEOREM CardInvariant == Spec => []CardInv
  BY InitCard, NextKeeps, PTL DEF Spec

\* What a closed order says is true on chain, and stays so whatever was in flight when it was closed.
THEOREM StatusMatchesChainCorrect == Spec => []StatusMatchesChain
<1>1. CardInv => StatusMatchesChain
  BY DEF CardInv
<1>. QED  BY <1>1, CardInvariant, PTL

\* An applied refund or lost chargeback leaves the order closed for good.
THEOREM AppliedRefundClosesCorrect == Spec => []AppliedRefundCloses
<1>1. CardInv => AppliedRefundCloses
  BY DEF CardInv
<1>. QED  BY <1>1, CardInvariant, PTL

\* The order book is well typed and every ticket the operator issued was paid for.
THEOREM CardSafeCorrect == Spec => []CardSafe
<1>1. CardInv => PaidForTicket
  <2> SUFFICES ASSUME CardInv, NEW o \in Orders, ours(tickets[o]) PROVE Paid(o)
    BY DEF PaidForTicket, Paid
  <2>1. PICK hash \in LiveIssues(o) : TRUE
    BY DEF CardInv, ChainInv
  <2>. QED  BY <2>1 DEF CardInv, PaidInv, LiveIssues
<1>2. CardInv => CardSafe
  BY <1>1 DEF CardSafe, CardInv, CardTypes
<1>. QED  BY <1>2, CardInvariant, PTL

\* An issue whose outcome is not known to be a failure is never sent a second time.
THEOREM NoBlindResendCorrect == Spec => []NoBlindResend
<1>1. CardInv => NoBlindResend
  <2> SUFFICES ASSUME CardInv, NEW o \in Orders PROVE Cardinality(LiveIssues(o)) <= 1
    BY DEF NoBlindResend, LiveIssues
  <2>1. CASE LiveIssues(o) = {}
    BY <2>1, FS_EmptySet
  <2>2. CASE LiveIssues(o) # {}
    <3>1. PICK hash \in LiveIssues(o) : LiveIssues(o) = {hash}
      BY <2>2 DEF CardInv, ChainInv
    <3>. QED  BY <3>1, FS_Singleton
  <2>. QED  BY <2>1, <2>2
<1>. QED  BY <1>1, CardInvariant, PTL


\* No redelivered event, stale signature or stale operator write moves an order backwards.
THEOREM NeverBackwardsCorrect == Spec => NeverBackwards
<1>1. Advances <=> \A o \in Orders :
        /\ Rank[card_orders'[o].status] >= Rank[card_orders[o].status]
        /\ card_orders[o].status \in Closed => card_orders'[o].status = card_orders[o].status
  BY DEF Advances, Forward
<1>2. CardInv /\ [Next]_vars => Advances
  BY NextKeeps
<1>. QED  BY <1>1, <1>2, CardInvariant, PTL DEF Spec, NeverBackwards
=============================================================================
