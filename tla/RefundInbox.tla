---------------------------- MODULE RefundInbox ----------------------------
(***************************************************************************)
(* The USDC refund requests of one ticket: the payment service's inbox     *)
(* (workers/payment-service/src/refunds.ts, a D1 table) and the operator's *)
(* tool (scripts/refunds.mjs), which may run several times at once.        *)
(*                                                                         *)
(* A handler or a tool run is interleaved at every await: the checks of a  *)
(* request, the rows a tool listed and the ticket it read are old when     *)
(* they are used.  The contract's refund (market-v2 refund_ticket and its  *)
(* callback) marks the ticket before the transfer is known and restores it *)
(* when the transfer fails.                                                *)
(***************************************************************************)
EXTENDS Naturals, FiniteSets

CONSTANTS Buyers,       \* requests of the ticket's holder served at once
          Tools,        \* runs of the operator's tool
          WindowEnds,   \* when the refund window closes
          SignatureLife,
          MaxRows, MaxDay, MaxBounces

ASSUME InboxAssumption ==
    /\ {WindowEnds, SignatureLife, MaxDay, MaxBounces} \subseteq Nat
    /\ MaxRows \in Nat \ {0}

VARIABLES escrow,     \* the ticket on chain: held, refunding, refunded, released
          takedown,   \* is the publication taken down
          rows,       \* the table: row number -> [status, expires, made]
          buyer, tool,
          refundTx,   \* refund transactions sent: [by, row]
          everRefunded, \* has the chain ever shown the ticket refunded
          day, bounces

inboxVars == <<escrow, takedown, rows, buyer, tool, refundTx, everRefunded, day, bounces>>
RowIds == 1 .. MaxRows
NoRow == [status |-> "none", expires |-> 0]
NoErrand == [at |-> "idle", row |-> 0, expires |-> 0]
openRows == {r \in RowIds : rows[r].status = "pending"}
refundable == escrow = "held"
windowOpen == takedown \/ day < WindowEnds
shown == IF escrow = "refunding" THEN "refunded" ELSE escrow

\* verifyRefundRequest: the checks the contract will make, done before storing.
verifyRefundRequest(b) ==
    /\ buyer[b].at = "idle" /\ rows[MaxRows] = NoRow
    /\ refundable /\ windowOpen
    /\ buyer' = [buyer EXCEPT ![b] = [at |-> "select", row |-> 0, expires |-> day + SignatureLife]]
    /\ UNCHANGED <<escrow, takedown, rows, tool, refundTx, everRefunded, day, bounces>>

\* storeRefundRequest: a select, then an insert that the partial unique index
\* refuses when another request of the ticket is pending.
selectPending(b) ==
    /\ buyer[b].at = "select"
    /\ buyer' = [buyer EXCEPT ![b] = IF openRows = {} THEN [@ EXCEPT !.at = "insert"] ELSE NoErrand]
    /\ UNCHANGED <<escrow, takedown, rows, tool, refundTx, everRefunded, day, bounces>>

insertable == openRows = {}
storeRefundRequest(b) ==
    /\ buyer[b].at = "insert"
    /\ buyer' = [buyer EXCEPT ![b] = NoErrand]
    /\ \/ ~insertable /\ UNCHANGED rows
       \/ /\ insertable
          /\ \E r \in RowIds :
               /\ rows[r] = NoRow /\ \A s \in 1 .. r - 1 : rows[s] # NoRow
               /\ rows' = [rows EXCEPT ![r] = [status |-> "pending", expires |-> buyer[b].expires]]
    /\ UNCHANGED <<escrow, takedown, tool, refundTx, everRefunded, day, bounces>>

------------------------------------------------------------------------------
(* The operator's tool.                                                    *)

\* pendingRequest and chainState: what `approve`, `approve-takedowns`, `record`
\* and `decline` read first.
approves(t, r) ==
    /\ tool[t].at = "idle" /\ r \in openRows
    /\ refundable /\ windowOpen /\ day < rows[r].expires
    /\ tool' = [tool EXCEPT ![t] = [NoErrand EXCEPT !.at = "confirm", !.row = r]]
    /\ UNCHANGED <<escrow, takedown, rows, buyer, refundTx, everRefunded, day, bounces>>

\* approve-takedowns goes through every due request; one ticket has one.
approvesTakedowns(t, r) == takedown /\ approves(t, r)

records(t, r) ==
    /\ tool[t].at = "idle" /\ r \in openRows
    /\ tool' = [tool EXCEPT ![t] = [NoErrand EXCEPT !.at = "record", !.row = r]]
    /\ UNCHANGED <<escrow, takedown, rows, buyer, refundTx, everRefunded, day, bounces>>

declines(t, r) ==
    /\ tool[t].at = "idle" /\ r \in openRows
    /\ tool' = [tool EXCEPT ![t] = [NoErrand EXCEPT !.at = "decline", !.row = r]]
    /\ UNCHANGED <<escrow, takedown, rows, buyer, refundTx, everRefunded, day, bounces>>

\* The operator types REFUND, or cancels; the transaction is signed and sent.
sendRefund(t) ==
    /\ tool[t].at = "confirm"
    /\ \/ tool' = [tool EXCEPT ![t] = NoErrand] /\ UNCHANGED refundTx
       \/ /\ refundTx' = refundTx \cup {[by |-> t, row |-> tool[t].row]}
          /\ tool' = [tool EXCEPT ![t].at = "wait"]
    /\ UNCHANGED <<escrow, takedown, rows, buyer, everRefunded, day, bounces>>

\* sendTransactionUntil FINAL returned, or its outcome is unknown: the run stops.
awaitRefund(t) ==
    /\ tool[t].at = "wait"
    /\ \/ /\ [by |-> t, row |-> tool[t].row] \notin refundTx
          /\ escrow # "refunding"
          /\ tool' = [tool EXCEPT ![t] = IF shown = "refunded" THEN [@ EXCEPT !.at = "record"] ELSE NoErrand]
       \/ tool' = [tool EXCEPT ![t] = NoErrand]
    /\ UNCHANGED <<escrow, takedown, rows, buyer, refundTx, everRefunded, day, bounces>>

\* decideRefundRequest: the ticket is read, then a pending row is updated.
decidable(r) == rows[r].status = "pending"
\* Mutant: the operator's word is enough.
refund_trusted == TRUE
chainShowsRefund == shown = "refunded"
readsTicket(t) ==
    /\ tool[t].at = "record"
    /\ tool' = [tool EXCEPT ![t] = IF chainShowsRefund /\ decidable(tool[t].row) THEN [@ EXCEPT !.at = "mark"]
                                ELSE NoErrand]
    /\ UNCHANGED <<escrow, takedown, rows, buyer, refundTx, everRefunded, day, bounces>>

decideRefundRequest(t) ==
    /\ tool[t].at \in {"mark", "decline"}
    /\ LET r == tool[t].row
           decision == IF tool[t].at = "mark" THEN "refunded" ELSE "declined"
       IN  rows' = IF decidable(r) THEN [rows EXCEPT ![r].status = decision] ELSE rows
    /\ tool' = [tool EXCEPT ![t] = NoErrand]
    /\ UNCHANGED <<escrow, takedown, buyer, refundTx, everRefunded, day, bounces>>

------------------------------------------------------------------------------
(* The contract (external to these sources): refund_ticket, its callback,  *)
(* the release after the window and a takedown.                            *)
refund_ticket(x) ==
    /\ x \in refundTx
    /\ refundTx' = refundTx \ {x}
    /\ IF refundable /\ windowOpen /\ day < rows[x.row].expires
       THEN escrow' = "refunding" /\ everRefunded' = TRUE
       ELSE UNCHANGED <<escrow, everRefunded>>
    /\ UNCHANGED <<takedown, rows, buyer, tool, day, bounces>>

on_ticket_refund ==
    /\ escrow = "refunding"
    /\ \/ escrow' = "refunded" /\ UNCHANGED bounces
       \/ bounces < MaxBounces /\ bounces' = bounces + 1 /\ escrow' = "held"
    /\ UNCHANGED <<takedown, rows, buyer, tool, refundTx, everRefunded, day>>

\* After a takedown anyone may submit the holder's signed refund.
holderRefunds ==
    /\ takedown /\ refundable
    /\ escrow' = "refunding" /\ everRefunded' = TRUE
    /\ UNCHANGED <<takedown, rows, buyer, tool, refundTx, day, bounces>>

release_expired ==
    /\ refundable /\ ~takedown /\ day >= WindowEnds
    /\ escrow' = "released"
    /\ UNCHANGED <<takedown, rows, buyer, tool, refundTx, everRefunded, day, bounces>>

takesDown ==
    /\ ~takedown /\ takedown' = TRUE
    /\ UNCHANGED <<escrow, rows, buyer, tool, refundTx, everRefunded, day, bounces>>

InboxTick ==
    /\ day < MaxDay /\ day' = day + 1
    /\ UNCHANGED <<escrow, takedown, rows, buyer, tool, refundTx, everRefunded, bounces>>

InboxInit ==
    /\ escrow = "held" /\ takedown = FALSE /\ rows = [r \in RowIds |-> NoRow]
    /\ buyer = [b \in Buyers |-> NoErrand] /\ tool = [t \in Tools |-> NoErrand]
    /\ refundTx = {} /\ everRefunded = FALSE /\ day = 0 /\ bounces = 0

InboxNext ==
    \/ \E b \in Buyers : verifyRefundRequest(b) \/ selectPending(b) \/ storeRefundRequest(b)
    \/ \E t \in Tools : \/ \E r \in RowIds : approves(t, r) \/ approvesTakedowns(t, r) \/ records(t, r) \/ declines(t, r)
                        \/ sendRefund(t) \/ awaitRefund(t) \/ readsTicket(t) \/ decideRefundRequest(t)
    \/ \E x \in refundTx : refund_ticket(x)
    \/ on_ticket_refund \/ holderRefunds \/ release_expired \/ takesDown \/ InboxTick

------------------------------------------------------------------------------
InboxTypeOK ==
    /\ escrow \in {"held", "refunding", "refunded", "released"}
    /\ \A r \in RowIds : rows[r].status \in {"none", "pending", "refunded", "declined"}
    /\ \A t \in Tools : tool[t].row \in 0 .. MaxRows
    /\ refundTx \subseteq [by : Tools, row : RowIds]

\* A ticket has one open request, however many the holder sends at once: the
\* operator never reviews, and never pays for, the same ticket twice over.
OneOpenRequest == Cardinality(openRows) <= 1

\* A request is marked refunded only when the ticket's own refund ran on chain,
\* whatever transaction hash the operator names and whichever run sent it.
MarkedAfterRefund == \A r \in RowIds : rows[r].status = "refunded" => everRefunded

\* The inbox holds one open request and calls refunded only what the chain refunded.
InboxSafe == InboxTypeOK /\ OneOpenRequest /\ MarkedAfterRefund
=============================================================================
