----------------------- MODULE MarketTicketsRefinement -----------------------
(* MarketTickets implements TicketEscrow. *)
EXTENDS MarketTickets

\* Where a ticket's price is.  A refund that USDC has not executed, or that
\* has failed and waits for its callback, has not left the market: the price is
\* still held.
Money(t) ==
    IF ~Exists(t) \/ tickets[t].rail # "crypto" THEN "absent"
    ELSE IF refund_paid[t] # 0
         THEN IF refund_paid[t] = tickets[t].gross THEN "returned" ELSE "overpaid"
    ELSE IF tickets[t].status = "released" THEN "settled"
    ELSE "held"

Escrow == INSTANCE TicketEscrow WITH money <- [t \in TicketId |-> Money(t)]

\* Every behaviour of the contract, its receipts and its callbacks is a
\* behaviour of the escrow promise.
EscrowPromise == Escrow!Spec
=============================================================================
