---------------------------- MODULE TicketEscrow ----------------------------
(***************************************************************************)
(* What the V2 market promises about the price of one crypto ticket: it is *)
(* held, and then either given back to the buyer in full or settled to the *)
(* creator, the platform and the tax account - one of the two, once.  The  *)
(* promise says nothing of receipts, callbacks or clocks; MarketTickets,   *)
(* which has all three, implements it (Escrow in that module's             *)
(* MarketTicketsRefinement).                                               *)
(***************************************************************************)
CONSTANT TicketId

VARIABLE money

Stages == {"absent", "held", "returned", "settled"}

TypeOK == money \in [TicketId -> Stages]

Init == money = [t \in TicketId |-> "absent"]

Move(t, from, to) == /\ money[t] = from
                     /\ money' = [money EXCEPT ![t] = to]

Hold(t)   == Move(t, "absent", "held")
Return(t) == Move(t, "held", "returned")

\* One call may settle a batch.
Settle(batch) ==
    /\ \A t \in batch : money[t] = "held"
    /\ money' = [t \in TicketId |-> IF t \in batch THEN "settled" ELSE money[t]]

Next == \/ \E t \in TicketId : Hold(t) \/ Return(t)
        \/ \E batch \in SUBSET TicketId : Settle(batch)

Spec == Init /\ [][Next]_money
=============================================================================
