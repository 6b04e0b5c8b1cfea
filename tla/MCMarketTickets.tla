------------------------- MODULE MCMarketTickets -------------------------
(* Small instances of MarketTickets for TLC. *)
EXTENDS MarketTicketsRefinement, TLC

CONSTANTS t1, t2, c1, p1, o1, o2

\* One publication at the minimum price.
MCCreatorOf == p1 :> c1
MCPriceOf == p1 :> 100

Symmetry == Permutations(TicketId) \cup Permutations(OutSlot)
            \cup Permutations(Session)
=============================================================================
