------------------------ MODULE MarketTicketsProofs ------------------------
(***************************************************************************)
(* Theorems about MarketTickets, for any number of tickets, publications,  *)
(* creators, sessions, receipts and any values of the limits: payments and *)
(* the abstract escrow first, then watching, references and devices, last  *)
(* the money.  There the escrow balance is exactly the gross of the        *)
(* tickets in escrow (EscrowBacked) and the market holds exactly the USDC  *)
(* it owes (Solvent); both are sums over finite sets (SumTheorems).        *)
(***************************************************************************)
EXTENDS MarketTicketsRefinement, SumTheorems

-----------------------------------------------------------------------------
(* The arithmetic of split_ticket_amount. *)

\* An allowed VAT is part of the gross, and the three shares add up to it.
LEMMA SplitExact ==
    ASSUME NEW gross \in Nat, NEW vat \in Nat, split_allowed(gross, vat)
    PROVE  /\ vat <= gross
           /\ platform_share(gross, vat) \in Nat
           /\ creator_share(gross, vat) \in Nat
           /\ vat + platform_share(gross, vat) + creator_share(gross, vat) = gross
<1>1. vat <= gross
  <2> SUFFICES ASSUME vat > gross PROVE FALSE
      OBVIOUS
  <2> DEFINE R == MAX_VAT_RATE_BPS
  <2>1. R \in Nat
    BY LimitAssumption
  <2>2. vat * (10000 + R) <= gross * R
    BY DEF split_allowed
  <2> HIDE DEF R
  <2>3. vat * (10000 + R) = vat * 10000 + vat * R
    BY <2>1, Z3
  <2>4. gross * R <= vat * R
    BY <2>1, Z3
  <2>5. gross * R \in Nat /\ vat * R \in Nat /\ vat * 10000 > 0
    BY <2>1, Z3
  <2>. QED
    BY <2>2, <2>3, <2>4, <2>5, Z3
<1> DEFINE net == gross - vat
<1>2. net \in Nat
  BY <1>1
<1>3. /\ net \div PLATFORM_DIVISOR \in Nat
      /\ net \div PLATFORM_DIVISOR <= net
  BY <1>2, LimitAssumption, Z3
<1>. QED
  BY <1>1, <1>2, <1>3 DEF platform_share, creator_share

-----------------------------------------------------------------------------
(* Type correctness. *)

\* The initial state is well typed.
LEMMA InitTypeOK == Init => TypeOK
<1> SUFFICES ASSUME Init PROVE TypeOK
    OBVIOUS
<1>1. TicketsOK
  BY DEF Init, TicketsOK
<1>2. DevicesOK
  BY DEF Init, DevicesOK
<1>3. LedgerOK
  BY LimitAssumption DEF Init, LedgerOK, Balance
<1>4. PromisesOK
  BY DEF Init, PromisesOK
<1>5. EnvironmentOK
  BY BoundAssumption DEF Init, EnvironmentOK
<1>. QED
  BY <1>1, <1>2, <1>3, <1>4, <1>5 DEF TypeOK

\* A slot in use holds a transfer.
LEMMA InboundType ==
    ASSUME TypeOK, NEW s \in InSlot, inbound[s].stage # "free"
    PROVE  inbound[s] \in Inbound
  BY DEF TypeOK, PromisesOK, NoInbound

\* A receipt has the fields of its kind, and a refund's ticket exists.
LEMMA OutboundType ==
    ASSUME TypeOK, NEW s \in OutSlot, outbound[s].stage # "free"
    PROVE  /\ outbound[s] \in Outbound
           /\ outbound[s].kind = "refund" => outbound[s] \in Refund
           /\ outbound[s].kind = "creator" => outbound[s] \in CreatorPayout
  BY DEF TypeOK, PromisesOK, NoOutbound, Outbound, Refund, CreatorPayout,
         RolePayout

\* An existing ticket has all its fields.
LEMMA TicketType ==
    ASSUME TypeOK, NEW t \in TicketId, tickets[t].status # "none"
    PROVE  tickets[t] \in Ticket
  BY DEF TypeOK, TicketsOK, NoTicket

\* Every entry point, receipt and callback keeps it so.  The refund callback
\* needs PaidOnce: the ticket it restores must be one that exists.
LEMMA NextTypeOK == TypeOK /\ PaidOnce /\ [Next]_vars => TypeOK'
<1> SUFFICES ASSUME TypeOK, PaidOnce, [Next]_vars PROVE TypeOK'
    OBVIOUS
<1>1. ASSUME NEW s \in InSlot, ft_transfer_call(s) PROVE TypeOK'
  <2>1. TicketsOK' /\ DevicesOK' /\ LedgerOK' /\ EnvironmentOK'
    BY <1>1 DEF ft_transfer_call, ledger, device, env, TypeOK, TicketsOK,
         DevicesOK, LedgerOK, EnvironmentOK
  <2>2. PromisesOK'
    <3>1. PICK p \in Transfer : /\ inbound' = [inbound EXCEPT ![s] = p]
                                /\ usdc' = usdc + p.amount
      BY <1>1 DEF ft_transfer_call
    <3>2. p \in Inbound
      <4>1. p.amount \in Nat /\ p.vat \in Nat
        BY DataAssumption DEF Transfer
      <4>2. p.expires \in Nat
        BY LimitAssumption DEF Transfer, TypeOK, EnvironmentOK
      <4>. QED
        BY <4>1, <4>2 DEF Transfer, Inbound
    <3>3. UNCHANGED <<outbound, refund_paid>>
      BY <1>1 DEF ft_transfer_call
    <3>. QED
      BY <3>1, <3>2, <3>3 DEF TypeOK, PromisesOK, Inbound
  <2>. QED BY <2>1, <2>2 DEF TypeOK
<1>2. ASSUME NEW s \in InSlot, buy_ticket_v2(s) PROVE TypeOK'
  <2>1. TicketsOK'
    <3>1. /\ inbound[s] \in Inbound
          /\ split_allowed(inbound[s].amount, inbound[s].vat)
      BY <1>2, InboundType DEF buy_ticket_v2, buy_accepted
    <3>2. /\ inbound[s].amount \in Nat
          /\ inbound[s].vat \in Nat
          /\ inbound[s].publication \in Publication
          /\ inbound[s].ticket \in TicketId
      BY <3>1 DEF Inbound
    <3>3. /\ platform_share(inbound[s].amount, inbound[s].vat) \in Nat
          /\ creator_share(inbound[s].amount, inbound[s].vat) \in Nat
      BY <3>1, <3>2, SplitExact
    <3>. QED
      BY <1>2, <3>2, <3>3 DEF buy_ticket_v2, TypeOK, TicketsOK, EnvironmentOK,
         Ticket, TicketStatus, PlayableStatus, InEscrowStatus
  <2>2. DevicesOK'
    BY <1>2, LimitAssumption, InboundType DEF buy_ticket_v2, env, TypeOK,
         DevicesOK, EnvironmentOK, first_device, Device, Inbound
  <2>3. LedgerOK'
    BY <1>2 DEF buy_ticket_v2, env, TypeOK, LedgerOK, Inbound, NoInbound
  <2>4. PromisesOK'
    BY <1>2 DEF buy_ticket_v2, env, TypeOK, PromisesOK, Inbound, NoInbound
  <2>5. EnvironmentOK'
    BY <1>2, LimitAssumption DEF buy_ticket_v2, env, TypeOK, EnvironmentOK,
         buy_accepted
  <2>. QED BY <2>1, <2>2, <2>3, <2>4, <2>5 DEF TypeOK
<1>3. ASSUME NEW s \in InSlot, create_paid_job(s) PROVE TypeOK'
  <2>1. TicketsOK' /\ DevicesOK' /\ EnvironmentOK'
    BY <1>3 DEF create_paid_job, device, env, TypeOK, TicketsOK, DevicesOK,
         EnvironmentOK
  <2>2. LedgerOK'
    BY <1>3 DEF create_paid_job, device, env, TypeOK, LedgerOK
  <2>3. PromisesOK'
    BY <1>3 DEF create_paid_job, device, env, TypeOK, PromisesOK
  <2>. QED BY <2>1, <2>2, <2>3 DEF TypeOK
<1>4. ASSUME NEW s \in InSlot, ft_on_transfer_returns(s) PROVE TypeOK'
  <2>1. TicketsOK' /\ DevicesOK' /\ LedgerOK' /\ EnvironmentOK'
    BY <1>4 DEF ft_on_transfer_returns, ledger, device, env, TypeOK,
         TicketsOK, DevicesOK, LedgerOK, EnvironmentOK
  <2>2. PromisesOK'
    BY <1>4 DEF ft_on_transfer_returns, ledger, device, env, TypeOK,
         PromisesOK, Inbound, NoInbound
  <2>. QED BY <2>1, <2>2 DEF TypeOK
<1>5. ASSUME NEW s \in InSlot, ft_resolve_transfer(s) PROVE TypeOK'
  <2>1. TicketsOK' /\ DevicesOK' /\ LedgerOK' /\ EnvironmentOK'
    BY <1>5 DEF ft_resolve_transfer, ledger, device, env, TypeOK, TicketsOK,
         DevicesOK, LedgerOK, EnvironmentOK
  <2>2. PromisesOK'
    BY <1>5 DEF ft_resolve_transfer, ledger, device, env, TypeOK, PromisesOK,
         Inbound, NoInbound
  <2>. QED BY <2>1, <2>2 DEF TypeOK
<1>6. ASSUME NEW s \in OutSlot, NEW c \in Creator, withdraw_creator_balance(c,
     s) PROVE TypeOK'
  <2>1. TicketsOK' /\ DevicesOK' /\ EnvironmentOK'
    BY <1>6 DEF withdraw_creator_balance, device, env, TypeOK, TicketsOK,
         DevicesOK, EnvironmentOK
  <2>2. LedgerOK'
    BY <1>6, LimitAssumption DEF withdraw_creator_balance, device, env,
         TypeOK, LedgerOK, Balance
  <2>3. PromisesOK'
    BY <1>6 DEF withdraw_creator_balance, device, env, TypeOK, PromisesOK,
         ft_transfer, LedgerOK, Balance, Outbound, CreatorPayout, Stage
  <2>. QED BY <2>1, <2>2, <2>3 DEF TypeOK
<1>7. ASSUME NEW s \in OutSlot, withdraw_platform_balance(s) PROVE TypeOK'
  <2>1. TicketsOK' /\ DevicesOK' /\ EnvironmentOK'
    BY <1>7 DEF withdraw_platform_balance, device, env, TypeOK, TicketsOK,
         DevicesOK, EnvironmentOK
  <2>2. LedgerOK'
    BY <1>7, LimitAssumption DEF withdraw_platform_balance, device, env,
         TypeOK, LedgerOK, Balance
  <2>3. PromisesOK'
    BY <1>7 DEF withdraw_platform_balance, device, env, TypeOK, PromisesOK,
         ft_transfer, LedgerOK, Balance, Outbound, RolePayout, Stage
  <2>. QED BY <2>1, <2>2, <2>3 DEF TypeOK
<1>8. ASSUME NEW s \in OutSlot, withdraw_tax_balance(s) PROVE TypeOK'
  <2>1. TicketsOK' /\ DevicesOK' /\ EnvironmentOK'
    BY <1>8 DEF withdraw_tax_balance, device, env, TypeOK, TicketsOK,
         DevicesOK, EnvironmentOK
  <2>2. LedgerOK'
    BY <1>8, LimitAssumption DEF withdraw_tax_balance, device, env, TypeOK,
         LedgerOK, Balance
  <2>3. PromisesOK'
    BY <1>8 DEF withdraw_tax_balance, device, env, TypeOK, PromisesOK,
         ft_transfer, LedgerOK, Balance, Outbound, RolePayout, Stage
  <2>. QED BY <2>1, <2>2, <2>3 DEF TypeOK
<1>9. ASSUME NEW s \in OutSlot, NEW t \in TicketId, NEW caller \in
     {"operator", "anyone"}, refund_ticket(t, caller, s) PROVE TypeOK'
  <2>1. DevicesOK' /\ EnvironmentOK'
    BY <1>9 DEF refund_ticket, refund_amount, device, env, TypeOK, DevicesOK, EnvironmentOK
  <2>2. TicketsOK'
    BY <1>9 DEF refund_ticket, refund_amount, device, env, TypeOK, TicketsOK, refundable,
         Exists, SetStatus, Ticket, NoTicket, TicketStatus
  <2>3. LedgerOK'
    BY <1>9 DEF refund_ticket, refund_amount, device, env, TypeOK, LedgerOK
  <2>4. PromisesOK'
    BY <1>9 DEF refund_ticket, refund_amount, device, env, TypeOK, PromisesOK, ft_transfer,
         TicketsOK, refundable, Exists, InEscrow, Ticket, NoTicket, Outbound,
         Refund, Stage
  <2>. QED BY <2>1, <2>2, <2>3, <2>4 DEF TypeOK
<1>10. ASSUME NEW s \in OutSlot, UsdcPays(s) PROVE TypeOK'
  <2>1. TicketsOK' /\ DevicesOK' /\ LedgerOK' /\ EnvironmentOK'
    BY <1>10 DEF UsdcPays, ledger, device, env, TypeOK, TicketsOK, DevicesOK,
         LedgerOK, EnvironmentOK
  <2>2. PromisesOK'
    BY <1>10 DEF UsdcPays, ledger, device, env, TypeOK, PromisesOK, Outbound,
         NoOutbound, CreatorPayout, RolePayout, Refund, Stage
  <2>. QED BY <2>1, <2>2 DEF TypeOK
<1>11. ASSUME NEW s \in OutSlot, UsdcFails(s) PROVE TypeOK'
  <2>1. TicketsOK' /\ DevicesOK' /\ LedgerOK' /\ EnvironmentOK'
    BY <1>11 DEF UsdcFails, ledger, device, env, TypeOK, TicketsOK, DevicesOK,
         LedgerOK, EnvironmentOK
  <2>2. PromisesOK'
    BY <1>11 DEF UsdcFails, ledger, device, env, TypeOK, PromisesOK, Outbound,
         NoOutbound, CreatorPayout, RolePayout, Refund, Stage
  <2>. QED BY <2>1, <2>2 DEF TypeOK
<1>12. ASSUME NEW s \in OutSlot, on_creator_withdraw(s) PROVE TypeOK'
  <2>1. TicketsOK' /\ DevicesOK' /\ EnvironmentOK'
    BY <1>12 DEF on_creator_withdraw, device, env, TypeOK, TicketsOK,
         DevicesOK, EnvironmentOK
  <2>2. LedgerOK'
    BY <1>12 DEF on_creator_withdraw, device, env, TypeOK, LedgerOK
  <2>3. PromisesOK'
    BY <1>12 DEF on_creator_withdraw, device, env, TypeOK, PromisesOK, Done
  <2>. QED BY <2>1, <2>2, <2>3 DEF TypeOK
<1>13. ASSUME NEW s \in OutSlot, on_platform_withdraw(s) PROVE TypeOK'
  <2>1. TicketsOK' /\ DevicesOK' /\ EnvironmentOK'
    BY <1>13 DEF on_platform_withdraw, device, env, TypeOK, TicketsOK,
         DevicesOK, EnvironmentOK
  <2>2. LedgerOK'
    BY <1>13 DEF on_platform_withdraw, device, env, TypeOK, LedgerOK
  <2>3. PromisesOK'
    BY <1>13 DEF on_platform_withdraw, device, env, TypeOK, PromisesOK, Done
  <2>. QED BY <2>1, <2>2, <2>3 DEF TypeOK
<1>14. ASSUME NEW s \in OutSlot, on_tax_withdraw(s) PROVE TypeOK'
  <2>1. TicketsOK' /\ DevicesOK' /\ EnvironmentOK'
    BY <1>14 DEF on_tax_withdraw, device, env, TypeOK, TicketsOK, DevicesOK,
         EnvironmentOK
  <2>2. LedgerOK'
    BY <1>14 DEF on_tax_withdraw, device, env, TypeOK, LedgerOK
  <2>3. PromisesOK'
    BY <1>14 DEF on_tax_withdraw, device, env, TypeOK, PromisesOK, Done
  <2>. QED BY <2>1, <2>2, <2>3 DEF TypeOK
<1>15. ASSUME NEW s \in OutSlot, on_ticket_refund(s) PROVE TypeOK'
  <2>1. EnvironmentOK'
    BY <1>15 DEF on_ticket_refund, env, TypeOK, EnvironmentOK
  <2>2. TicketsOK'
    <3> DEFINE t == outbound[s].ticket
    <3>1. outbound[s] \in Refund /\ t \in TicketId
      BY <1>15, OutboundType DEF on_ticket_refund, Done, Refund
    <3>2. tickets[t] \in Ticket
      BY <1>15, <3>1, TicketType DEF on_ticket_refund, Done, PaidOnce, ReceiptOK,
         IsRefund
    <3>. QED
      BY <1>15, <3>1, <3>2 DEF on_ticket_refund, TypeOK, TicketsOK,
         restore_status, Ticket, Refund, TicketStatus, PlayableStatus
  <2>3. DevicesOK'
    BY <1>15 DEF on_ticket_refund, env, TypeOK, DevicesOK, PromisesOK, Done,
         devices_cleared, Outbound, NoOutbound, CreatorPayout, RolePayout,
         Refund
  <2>4. LedgerOK'
    BY <1>15 DEF on_ticket_refund, env, TypeOK, LedgerOK
  <2>5. PromisesOK'
    BY <1>15 DEF on_ticket_refund, env, TypeOK, PromisesOK, Done
  <2>. QED BY <2>1, <2>2, <2>3, <2>4, <2>5 DEF TypeOK
<1>16. ASSUME NEW t \in TicketId, mark_watched(t) PROVE TypeOK'
  <2>1. DevicesOK' /\ LedgerOK' /\ PromisesOK' /\ EnvironmentOK'
    BY <1>16 DEF mark_watched, ledger, promises, device, env, TypeOK,
         DevicesOK, LedgerOK, PromisesOK, EnvironmentOK
  <2>2. TicketsOK'
    BY <1>16 DEF mark_watched, ledger, promises, device, env, TypeOK,
         TicketsOK, Exists, SetStatus, Ticket, NoTicket, TicketStatus,
         PlayableStatus, InEscrowStatus
  <2>. QED BY <2>1, <2>2 DEF TypeOK
<1>17. ASSUME NEW batch \in SUBSET TicketId, release_expired(batch) PROVE
     TypeOK'
  <2>1. DevicesOK' /\ PromisesOK' /\ EnvironmentOK'
    BY <1>17 DEF release_expired, promises, device, env, TypeOK, DevicesOK,
         PromisesOK, EnvironmentOK
  <2>2. TicketsOK'
    BY <1>17 DEF release_expired, promises, device, env, TypeOK, TicketsOK,
         releasable, Exists, Ticket, NoTicket, TicketStatus, PlayableStatus
  <2>3. LedgerOK'
    BY <1>17 DEF release_expired, promises, device, env, TypeOK, LedgerOK
  <2>. QED BY <2>1, <2>2, <2>3 DEF TypeOK
<1>18. ASSUME NEW t \in TicketId, NEW p \in Publication,
     NEW r \in CardReference, NEW d \in Session, issue_card_ticket(t, p, r, d)
     PROVE TypeOK'
  <2>1. LedgerOK' /\ PromisesOK'
    BY <1>18 DEF issue_card_ticket, ledger, promises, env, TypeOK, LedgerOK,
         PromisesOK
  <2>2. TicketsOK'
    BY <1>18 DEF issue_card_ticket, ledger, promises, env, TypeOK, TicketsOK,
         EnvironmentOK, Ticket, TicketStatus, PlayableStatus, InEscrowStatus
  <2>3. DevicesOK'
    BY <1>18, LimitAssumption DEF issue_card_ticket, ledger, promises, env,
         TypeOK, DevicesOK, EnvironmentOK, first_device, Device
  <2>4. EnvironmentOK'
    BY <1>18 DEF issue_card_ticket, ledger, promises, env, TypeOK,
         EnvironmentOK, card_storage_covered
  <2>. QED BY <2>1, <2>2, <2>3, <2>4 DEF TypeOK
<1>19. ASSUME NEW t \in TicketId, void_card_ticket(t) PROVE TypeOK'
  <2>1. LedgerOK' /\ PromisesOK' /\ EnvironmentOK'
    BY <1>19 DEF void_card_ticket, ledger, promises, env, TypeOK, LedgerOK,
         PromisesOK, EnvironmentOK
  <2>2. TicketsOK'
    BY <1>19 DEF void_card_ticket, ledger, promises, env, TypeOK, TicketsOK,
         Exists, SetStatus, Ticket, NoTicket, TicketStatus
  <2>3. DevicesOK'
    BY <1>19 DEF void_card_ticket, ledger, promises, env, TypeOK, DevicesOK,
         devices_cleared
  <2>. QED BY <2>1, <2>2, <2>3 DEF TypeOK
<1>20. ASSUME NEW t \in TicketId, NEW d \in Session,                    NEW e
     \in 0 .. MaxEpoch, SignDevice(t, d, e) PROVE TypeOK'
  <2>1. TicketsOK' /\ LedgerOK' /\ PromisesOK' /\ EnvironmentOK'
    BY <1>20 DEF SignDevice, ledger, promises, env, TypeOK, TicketsOK,
         LedgerOK, PromisesOK, EnvironmentOK
  <2>2. DevicesOK'
    BY <1>20, LimitAssumption, BoundAssumption DEF SignDevice, ledger,
         promises, env, TypeOK, DevicesOK, EnvironmentOK, SignedDevice
  <2>. QED BY <2>1, <2>2 DEF TypeOK
<1>21. ASSUME NEW m \in signed, add_device(m) PROVE TypeOK'
  <2>1. TicketsOK' /\ LedgerOK' /\ PromisesOK' /\ EnvironmentOK'
    BY <1>21 DEF add_device, ledger, promises, env, TypeOK, TicketsOK,
         LedgerOK, PromisesOK, EnvironmentOK
  <2>2. DevicesOK'
    BY <1>21, LimitAssumption DEF add_device, ledger, promises, env, TypeOK,
         DevicesOK, EnvironmentOK, SignedDevice, Device, kept_devices,
         epoch_after
  <2>. QED BY <2>1, <2>2 DEF TypeOK
<1>22. ASSUME NEW t \in TicketId, NEW d \in Session, revoke_device(t, d) PROVE
     TypeOK'
  <2>1. TicketsOK' /\ LedgerOK' /\ PromisesOK' /\ EnvironmentOK'
    BY <1>22 DEF revoke_device, revoke_ticket_device, ledger, promises, env,
         TypeOK, TicketsOK, LedgerOK, PromisesOK, EnvironmentOK
  <2>2. DevicesOK'
    BY <1>22 DEF revoke_device, revoke_ticket_device, ledger, promises, env,
         TypeOK, DevicesOK
  <2>. QED BY <2>1, <2>2 DEF TypeOK
<1>23. ASSUME NEW p \in Publication, suspend_sales(p) PROVE TypeOK'
  <2>1. TicketsOK' /\ DevicesOK' /\ LedgerOK' /\ PromisesOK'
    BY <1>23 DEF suspend_sales, Others, ledger, promises, device, TypeOK,
         TicketsOK, DevicesOK, LedgerOK, PromisesOK
  <2>2. EnvironmentOK'
    BY <1>23 DEF suspend_sales, Others, ledger, promises, device, TypeOK,
         EnvironmentOK
  <2>. QED BY <2>1, <2>2 DEF TypeOK
<1>24. ASSUME NEW p \in Publication, takedown_publication(p) PROVE TypeOK'
  <2>1. TicketsOK' /\ DevicesOK' /\ LedgerOK' /\ PromisesOK'
    BY <1>24 DEF takedown_publication, Others, ledger, promises, device,
         TypeOK, TicketsOK, DevicesOK, LedgerOK, PromisesOK
  <2>2. EnvironmentOK'
    BY <1>24 DEF takedown_publication, Others, ledger, promises, device,
         TypeOK, EnvironmentOK
  <2>. QED BY <2>1, <2>2 DEF TypeOK
<1>25. ASSUME pause_new_purchases PROVE TypeOK'
  <2>1. TicketsOK' /\ DevicesOK' /\ LedgerOK' /\ PromisesOK'
    BY <1>25 DEF pause_new_purchases, Others, ledger, promises, device,
         TypeOK, TicketsOK, DevicesOK, LedgerOK, PromisesOK
  <2>2. EnvironmentOK'
    BY <1>25 DEF pause_new_purchases, Others, ledger, promises, device,
         TypeOK, EnvironmentOK
  <2>. QED BY <2>1, <2>2 DEF TypeOK
<1>26. ASSUME unpause_new_purchases PROVE TypeOK'
  <2>1. TicketsOK' /\ DevicesOK' /\ LedgerOK' /\ PromisesOK'
    BY <1>26 DEF unpause_new_purchases, Others, ledger, promises, device,
         TypeOK, TicketsOK, DevicesOK, LedgerOK, PromisesOK
  <2>2. EnvironmentOK'
    BY <1>26 DEF unpause_new_purchases, Others, ledger, promises, device,
         TypeOK, EnvironmentOK
  <2>. QED BY <2>1, <2>2 DEF TypeOK
<1>27. ASSUME BetaEnds PROVE TypeOK'
  <2>1. TicketsOK' /\ DevicesOK' /\ LedgerOK' /\ PromisesOK'
    BY <1>27 DEF BetaEnds, Others, ledger, promises, device, TypeOK,
         TicketsOK, DevicesOK, LedgerOK, PromisesOK
  <2>2. EnvironmentOK'
    BY <1>27 DEF BetaEnds, Others, ledger, promises, device, TypeOK,
         EnvironmentOK
  <2>. QED BY <2>1, <2>2 DEF TypeOK
<1>28. ASSUME NEW k \in VatKey, revoke_vat_key(k) PROVE TypeOK'
  <2>1. TicketsOK' /\ DevicesOK' /\ LedgerOK' /\ PromisesOK'
    BY <1>28 DEF revoke_vat_key, Others, ledger, promises, device, TypeOK,
         TicketsOK, DevicesOK, LedgerOK, PromisesOK
  <2>2. EnvironmentOK'
    BY <1>28 DEF revoke_vat_key, Others, ledger, promises, device, TypeOK,
         EnvironmentOK
  <2>. QED BY <2>1, <2>2 DEF TypeOK
<1>29. ASSUME HeadroomChanges PROVE TypeOK'
  <2>1. TicketsOK' /\ DevicesOK' /\ LedgerOK' /\ PromisesOK'
    BY <1>29 DEF HeadroomChanges, Others, ledger, promises, device, env,
         TypeOK, TicketsOK, DevicesOK, LedgerOK, PromisesOK
  <2>2. EnvironmentOK'
    BY <1>29, BoundAssumption DEF HeadroomChanges, Others, ledger, promises,
         device, env, TypeOK, EnvironmentOK
  <2>. QED BY <2>1, <2>2 DEF TypeOK
<1>30. ASSUME Tick PROVE TypeOK'
  <2>1. TicketsOK' /\ DevicesOK' /\ LedgerOK' /\ PromisesOK'
    BY <1>30 DEF Tick, Others, ledger, promises, device, env, TypeOK,
         TicketsOK, DevicesOK, LedgerOK, PromisesOK
  <2>2. EnvironmentOK'
    BY <1>30 DEF Tick, Others, ledger, promises, device, env, TypeOK,
         EnvironmentOK
  <2>. QED BY <2>1, <2>2 DEF TypeOK
<1>31. CASE UNCHANGED vars
  <2>1. TicketsOK' /\ DevicesOK' /\ LedgerOK'
    BY <1>31 DEF vars, ledger, device, TypeOK, TicketsOK, DevicesOK, LedgerOK
  <2>2. PromisesOK' /\ EnvironmentOK'
    BY <1>31 DEF vars, promises, env, TypeOK, PromisesOK, EnvironmentOK
  <2>. QED BY <2>1, <2>2 DEF TypeOK
<1>. QED
  BY <1>1, <1>2, <1>3, <1>4, <1>5, <1>6, <1>7, <1>8, <1>9, <1>10, <1>11, <1>12, <1>13, <1>14, <1>15, <1>16, <1>17, <1>18, <1>19, <1>20, <1>21, <1>22, <1>23, <1>24, <1>25, <1>26, <1>27, <1>28, <1>29, <1>30, <1>31
     DEF Next, Transfers, ft_on_transfer, Payouts, Callbacks, Tickets, Devices,
         Environment

-----------------------------------------------------------------------------
(* A ticket's price leaves escrow once. *)

\* PaidOnce holds initially: there is no ticket and no receipt.
LEMMA InitPaidOnce == Init => PaidOnce
  BY DEF Init, PaidOnce, PaymentOK, IsRefund, Refunding, NoOutbound

\* Changing tickets that are not refunded disturbs nothing.
LEMMA PaidOnceTickets ==
    ASSUME PaidOnce, UNCHANGED <<outbound, refund_paid>>, TypeOK,
           \A t \in TicketId : tickets[t].status = "refunded"
                                  => tickets'[t] = tickets[t]
    PROVE  PaidOnce'
<1>1. \A s \in OutSlot : IsRefund(s) => outbound[s].ticket \in TicketId
  BY OutboundType DEF IsRefund, Refund
<1>. QED
  BY <1>1 DEF PaidOnce, PaymentOK, ReceiptOK, IsRefund, Refunding

\* Nor does a receipt that is not a refund.
LEMMA PaidOnceSlots ==
    ASSUME PaidOnce, UNCHANGED <<tickets, refund_paid>>,
           \A s \in OutSlot : IsRefund(s) \/ IsRefund(s)'
                                  => outbound'[s] = outbound[s]
    PROVE  PaidOnce'
<1>1. \A s \in OutSlot : IsRefund(s)' <=> IsRefund(s)
  BY DEF IsRefund
<1>2. \A s \in OutSlot : IsRefund(s) => outbound'[s] = outbound[s]
  BY <1>1
<1>3. \A t : Refunding(t)' = Refunding(t)
  BY <1>1, <1>2 DEF Refunding
<1>. QED
  BY <1>1, <1>2, <1>3 DEF PaidOnce, PaymentOK, ReceiptOK

\* Every step keeps PaidOnce.
LEMMA NextPaidOnce == TypeOK /\ PaidOnce /\ [Next]_vars => PaidOnce'
<1> SUFFICES ASSUME TypeOK, PaidOnce, [Next]_vars PROVE PaidOnce'
    OBVIOUS
<1>1. ASSUME UNCHANGED <<tickets, outbound, refund_paid>> PROVE PaidOnce'
  BY <1>1, PaidOnceTickets
<1>2. ASSUME NEW s \in InSlot, Transfers(s) PROVE PaidOnce'
  <2>1. CASE buy_ticket_v2(s)
    <3>1. inbound[s].ticket \in TicketId
      BY <2>1, InboundType DEF buy_ticket_v2, Inbound
    <3>. QED
      BY <2>1, <3>1, PaidOnceTickets
         DEF buy_ticket_v2, buy_accepted, Exists, TypeOK, TicketsOK
  <2>. QED
    BY <1>1, <1>2, <2>1 DEF Transfers, ft_on_transfer, ft_transfer_call,
       create_paid_job, ft_on_transfer_returns, ft_resolve_transfer
<1>3. ASSUME NEW s \in OutSlot, NEW c \in Creator,
             withdraw_creator_balance(c, s)
      PROVE  PaidOnce'
  BY <1>3, PaidOnceSlots
     DEF withdraw_creator_balance, ft_transfer, IsRefund, NoOutbound, TypeOK,
         PromisesOK
<1>4. ASSUME NEW s \in OutSlot,
             withdraw_platform_balance(s) \/ withdraw_tax_balance(s)
      PROVE  PaidOnce'
  BY <1>4, PaidOnceSlots
     DEF withdraw_platform_balance, withdraw_tax_balance, ft_transfer,
         IsRefund, NoOutbound, TypeOK, PromisesOK
<1>5. ASSUME NEW s \in OutSlot, NEW t \in TicketId, NEW caller,
             refund_ticket(t, caller, s)
      PROVE  PaidOnce'
  <2>1. /\ InEscrow(t)
        /\ tickets[t].status # "refunded"
        /\ tickets[t] \in Ticket
    BY <1>5, TicketType DEF refund_ticket, refund_amount, refundable, Exists, InEscrow,
       InEscrowStatus
  <2>2. /\ Refunding(t) = {}
        /\ refund_paid[t] = 0
    BY <2>1 DEF PaidOnce, PaymentOK, ReceiptOK, Refunding, TypeOK, PromisesOK
  <2>3. /\ ~IsRefund(s)
        /\ outbound' = [outbound EXCEPT ![s] =
              [kind |-> "refund", ticket |-> t, amount |-> tickets[t].gross,
               restore |-> tickets[t].status, stage |-> "sent"]]
        /\ tickets' = [tickets EXCEPT ![t].status = "refunded"]
        /\ refund_paid' = refund_paid
    BY <1>5 DEF refund_ticket, refund_amount, ft_transfer, SetStatus, IsRefund, NoOutbound
  <2>4. /\ tickets'[t].status = "refunded"
        /\ tickets'[t].gross = tickets[t].gross
        /\ \A u \in TicketId \ {t} : tickets'[u] = tickets[u]
    BY <2>1, <2>3 DEF TypeOK, TicketsOK, Ticket
  <2>5. /\ IsRefund(s)' /\ outbound'[s].ticket = t
        /\ outbound'[s].amount = tickets[t].gross
        /\ outbound'[s].stage = "sent"
        /\ \A u \in OutSlot \ {s} : outbound'[u] = outbound[u]
    BY <2>3 DEF TypeOK, PromisesOK, IsRefund
  <2>6. \A u \in OutSlot \ {s} : IsRefund(u)' <=> IsRefund(u)
    BY <2>5 DEF IsRefund
  <2>7. Refunding(t)' = {s}
    BY <2>2, <2>5, <2>6 DEF Refunding
  <2>8. ASSUME NEW u \in OutSlot \ {s}, IsRefund(u)
        PROVE  /\ outbound[u].ticket \in TicketId \ {t}
               /\ Refunding(outbound[u].ticket)' = Refunding(outbound[u].ticket)
    <3>1. outbound[u].ticket \in TicketId
      BY <2>8, OutboundType DEF IsRefund, Refund
    <3>2. outbound[u].ticket # t
      BY <2>2, <2>8 DEF Refunding
    <3>. QED
      BY <3>1, <3>2, <2>3, <2>5, <2>6 DEF Refunding
  <2>9. ASSUME NEW u \in TicketId
        PROVE  PaymentOK(u)'
    BY <2>2, <2>3, <2>4, <2>9 DEF PaidOnce, PaymentOK
  <2>10. ASSUME NEW u \in OutSlot, IsRefund(u)'
         PROVE  ReceiptOK(u)'
    <3>1. CASE u = s
      BY <3>1, <2>2, <2>3, <2>4, <2>5, <2>7 DEF ReceiptOK, Refunding
    <3>2. CASE u # s
      <4>1. IsRefund(u) /\ ReceiptOK(u) /\ outbound'[u] = outbound[u]
        BY <3>2, <2>5, <2>6, <2>10 DEF PaidOnce, PaymentOK, ReceiptOK
      <4>2. outbound[u].ticket \in TicketId \ {t}
        BY <3>2, <4>1, <2>8
      <4>3. tickets'[outbound[u].ticket] = tickets[outbound[u].ticket]
        BY <4>2, <2>4
      <4>4. Refunding(outbound[u].ticket)' = {u}
        BY <3>2, <4>1, <2>8 DEF ReceiptOK
      <4>. QED
        BY <4>1, <4>3, <4>4, <2>3 DEF ReceiptOK, Refunding
    <3>. QED BY <3>1, <3>2
  <2>. QED
    BY <2>9, <2>10 DEF PaidOnce, PaymentOK, ReceiptOK
<1>6. ASSUME NEW s \in OutSlot, UsdcPays(s) \/ UsdcFails(s) PROVE PaidOnce'
  <2>1. /\ outbound[s].stage = "sent"
        /\ \A u \in OutSlot \ {s} : outbound'[u] = outbound[u]
        /\ outbound'[s] = [outbound[s] EXCEPT !.stage = outbound'[s].stage]
        /\ outbound'[s].stage \in {"ok", "failed"}
        /\ UsdcPays(s) => outbound'[s].stage = "ok"
        /\ UsdcFails(s) => outbound'[s].stage = "failed"
        /\ tickets' = tickets
    <3>1. outbound[s].stage = "sent" /\ tickets' = tickets
      BY <1>6 DEF UsdcPays, UsdcFails
    <3>2. outbound[s] \in Outbound
      BY <3>1, OutboundType
    <3>3. /\ UsdcPays(s) => outbound' = [outbound EXCEPT ![s].stage = "ok"]
          /\ UsdcFails(s) => outbound' = [outbound EXCEPT ![s].stage = "failed"]
      BY DEF UsdcPays, UsdcFails
    <3>. QED
      BY <1>6, <3>1, <3>2, <3>3
         DEF TypeOK, PromisesOK, Outbound, CreatorPayout, RolePayout, Refund
  <2>2. /\ outbound'[s].kind = outbound[s].kind
        /\ outbound'[s].amount = outbound[s].amount
        /\ outbound[s].kind = "refund" => /\ outbound'[s].ticket = outbound[s].ticket
                                          /\ outbound[s].ticket \in TicketId
    BY <2>1, OutboundType DEF Outbound, CreatorPayout, RolePayout, Refund
  <2>3. \A u \in OutSlot : IsRefund(u)' <=> IsRefund(u)
    BY <2>1, <2>2 DEF IsRefund
  <2>4. \A u \in OutSlot : IsRefund(u) => outbound'[u].ticket = outbound[u].ticket
    BY <2>1, <2>2 DEF IsRefund
  <2>5. \A t : Refunding(t)' = Refunding(t)
    BY <2>3, <2>4 DEF Refunding
  <2>6. CASE ~IsRefund(s) \/ outbound'[s].stage # "ok"
    <3>1. refund_paid' = refund_paid
      BY <1>6, <2>1, <2>6 DEF UsdcPays, UsdcFails, IsRefund, TypeOK, PromisesOK
    <3>. QED
      BY <2>1, <2>2, <2>3, <2>4, <2>5, <2>6, <3>1 DEF PaidOnce, PaymentOK, ReceiptOK, IsRefund
  <2>7. CASE IsRefund(s) /\ outbound'[s].stage = "ok"
    <3> DEFINE t == outbound[s].ticket
    <3>1. refund_paid' = [refund_paid EXCEPT ![t] = @ + outbound[s].amount]
      BY <1>6, <2>1, <2>7 DEF UsdcPays, UsdcFails, IsRefund, TypeOK, PromisesOK
    <3>2. /\ t \in TicketId
          /\ refund_paid[t] = 0
          /\ tickets[t].status = "refunded"
          /\ outbound[s].amount = tickets[t].gross
          /\ Refunding(t) = {s}
      BY <2>1, <2>2, <2>7 DEF PaidOnce, PaymentOK, ReceiptOK, IsRefund
    <3>3. refund_paid'[t] = tickets[t].gross
      BY <3>1, <3>2, OutboundType, <2>1 DEF TypeOK, PromisesOK, Outbound,
         CreatorPayout, RolePayout, Refund
    <3>4. \A u \in TicketId \ {t} : refund_paid'[u] = refund_paid[u]
      BY <3>1 DEF TypeOK, PromisesOK
    <3>5. \A u \in OutSlot \ {s} : IsRefund(u) => outbound[u].ticket \in TicketId \ {t}
      BY <3>2, OutboundType DEF Refunding, IsRefund, Refund
    <3>. QED
      BY <2>1, <2>2, <2>3, <2>4, <2>5, <2>7, <3>2, <3>3, <3>4, <3>5
         DEF PaidOnce, PaymentOK, ReceiptOK
  <2>. QED BY <2>6, <2>7
<1>7. ASSUME NEW s \in OutSlot,
             \/ on_creator_withdraw(s) \/ on_platform_withdraw(s)
             \/ on_tax_withdraw(s)
      PROVE  PaidOnce'
  BY <1>7, PaidOnceSlots
     DEF on_creator_withdraw, on_platform_withdraw, on_tax_withdraw, Done,
         IsRefund, NoOutbound, TypeOK, PromisesOK
<1>8. ASSUME NEW s \in OutSlot, on_ticket_refund(s) PROVE PaidOnce'
  <2> DEFINE t == outbound[s].ticket
  <2>1. /\ IsRefund(s) /\ t \in TicketId /\ outbound[s] \in Refund
        /\ outbound[s].stage \in {"ok", "failed"}
    BY <1>8, OutboundType DEF on_ticket_refund, Done, IsRefund, Refund
  <2>2. /\ Refunding(t) = {s}
        /\ tickets[t].status = "refunded"
        /\ outbound[s].stage = "failed" => refund_paid[t] = 0
    BY <2>1 DEF PaidOnce, PaymentOK, ReceiptOK
  <2>3. /\ ~IsRefund(s)'
        /\ \A u \in OutSlot \ {s} : outbound'[u] = outbound[u]
        /\ refund_paid' = refund_paid
    BY <1>8 DEF on_ticket_refund, Done, IsRefund, NoOutbound, TypeOK, PromisesOK
  <2>4. \A u \in OutSlot \ {s} : IsRefund(u)' <=> IsRefund(u)
    BY <2>3 DEF IsRefund
  <2>5. \A u \in OutSlot \ {s} : IsRefund(u) => outbound[u].ticket \in TicketId \ {t}
    BY <2>2, OutboundType DEF Refunding, IsRefund, Refund
  <2>6. \A v \in TicketId \ {t} : Refunding(v)' = Refunding(v)
    BY <2>1, <2>3, <2>4 DEF Refunding
  <2>7. /\ \A v \in TicketId \ {t} : tickets'[v] = tickets[v]
        /\ outbound[s].stage = "ok" => tickets' = tickets
    BY <1>8 DEF on_ticket_refund, restore_status, TypeOK, TicketsOK
  <2>8. ASSUME NEW v \in TicketId
        PROVE  PaymentOK(v)'
    <3>1. CASE v = t
      <4>1. CASE outbound[s].stage = "ok"
        BY <4>1, <2>3, <2>7 DEF PaidOnce, PaymentOK
      <4>2. CASE outbound[s].stage = "failed"
        BY <3>1, <4>2, <2>2, <2>3 DEF PaymentOK
      <4>. QED BY <4>1, <4>2, <2>1
    <3>2. CASE v # t
      BY <3>2, <2>3, <2>7, <2>8 DEF PaidOnce, PaymentOK, ReceiptOK
    <3>. QED BY <3>1, <3>2
  <2>9. ASSUME NEW u \in OutSlot, IsRefund(u)'
        PROVE  ReceiptOK(u)'
    <3>1. u # s /\ IsRefund(u) /\ ReceiptOK(u) /\ outbound'[u] = outbound[u]
      BY <2>3, <2>4, <2>9 DEF PaidOnce, PaymentOK, ReceiptOK
    <3>2. outbound[u].ticket \in TicketId \ {t}
      BY <3>1, <2>5
    <3>3. \A w \in OutSlot :
             IsRefund(w)' /\ outbound'[w].ticket = outbound[u].ticket => w = u
      BY <3>1, <3>2, <2>3, <2>4 DEF ReceiptOK, Refunding
    <3>4. tickets'[outbound[u].ticket] = tickets[outbound[u].ticket]
      BY <3>2, <2>7
    <3>. QED
      BY <3>1, <3>3, <3>4, <2>3, <2>9 DEF ReceiptOK, Refunding
  <2>. QED BY <2>8, <2>9 DEF PaidOnce, PaymentOK, ReceiptOK
<1>9. ASSUME NEW t \in TicketId, mark_watched(t) \/ void_card_ticket(t)
      PROVE  PaidOnce'
  BY <1>9, PaidOnceTickets
     DEF mark_watched, void_card_ticket, SetStatus, promises, TypeOK, TicketsOK
<1>10. ASSUME NEW batch \in SUBSET TicketId, release_expired(batch)
       PROVE  PaidOnce'
  BY <1>10, PaidOnceTickets
     DEF release_expired, releasable, InEscrow, InEscrowStatus, promises
<1>11. ASSUME NEW t \in TicketId, NEW p \in Publication, NEW r \in CardReference,
              NEW d \in Session, issue_card_ticket(t, p, r, d)
       PROVE  PaidOnce'
  BY <1>11, PaidOnceTickets
     DEF issue_card_ticket, Exists, promises, TypeOK, TicketsOK
<1>12. ASSUME Devices PROVE PaidOnce'
  BY <1>1, <1>12 DEF Devices, SignDevice, add_device, revoke_device,
     revoke_ticket_device, promises
<1>13. ASSUME Environment PROVE PaidOnce'
  BY <1>1, <1>13 DEF Environment, suspend_sales, takedown_publication,
     pause_new_purchases, unpause_new_purchases, BetaEnds, revoke_vat_key,
     HeadroomChanges, Tick, Others, promises
<1>14. CASE UNCHANGED vars
  BY <1>1, <1>14 DEF vars, promises
<1>. QED
  BY <1>2, <1>3, <1>4, <1>5, <1>6, <1>7, <1>8, <1>9, <1>10, <1>11, <1>12, <1>13,
     <1>14
     DEF Next, Payouts, Callbacks, Tickets

\* TypeOK holds in every state of every behaviour: no overflow or underflow of
\* a balance, and no card ticket written beyond the storage headroom.
THEOREM TypeCorrect == Spec => []TypeOK
<1>1. Init => TypeOK /\ PaidOnce
  BY InitTypeOK, InitPaidOnce
<1>2. TypeOK /\ PaidOnce /\ [Next]_vars => (TypeOK /\ PaidOnce)'
  BY NextTypeOK, NextPaidOnce
<1>. QED
  BY <1>1, <1>2, PTL DEF Spec

\* A ticket's price leaves escrow once: at most one refund in flight or paid,
\* for exactly the gross, and none of a released ticket.
THEOREM PaidOnceCorrect == Spec => []PaidOnce
<1>1. Init => TypeOK /\ PaidOnce
  BY InitTypeOK, InitPaidOnce
<1>2. TypeOK /\ PaidOnce /\ [Next]_vars => (TypeOK /\ PaidOnce)'
  BY NextTypeOK, NextPaidOnce
<1>. QED
  BY <1>1, <1>2, PTL DEF Spec

-----------------------------------------------------------------------------
(* Settled tickets are final, and the contract keeps the escrow promise. *)

\* The states of a ticket that some step may still change.
LEMMA TicketStep ==
    ASSUME TypeOK, PaidOnce, [Next]_vars, NEW t \in TicketId,
           tickets'[t] # tickets[t]
    PROVE  \/ tickets[t].status \in InEscrowStatus \cup {"none", "watched"}
           \/ tickets[t].status = "refunded" /\ refund_paid[t] = 0
<1>1. ASSUME NEW s \in InSlot, Transfers(s)
      PROVE  tickets[t].status = "none" \/ tickets'[t] = tickets[t]
  <2>1. CASE buy_ticket_v2(s)
    <3>1. inbound[s].ticket \in TicketId
      BY <2>1, InboundType DEF buy_ticket_v2, Inbound
    <3>. QED
      BY <2>1, <3>1 DEF buy_ticket_v2, buy_accepted, Exists, TypeOK, TicketsOK
  <2>. QED
    BY <1>1, <2>1 DEF Transfers, ft_on_transfer, ft_transfer_call,
       create_paid_job, ft_on_transfer_returns, ft_resolve_transfer
<1>2. ASSUME NEW s \in OutSlot, NEW u \in TicketId, NEW caller,
             refund_ticket(u, caller, s)
      PROVE  tickets[t].status \in InEscrowStatus \/ tickets'[t] = tickets[t]
  BY <1>2 DEF refund_ticket, refund_amount, refundable, InEscrow, SetStatus, TypeOK, TicketsOK
<1>3. ASSUME NEW s \in OutSlot, on_ticket_refund(s)
      PROVE  \/ tickets'[t] = tickets[t]
             \/ tickets[t].status = "refunded" /\ refund_paid[t] = 0
  <2>1. IsRefund(s) /\ outbound[s].ticket \in TicketId
    BY <1>3, OutboundType DEF on_ticket_refund, Done, IsRefund, Refund
  <2>2. ReceiptOK(s)
    BY <2>1 DEF PaidOnce
  <2>. QED
    BY <1>3, <2>1, <2>2
       DEF on_ticket_refund, restore_status, ReceiptOK, TypeOK, TicketsOK
<1>4. ASSUME NEW s \in OutSlot, Payouts(s)
      PROVE  \/ tickets'[t] = tickets[t]
             \/ tickets[t].status \in InEscrowStatus
             \/ tickets[t].status = "refunded" /\ refund_paid[t] = 0
  BY <1>2, <1>3, <1>4 DEF Payouts, Callbacks, withdraw_creator_balance,
     withdraw_platform_balance, withdraw_tax_balance, UsdcPays, UsdcFails,
     on_creator_withdraw, on_platform_withdraw, on_tax_withdraw
<1>5. ASSUME NEW u \in TicketId, mark_watched(u) \/ void_card_ticket(u)
      PROVE  \/ tickets'[t] = tickets[t]
             \/ tickets[t].status \in InEscrowStatus \cup {"watched"}
  BY <1>5 DEF mark_watched, void_card_ticket, SetStatus, InEscrowStatus, TypeOK,
     TicketsOK
<1>6. ASSUME NEW batch \in SUBSET TicketId, release_expired(batch)
      PROVE  tickets[t].status \in InEscrowStatus \/ tickets'[t] = tickets[t]
  BY <1>6 DEF release_expired, releasable, InEscrow
<1>7. ASSUME NEW u \in TicketId, NEW p \in Publication, NEW r \in CardReference,
             NEW d \in Session, issue_card_ticket(u, p, r, d)
      PROVE  tickets[t].status = "none" \/ tickets'[t] = tickets[t]
  BY <1>7 DEF issue_card_ticket, Exists, TypeOK, TicketsOK
<1>8. ASSUME Devices \/ Environment \/ UNCHANGED vars
      PROVE  tickets'[t] = tickets[t]
  BY <1>8 DEF Devices, SignDevice, add_device, revoke_device,
     revoke_ticket_device, Environment, suspend_sales, takedown_publication,
     pause_new_purchases, unpause_new_purchases, BetaEnds, revoke_vat_key,
     HeadroomChanges, Tick, Others, vars
<1>. QED
  BY <1>1, <1>4, <1>5, <1>6, <1>7, <1>8 DEF Next, Tickets

\* A released or voided ticket, and one whose refund was paid, never changes.
THEOREM SettledIsFinalCorrect == Spec => SettledIsFinal
<1>1. TypeOK /\ PaidOnce /\ [Next]_vars
        => [\A t \in TicketId : Final(t) => tickets'[t] = tickets[t]]_vars
  <2> SUFFICES ASSUME TypeOK, PaidOnce, [Next]_vars, NEW t \in TicketId,
                      Final(t), tickets'[t] # tickets[t]
               PROVE  FALSE
      OBVIOUS
  <2>1. refund_paid[t] > 0 => tickets[t].status = "refunded"
    BY DEF PaidOnce, PaymentOK
  <2>. QED
    BY <2>1, TicketStep DEF Final, InEscrowStatus
<1>. QED
  BY <1>1, TypeCorrect, PaidOnceCorrect, PTL DEF Spec, SettledIsFinal

\* The initial states of the contract are initial states of the promise: no ticket, no money.
LEMMA InitEscrow == Init => Escrow!Init
  BY DEF Init, Escrow!Init, Money, Exists, NoTicket

\* Every step of the contract is a step of the promise, or none.
LEMMA NextEscrow ==
    TypeOK /\ PaidOnce /\ [Next]_vars
        => [Escrow!Next]_[t \in TicketId |-> Money(t)]
<1> SUFFICES ASSUME TypeOK, PaidOnce, [Next]_vars
             PROVE  [Escrow!Next]_[t \in TicketId |-> Money(t)]
    OBVIOUS
<1> DEFINE money == [t \in TicketId |-> Money(t)]
<1>1. ASSUME UNCHANGED <<tickets, refund_paid>> PROVE UNCHANGED money
  BY <1>1 DEF Money, Exists
<1>2. ASSUME NEW s \in InSlot, buy_ticket_v2(s) PROVE Escrow!Next
  <2>1. PICK t \in TicketId : t = inbound[s].ticket /\ tickets[t].status = "none"
    BY <1>2, InboundType DEF buy_ticket_v2, buy_accepted, Exists, Inbound
  <2>2. refund_paid[t] = 0
    BY <2>1 DEF PaidOnce, PaymentOK, TypeOK, PromisesOK
  <2>3. Money(t) = "absent" /\ Money(t)' = "held"
    BY <1>2, <2>1, <2>2 DEF Money, Exists, buy_ticket_v2, TypeOK, TicketsOK
  <2>4. \A u \in TicketId \ {t} : Money(u)' = Money(u)
    BY <1>2, <2>1 DEF Money, Exists, buy_ticket_v2, TypeOK, TicketsOK
  <2>5. money' = [money EXCEPT ![t] = "held"]
    BY <2>1, <2>3, <2>4
  <2>6. Escrow!Hold(t)
    BY <2>1, <2>3, <2>5 DEF Escrow!Hold, Escrow!Move
  <2>. QED BY <2>1, <2>6 DEF Escrow!Next
<1>3. ASSUME NEW s \in OutSlot, UsdcPays(s)
      PROVE  Escrow!Next \/ UNCHANGED money
  <2>1. CASE ~IsRefund(s)
    <3>1. UNCHANGED <<tickets, refund_paid>>
      BY <1>3, <2>1 DEF UsdcPays, IsRefund
    <3>. QED BY <3>1, <1>1
  <2>2. CASE IsRefund(s)
    <3>1. PICK t \in TicketId :
             /\ t = outbound[s].ticket /\ outbound[s].amount \in Nat
             /\ tickets[t].status = "refunded" /\ tickets[t] \in Ticket
             /\ outbound[s].amount = tickets[t].gross
             /\ refund_paid[t] = 0
      <4>1. outbound[s] \in Refund
        BY <2>2, OutboundType DEF IsRefund
      <4>2. ReceiptOK(s) /\ outbound[s].stage = "sent"
        BY <1>3, <2>2 DEF PaidOnce, UsdcPays
      <4>3. tickets[outbound[s].ticket] \in Ticket
        BY <4>1, <4>2, TicketType DEF ReceiptOK, Refund
      <4>. QED
        BY <4>1, <4>2, <4>3 DEF ReceiptOK, Refund
    <3>2. /\ tickets' = tickets
          /\ refund_paid' = [refund_paid EXCEPT ![t] = tickets[t].gross]
      <4>1. /\ tickets' = tickets
            /\ refund_paid' = [refund_paid EXCEPT
                                 ![t] = refund_paid[t] + outbound[s].amount]
        BY <1>3, <2>2, <3>1 DEF UsdcPays, IsRefund, TypeOK, PromisesOK
      <4>2. refund_paid[t] + outbound[s].amount = tickets[t].gross
        BY <3>1
      <4>. QED BY <4>1, <4>2
    <3>3. \A u \in TicketId \ {t} : Money(u)' = Money(u)
      BY <3>2 DEF Money, Exists, TypeOK, PromisesOK
    <3>4. CASE Money(t)' = Money(t)
      BY <3>1, <3>3, <3>4
    <3>5. CASE Money(t)' # Money(t)
      <4>1. Money(t) = "held" /\ Money(t)' = "returned"
        BY <3>1, <3>2, <3>5 DEF Money, Exists, TypeOK, PromisesOK
      <4>2. money' = [money EXCEPT ![t] = "returned"]
        BY <3>1, <3>3, <4>1
      <4>3. Escrow!Return(t)
        BY <3>1, <4>1, <4>2 DEF Escrow!Return, Escrow!Move
      <4>. QED BY <3>1, <4>3 DEF Escrow!Next
    <3>. QED BY <3>4, <3>5
  <2>. QED BY <2>1, <2>2
<1>4. ASSUME NEW batch \in SUBSET TicketId, release_expired(batch)
      PROVE  Escrow!Next
  <2> DEFINE E == {t \in batch : releasable(t)}
  <2>1. refund_paid' = refund_paid
    BY <1>4 DEF release_expired, promises
  <2>2. ASSUME NEW t \in E PROVE Money(t) = "held" /\ Money(t)' = "settled"
    <3>1. /\ t \in TicketId /\ Exists(t)
          /\ tickets[t].rail = "crypto" /\ InEscrow(t)
      BY DEF releasable
    <3>2. tickets[t] \in Ticket
      BY <3>1, TicketType DEF Exists
    <3>3. refund_paid[t] = 0
      BY <3>1 DEF PaidOnce, PaymentOK, InEscrow, InEscrowStatus, TypeOK,
         PromisesOK
    <3>4. tickets'[t] = [tickets[t] EXCEPT !.status = "released"]
      BY <1>4, <3>1 DEF release_expired
    <3>. QED
      BY <2>1, <3>1, <3>2, <3>3, <3>4 DEF Money, Exists, InEscrow,
         InEscrowStatus, Ticket
  <2>3. ASSUME NEW t \in TicketId \ E PROVE Money(t)' = Money(t)
    <3>1. tickets'[t] = tickets[t]
      BY <1>4 DEF release_expired
    <3>. QED BY <2>1, <3>1 DEF Money, Exists
  <2>4. money' = [t \in TicketId |-> IF t \in E THEN "settled" ELSE money[t]]
    BY <2>2, <2>3
  <2>5. Escrow!Settle(E)
    BY <2>2, <2>4 DEF Escrow!Settle
  <2>. QED BY <2>5 DEF Escrow!Next
<1>5. ASSUME NEW t \in TicketId, UNCHANGED refund_paid,
             tickets[t] \in Ticket,
             \A u \in TicketId \ {t} : tickets'[u] = tickets[u],
             tickets'[t] = [tickets[t] EXCEPT !.status = tickets'[t].status],
             tickets[t].status # "released",
             tickets'[t].status \in TicketStatus \ {"released"}
      PROVE  UNCHANGED money
  <2>1. Money(t)' = Money(t)
    BY <1>5 DEF Money, Exists, Ticket, TicketStatus, PlayableStatus,
       InEscrowStatus
  <2>2. \A u \in TicketId \ {t} : Money(u)' = Money(u)
    BY <1>5 DEF Money, Exists
  <2>. QED BY <2>1, <2>2
<1>6. ASSUME NEW s \in OutSlot, NEW t \in TicketId, NEW caller,
             refund_ticket(t, caller, s)
      PROVE  UNCHANGED money
  <2>1. /\ tickets[t] \in Ticket /\ tickets[t].status # "released"
        /\ tickets' = [tickets EXCEPT ![t].status = "refunded"]
        /\ refund_paid' = refund_paid
    BY <1>6, TicketType DEF refund_ticket, refund_amount, refundable, Exists, InEscrow,
       InEscrowStatus, SetStatus
  <2>. QED
    BY <1>5, <2>1 DEF TypeOK, TicketsOK, Ticket, TicketStatus
<1>7. ASSUME NEW s \in OutSlot, on_ticket_refund(s) PROVE UNCHANGED money
  <2> DEFINE t == outbound[s].ticket
  <2>1. /\ t \in TicketId /\ outbound[s] \in Refund
        /\ tickets[t].status = "refunded" /\ tickets[t] \in Ticket
    BY <1>7, OutboundType, TicketType DEF on_ticket_refund, Done, IsRefund,
       Refund, PaidOnce, ReceiptOK
  <2>2. refund_paid' = refund_paid
    BY <1>7 DEF on_ticket_refund
  <2>3. CASE outbound[s].stage = "ok"
    BY <1>1, <1>7, <2>2, <2>3 DEF on_ticket_refund
  <2>4. CASE outbound[s].stage = "failed"
    <3>1. tickets' = [tickets EXCEPT ![t].status = outbound[s].restore]
      BY <1>7, <2>4 DEF on_ticket_refund, restore_status
    <3>2. outbound[s].restore \in TicketStatus \ {"released"}
      BY <2>1 DEF Refund, TicketStatus, PlayableStatus, InEscrowStatus
    <3>. QED
      BY <1>5, <2>1, <2>2, <3>1, <3>2 DEF TypeOK, TicketsOK, Ticket
  <2>. QED
    BY <1>7, <2>3, <2>4 DEF on_ticket_refund, Done
<1>8. ASSUME NEW t \in TicketId, mark_watched(t) \/ void_card_ticket(t)
      PROVE  UNCHANGED money
  <2>1. /\ tickets[t] \in Ticket /\ tickets[t].status # "released"
        /\ \E status \in TicketStatus \ {"released"} :
              tickets' = [tickets EXCEPT ![t].status = status]
        /\ refund_paid' = refund_paid
    BY <1>8, TicketType DEF mark_watched, void_card_ticket, Exists, SetStatus,
       promises, TicketStatus, PlayableStatus, InEscrowStatus
  <2>. QED
    BY <1>5, <2>1 DEF TypeOK, TicketsOK, Ticket
<1>9. ASSUME NEW t \in TicketId, NEW p \in Publication, NEW r \in CardReference,
             NEW d \in Session, issue_card_ticket(t, p, r, d)
      PROVE  UNCHANGED money
  <2>1. \A u \in TicketId : Money(u)' = Money(u)
    BY <1>9 DEF issue_card_ticket, Money, Exists, promises, TypeOK, TicketsOK
  <2>. QED BY <2>1
<1>10. ASSUME NEW s \in OutSlot, Payouts(s)
       PROVE  Escrow!Next \/ UNCHANGED money
  BY <1>1, <1>3, <1>6, <1>7, <1>10
     DEF Payouts, Callbacks, withdraw_creator_balance,
         withdraw_platform_balance, withdraw_tax_balance, UsdcFails,
         on_creator_withdraw, on_platform_withdraw, on_tax_withdraw
<1>11. ASSUME NEW s \in InSlot, Transfers(s)
       PROVE  Escrow!Next \/ UNCHANGED money
  BY <1>1, <1>2, <1>11 DEF Transfers, ft_on_transfer, ft_transfer_call,
     create_paid_job, ft_on_transfer_returns, ft_resolve_transfer
<1>12. ASSUME Devices \/ Environment \/ UNCHANGED vars PROVE UNCHANGED money
  BY <1>1, <1>12 DEF Devices, SignDevice, add_device, revoke_device,
     revoke_ticket_device, Environment, suspend_sales, takedown_publication,
     pause_new_purchases, unpause_new_purchases, BetaEnds, revoke_vat_key,
     HeadroomChanges, Tick, Others, promises, vars
<1>. QED
  BY <1>4, <1>8, <1>9, <1>10, <1>11, <1>12 DEF Next, Tickets

\* The contract implements the escrow promise of TicketEscrow.
THEOREM EscrowRefinement == Spec => EscrowPromise
  BY InitEscrow, NextEscrow, TypeCorrect, PaidOnceCorrect, PTL
     DEF Spec, EscrowPromise, Escrow!Spec

-----------------------------------------------------------------------------
(* A watched ticket never shows as purchased again. *)

\* Nothing is watched initially.
LEMMA InitWatched == Init => WatchedInv
  BY DEF Init, WatchedInv, IsRefund, NoOutbound

\* Receipts that are not refunds, and tickets that are not watched, may change.
LEMMA WatchedFrame ==
    ASSUME WatchedInv, seen' = seen,
           \A t \in seen : tickets'[t] = tickets[t],
           \A s \in OutSlot : IsRefund(s)' => outbound'[s] = outbound[s]
    PROVE  WatchedInv'
  BY DEF WatchedInv, IsRefund

\* Every step keeps WatchedInv: only refund_ticket makes a refund receipt, of
\* the status the ticket has, and only the callback restores it.
LEMMA NextWatched ==
    TypeOK /\ PaidOnce /\ WatchedInv /\ [Next]_vars => WatchedInv'
<1> SUFFICES ASSUME TypeOK, PaidOnce, WatchedInv, [Next]_vars
             PROVE  WatchedInv'
    OBVIOUS
<1>0. seen \subseteq TicketId
  BY DEF TypeOK, TicketsOK
<1>1. ASSUME UNCHANGED <<tickets, outbound, seen>> PROVE WatchedInv'
  BY <1>1, WatchedFrame
<1>2. ASSUME NEW s \in InSlot, Transfers(s) PROVE WatchedInv'
  <2>1. CASE buy_ticket_v2(s)
    <3>1. inbound[s].ticket \in TicketId /\ inbound[s].ticket \notin seen
      BY <2>1, InboundType
         DEF buy_ticket_v2, buy_accepted, Exists, Inbound, WatchedInv
    <3>2. /\ \A t \in seen : tickets'[t] = tickets[t]
          /\ seen' = seen /\ outbound' = outbound
      BY <2>1, <3>1, <1>0 DEF buy_ticket_v2, TypeOK, TicketsOK
    <3>. QED
      BY <3>2, WatchedFrame
  <2>. QED
    BY <1>1, <1>2, <2>1 DEF Transfers, ft_on_transfer, ft_transfer_call,
       create_paid_job, ft_on_transfer_returns, ft_resolve_transfer
<1>3. ASSUME NEW s \in OutSlot, NEW c \in Creator,
             withdraw_creator_balance(c, s)
      PROVE  WatchedInv'
  BY <1>3, WatchedFrame
     DEF withdraw_creator_balance, ft_transfer, IsRefund, NoOutbound, TypeOK,
         PromisesOK
<1>4. ASSUME NEW s \in OutSlot,
             withdraw_platform_balance(s) \/ withdraw_tax_balance(s)
      PROVE  WatchedInv'
  BY <1>4, WatchedFrame
     DEF withdraw_platform_balance, withdraw_tax_balance, ft_transfer,
         IsRefund, NoOutbound, TypeOK, PromisesOK
<1>5. ASSUME NEW s \in OutSlot, NEW t \in TicketId, NEW caller,
             refund_ticket(t, caller, s)
      PROVE  WatchedInv'
  <2>1. /\ outbound' = [outbound EXCEPT ![s] =
              [kind |-> "refund", ticket |-> t, amount |-> refund_amount(t),
               restore |-> tickets[t].status, stage |-> "sent"]]
        /\ tickets' = [tickets EXCEPT ![t].status = "refunded"]
        /\ seen' = seen
    BY <1>5 DEF refund_ticket, ft_transfer, SetStatus
  <2>2. tickets[t] \in Ticket
    BY <1>5, TicketType DEF refund_ticket, refundable, Exists
  <2>3. \A u \in seen : tickets'[u].status \notin {"none", "purchased"}
    BY <2>1, <2>2, <1>0 DEF WatchedInv, TypeOK, TicketsOK, Ticket
  <2>4. ASSUME NEW u \in OutSlot, IsRefund(u)', outbound'[u].ticket \in seen
        PROVE  outbound'[u].restore # "purchased"
    BY <2>1, <2>4 DEF WatchedInv, IsRefund, TypeOK, PromisesOK
  <2>. QED
    BY <2>1, <2>3, <2>4 DEF WatchedInv
<1>6. ASSUME NEW s \in OutSlot, UsdcPays(s) \/ UsdcFails(s) PROVE WatchedInv'
  <2>1. /\ outbound[s].stage = "sent"
        /\ \E x \in {"ok", "failed"} :
              outbound' = [outbound EXCEPT ![s].stage = x]
        /\ tickets' = tickets /\ seen' = seen
    BY <1>6 DEF UsdcPays, UsdcFails
  <2>2. outbound[s] \in Outbound
    BY <2>1, OutboundType
  <2>3. ASSUME NEW u \in OutSlot, IsRefund(u)'
        PROVE  /\ IsRefund(u)
               /\ outbound'[u].ticket = outbound[u].ticket
               /\ outbound'[u].restore = outbound[u].restore
    BY <2>1, <2>2, <2>3 DEF IsRefund, TypeOK, PromisesOK, Outbound, Refund,
       CreatorPayout, RolePayout
  <2>. QED
    BY <2>1, <2>3 DEF WatchedInv
<1>7. ASSUME NEW s \in OutSlot,
             \/ on_creator_withdraw(s) \/ on_platform_withdraw(s)
             \/ on_tax_withdraw(s)
      PROVE  WatchedInv'
  BY <1>7, WatchedFrame
     DEF on_creator_withdraw, on_platform_withdraw, on_tax_withdraw, Done,
         IsRefund, NoOutbound, TypeOK, PromisesOK
<1>8. ASSUME NEW s \in OutSlot, on_ticket_refund(s) PROVE WatchedInv'
  <2> DEFINE t == outbound[s].ticket
  <2>1. /\ IsRefund(s) /\ t \in TicketId /\ outbound[s] \in Refund
        /\ outbound[s].stage \in {"ok", "failed"}
        /\ seen' = seen
        /\ outbound' = [outbound EXCEPT ![s] = NoOutbound]
    BY <1>8, OutboundType DEF on_ticket_refund, Done, IsRefund, Refund
  <2>2. \A u \in OutSlot : IsRefund(u)' => IsRefund(u) /\ outbound'[u] = outbound[u]
    BY <2>1 DEF IsRefund, NoOutbound, TypeOK, PromisesOK
  <2>3. tickets[t] \in Ticket
    BY <2>1, TicketType DEF PaidOnce, ReceiptOK
  <2>4. \/ tickets' = tickets
        \/ tickets' = [tickets EXCEPT ![t].status = outbound[s].restore]
    BY <1>8 DEF on_ticket_refund, restore_status
  <2>5. t \in seen => outbound[s].restore = "watched_in_escrow"
    BY <2>1 DEF WatchedInv, Refund, InEscrowStatus
  <2>6. \A u \in seen : tickets'[u].status \notin {"none", "purchased"}
    BY <2>3, <2>4, <2>5, <1>0 DEF WatchedInv, TypeOK, TicketsOK, Ticket
  <2>. QED
    BY <2>1, <2>2, <2>6 DEF WatchedInv
<1>9. ASSUME NEW t \in TicketId, mark_watched(t) PROVE WatchedInv'
  <2>1. /\ tickets[t].status = "purchased"
        /\ \/ tickets' = [tickets EXCEPT ![t].status = "watched_in_escrow"]
           \/ tickets' = [tickets EXCEPT ![t].status = "watched"]
        /\ seen' = seen \cup {t}
        /\ outbound' = outbound
    BY <1>9 DEF mark_watched, SetStatus, promises
  <2>2. tickets[t] \in Ticket
    BY <2>1, TicketType
  <2>3. \A u \in seen' : tickets'[u].status \notin {"none", "purchased"}
    BY <2>1, <2>2, <1>0 DEF WatchedInv, TypeOK, TicketsOK, Ticket
  <2>4. \A s \in OutSlot : IsRefund(s) => outbound[s].ticket # t
    BY <2>1 DEF PaidOnce, ReceiptOK
  <2>5. \A s \in OutSlot : IsRefund(s)' <=> IsRefund(s)
    BY <2>1 DEF IsRefund
  <2>. QED
    BY <2>1, <2>3, <2>4, <2>5 DEF WatchedInv
<1>10. ASSUME NEW t \in TicketId, void_card_ticket(t) PROVE WatchedInv'
  <2>1. /\ tickets[t].status # "none"
        /\ tickets' = [tickets EXCEPT ![t].status = "voided"]
        /\ UNCHANGED <<seen, outbound>>
    BY <1>10 DEF void_card_ticket, SetStatus, Exists, promises
  <2>2. tickets[t] \in Ticket
    BY <2>1, TicketType
  <2>3. \A u \in seen : tickets'[u].status \notin {"none", "purchased"}
    BY <2>1, <2>2, <1>0 DEF WatchedInv, TypeOK, TicketsOK, Ticket
  <2>. QED
    BY <2>1, <2>3 DEF WatchedInv, IsRefund
<1>11. ASSUME NEW batch \in SUBSET TicketId, release_expired(batch)
       PROVE  WatchedInv'
  <2>1. /\ \A t \in TicketId : \/ tickets'[t] = tickets[t]
                               \/ /\ tickets[t].status # "none"
                                  /\ tickets'[t] =
                                       [tickets[t] EXCEPT !.status = "released"]
        /\ UNCHANGED <<seen, outbound>>
    BY <1>11 DEF release_expired, releasable, Exists, promises
  <2>2. \A t \in seen : tickets'[t].status \notin {"none", "purchased"}
    BY <2>1, TicketType, <1>0 DEF WatchedInv, Ticket
  <2>. QED
    BY <2>1, <2>2 DEF WatchedInv, IsRefund
<1>12. ASSUME NEW t \in TicketId, NEW p \in Publication, NEW r \in CardReference,
              NEW d \in Session, issue_card_ticket(t, p, r, d)
       PROVE  WatchedInv'
  <2>1. t \notin seen
    BY <1>12 DEF issue_card_ticket, Exists, WatchedInv
  <2>2. /\ \A u \in seen : tickets'[u] = tickets[u]
        /\ seen' = seen /\ outbound' = outbound
    BY <1>12, <2>1, <1>0 DEF issue_card_ticket, promises, TypeOK, TicketsOK
  <2>. QED
    BY <2>2, WatchedFrame
<1>13. ASSUME Devices \/ Environment \/ UNCHANGED vars PROVE WatchedInv'
  BY <1>1, <1>13 DEF Devices, SignDevice, add_device, revoke_device,
     revoke_ticket_device, Environment, suspend_sales, takedown_publication,
     pause_new_purchases, unpause_new_purchases, BetaEnds, revoke_vat_key,
     HeadroomChanges, Tick, Others, promises, vars
<1>. QED
  BY <1>2, <1>3, <1>4, <1>5, <1>6, <1>7, <1>8, <1>9, <1>10, <1>11, <1>12, <1>13
     DEF Next, Payouts, Callbacks, Tickets

\* A failed refund does not un-watch a ticket: once mark_watched accepted it,
\* it never shows as purchased again, whatever receipts are in flight.
THEOREM WatchedStaysCorrect == Spec => []WatchedStays
<1>1. Init => TypeOK /\ PaidOnce /\ WatchedInv
  BY InitTypeOK, InitPaidOnce, InitWatched
<1>2. TypeOK /\ PaidOnce /\ WatchedInv /\ [Next]_vars
        => (TypeOK /\ PaidOnce /\ WatchedInv)'
  BY NextTypeOK, NextPaidOnce, NextWatched
<1>3. WatchedInv => WatchedStays
  BY DEF WatchedInv, WatchedStays
<1>. QED
  BY <1>1, <1>2, <1>3, PTL DEF Spec

-----------------------------------------------------------------------------
(* One payment reference makes one ticket. *)

IsCard(t) == Exists(t) /\ tickets[t].rail = "card"
CardInv == ReferenceInv /\ OneTicketPerReference

\* There are no tickets initially.
LEMMA InitCard == Init => CardInv
  BY DEF Init, CardInv, ReferenceInv, OneTicketPerReference, Exists, NoTicket

\* A step that makes no card ticket, changes no card ticket's reference and
\* forgets no reference keeps CardInv.
LEMMA CardFrame ==
    ASSUME CardInv, card_references' = card_references,
           \A t \in TicketId : IsCard(t)' =>
               IsCard(t) /\ tickets'[t].reference = tickets[t].reference
    PROVE  CardInv'
  BY DEF CardInv, ReferenceInv, OneTicketPerReference, IsCard, Exists

\* A change of status alone is such a step.
LEMMA CardStatus ==
    ASSUME TypeOK, CardInv, card_references' = card_references,
           NEW t \in TicketId, Exists(t), NEW x,
           tickets' = [tickets EXCEPT ![t].status = x]
    PROVE  CardInv'
<1>1. tickets[t] \in Ticket
  BY TicketType DEF Exists
<1>2. /\ \A u \in TicketId \ {t} : tickets'[u] = tickets[u]
      /\ tickets'[t].rail = tickets[t].rail
      /\ tickets'[t].reference = tickets[t].reference
  BY <1>1 DEF TypeOK, TicketsOK, Ticket
<1>. QED
  BY <1>2, CardFrame DEF IsCard, Exists

\* Every step keeps CardInv: only issue_card_ticket makes a card ticket, from a
\* reference nobody has used, which it records in the same step.
LEMMA NextCard == TypeOK /\ PaidOnce /\ CardInv /\ [Next]_vars => CardInv'
<1> SUFFICES ASSUME TypeOK, PaidOnce, CardInv, [Next]_vars PROVE CardInv'
    OBVIOUS
<1>1. ASSUME UNCHANGED <<tickets, card_references>> PROVE CardInv'
  BY <1>1, CardFrame DEF IsCard, Exists
<1>2. ASSUME NEW s \in InSlot, Transfers(s) PROVE CardInv'
  <2>1. CASE buy_ticket_v2(s)
    <3>1. inbound[s].ticket \in TicketId
      BY <2>1, InboundType DEF buy_ticket_v2, Inbound
    <3>2. \A t \in TicketId : IsCard(t)' => tickets'[t] = tickets[t]
      BY <2>1, <3>1 DEF buy_ticket_v2, IsCard, TypeOK, TicketsOK
    <3>3. card_references' = card_references
      BY <2>1 DEF buy_ticket_v2
    <3>. QED
      BY <3>2, <3>3, CardFrame DEF IsCard, Exists
  <2>. QED
    BY <1>1, <1>2, <2>1 DEF Transfers, ft_on_transfer, ft_transfer_call,
       create_paid_job, ft_on_transfer_returns, ft_resolve_transfer
<1>3. ASSUME NEW s \in OutSlot, NEW t \in TicketId, NEW caller,
             refund_ticket(t, caller, s)
      PROVE  CardInv'
  BY <1>3, CardStatus DEF refund_ticket, refundable, SetStatus
<1>4. ASSUME NEW s \in OutSlot, on_ticket_refund(s) PROVE CardInv'
  <2>1. IsRefund(s) /\ outbound[s].ticket \in TicketId
    BY <1>4, OutboundType DEF on_ticket_refund, Done, IsRefund, Refund
  <2>2. Exists(outbound[s].ticket)
    BY <2>1 DEF PaidOnce, ReceiptOK, Exists
  <2>. QED
    BY <1>1, <1>4, <2>1, <2>2, CardStatus DEF on_ticket_refund, restore_status
<1>5. ASSUME NEW s \in OutSlot, NEW c \in Creator,
             withdraw_creator_balance(c, s)
      PROVE  CardInv'
  BY <1>1, <1>5 DEF withdraw_creator_balance
<1>6. ASSUME NEW s \in OutSlot,
             \/ withdraw_platform_balance(s) \/ withdraw_tax_balance(s)
             \/ UsdcPays(s) \/ UsdcFails(s)
             \/ on_creator_withdraw(s) \/ on_platform_withdraw(s)
             \/ on_tax_withdraw(s)
      PROVE  CardInv'
  BY <1>1, <1>6 DEF withdraw_platform_balance, withdraw_tax_balance, UsdcPays,
     UsdcFails, on_creator_withdraw, on_platform_withdraw, on_tax_withdraw
<1>7. ASSUME NEW t \in TicketId, mark_watched(t) \/ void_card_ticket(t)
      PROVE  CardInv'
  BY <1>7, CardStatus DEF mark_watched, void_card_ticket, SetStatus
<1>8. ASSUME NEW batch \in SUBSET TicketId, release_expired(batch)
      PROVE  CardInv'
  <2>1. /\ \A t \in TicketId : \/ tickets'[t] = tickets[t]
                               \/ /\ Exists(t)
                                  /\ tickets'[t] =
                                       [tickets[t] EXCEPT !.status = "released"]
        /\ card_references' = card_references
    BY <1>8 DEF release_expired, releasable
  <2>2. \A t \in TicketId : IsCard(t)' =>
            IsCard(t) /\ tickets'[t].reference = tickets[t].reference
    BY <2>1, TicketType DEF IsCard, Exists, Ticket
  <2>. QED
    BY <2>1, <2>2, CardFrame
<1>9. ASSUME NEW t \in TicketId, NEW p \in Publication, NEW r \in CardReference,
             NEW d \in Session, issue_card_ticket(t, p, r, d)
      PROVE  CardInv'
  <2>1. /\ r \notin card_references
        /\ card_references' = card_references \cup {r}
        /\ tickets'[t].reference = r
        /\ \A u \in TicketId \ {t} : tickets'[u] = tickets[u]
    BY <1>9 DEF issue_card_ticket, reference_unused, TypeOK, TicketsOK
  <2>2. ReferenceInv'
    BY <2>1 DEF CardInv, ReferenceInv, Exists
  <2>3. OneTicketPerReference'
    BY <2>1 DEF CardInv, ReferenceInv, OneTicketPerReference, Exists
  <2>. QED
    BY <2>2, <2>3 DEF CardInv
<1>10. ASSUME Devices \/ Environment \/ UNCHANGED vars PROVE CardInv'
  BY <1>1, <1>10 DEF Devices, SignDevice, add_device, revoke_device,
     revoke_ticket_device, Environment, suspend_sales, takedown_publication,
     pause_new_purchases, unpause_new_purchases, BetaEnds, revoke_vat_key,
     HeadroomChanges, Tick, Others, vars
<1>. QED
  BY <1>2, <1>3, <1>4, <1>5, <1>6, <1>7, <1>8, <1>9, <1>10
     DEF Next, Payouts, Callbacks, Tickets

\* However its tickets are watched, voided or issued again, a card payment
\* reference stands behind at most one ticket.
THEOREM OneTicketPerReferenceCorrect == Spec => []OneTicketPerReference
<1>1. Init => TypeOK /\ PaidOnce /\ CardInv
  BY InitTypeOK, InitPaidOnce, InitCard
<1>2. TypeOK /\ PaidOnce /\ CardInv /\ [Next]_vars
        => (TypeOK /\ PaidOnce /\ CardInv)'
  BY NextTypeOK, NextPaidOnce, NextCard
<1>3. CardInv => OneTicketPerReference
  BY DEF CardInv
<1>. QED
  BY <1>1, <1>2, <1>3, PTL DEF Spec

-----------------------------------------------------------------------------
(* Devices: no signature outlives a removal, and the list stays bounded. *)

DeviceInv == SignatureInv /\ NoResurrection /\ FiniteDevices /\ DeviceLimit

\* No ticket has a device and nothing is signed initially.
LEMMA InitDevice == Init => DeviceInv
<1> SUFFICES ASSUME Init PROVE DeviceInv
    OBVIOUS
<1>1. \A t \in TicketId : devices[t] = {}
  BY DEF Init
<1>2. SignatureInv
  BY DEF Init, SignatureInv
<1>3. NoResurrection
  BY <1>1 DEF NoResurrection, Sessions
<1>4. FiniteDevices /\ DeviceLimit
  BY <1>1, FS_EmptySet, LimitAssumption DEF FiniteDevices, DeviceLimit
<1>. QED
  BY <1>2, <1>3, <1>4 DEF DeviceInv

\* Removing devices keeps DeviceInv as long as no signature changes.
LEMMA DeviceFrame ==
    ASSUME DeviceInv, UNCHANGED <<device_epoch, signed, fresh>>,
           \A t \in TicketId : devices'[t] \subseteq devices[t]
    PROVE  DeviceInv'
<1>1. SignatureInv' /\ NoResurrection'
  BY DEF DeviceInv, SignatureInv, NoResurrection, Sessions
<1>2. FiniteDevices'
  BY FS_Subset DEF DeviceInv, FiniteDevices
<1>3. ASSUME NEW t \in TicketId
      PROVE  Cardinality(devices'[t]) <= MAX_TICKET_DEVICES
  <2>1. /\ Cardinality(devices'[t]) <= Cardinality(devices[t])
        /\ Cardinality(devices[t]) <= MAX_TICKET_DEVICES
        /\ Cardinality(devices'[t]) \in Nat /\ Cardinality(devices[t]) \in Nat
    BY <1>2, FS_Subset, FS_CardinalityType
       DEF DeviceInv, FiniteDevices, DeviceLimit
  <2>. QED
    BY <2>1, LimitAssumption
<1>4. DeviceLimit'
  BY <1>3 DEF DeviceInv, DeviceLimit
<1>. QED
  BY <1>1, <1>2, <1>4 DEF DeviceInv

\* A new ticket starts with the one device its purchase names.
LEMMA FirstDevice ==
    ASSUME TypeOK, DeviceInv, NEW t \in TicketId, NEW d \in Session,
           first_device(t, d)
    PROVE  DeviceInv'
<1> DEFINE v == [session |-> d, expires |-> now + DEVICE_LIFETIME, rank |-> 1]
<1>1. /\ devices'[t] = {v}
      /\ \A u \in TicketId \ {t} : devices'[u] = devices[u]
      /\ fresh'[t] = fresh[t] \cup {d}
      /\ \A u \in TicketId \ {t} : fresh'[u] = fresh[u]
      /\ device_epoch' = device_epoch /\ signed' = signed
  BY DEF first_device, TypeOK, DevicesOK
<1>2. SignatureInv'
  <2>1. \A m \in signed : m.ticket \in TicketId
    BY DEF TypeOK, DevicesOK, SignedDevice
  <2>. QED
    BY <1>1, <2>1 DEF DeviceInv, SignatureInv
<1>3. NoResurrection'
  BY <1>1 DEF DeviceInv, NoResurrection, Sessions
<1>4. IsFiniteSet(devices'[t]) /\ Cardinality(devices'[t]) = 1
  <2> HIDE DEF v
  <2>. QED
    BY <1>1, FS_Singleton
<1>5. \A x, y \in devices'[t] : x.session = y.session => x = y
  BY <1>1
<1>6. Cardinality(devices'[t]) <= MAX_TICKET_DEVICES
  BY <1>4, LimitAssumption
<1>7. FiniteDevices' /\ DeviceLimit'
  BY <1>1, <1>4, <1>5, <1>6 DEF DeviceInv, FiniteDevices, DeviceLimit
<1>. QED
  BY <1>2, <1>3, <1>7 DEF DeviceInv

\* The eviction finds a device: a non-empty list has one of least rank.
LEMMA OldestExists ==
    ASSUME NEW S \in SUBSET Device, S # {}
    PROVE  oldest(S) \in S
<1> DEFINE Ranks == {v.rank : v \in S}
<1>1. Ranks \subseteq Nat /\ Ranks # {}
  BY DEF Device
<1>2. PICK x \in Ranks : \A y \in Ranks : ~(<<y, x>> \in OpToRel(<, Nat))
  BY <1>1, NatLessThanWellFounded, WFMin
<1>3. \A y \in Ranks : x <= y
  <2>1. OpToRel(<, Nat) = {r \in Nat \X Nat : r[1] < r[2]}
    BY Zenon DEF OpToRel
  <2>2. \A y \in Ranks : <<y, x>> \in Nat \X Nat
    BY <1>1
  <2>3. \A y \in Ranks : ~(y < x)
    BY <1>2, <2>1, <2>2
  <2> HIDE DEF Ranks
  <2>. QED
    BY <1>1, <2>3
<1>4. \E v \in S : \A w \in S : v.rank <= w.rank
  BY <1>3
<1>. QED
  BY <1>4 DEF oldest

\* add_device: the signature it accepts was made after the last removal, so its
\* session is fresh; an eviction makes room for it and spends every signature.
LEMMA AddDevice ==
    ASSUME TypeOK, DeviceInv, NEW m \in signed, add_device(m)
    PROVE  DeviceInv'
<1> DEFINE t == m.ticket
           kept == kept_devices(t, m.session)
           full == Cardinality(kept) = MAX_TICKET_DEVICES
           evicted == IF full THEN {oldest(kept)} ELSE {}
           new == [session |-> m.session, expires |-> now + DEVICE_LIFETIME,
                   rank |-> added[t] + 1]
<1>1. /\ t \in TicketId /\ m.session \in Session /\ m.epoch = device_epoch[t]
      /\ device_epoch[t] \in Nat
      /\ \A n \in signed : n.ticket \in TicketId /\ n.epoch \in Nat
  BY DEF TypeOK, DevicesOK, SignedDevice, add_device
<1>2. /\ devices'[t] = (kept \ evicted) \cup {new}
      /\ fresh'[t] = fresh[t] \ {v.session : v \in evicted}
      /\ device_epoch'[t] = device_epoch[t] + (IF full THEN 1 ELSE 0)
      /\ signed' = signed
  BY <1>1 DEF add_device, epoch_after, TypeOK, DevicesOK
<1>3. \A u \in TicketId \ {t} : /\ devices'[u] = devices[u]
                                /\ fresh'[u] = fresh[u]
                                /\ device_epoch'[u] = device_epoch[u]
  BY <1>1 DEF add_device, TypeOK, DevicesOK
<1>4. /\ kept \subseteq devices[t] /\ kept \in SUBSET Device
      /\ \A v \in kept : v.session # m.session
  BY <1>1 DEF kept_devices, TypeOK, DevicesOK
<1>5. /\ IsFiniteSet(kept) /\ Cardinality(kept) \in Nat
      /\ Cardinality(kept) <= MAX_TICKET_DEVICES
  <2>1. IsFiniteSet(devices[t]) /\ Cardinality(devices[t]) <= MAX_TICKET_DEVICES
    BY <1>1 DEF DeviceInv, FiniteDevices, DeviceLimit
  <2>2. IsFiniteSet(kept) /\ Cardinality(kept) <= Cardinality(devices[t])
    BY <1>4, <2>1, FS_Subset
  <2>3. Cardinality(kept) \in Nat /\ Cardinality(devices[t]) \in Nat
    BY <2>1, <2>2, FS_CardinalityType
  <2>. QED
    BY <2>1, <2>2, <2>3, LimitAssumption
<1>6. full => oldest(kept) \in kept
  <2>1. full => kept # {}
    BY <1>5, FS_EmptySet, LimitAssumption
  <2>. QED
    BY <1>4, <2>1, OldestExists
<1>7. \A v, w \in devices[t] : v.session = w.session => v = w
  BY <1>1 DEF DeviceInv, DeviceLimit
<1>8. SignatureInv'
  <2>1. CASE full
    <3>1. \A n \in signed : n.ticket = t =>
              /\ n.epoch <= device_epoch'[t] /\ n.epoch # device_epoch'[t]
      BY <1>1, <1>2, <2>1 DEF DeviceInv, SignatureInv
    <3>. QED
      BY <1>1, <1>2, <1>3, <3>1 DEF DeviceInv, SignatureInv
  <2>2. CASE ~full
    <3>1. device_epoch'[t] = device_epoch[t] /\ fresh'[t] = fresh[t]
      BY <1>1, <1>2, <2>2
    <3>. QED
      BY <1>1, <1>2, <1>3, <3>1 DEF DeviceInv, SignatureInv
  <2>. QED
    BY <2>1, <2>2
<1>9. NoResurrection'
  <2>1. m.session \in fresh[t]
    BY <1>1 DEF DeviceInv, SignatureInv
  <2>2. m.session \notin {v.session : v \in evicted}
    BY <1>4, <1>6
  <2>3. \A v \in kept : v.session \in fresh[t]
    BY <1>1, <1>4 DEF DeviceInv, NoResurrection, Sessions
  <2>4. \A v \in kept \ evicted : v.session \notin {w.session : w \in evicted}
    BY <1>4, <1>6, <1>7
  <2>5. {v.session : v \in devices'[t]} \subseteq fresh'[t]
    BY <1>2, <2>1, <2>2, <2>3, <2>4
  <2>. QED
    BY <1>3, <2>5 DEF DeviceInv, NoResurrection, Sessions
<1>10. /\ IsFiniteSet(kept \ evicted) /\ Cardinality(kept \ evicted) \in Nat
       /\ Cardinality(kept \ evicted) < MAX_TICKET_DEVICES
  <2>1. CASE full
    BY <1>5, <1>6, <2>1, FS_RemoveElement, LimitAssumption
  <2>2. CASE ~full
    <3>1. kept \ evicted = kept
      BY <2>2
    <3>. QED
      BY <1>5, <2>2, <3>1, LimitAssumption
  <2>. QED
    BY <2>1, <2>2
<1>11. /\ IsFiniteSet(devices'[t])
       /\ Cardinality(devices'[t]) <= MAX_TICKET_DEVICES
  <2>1. new \notin kept \ evicted
    BY <1>4
  <2>2. /\ IsFiniteSet((kept \ evicted) \cup {new})
        /\ Cardinality((kept \ evicted) \cup {new})
             = Cardinality(kept \ evicted) + 1
    BY <1>10, <2>1, FS_AddElement
  <2>. QED
    BY <1>2, <1>10, <2>2, LimitAssumption
<1>12. \A v, w \in devices'[t] : v.session = w.session => v = w
  BY <1>2, <1>4, <1>7
<1>13. FiniteDevices' /\ DeviceLimit'
  BY <1>3, <1>11, <1>12 DEF DeviceInv, FiniteDevices, DeviceLimit
<1>. QED
  BY <1>8, <1>9, <1>13 DEF DeviceInv

\* revoke_ticket_device: every signature made so far is for an earlier epoch.
LEMMA RevokeDevice ==
    ASSUME TypeOK, DeviceInv, NEW t \in TicketId, NEW d \in Session,
           revoke_ticket_device(t, d)
    PROVE  DeviceInv'
<1>1. /\ devices'[t] = {v \in devices[t] : v.session # d}
      /\ fresh'[t] = fresh[t] \ {d}
      /\ device_epoch[t] \in Nat /\ device_epoch'[t] = device_epoch[t] + 1
      /\ signed' = signed
      /\ \A u \in TicketId \ {t} : /\ devices'[u] = devices[u]
                                   /\ fresh'[u] = fresh[u]
                                   /\ device_epoch'[u] = device_epoch[u]
  BY DEF revoke_ticket_device, TypeOK, DevicesOK
<1>2. SignatureInv'
  <2>1. \A n \in signed : n.ticket \in TicketId /\ n.epoch \in Nat
    BY DEF TypeOK, DevicesOK, SignedDevice
  <2>2. \A n \in signed : n.ticket = t =>
            n.epoch <= device_epoch'[t] /\ n.epoch # device_epoch'[t]
    BY <1>1, <2>1 DEF DeviceInv, SignatureInv
  <2>. QED
    BY <1>1, <2>1, <2>2 DEF DeviceInv, SignatureInv
<1>3. NoResurrection'
  BY <1>1 DEF DeviceInv, NoResurrection, Sessions
<1>4. /\ IsFiniteSet(devices[t]) /\ IsFiniteSet(devices'[t])
      /\ Cardinality(devices'[t]) <= Cardinality(devices[t])
      /\ Cardinality(devices[t]) <= MAX_TICKET_DEVICES
  <2>1. IsFiniteSet(devices[t]) /\ Cardinality(devices[t]) <= MAX_TICKET_DEVICES
    BY DEF DeviceInv, FiniteDevices, DeviceLimit
  <2>2. devices'[t] \in SUBSET devices[t]
    BY <1>1
  <2>. QED
    BY <2>1, <2>2, FS_Subset
<1>5. Cardinality(devices'[t]) <= MAX_TICKET_DEVICES
  BY <1>4, FS_CardinalityType, LimitAssumption
<1>6. FiniteDevices' /\ DeviceLimit'
  BY <1>1, <1>4, <1>5 DEF DeviceInv, FiniteDevices, DeviceLimit
<1>. QED
  BY <1>2, <1>3, <1>6 DEF DeviceInv

\* SignDevice: a signature for the current epoch makes its session fresh.
LEMMA SignsDevice ==
    ASSUME TypeOK, DeviceInv, NEW t \in TicketId, NEW d \in Session, NEW e,
           SignDevice(t, d, e)
    PROVE  DeviceInv'
<1>1. /\ device_epoch[t] \in Nat /\ e \in 0 .. device_epoch[t]
      /\ UNCHANGED <<devices, device_epoch>>
  BY DEF SignDevice, TypeOK, DevicesOK
<1>2. PICK x : signed' = signed \cup {[ticket |-> t, session |-> d, epoch |-> e,
                                      expires |-> x]}
  BY DEF SignDevice
<1>3. /\ \A u \in TicketId : fresh[u] \subseteq fresh'[u]
      /\ e = device_epoch[t] => d \in fresh'[t]
  BY DEF SignDevice, TypeOK, DevicesOK
<1>4. SignatureInv'
  <2>1. \A m \in signed : m.ticket \in TicketId
    BY DEF TypeOK, DevicesOK, SignedDevice
  <2>. QED
    BY <1>1, <1>2, <1>3, <2>1 DEF DeviceInv, SignatureInv
<1>5. NoResurrection' /\ FiniteDevices' /\ DeviceLimit'
  BY <1>1, <1>3 DEF DeviceInv, NoResurrection, Sessions, FiniteDevices,
     DeviceLimit
<1>. QED
  BY <1>4, <1>5 DEF DeviceInv

\* Every step keeps DeviceInv; the others only remove devices, or leave them.
LEMMA NextDevice == TypeOK /\ DeviceInv /\ [Next]_vars => DeviceInv'
<1> SUFFICES ASSUME TypeOK, DeviceInv, [Next]_vars PROVE DeviceInv'
    OBVIOUS
<1>1. ASSUME UNCHANGED <<devices, device_epoch, signed, fresh>> PROVE DeviceInv'
  BY <1>1, DeviceFrame
<1>2. ASSUME NEW s \in InSlot, Transfers(s) PROVE DeviceInv'
  <2>1. CASE buy_ticket_v2(s)
    <3>1. inbound[s].ticket \in TicketId /\ inbound[s].session \in Session
      BY <2>1, InboundType DEF buy_ticket_v2, Inbound
    <3>. QED
      BY <2>1, <3>1, FirstDevice DEF buy_ticket_v2
  <2>. QED
    BY <1>1, <1>2, <2>1 DEF Transfers, ft_on_transfer, ft_transfer_call,
       create_paid_job, ft_on_transfer_returns, ft_resolve_transfer, device
<1>3. ASSUME NEW s \in OutSlot, on_ticket_refund(s) PROVE DeviceInv'
  BY <1>3, DeviceFrame
     DEF on_ticket_refund, devices_cleared, TypeOK, DevicesOK
<1>4. ASSUME NEW t \in TicketId, void_card_ticket(t) PROVE DeviceInv'
  BY <1>4, DeviceFrame
     DEF void_card_ticket, devices_cleared, TypeOK, DevicesOK
<1>5. ASSUME NEW t \in TicketId, NEW p \in Publication, NEW r \in CardReference,
             NEW d \in Session, issue_card_ticket(t, p, r, d)
      PROVE  DeviceInv'
  BY <1>5, FirstDevice DEF issue_card_ticket
<1>6. ASSUME Devices PROVE DeviceInv'
  BY <1>6, SignsDevice, AddDevice, RevokeDevice DEF Devices, revoke_device
<1>7. ASSUME NEW s \in OutSlot, NEW t \in TicketId, NEW caller,
             refund_ticket(t, caller, s)
      PROVE  DeviceInv'
  BY <1>1, <1>7 DEF refund_ticket, device
<1>8. ASSUME NEW s \in OutSlot, NEW c \in Creator,
             withdraw_creator_balance(c, s)
      PROVE  DeviceInv'
  BY <1>1, <1>8 DEF withdraw_creator_balance, device
<1>9. ASSUME NEW s \in OutSlot,
             \/ withdraw_platform_balance(s) \/ withdraw_tax_balance(s)
             \/ UsdcPays(s) \/ UsdcFails(s)
             \/ on_creator_withdraw(s) \/ on_platform_withdraw(s)
             \/ on_tax_withdraw(s)
      PROVE  DeviceInv'
  BY <1>1, <1>9 DEF withdraw_platform_balance, withdraw_tax_balance, UsdcPays,
     UsdcFails, on_creator_withdraw, on_platform_withdraw, on_tax_withdraw,
     device
<1>10. ASSUME NEW t \in TicketId, mark_watched(t) PROVE DeviceInv'
  BY <1>1, <1>10 DEF mark_watched, device
<1>11. ASSUME NEW batch \in SUBSET TicketId, release_expired(batch)
       PROVE  DeviceInv'
  BY <1>1, <1>11 DEF release_expired, device
<1>12. ASSUME Environment \/ UNCHANGED vars PROVE DeviceInv'
  BY <1>1, <1>12 DEF Environment, suspend_sales, takedown_publication,
     pause_new_purchases, unpause_new_purchases, BetaEnds, revoke_vat_key,
     HeadroomChanges, Tick, Others, device, vars
<1>. QED
  BY <1>2, <1>3, <1>4, <1>5, <1>6, <1>7, <1>8, <1>9, <1>10, <1>11, <1>12
     DEF Next, Payouts, Callbacks, Tickets

\* A revoked or evicted device is on no list until the ticket key signs for it
\* again: every message signed before is for an epoch that has passed.
THEOREM NoResurrectionCorrect == Spec => []NoResurrection
<1>1. Init => TypeOK /\ PaidOnce /\ DeviceInv
  BY InitTypeOK, InitPaidOnce, InitDevice
<1>2. TypeOK /\ PaidOnce /\ DeviceInv /\ [Next]_vars
        => (TypeOK /\ PaidOnce /\ DeviceInv)'
  BY NextTypeOK, NextPaidOnce, NextDevice
<1>3. DeviceInv => NoResurrection
  BY DEF DeviceInv
<1>. QED
  BY <1>1, <1>2, <1>3, PTL DEF Spec

\* No sequence of purchases, additions and removals puts more devices on a
\* ticket than MAX_TICKET_DEVICES, or one session on it twice.
THEOREM DeviceLimitCorrect == Spec => []DeviceLimit
<1>1. Init => TypeOK /\ PaidOnce /\ DeviceInv
  BY InitTypeOK, InitPaidOnce, InitDevice
<1>2. TypeOK /\ PaidOnce /\ DeviceInv /\ [Next]_vars
        => (TypeOK /\ PaidOnce /\ DeviceInv)'
  BY NextTypeOK, NextPaidOnce, NextDevice
<1>3. DeviceInv => DeviceLimit
  BY DEF DeviceInv
<1>. QED
  BY <1>1, <1>2, <1>3, PTL DEF Spec

-----------------------------------------------------------------------------
(* A paid refund ends playback. *)

\* Nothing is refunded initially.
LEMMA InitPlayback == Init => RefundEndsPlayback
  BY DEF Init, RefundEndsPlayback

\* It is enough that no ticket is newly paid without a refund receipt, that a
\* paid ticket gains no device and that it loses its receipt with its devices.
LEMMA PlaybackFrame ==
    ASSUME RefundEndsPlayback,
           \A t \in TicketId : /\ refund_paid'[t] > 0 /\ Refunding(t)' = {}
                               => \/ devices'[t] = {}
                                  \/ /\ refund_paid[t] > 0 /\ Refunding(t) = {}
                                     /\ devices'[t] \subseteq devices[t]
    PROVE  RefundEndsPlayback'
  BY DEF RefundEndsPlayback

\* Every step keeps it: a device is only added to a ticket that is not refunded.
LEMMA NextPlayback ==
    TypeOK /\ PaidOnce /\ RefundEndsPlayback /\ [Next]_vars
        => RefundEndsPlayback'
<1> SUFFICES ASSUME TypeOK, PaidOnce, RefundEndsPlayback, [Next]_vars
             PROVE  RefundEndsPlayback'
    OBVIOUS
<1>1. ASSUME UNCHANGED <<devices, refund_paid>>,
             \A s \in OutSlot : IsRefund(s) =>
                 outbound'[s] = outbound[s] /\ IsRefund(s)'
      PROVE  RefundEndsPlayback'
  <2>1. \A t \in TicketId : Refunding(t) \subseteq Refunding(t)'
    BY <1>1 DEF Refunding
  <2>. QED
    BY <1>1, <2>1, PlaybackFrame
<1>2. ASSUME UNCHANGED <<refund_paid, outbound>>, NEW t \in TicketId,
             tickets[t].status # "refunded",
             \A u \in TicketId \ {t} : devices'[u] = devices[u]
      PROVE  RefundEndsPlayback'
  <2>1. \A u \in TicketId : Refunding(u)' = Refunding(u)
    BY <1>2 DEF Refunding, IsRefund
  <2>2. ~(refund_paid[t] > 0)
    BY <1>2 DEF PaidOnce, PaymentOK
  <2>. QED
    BY <1>2, <2>1, <2>2, PlaybackFrame
<1>3. ASSUME UNCHANGED <<devices, refund_paid, outbound>>
      PROVE  RefundEndsPlayback'
  BY <1>1, <1>3 DEF IsRefund
<1>4. ASSUME NEW s \in InSlot, Transfers(s) PROVE RefundEndsPlayback'
  <2>1. CASE buy_ticket_v2(s)
    <3>1. inbound[s].ticket \in TicketId
      BY <2>1, InboundType DEF buy_ticket_v2, Inbound
    <3>. QED
      BY <1>2, <2>1, <3>1 DEF buy_ticket_v2, buy_accepted, Exists, first_device,
         TypeOK, DevicesOK
  <2>. QED
    BY <1>3, <1>4, <2>1 DEF Transfers, ft_on_transfer, ft_transfer_call,
       create_paid_job, ft_on_transfer_returns, ft_resolve_transfer, device
<1>5. ASSUME NEW s \in OutSlot, NEW c \in Creator,
             withdraw_creator_balance(c, s)
      PROVE  RefundEndsPlayback'
  BY <1>1, <1>5 DEF withdraw_creator_balance, ft_transfer, IsRefund, NoOutbound,
     TypeOK, PromisesOK, device
<1>6. ASSUME NEW s \in OutSlot,
             withdraw_platform_balance(s) \/ withdraw_tax_balance(s)
      PROVE  RefundEndsPlayback'
  BY <1>1, <1>6 DEF withdraw_platform_balance, withdraw_tax_balance, ft_transfer,
     IsRefund, NoOutbound, TypeOK, PromisesOK, device
<1>7. ASSUME NEW s \in OutSlot, NEW t \in TicketId, NEW caller,
             refund_ticket(t, caller, s)
      PROVE  RefundEndsPlayback'
  BY <1>1, <1>7 DEF refund_ticket, ft_transfer, IsRefund, NoOutbound, TypeOK,
     PromisesOK, device
<1>8. ASSUME NEW s \in OutSlot, UsdcPays(s) \/ UsdcFails(s)
      PROVE  RefundEndsPlayback'
  <2>1. /\ outbound[s].stage = "sent"
        /\ \E x \in {"ok", "failed"} :
              outbound' = [outbound EXCEPT ![s].stage = x]
        /\ devices' = devices
    BY <1>8 DEF UsdcPays, UsdcFails, device
  <2>2. outbound[s] \in Outbound
    BY <2>1, OutboundType
  <2>3. \A u \in OutSlot : /\ IsRefund(u)' <=> IsRefund(u)
                           /\ IsRefund(u) =>
                                 outbound'[u].ticket = outbound[u].ticket
    BY <2>1, <2>2 DEF IsRefund, TypeOK, PromisesOK, Outbound, Refund,
       CreatorPayout, RolePayout
  <2>4. \A t \in TicketId : Refunding(t)' = Refunding(t)
    BY <2>3 DEF Refunding
  <2>5. \A t \in TicketId : Refunding(t) = {} => refund_paid'[t] = refund_paid[t]
    <3>1. CASE outbound[s].kind = "refund"
      BY <1>8, <2>1, <3>1 DEF UsdcPays, UsdcFails, Refunding, IsRefund, TypeOK,
         PromisesOK
    <3>2. CASE outbound[s].kind # "refund"
      BY <1>8, <3>2 DEF UsdcPays, UsdcFails
    <3>. QED
      BY <3>1, <3>2
  <2>. QED
    BY <2>1, <2>4, <2>5, PlaybackFrame
<1>9. ASSUME NEW s \in OutSlot,
             \/ on_creator_withdraw(s) \/ on_platform_withdraw(s)
             \/ on_tax_withdraw(s)
      PROVE  RefundEndsPlayback'
  BY <1>1, <1>9 DEF on_creator_withdraw, on_platform_withdraw, on_tax_withdraw,
     Done, IsRefund, TypeOK, PromisesOK, device
<1>10. ASSUME NEW s \in OutSlot, on_ticket_refund(s) PROVE RefundEndsPlayback'
  <2> DEFINE t == outbound[s].ticket
  <2>1. /\ IsRefund(s) /\ t \in TicketId
        /\ outbound' = [outbound EXCEPT ![s] = NoOutbound]
        /\ refund_paid' = refund_paid
        /\ \/ outbound[s].stage = "ok" /\ devices' = [devices EXCEPT ![t] = {}]
           \/ outbound[s].stage = "failed" /\ devices' = devices
    BY <1>10, OutboundType DEF on_ticket_refund, devices_cleared, Done, IsRefund,
       Refund
  <2>2. \A u \in TicketId \ {t} : Refunding(u)' = Refunding(u)
    BY <2>1 DEF Refunding, IsRefund, NoOutbound, TypeOK, PromisesOK
  <2>3. \A u \in TicketId \ {t} : devices'[u] = devices[u]
    BY <2>1 DEF TypeOK, DevicesOK
  <2>4. refund_paid[t] > 0 => devices'[t] = {}
    <3>1. outbound[s].stage = "failed" => refund_paid[t] = 0
      BY <2>1 DEF PaidOnce, ReceiptOK
    <3>. QED
      BY <2>1, <3>1 DEF TypeOK, DevicesOK
  <2>. QED
    BY <2>1, <2>2, <2>3, <2>4, PlaybackFrame
<1>11. ASSUME NEW t \in TicketId, void_card_ticket(t) PROVE RefundEndsPlayback'
  BY <1>2, <1>11 DEF void_card_ticket, devices_cleared, promises, TypeOK,
     DevicesOK
<1>12. ASSUME NEW t \in TicketId, NEW p \in Publication, NEW r \in CardReference,
              NEW d \in Session, issue_card_ticket(t, p, r, d)
       PROVE  RefundEndsPlayback'
  BY <1>2, <1>12 DEF issue_card_ticket, Exists, first_device, promises, TypeOK,
     DevicesOK
<1>13. ASSUME Devices PROVE RefundEndsPlayback'
  <2>1. ASSUME NEW m \in signed, add_device(m) PROVE RefundEndsPlayback'
    <3>1. m.ticket \in TicketId /\ tickets[m.ticket].status # "refunded"
      BY <2>1 DEF add_device, playable_ticket, PlayableStatus, InEscrowStatus,
         TypeOK, DevicesOK, SignedDevice
    <3>. QED
      BY <1>2, <2>1, <3>1 DEF add_device, promises, TypeOK, DevicesOK
  <2>2. ASSUME NEW t \in TicketId, NEW d \in Session, revoke_device(t, d)
        PROVE  RefundEndsPlayback'
    <3>1. /\ \A u \in TicketId : devices'[u] \subseteq devices[u]
          /\ UNCHANGED <<refund_paid, outbound>>
      BY <2>2 DEF revoke_device, revoke_ticket_device, promises, TypeOK,
         DevicesOK
    <3>2. \A u \in TicketId : Refunding(u)' = Refunding(u)
      BY <3>1 DEF Refunding, IsRefund
    <3>. QED
      BY <3>1, <3>2, PlaybackFrame
  <2>3. ASSUME NEW t \in TicketId, NEW d \in Session, NEW e, SignDevice(t, d, e)
        PROVE  RefundEndsPlayback'
    BY <1>3, <2>3 DEF SignDevice, promises
  <2>. QED
    BY <1>13, <2>1, <2>2, <2>3 DEF Devices
<1>14. ASSUME NEW t \in TicketId, mark_watched(t) PROVE RefundEndsPlayback'
  BY <1>3, <1>14 DEF mark_watched, promises, device
<1>15. ASSUME NEW batch \in SUBSET TicketId, release_expired(batch)
       PROVE  RefundEndsPlayback'
  BY <1>3, <1>15 DEF release_expired, promises, device
<1>16. ASSUME Environment \/ UNCHANGED vars PROVE RefundEndsPlayback'
  BY <1>3, <1>16 DEF Environment, suspend_sales, takedown_publication,
     pause_new_purchases, unpause_new_purchases, BetaEnds, revoke_vat_key,
     HeadroomChanges, Tick, Others, promises, device, vars
<1>. QED
  BY <1>4, <1>5, <1>6, <1>7, <1>8, <1>9, <1>10, <1>11, <1>12, <1>13, <1>14,
     <1>15, <1>16 DEF Next, Payouts, Callbacks, Tickets

\* Once USDC has paid a refund and its callback has run, no device can play the
\* ticket.
THEOREM RefundEndsPlaybackCorrect == Spec => []RefundEndsPlayback
<1>1. Init => TypeOK /\ PaidOnce /\ RefundEndsPlayback
  BY InitTypeOK, InitPaidOnce, InitPlayback
<1>2. TypeOK /\ PaidOnce /\ RefundEndsPlayback /\ [Next]_vars
        => (TypeOK /\ PaidOnce /\ RefundEndsPlayback)'
  BY NextTypeOK, NextPaidOnce, NextPlayback
<1>. QED
  BY <1>1, <1>2, PTL DEF Spec

-----------------------------------------------------------------------------
(* The books. *)

\* What each ticket has in escrow, and each receipt has on its way.
grossOf(k) == IF k.status \in InEscrowStatus THEN k.gross ELSE 0
owedOf(r)  == IF r.stage \in {"sent", "failed"} THEN r.amount ELSE 0
heldOf(p)  == IF p.stage # "free" THEN p.amount ELSE 0

InEscrowNow  == [t \in TicketId |-> grossOf(tickets[t])]
OwedNow      == [s \in OutSlot |-> owedOf(outbound[s])]
HeldNow      == [s \in InSlot |-> heldOf(inbound[s])]

EscrowSum  == SumFunctionOnSet(InEscrowNow, TicketId)
OwedSum    == SumFunctionOnSet(OwedNow, OutSlot)
HeldSum    == SumFunctionOnSet(HeldNow, InSlot)
CreatorSum == SumFunctionOnSet(creator_balances, Creator)

\* The two properties, with every ticket and every slot in the sums.
Books ==
    /\ escrow_balance = EscrowSum
    /\ usdc = escrow_balance + tax_balance + platform_balance
              + CreatorSum + OwedSum + HeldSum

\* A ticket or a receipt, or the absence of one, is worth a number.
LEMMA Worth ==
    /\ \A k \in Ticket \cup {NoTicket} : grossOf(k) \in Nat
    /\ \A r \in Outbound \cup {NoOutbound} : owedOf(r) \in Nat
    /\ \A p \in Inbound \cup {NoInbound} : heldOf(p) \in Nat
  <1>1. ASSUME NEW k \in Ticket \cup {NoTicket} PROVE grossOf(k) \in Nat
    BY <1>1 DEF grossOf, InEscrowStatus, Ticket, NoTicket
  <1>2. ASSUME NEW r \in Outbound \cup {NoOutbound} PROVE owedOf(r) \in Nat
    <2>1. r \in Outbound => r.amount \in Nat
      BY DEF Outbound, CreatorPayout, RolePayout, Refund
    <2>. QED BY <1>2, <2>1 DEF owedOf, NoOutbound
  <1>3. ASSUME NEW p \in Inbound \cup {NoInbound} PROVE heldOf(p) \in Nat
    <2>1. p \in Inbound => p.amount \in Nat
      BY DEF Inbound
    <2>. QED BY <1>3, <2>1 DEF heldOf, NoInbound
  <1>. QED BY <1>1, <1>2, <1>3

\* Every entry of the books is a number.
LEMMA EntriesType ==
    ASSUME TypeOK
    PROVE  /\ \A t \in TicketId : InEscrowNow[t] \in Nat
           /\ \A s \in OutSlot : OwedNow[s] \in Nat
           /\ \A s \in InSlot : HeldNow[s] \in Nat
           /\ \A c \in Creator : creator_balances[c] \in Nat
           /\ DOMAIN creator_balances = Creator
  <1>1. \A t \in TicketId : InEscrowNow[t] \in Nat
    BY Worth DEF InEscrowNow, TypeOK, TicketsOK
  <1>2. \A s \in OutSlot : OwedNow[s] \in Nat
    BY Worth DEF OwedNow, TypeOK, PromisesOK
  <1>3. \A s \in InSlot : HeldNow[s] \in Nat
    BY Worth DEF HeldNow, TypeOK, PromisesOK
  <1>4. (\A c \in Creator : creator_balances[c] \in Nat) /\ DOMAIN creator_balances = Creator
    BY LimitAssumption DEF TypeOK, LedgerOK, Balance
  <1>. QED BY <1>1, <1>2, <1>3, <1>4

\* The books say what the properties say.
LEMMA BooksMean ==
    ASSUME TypeOK, Books PROVE EscrowBacked /\ Solvent
  <1>1. total("gross", {t \in TicketId : Exists(t) /\ InEscrow(t)})
           = SumFunctionOnSet(InEscrowNow, TicketId)
    <2>. DEFINE W == {t \in TicketId : Exists(t) /\ InEscrow(t)}
                f == [t \in W |-> tickets[t]["gross"]]
    <2>1. total("gross", W) = SumFunctionOnSet(f, W)
      BY DEF total, SumFunction
    <2>2. \A t \in W : f[t] \in Int /\ InEscrowNow[t] = f[t]
      <3>. SUFFICES ASSUME NEW t \in W
                    PROVE  f[t] \in Int /\ InEscrowNow[t] = f[t]
        OBVIOUS
      <3>1. f[t] = tickets[t].gross /\ InEscrowNow[t] = tickets[t].gross
        BY DEF InEscrowNow, grossOf, InEscrow
      <3>. QED BY <3>1, EntriesType
    <2>3. \A t \in TicketId \ W : InEscrowNow[t] = 0
      BY DEF InEscrowNow, grossOf, InEscrow, Exists, InEscrowStatus
    <2>4. W \in SUBSET TicketId
      OBVIOUS
    <2>. HIDE DEF f, W
    <2>5. SumFunctionOnSet(InEscrowNow, TicketId) = SumFunctionOnSet(f, W)
      BY <2>2, <2>3, <2>4, SumFilter, FiniteAssumption
    <2>. QED BY <2>1, <2>5 DEF W
  <1>2. SumFunction([s \in {s \in OutSlot : outbound[s].stage \in {"sent", "failed"}}
                        |-> outbound[s].amount])
           = SumFunctionOnSet(OwedNow, OutSlot)
    <2>. DEFINE W == {s \in OutSlot : outbound[s].stage \in {"sent", "failed"}}
                f == [s \in W |-> outbound[s].amount]
    <2>1. SumFunction(f) = SumFunctionOnSet(f, W)
      BY DEF SumFunction
    <2>2. \A s \in W : f[s] \in Int /\ OwedNow[s] = f[s]
      <3>. SUFFICES ASSUME NEW s \in W
                    PROVE  f[s] \in Int /\ OwedNow[s] = f[s]
        OBVIOUS
      <3>1. f[s] = outbound[s].amount /\ OwedNow[s] = outbound[s].amount
        BY DEF OwedNow, owedOf
      <3>. QED BY <3>1, EntriesType
    <2>3. \A s \in OutSlot \ W : OwedNow[s] = 0
      BY DEF OwedNow, owedOf
    <2>4. W \in SUBSET OutSlot
      OBVIOUS
    <2>. HIDE DEF f, W
    <2>5. SumFunctionOnSet(OwedNow, OutSlot) = SumFunctionOnSet(f, W)
      BY <2>2, <2>3, <2>4, SumFilter, FiniteAssumption
    <2>. QED BY <2>1, <2>5 DEF f, W
  <1>3. SumFunction([s \in {s \in InSlot : inbound[s].stage # "free"} |-> inbound[s].amount])
           = SumFunctionOnSet(HeldNow, InSlot)
    <2>. DEFINE W == {s \in InSlot : inbound[s].stage # "free"}
                f == [s \in W |-> inbound[s].amount]
    <2>1. SumFunction(f) = SumFunctionOnSet(f, W)
      BY DEF SumFunction
    <2>2. \A s \in W : f[s] \in Int /\ HeldNow[s] = f[s]
      <3>. SUFFICES ASSUME NEW s \in W
                    PROVE  f[s] \in Int /\ HeldNow[s] = f[s]
        OBVIOUS
      <3>1. f[s] = inbound[s].amount /\ HeldNow[s] = inbound[s].amount
        BY DEF HeldNow, heldOf
      <3>. QED BY <3>1, EntriesType
    <2>3. \A s \in InSlot \ W : HeldNow[s] = 0
      BY DEF HeldNow, heldOf
    <2>4. W \in SUBSET InSlot
      OBVIOUS
    <2>. HIDE DEF f, W
    <2>5. SumFunctionOnSet(HeldNow, InSlot) = SumFunctionOnSet(f, W)
      BY <2>2, <2>3, <2>4, SumFilter, FiniteAssumption
    <2>. QED BY <2>1, <2>5 DEF f, W
  <1>4. SumFunction(creator_balances) = SumFunctionOnSet(creator_balances, Creator)
    BY EntriesType DEF SumFunction
  <1>. QED
    BY <1>1, <1>2, <1>3, <1>4
       DEF Books, EscrowSum, OwedSum, HeldSum, CreatorSum, EscrowBacked, Solvent
-----------------------------------------------------------------------------
(* How the sums move. *)

\* The sums of the books are numbers.
LEMMA SumsType ==
    ASSUME TypeOK
    PROVE  /\ EscrowSum \in Nat
           /\ OwedSum \in Nat
           /\ HeldSum \in Nat
           /\ CreatorSum \in Nat
           /\ escrow_balance \in Nat /\ tax_balance \in Nat
           /\ platform_balance \in Nat /\ usdc \in Nat
  <1>1. /\ escrow_balance \in Nat /\ tax_balance \in Nat
        /\ platform_balance \in Nat /\ usdc \in Nat
    BY LimitAssumption DEF TypeOK, LedgerOK, PromisesOK, Balance
  <1>. QED BY <1>1, EntriesType, SumIsNat, FiniteAssumption
          DEF EscrowSum, OwedSum, HeldSum, CreatorSum

\* A step that changes one ticket moves the escrow by that ticket's change ...
LEMMA TicketMoves ==
    ASSUME TypeOK, TypeOK', NEW t \in TicketId,
           \A u \in TicketId \ {t} : tickets'[u] = tickets[u]
    PROVE  /\ grossOf(tickets[t]) \in Nat /\ grossOf(tickets'[t]) \in Nat
           /\ EscrowSum' = EscrowSum + (grossOf(tickets'[t]) - grossOf(tickets[t]))
  <1>1. PICK f, g : f = InEscrowNow /\ g = InEscrowNow'
    OBVIOUS
  <1>2. \A u \in TicketId : /\ f[u] = grossOf(tickets[u]) /\ f[u] \in Int /\ f[u] \in Nat
                            /\ g[u] = grossOf(tickets'[u]) /\ g[u] \in Int /\ g[u] \in Nat
    <2>1. \A u \in TicketId : f[u] = grossOf(tickets[u]) /\ f[u] \in Nat
      BY <1>1, EntriesType DEF InEscrowNow
    <2>2. \A u \in TicketId : InEscrowNow'[u] = grossOf(tickets'[u])
      BY DEF InEscrowNow, grossOf
    <2>3. \A u \in TicketId : InEscrowNow'[u] \in Nat
      BY <2>2, Worth DEF TypeOK, TicketsOK
    <2>. QED BY <1>1, <2>1, <2>2, <2>3
  <1>3. \A u \in TicketId \ {t} : g[u] = f[u]
    BY <1>2
  <1>4. SumFunctionOnSet(g, TicketId) = SumFunctionOnSet(f, TicketId) + (g[t] - f[t])
    BY <1>2, <1>3, SumChange, FiniteAssumption
  <1>. QED BY <1>1, <1>2, <1>4 DEF EscrowSum

\* ... one outgoing receipt, what is owed ...
LEMMA OutboundMoves ==
    ASSUME TypeOK, TypeOK', NEW s \in OutSlot,
           \A r \in OutSlot \ {s} : outbound'[r] = outbound[r]
    PROVE  /\ owedOf(outbound[s]) \in Nat /\ owedOf(outbound'[s]) \in Nat
           /\ OwedSum' = OwedSum + (owedOf(outbound'[s]) - owedOf(outbound[s]))
  <1>1. PICK f, g : f = OwedNow /\ g = OwedNow'
    OBVIOUS
  <1>2. \A r \in OutSlot : /\ f[r] = owedOf(outbound[r]) /\ f[r] \in Int /\ f[r] \in Nat
                           /\ g[r] = owedOf(outbound'[r]) /\ g[r] \in Int /\ g[r] \in Nat
    <2>1. \A r \in OutSlot : f[r] = owedOf(outbound[r]) /\ f[r] \in Nat
      BY <1>1, EntriesType DEF OwedNow
    <2>2. \A r \in OutSlot : OwedNow'[r] = owedOf(outbound'[r])
      BY DEF OwedNow, owedOf
    <2>3. \A r \in OutSlot : OwedNow'[r] \in Nat
      BY <2>2, Worth DEF TypeOK, PromisesOK
    <2>. QED BY <1>1, <2>1, <2>2, <2>3
  <1>3. \A r \in OutSlot \ {s} : g[r] = f[r]
    BY <1>2
  <1>4. SumFunctionOnSet(g, OutSlot) = SumFunctionOnSet(f, OutSlot) + (g[s] - f[s])
    BY <1>2, <1>3, SumChange, FiniteAssumption
  <1>. QED BY <1>1, <1>2, <1>4 DEF OwedSum

\* ... one incoming receipt, what is held for others ...
LEMMA InboundMoves ==
    ASSUME TypeOK, TypeOK', NEW s \in InSlot,
           \A r \in InSlot \ {s} : inbound'[r] = inbound[r]
    PROVE  /\ heldOf(inbound[s]) \in Nat /\ heldOf(inbound'[s]) \in Nat
           /\ HeldSum' = HeldSum + (heldOf(inbound'[s]) - heldOf(inbound[s]))
  <1>1. PICK f, g : f = HeldNow /\ g = HeldNow'
    OBVIOUS
  <1>2. \A r \in InSlot : /\ f[r] = heldOf(inbound[r]) /\ f[r] \in Int /\ f[r] \in Nat
                          /\ g[r] = heldOf(inbound'[r]) /\ g[r] \in Int /\ g[r] \in Nat
    <2>1. \A r \in InSlot : f[r] = heldOf(inbound[r]) /\ f[r] \in Nat
      BY <1>1, EntriesType DEF HeldNow
    <2>2. \A r \in InSlot : HeldNow'[r] = heldOf(inbound'[r])
      BY DEF HeldNow, heldOf
    <2>3. \A r \in InSlot : HeldNow'[r] \in Nat
      BY <2>2, Worth DEF TypeOK, PromisesOK
    <2>. QED BY <1>1, <2>1, <2>2, <2>3
  <1>3. \A r \in InSlot \ {s} : g[r] = f[r]
    BY <1>2
  <1>4. SumFunctionOnSet(g, InSlot) = SumFunctionOnSet(f, InSlot) + (g[s] - f[s])
    BY <1>2, <1>3, SumChange, FiniteAssumption
  <1>. QED BY <1>1, <1>2, <1>4 DEF HeldSum

\* ... and one creator's balance, what creators are due.
LEMMA CreatorMoves ==
    ASSUME TypeOK, TypeOK', NEW c \in Creator,
           \A d \in Creator \ {c} : creator_balances'[d] = creator_balances[d]
    PROVE  /\ creator_balances[c] \in Nat /\ creator_balances'[c] \in Nat
           /\ CreatorSum' = CreatorSum + (creator_balances'[c] - creator_balances[c])
  <1>1. PICK f, g : f = creator_balances /\ g = creator_balances'
    OBVIOUS
  <1>2. \A d \in Creator : /\ f[d] \in Int /\ f[d] \in Nat
                           /\ g[d] \in Int /\ g[d] \in Nat
    BY <1>1, LimitAssumption DEF TypeOK, LedgerOK, Balance
  <1>3. \A d \in Creator \ {c} : g[d] = f[d]
    BY <1>1
  <1>4. SumFunctionOnSet(g, Creator) = SumFunctionOnSet(f, Creator) + (g[c] - f[c])
    BY <1>2, <1>3, SumChange, FiniteAssumption
  <1>. QED BY <1>1, <1>2, <1>4 DEF CreatorSum
-----------------------------------------------------------------------------
(* The first state and money that moves through receipts. *)

\* Nothing is held and nothing owed.
LEMMA InitBooks == ASSUME Init PROVE SharesInv /\ Books
  <1>0. TypeOK
    BY InitTypeOK
  <1>1. SharesInv
    BY DEF Init, SharesInv, Exists, NoTicket
  <1>2. 0 \in {0} /\ \A a, b \in {0} : a + b \in {0}
    OBVIOUS
  <1>3. EscrowSum \in {0}
    <2>1. \A t \in TicketId : InEscrowNow[t] \in {0}
      BY DEF Init, InEscrowNow, grossOf, NoTicket, InEscrowStatus
    <2>. QED BY <1>2, <2>1, SumIn, FiniteAssumption DEF EscrowSum
  <1>4. OwedSum \in {0}
    <2>1. \A s \in OutSlot : OwedNow[s] \in {0}
      BY DEF Init, OwedNow, owedOf, NoOutbound
    <2>. QED BY <1>2, <2>1, SumIn, FiniteAssumption DEF OwedSum
  <1>5. HeldSum \in {0}
    <2>1. \A s \in InSlot : HeldNow[s] \in {0}
      BY DEF Init, HeldNow, heldOf, NoInbound
    <2>. QED BY <1>2, <2>1, SumIn, FiniteAssumption DEF HeldSum
  <1>6. CreatorSum \in {0}
    <2>1. \A c \in Creator : creator_balances[c] \in {0}
      BY DEF Init
    <2>. QED BY <1>2, <2>1, SumIn, FiniteAssumption DEF CreatorSum
  <1>7. escrow_balance = 0 /\ tax_balance = 0 /\ platform_balance = 0 /\ usdc = 0
    BY DEF Init
  <1>. QED BY <1>1, <1>3, <1>4, <1>5, <1>6, <1>7 DEF Books

\* What stays the same is worth the same.
LEMMA Same ==
    /\ tickets' = tickets => EscrowSum' = EscrowSum
    /\ outbound' = outbound => OwedSum' = OwedSum
    /\ inbound' = inbound => HeldSum' = HeldSum
    /\ creator_balances' = creator_balances => CreatorSum' = CreatorSum
  <1>1. tickets' = tickets => EscrowSum' = EscrowSum
    BY DEF EscrowSum, InEscrowNow, grossOf
  <1>2. outbound' = outbound => OwedSum' = OwedSum
    BY DEF OwedSum, OwedNow, owedOf
  <1>3. inbound' = inbound => HeldSum' = HeldSum
    BY DEF HeldSum, HeldNow, heldOf
  <1>4. creator_balances' = creator_balances => CreatorSum' = CreatorSum
    BY DEF CreatorSum
  <1>. QED BY <1>1, <1>2, <1>3, <1>4
-----------------------------------------------------------------------------
(* The shares of a ticket. *)

\* A step that changes the status of tickets alone keeps their shares.
LEMMA SharesFrame ==
    ASSUME SharesInv,
           \A t \in TicketId : Exists(t)' =>
               /\ Exists(t)
               /\ tickets'[t].gross = tickets[t].gross
               /\ tickets'[t].vat = tickets[t].vat
               /\ tickets'[t].platform = tickets[t].platform
               /\ tickets'[t].creator = tickets[t].creator
               /\ tickets'[t].rail = tickets[t].rail
    PROVE  SharesInv'
  BY DEF SharesInv, Exists

\* One ticket's change of status is such a step.
LEMMA SharesStatus ==
    ASSUME TypeOK, SharesInv, NEW t \in TicketId, Exists(t), NEW x,
           tickets' = [tickets EXCEPT ![t].status = x]
    PROVE  SharesInv'
  <1>1. tickets[t] \in Ticket
    BY TicketType DEF Exists
  <1>2. /\ \A u \in TicketId \ {t} : tickets'[u] = tickets[u]
        /\ tickets'[t] = [tickets[t] EXCEPT !.status = x]
    BY DEF TypeOK, TicketsOK
  <1>3. /\ tickets'[t].gross = tickets[t].gross
        /\ tickets'[t].vat = tickets[t].vat
        /\ tickets'[t].platform = tickets[t].platform
        /\ tickets'[t].creator = tickets[t].creator
        /\ tickets'[t].rail = tickets[t].rail
    BY <1>1, <1>2 DEF Ticket
  <1>. QED BY <1>2, <1>3, SharesFrame DEF Exists

\* A ticket is made with shares that add up, and no step changes them.
LEMMA NextShares == TypeOK /\ PaidOnce /\ SharesInv /\ [Next]_vars => SharesInv'
  <1> SUFFICES ASSUME TypeOK, PaidOnce, SharesInv, [Next]_vars PROVE SharesInv'
    OBVIOUS
  <1>1. ASSUME UNCHANGED tickets PROVE SharesInv'
    BY <1>1, SharesFrame DEF Exists
  <1>2. ASSUME NEW s \in InSlot, Transfers(s) PROVE SharesInv'
    <2>1. CASE buy_ticket_v2(s)
      <3>. DEFINE p == inbound[s]
                  k == [status |-> "purchased", rail |-> "crypto",
                        publication |-> p.publication, gross |-> p.amount, vat |-> p.vat,
                        platform |-> platform_share(p.amount, p.vat),
                        creator |-> creator_share(p.amount, p.vat),
                        purchased_at |-> now, reference |-> NoReference]
      <3>1. p.ticket \in TicketId /\ p.amount \in Nat /\ p.vat \in Nat
        BY <2>1, InboundType DEF buy_ticket_v2, Inbound
      <3>2. split_allowed(p.amount, p.vat)
        BY <2>1 DEF buy_ticket_v2, buy_accepted
      <3>3. k.gross = k.vat + k.platform + k.creator
        BY <3>1, <3>2, SplitExact
      <3>4. tickets'[p.ticket] = k /\ \A t \in TicketId \ {p.ticket} : tickets'[t] = tickets[t]
        BY <2>1, <3>1 DEF buy_ticket_v2, TypeOK, TicketsOK
      <3>5. k.rail # "card"
        OBVIOUS
      <3>. QED
        <4>. HIDE DEF k, p
        <4>. QED BY <3>1, <3>3, <3>4, <3>5 DEF SharesInv, Exists
    <2>. QED
      BY <1>1, <1>2, <2>1 DEF Transfers, ft_on_transfer, ft_transfer_call,
         create_paid_job, ft_on_transfer_returns, ft_resolve_transfer
  <1>3. ASSUME NEW s \in OutSlot, NEW t \in TicketId, NEW caller,
               refund_ticket(t, caller, s)
        PROVE  SharesInv'
    BY <1>3, SharesStatus DEF refund_ticket, refundable, SetStatus
  <1>4. ASSUME NEW s \in OutSlot, on_ticket_refund(s) PROVE SharesInv'
    <2>1. IsRefund(s) /\ outbound[s].ticket \in TicketId
      BY <1>4, OutboundType DEF on_ticket_refund, Done, IsRefund, Refund
    <2>2. Exists(outbound[s].ticket)
      BY <2>1 DEF PaidOnce, ReceiptOK, Exists
    <2>. QED
      BY <1>1, <1>4, <2>1, <2>2, SharesStatus DEF on_ticket_refund, restore_status
  <1>5. ASSUME NEW s \in OutSlot, NEW c \in Creator,
               withdraw_creator_balance(c, s)
        PROVE  SharesInv'
    BY <1>1, <1>5 DEF withdraw_creator_balance
  <1>6. ASSUME NEW s \in OutSlot,
               \/ withdraw_platform_balance(s) \/ withdraw_tax_balance(s)
               \/ UsdcPays(s) \/ UsdcFails(s)
               \/ on_creator_withdraw(s) \/ on_platform_withdraw(s)
               \/ on_tax_withdraw(s)
        PROVE  SharesInv'
    BY <1>1, <1>6 DEF withdraw_platform_balance, withdraw_tax_balance, UsdcPays,
       UsdcFails, on_creator_withdraw, on_platform_withdraw, on_tax_withdraw
  <1>7. ASSUME NEW t \in TicketId, mark_watched(t) \/ void_card_ticket(t)
        PROVE  SharesInv'
    BY <1>7, SharesStatus DEF mark_watched, void_card_ticket, SetStatus
  <1>8. ASSUME NEW batch \in SUBSET TicketId, release_expired(batch)
        PROVE  SharesInv'
    <2>1. \A t \in TicketId : \/ tickets'[t] = tickets[t]
                              \/ /\ Exists(t)
                                 /\ tickets'[t] = [tickets[t] EXCEPT !.status = "released"]
      BY <1>8 DEF release_expired, releasable
    <2>2. \A t \in TicketId : Exists(t)' =>
              /\ Exists(t)
              /\ tickets'[t].gross = tickets[t].gross
              /\ tickets'[t].vat = tickets[t].vat
              /\ tickets'[t].platform = tickets[t].platform
              /\ tickets'[t].creator = tickets[t].creator
              /\ tickets'[t].rail = tickets[t].rail
      BY <2>1, TicketType DEF Exists, Ticket
    <2>. QED BY <2>2, SharesFrame
  <1>9. ASSUME NEW t \in TicketId, NEW p \in Publication, NEW r \in CardReference,
               NEW d \in Session, issue_card_ticket(t, p, r, d)
        PROVE  SharesInv'
    <2>1. /\ tickets'[t].gross = 0 /\ tickets'[t].vat = 0
          /\ tickets'[t].platform = 0 /\ tickets'[t].creator = 0
          /\ \A u \in TicketId \ {t} : tickets'[u] = tickets[u]
      BY <1>9 DEF issue_card_ticket, TypeOK, TicketsOK
    <2>. QED BY <2>1 DEF SharesInv, Exists
  <1>10. ASSUME Devices \/ Environment \/ UNCHANGED vars PROVE SharesInv'
    BY <1>1, <1>10 DEF Devices, SignDevice, add_device, revoke_device,
       revoke_ticket_device, Environment, suspend_sales, takedown_publication,
       pause_new_purchases, unpause_new_purchases, BetaEnds, revoke_vat_key,
       HeadroomChanges, Tick, Others, vars
  <1>. QED
    BY <1>2, <1>3, <1>4, <1>5, <1>6, <1>7, <1>8, <1>9, <1>10
       DEF Next, Payouts, Callbacks, Tickets
-----------------------------------------------------------------------------
(* Each step keeps the books. *)

\* A ticket that leaves or enters the escrow, or moves inside it.
LEMMA StatusMoves ==
    ASSUME TypeOK, TypeOK', NEW t \in TicketId, Exists(t), NEW x,
           tickets' = [tickets EXCEPT ![t].status = x]
    PROVE  /\ tickets[t].gross \in Nat
           /\ InEscrow(t) /\ x \notin InEscrowStatus => EscrowSum' = EscrowSum - tickets[t].gross
           /\ ~InEscrow(t) /\ x \in InEscrowStatus => EscrowSum' = EscrowSum + tickets[t].gross
           /\ (InEscrow(t) <=> x \in InEscrowStatus) => EscrowSum' = EscrowSum
  <1>1. tickets[t] \in Ticket
    BY TicketType DEF Exists
  <1>2. /\ \A u \in TicketId \ {t} : tickets'[u] = tickets[u]
        /\ tickets'[t] = [tickets[t] EXCEPT !.status = x]
    BY DEF TypeOK, TicketsOK
  <1>3. tickets'[t].gross = tickets[t].gross /\ tickets'[t].status = x
    BY <1>1, <1>2 DEF Ticket
  <1>4. tickets[t].gross \in Nat
    BY <1>1 DEF Ticket
  <1>5. EscrowSum' = EscrowSum + (grossOf(tickets'[t]) - grossOf(tickets[t]))
    BY <1>2, TicketMoves
  <1>6. /\ grossOf(tickets[t]) = IF InEscrow(t) THEN tickets[t].gross ELSE 0
        /\ grossOf(tickets'[t]) = IF x \in InEscrowStatus THEN tickets[t].gross ELSE 0
    BY <1>3 DEF grossOf, InEscrow
  <1>7. EscrowSum \in Nat
    BY SumsType
  <1>. QED BY <1>4, <1>5, <1>6, <1>7

\* Money comes in: held first, then a ticket's gross in escrow, the platform's
\* fee, or nothing.
LEMMA TransfersBooks ==
    ASSUME TypeOK, Books, TypeOK', NEW s \in InSlot, Transfers(s) PROVE Books'
  <1>1. /\ EscrowSum \in Nat /\ OwedSum \in Nat /\ HeldSum \in Nat /\ CreatorSum \in Nat
        /\ escrow_balance \in Nat /\ tax_balance \in Nat
        /\ platform_balance \in Nat /\ usdc \in Nat
    BY SumsType
  <1>2. ASSUME \A r \in InSlot \ {s} : inbound'[r] = inbound[r]
        PROVE  /\ heldOf(inbound[s]) \in Nat /\ heldOf(inbound'[s]) \in Nat
               /\ HeldSum' = HeldSum + (heldOf(inbound'[s]) - heldOf(inbound[s]))
    BY <1>2, InboundMoves
  <1>3. \A p : heldOf(p) = (IF p.stage # "free" THEN p.amount ELSE 0)
    BY DEF heldOf
  <1>4. CASE ft_transfer_call(s)
    <2>1. PICK p \in Transfer : inbound' = [inbound EXCEPT ![s] = p] /\ usdc' = usdc + p.amount
      BY <1>4 DEF ft_transfer_call
    <2>2. heldOf(inbound[s]) = 0
      BY <1>4 DEF ft_transfer_call, heldOf, NoInbound
    <2>3. inbound'[s] = p /\ \A r \in InSlot \ {s} : inbound'[r] = inbound[r]
      BY <2>1 DEF TypeOK, PromisesOK
    <2>4. heldOf(p) = p.amount
      BY DEF Transfer, heldOf
    <2>5. UNCHANGED <<tickets, ledger, outbound>>
      BY <1>4 DEF ft_transfer_call
    <2>. QED BY <1>1, <1>2, <2>1, <2>2, <2>3, <2>4, <2>5, Same DEF Books, ledger
  <1>5. CASE buy_ticket_v2(s)
    <2>1. inbound[s].ticket \in TicketId /\ inbound[s].amount \in Nat
      BY <1>5, InboundType DEF buy_ticket_v2, Inbound
    <2>2. PICK t \in TicketId, m \in Nat : t = inbound[s].ticket /\ m = inbound[s].amount
      BY <2>1
    <2>3. /\ tickets'[t].status = "purchased" /\ tickets'[t].gross = m
          /\ \A u \in TicketId \ {t} : tickets'[u] = tickets[u]
      BY <1>5, <2>2 DEF buy_ticket_v2, TypeOK, TicketsOK
    <2>4. grossOf(tickets'[t]) = m
      BY <2>3 DEF grossOf, InEscrowStatus
    <2>5. grossOf(tickets[t]) = 0
      BY <1>5, <2>2 DEF buy_ticket_v2, buy_accepted, Exists, grossOf, InEscrowStatus
    <2>6. EscrowSum' = EscrowSum + m
      BY <1>1, <2>3, <2>4, <2>5, TicketMoves
    <2>7. heldOf(inbound[s]) = m
      BY <1>5, <2>2 DEF buy_ticket_v2, heldOf
    <2>8. inbound'[s] = NoInbound /\ \A r \in InSlot \ {s} : inbound'[r] = inbound[r]
      BY <1>5 DEF buy_ticket_v2, TypeOK, PromisesOK
    <2>9. heldOf(NoInbound) = 0
      BY DEF heldOf, NoInbound
    <2>10. HeldSum' = HeldSum - m
      BY <1>1, <1>2, <2>7, <2>8, <2>9
    <2>11. /\ escrow_balance' = escrow_balance + m
           /\ UNCHANGED <<tax_balance, platform_balance, creator_balances, outbound, usdc>>
      BY <1>5, <2>2 DEF buy_ticket_v2
    <2>. QED BY <1>1, <2>6, <2>10, <2>11, Same DEF Books
  <1>6. CASE create_paid_job(s)
    <2>1. PICK m \in Nat : m = inbound[s].amount
      BY <1>6, InboundType DEF create_paid_job, Inbound
    <2>2. heldOf(inbound[s]) = m
      BY <1>6, <2>1 DEF create_paid_job, heldOf
    <2>3. inbound'[s] = NoInbound /\ \A r \in InSlot \ {s} : inbound'[r] = inbound[r]
      BY <1>6 DEF create_paid_job, TypeOK, PromisesOK
    <2>4. heldOf(NoInbound) = 0
      BY DEF heldOf, NoInbound
    <2>5. HeldSum' = HeldSum - m
      BY <1>1, <1>2, <2>2, <2>3, <2>4
    <2>6. /\ platform_balance' = platform_balance + m
          /\ UNCHANGED <<tickets, escrow_balance, tax_balance, creator_balances, outbound, usdc>>
      BY <1>6, <2>1 DEF create_paid_job
    <2>. QED BY <1>1, <2>5, <2>6, Same DEF Books
  <1>7. CASE ft_on_transfer_returns(s)
    <2>1. inbound[s] \in Inbound
      BY <1>7, InboundType DEF ft_on_transfer_returns
    <2>2. /\ inbound'[s].stage = "returning" /\ inbound'[s].amount = inbound[s].amount
          /\ \A r \in InSlot \ {s} : inbound'[r] = inbound[r]
      BY <1>7, <2>1 DEF ft_on_transfer_returns, Inbound, TypeOK, PromisesOK
    <2>3. heldOf(inbound'[s]) = heldOf(inbound[s])
      BY <1>7, <2>2 DEF ft_on_transfer_returns, heldOf
    <2>4. HeldSum' = HeldSum
      BY <1>1, <1>2, <2>2, <2>3
    <2>5. UNCHANGED <<tickets, ledger, outbound, usdc>>
      BY <1>7 DEF ft_on_transfer_returns
    <2>. QED BY <1>1, <2>4, <2>5, Same DEF Books, ledger
  <1>8. CASE ft_resolve_transfer(s)
    <2>1. PICK m \in Nat : m = inbound[s].amount
      BY <1>8, InboundType DEF ft_resolve_transfer, Inbound
    <2>2. heldOf(inbound[s]) = m
      BY <1>8, <2>1 DEF ft_resolve_transfer, heldOf
    <2>3. inbound'[s] = NoInbound /\ \A r \in InSlot \ {s} : inbound'[r] = inbound[r]
      BY <1>8 DEF ft_resolve_transfer, TypeOK, PromisesOK
    <2>4. heldOf(NoInbound) = 0
      BY DEF heldOf, NoInbound
    <2>5. HeldSum' = HeldSum - m
      BY <1>1, <1>2, <2>2, <2>3, <2>4
    <2>6. usdc' = usdc - m /\ UNCHANGED <<tickets, ledger, outbound>>
      BY <1>8, <2>1 DEF ft_resolve_transfer
    <2>. QED BY <1>1, <2>5, <2>6, Same DEF Books, ledger
  <1>. QED BY <1>4, <1>5, <1>6, <1>7, <1>8 DEF Transfers, ft_on_transfer

\* One outgoing receipt is made of a balance, of a ticket in escrow, ...
LEMMA SendMoves ==
    ASSUME TypeOK, TypeOK', NEW s \in OutSlot, NEW r,
           r.stage = "sent", NEW m \in Nat, r.amount = m, ft_transfer(s, r)
    PROVE  OwedSum' = OwedSum + m
  <1>1. owedOf(outbound[s]) = 0
    BY DEF ft_transfer, owedOf, NoOutbound
  <1>2. outbound'[s] = r /\ \A u \in OutSlot \ {s} : outbound'[u] = outbound[u]
    BY DEF ft_transfer, TypeOK, PromisesOK
  <1>3. owedOf(outbound'[s]) = m
    BY <1>2 DEF owedOf
  <1>4. OwedSum \in Nat
    BY SumsType
  <1>. QED BY <1>1, <1>2, <1>3, <1>4, OutboundMoves

\* ... and is gone when its callback has run: what failed is given back.
LEMMA DoneMoves ==
    ASSUME TypeOK, TypeOK', NEW s \in OutSlot, NEW kind, Done(s, kind)
    PROVE  /\ Restored(s) \in Nat
           /\ OwedSum' = OwedSum - Restored(s)
  <1>1. outbound[s].stage \in {"ok", "failed"}
    BY DEF Done
  <1>2. owedOf(outbound[s]) = Restored(s)
    BY <1>1 DEF owedOf, Restored
  <1>3. outbound'[s] = NoOutbound /\ \A u \in OutSlot \ {s} : outbound'[u] = outbound[u]
    BY DEF Done, TypeOK, PromisesOK
  <1>4. owedOf(outbound'[s]) = 0
    BY <1>3 DEF owedOf, NoOutbound
  <1>5. OwedSum \in Nat
    BY SumsType
  <1>6. /\ owedOf(outbound[s]) \in Nat
        /\ OwedSum' = OwedSum + (owedOf(outbound'[s]) - owedOf(outbound[s]))
    BY <1>3, OutboundMoves
  <1>. QED BY <1>2, <1>4, <1>5, <1>6

\* Money goes out: owed until USDC executes the transfer, given back if it fails.
LEMMA PayoutsBooks ==
    ASSUME TypeOK, PaidOnce, Books, TypeOK', NEW s \in OutSlot, Payouts(s) PROVE Books'
  <1>1. /\ EscrowSum \in Nat /\ OwedSum \in Nat /\ HeldSum \in Nat /\ CreatorSum \in Nat
        /\ escrow_balance \in Nat /\ tax_balance \in Nat
        /\ platform_balance \in Nat /\ usdc \in Nat
    BY SumsType
  <1>2. ASSUME NEW c \in Creator, withdraw_creator_balance(c, s) PROVE Books'
    <2>1. PICK m \in Nat : m = creator_balances[c]
      BY EntriesType
    <2>2. OwedSum' = OwedSum + m
      <3>. DEFINE r == [kind |-> "creator", creator |-> c,
                        amount |-> creator_balances[c], stage |-> "sent"]
      <3>1. r.stage = "sent" /\ r.amount = m /\ ft_transfer(s, r)
        BY <1>2, <2>1 DEF withdraw_creator_balance
      <3>. QED
        <4>. HIDE DEF r
        <4>. QED BY <3>1, SendMoves
    <2>3. creator_balances'[c] = 0 /\ \A d \in Creator \ {c} : creator_balances'[d] = creator_balances[d]
      BY <1>2 DEF withdraw_creator_balance, TypeOK, LedgerOK
    <2>4. CreatorSum' = CreatorSum - m
      BY <1>1, <2>1, <2>3, CreatorMoves
    <2>5. UNCHANGED <<tickets, escrow_balance, tax_balance, platform_balance, inbound, usdc>>
      BY <1>2 DEF withdraw_creator_balance
    <2>. QED BY <1>1, <2>2, <2>4, <2>5, Same DEF Books
  <1>3. ASSUME withdraw_platform_balance(s) PROVE Books'
    <2>1. OwedSum' = OwedSum + platform_balance
      <3>. DEFINE r == [kind |-> "platform", amount |-> platform_balance, stage |-> "sent"]
      <3>1. r.stage = "sent" /\ r.amount = platform_balance /\ ft_transfer(s, r)
        BY <1>3 DEF withdraw_platform_balance
      <3>. QED
        <4>. HIDE DEF r
        <4>. QED BY <1>1, <3>1, SendMoves
    <2>2. /\ platform_balance' = 0
          /\ UNCHANGED <<tickets, escrow_balance, tax_balance, creator_balances, inbound, usdc>>
      BY <1>3 DEF withdraw_platform_balance
    <2>. QED BY <1>1, <2>1, <2>2, Same DEF Books
  <1>4. ASSUME withdraw_tax_balance(s) PROVE Books'
    <2>1. OwedSum' = OwedSum + tax_balance
      <3>. DEFINE r == [kind |-> "tax", amount |-> tax_balance, stage |-> "sent"]
      <3>1. r.stage = "sent" /\ r.amount = tax_balance /\ ft_transfer(s, r)
        BY <1>4 DEF withdraw_tax_balance
      <3>. QED
        <4>. HIDE DEF r
        <4>. QED BY <1>1, <3>1, SendMoves
    <2>2. /\ tax_balance' = 0
          /\ UNCHANGED <<tickets, escrow_balance, platform_balance, creator_balances, inbound, usdc>>
      BY <1>4 DEF withdraw_tax_balance
    <2>. QED BY <1>1, <2>1, <2>2, Same DEF Books
  <1>5. ASSUME NEW t \in TicketId, NEW caller, refund_ticket(t, caller, s) PROVE Books'
    <2>1. /\ Exists(t) /\ InEscrow(t)
          /\ tickets' = [tickets EXCEPT ![t].status = "refunded"]
          /\ escrow_balance' = escrow_balance - tickets[t].gross
          /\ UNCHANGED <<tax_balance, platform_balance, creator_balances, inbound, usdc>>
      BY <1>5 DEF refund_ticket, refundable, SetStatus, refund_amount
    <2>2. "refunded" \notin InEscrowStatus
      BY DEF InEscrowStatus
    <2>3. /\ tickets[t].gross \in Nat /\ EscrowSum' = EscrowSum - tickets[t].gross
      BY <1>1, <2>1, <2>2, StatusMoves
    <2>4. OwedSum' = OwedSum + tickets[t].gross
      <3>. DEFINE r == [kind |-> "refund", ticket |-> t, amount |-> tickets[t].gross,
                        restore |-> tickets[t].status, stage |-> "sent"]
      <3>1. r.stage = "sent" /\ r.amount = tickets[t].gross /\ ft_transfer(s, r)
        BY <1>5 DEF refund_ticket, refund_amount
      <3>. QED
        <4>. HIDE DEF r
        <4>. QED BY <2>3, <3>1, SendMoves
    <2>. QED BY <1>1, <2>1, <2>3, <2>4, Same DEF Books
  <1>6. ASSUME UsdcPays(s) PROVE Books'
    <2>1. outbound[s] \in Outbound
      BY <1>6, OutboundType DEF UsdcPays
    <2>2. PICK m \in Nat : m = outbound[s].amount
      BY <2>1 DEF Outbound, CreatorPayout, RolePayout, Refund
    <2>3. owedOf(outbound[s]) = m
      BY <1>6, <2>2 DEF UsdcPays, owedOf
    <2>4. outbound'[s].stage = "ok" /\ \A u \in OutSlot \ {s} : outbound'[u] = outbound[u]
      BY <1>6, <2>1 DEF UsdcPays, Outbound, CreatorPayout, RolePayout, Refund, TypeOK, PromisesOK
    <2>5. owedOf(outbound'[s]) = 0
      BY <2>4 DEF owedOf
    <2>6. OwedSum' = OwedSum - m
      BY <1>1, <2>3, <2>4, <2>5, OutboundMoves
    <2>7. usdc' = usdc - m /\ UNCHANGED <<tickets, ledger, inbound>>
      BY <1>6, <2>2 DEF UsdcPays
    <2>. QED BY <1>1, <2>6, <2>7, Same DEF Books, ledger
  <1>7. ASSUME UsdcFails(s) PROVE Books'
    <2>1. outbound[s] \in Outbound
      BY <1>7, OutboundType DEF UsdcFails
    <2>2. /\ outbound'[s].stage = "failed" /\ outbound'[s].amount = outbound[s].amount
          /\ \A u \in OutSlot \ {s} : outbound'[u] = outbound[u]
      BY <1>7, <2>1 DEF UsdcFails, Outbound, CreatorPayout, RolePayout, Refund, TypeOK, PromisesOK
    <2>3. owedOf(outbound'[s]) = owedOf(outbound[s])
      BY <1>7, <2>2 DEF UsdcFails, owedOf
    <2>4. OwedSum' = OwedSum
      BY <1>1, <2>2, <2>3, OutboundMoves
    <2>5. UNCHANGED <<tickets, ledger, inbound, usdc>>
      BY <1>7 DEF UsdcFails
    <2>. QED BY <1>1, <2>4, <2>5, Same DEF Books, ledger
  <1>8. ASSUME on_creator_withdraw(s) PROVE Books'
    <2>1. Done(s, "creator")
      BY <1>8 DEF on_creator_withdraw
    <2>2. Restored(s) \in Nat /\ OwedSum' = OwedSum - Restored(s)
      BY <2>1, DoneMoves
    <2>3. PICK c \in Creator : c = outbound[s].creator
      BY <2>1, OutboundType DEF Done, CreatorPayout
    <2>4. /\ creator_balances'[c] = creator_balances[c] + Restored(s)
          /\ \A d \in Creator \ {c} : creator_balances'[d] = creator_balances[d]
      BY <1>8, <2>3 DEF on_creator_withdraw, TypeOK, LedgerOK
    <2>5. CreatorSum' = CreatorSum + Restored(s)
      BY <1>1, <2>2, <2>4, CreatorMoves
    <2>6. UNCHANGED <<tickets, escrow_balance, tax_balance, platform_balance, inbound, usdc>>
      BY <1>8 DEF on_creator_withdraw
    <2>. QED BY <1>1, <2>2, <2>5, <2>6, Same DEF Books
  <1>9. ASSUME on_platform_withdraw(s) PROVE Books'
    <2>1. Restored(s) \in Nat /\ OwedSum' = OwedSum - Restored(s)
      BY <1>9, DoneMoves DEF on_platform_withdraw
    <2>2. /\ platform_balance' = platform_balance + Restored(s)
          /\ UNCHANGED <<tickets, escrow_balance, tax_balance, creator_balances, inbound, usdc>>
      BY <1>9 DEF on_platform_withdraw
    <2>. QED BY <1>1, <2>1, <2>2, Same DEF Books
  <1>10. ASSUME on_tax_withdraw(s) PROVE Books'
    <2>1. Restored(s) \in Nat /\ OwedSum' = OwedSum - Restored(s)
      BY <1>10, DoneMoves DEF on_tax_withdraw
    <2>2. /\ tax_balance' = tax_balance + Restored(s)
          /\ UNCHANGED <<tickets, escrow_balance, platform_balance, creator_balances, inbound, usdc>>
      BY <1>10 DEF on_tax_withdraw
    <2>. QED BY <1>1, <2>1, <2>2, Same DEF Books
  <1>11. ASSUME on_ticket_refund(s) PROVE Books'
    <2>1. Done(s, "refund") /\ outbound[s].stage \in {"ok", "failed"}
      BY <1>11 DEF on_ticket_refund, Done
    <2>2. Restored(s) \in Nat /\ OwedSum' = OwedSum - Restored(s)
      BY <2>1, DoneMoves
    <2>3. IsRefund(s) /\ outbound[s] \in Refund
      BY <2>1, OutboundType DEF Done, IsRefund
    <2>4. PICK t \in TicketId : t = outbound[s].ticket
      BY <2>3 DEF Refund
    <2>5. /\ tickets[t].status = "refunded" /\ outbound[s].amount = tickets[t].gross
      BY <2>3, <2>4 DEF PaidOnce, ReceiptOK
    <2>6. /\ escrow_balance' = escrow_balance + Restored(s)
          /\ UNCHANGED <<tax_balance, platform_balance, creator_balances, inbound, usdc>>
      BY <1>11 DEF on_ticket_refund, escrow_restored
    <2>7. EscrowSum' = EscrowSum + Restored(s)
      <3>1. CASE outbound[s].stage = "ok"
        <4>1. tickets' = tickets /\ Restored(s) = 0
          BY <1>11, <3>1 DEF on_ticket_refund, Restored
        <4>. QED BY <1>1, <4>1, Same
      <3>2. CASE outbound[s].stage = "failed"
        <4>1. PICK x \in InEscrowStatus : x = outbound[s].restore
          BY <2>3 DEF Refund
        <4>2. tickets' = [tickets EXCEPT ![t].status = x]
          BY <1>11, <2>4, <3>2, <4>1 DEF on_ticket_refund, restore_status
        <4>3. Exists(t) /\ ~InEscrow(t)
          BY <2>5 DEF Exists, InEscrow, InEscrowStatus
        <4>4. Restored(s) = tickets[t].gross
          BY <2>5, <3>2 DEF Restored
        <4>. QED BY <1>1, <4>1, <4>2, <4>3, <4>4, StatusMoves
      <3>. QED BY <2>1, <3>1, <3>2
    <2>. QED BY <1>1, <2>2, <2>6, <2>7, Same DEF Books
  <1>. QED
    BY <1>2, <1>3, <1>4, <1>5, <1>6, <1>7, <1>8, <1>9, <1>10, <1>11 DEF Payouts, Callbacks

\* The released tickets' gross is what their shares add up to, and each creator
\* is given the creator shares of their own tickets.
LEMMA ReleaseMoves ==
    ASSUME TypeOK, TypeOK', SharesInv, NEW batch \in SUBSET TicketId, release_expired(batch)
    PROVE  LET E == {t \in batch : releasable(t)} IN
           /\ EscrowSum' = EscrowSum - total("gross", E)
           /\ CreatorSum' = CreatorSum + total("creator", E)
           /\ total("gross", E) = total("vat", E) + total("platform", E) + total("creator", E)
           /\ total("gross", E) \in Nat /\ total("vat", E) \in Nat
           /\ total("platform", E) \in Nat /\ total("creator", E) \in Nat
  <1>. DEFINE F == {t \in batch : releasable(t)}
  <1>1. PICK E \in SUBSET TicketId : E = F
    OBVIOUS
  <1>2. \A t \in E : Exists(t) /\ InEscrow(t) /\ tickets[t] \in Ticket
    BY <1>1, TicketType DEF releasable, Exists
  <1>3. IsFiniteSet(E)
    BY FiniteAssumption, FS_Subset
  <1>4. PICK gross, vat, platform, creator :
           /\ gross = [t \in E |-> tickets[t]["gross"]]
           /\ vat = [t \in E |-> tickets[t]["vat"]]
           /\ platform = [t \in E |-> tickets[t]["platform"]]
           /\ creator = [t \in E |-> tickets[t]["creator"]]
    OBVIOUS
  <1>5. /\ total("gross", E) = SumFunctionOnSet(gross, E)
        /\ total("vat", E) = SumFunctionOnSet(vat, E)
        /\ total("platform", E) = SumFunctionOnSet(platform, E)
        /\ total("creator", E) = SumFunctionOnSet(creator, E)
    BY <1>4 DEF total, SumFunction
  <1>6. \A t \in E : /\ gross[t] = tickets[t].gross /\ vat[t] = tickets[t].vat
                     /\ platform[t] = tickets[t].platform /\ creator[t] = tickets[t].creator
    BY <1>4
  <1>7. \A t \in E : /\ gross[t] \in Nat /\ vat[t] \in Nat
                     /\ platform[t] \in Nat /\ creator[t] \in Nat
    BY <1>2, <1>6 DEF Ticket
  <1>8. /\ SumFunctionOnSet(gross, E) \in Nat /\ SumFunctionOnSet(vat, E) \in Nat
        /\ SumFunctionOnSet(platform, E) \in Nat /\ SumFunctionOnSet(creator, E) \in Nat
    BY <1>3, <1>7, SumIsNat
  <1>9. SumFunctionOnSet(gross, E) = SumFunctionOnSet(vat, E)
           + SumFunctionOnSet(platform, E) + SumFunctionOnSet(creator, E)
    <2>1. PICK h : h = [t \in E |-> vat[t] + platform[t]]
      OBVIOUS
    <2>2. \A t \in E : h[t] = vat[t] + platform[t] /\ h[t] \in Int
      BY <1>7, <2>1
    <2>3. SumFunctionOnSet(h, E) = SumFunctionOnSet(vat, E) + SumFunctionOnSet(platform, E)
      <3>1. \A t \in E : vat[t] \in Int /\ platform[t] \in Int
        BY <1>7
      <3>. QED BY <1>3, <2>1, <3>1, SumPlus
    <2>4. SumFunctionOnSet([t \in E |-> h[t] + creator[t]], E)
             = SumFunctionOnSet(h, E) + SumFunctionOnSet(creator, E)
      <3>1. \A t \in E : h[t] \in Int /\ creator[t] \in Int
        BY <1>7, <2>2
      <3>. QED BY <1>3, <3>1, SumPlus
    <2>5. \A t \in E : gross[t] = h[t] + creator[t]
      BY <1>2, <1>6, <2>2 DEF SharesInv
    <2>6. SumFunctionOnSet(gross, E) = SumFunctionOnSet([t \in E |-> h[t] + creator[t]], E)
      <3>1. PICK w : w = [t \in E |-> h[t] + creator[t]]
        OBVIOUS
      <3>2. \A t \in E : gross[t] = w[t]
        BY <2>5, <3>1
      <3>. QED BY <1>3, <3>1, <3>2, SumSame
    <2>. QED BY <2>3, <2>4, <2>6
  <1>10. EscrowSum' = EscrowSum - SumFunctionOnSet(gross, E)
    <2>1. PICK f, g : f = InEscrowNow /\ g = InEscrowNow'
      OBVIOUS
    <2>2. \A t \in TicketId : f[t] = grossOf(tickets[t]) /\ g[t] = grossOf(tickets'[t])
      <3>1. \A t \in TicketId : InEscrowNow'[t] = grossOf(tickets'[t])
        BY DEF InEscrowNow, grossOf
      <3>. QED BY <2>1, <3>1 DEF InEscrowNow
    <2>3. \A t \in TicketId : f[t] \in Nat /\ g[t] \in Nat
      BY <2>2, Worth DEF TypeOK, TicketsOK
    <2>4. \A t \in TicketId : tickets'[t] = IF t \in E
                                             THEN [tickets[t] EXCEPT !.status = "released"]
                                             ELSE tickets[t]
      BY <1>1 DEF release_expired
    <2>5. \A t \in E : f[t] = gross[t] /\ g[t] = 0
      <3>. SUFFICES ASSUME NEW t \in E PROVE f[t] = gross[t] /\ g[t] = 0
        OBVIOUS
      <3>1. grossOf(tickets[t]) = tickets[t].gross
        BY <1>2 DEF grossOf, InEscrow
      <3>2. tickets'[t].status = "released"
        BY <1>2, <2>4 DEF Ticket
      <3>3. grossOf(tickets'[t]) = 0
        BY <3>2 DEF grossOf, InEscrowStatus
      <3>. QED BY <1>6, <2>2, <3>1, <3>3
    <2>6. \A t \in TicketId \ E : g[t] = f[t]
      BY <2>2, <2>4
    <2>7. PICK d : d = [t \in TicketId |-> IF t \in E THEN gross[t] ELSE 0]
      OBVIOUS
    <2>8. SumFunctionOnSet(d, TicketId) = SumFunctionOnSet(gross, E)
      <3>1. \A t \in E : gross[t] \in Int /\ d[t] = gross[t]
        BY <1>7, <2>7
      <3>2. \A t \in TicketId \ E : d[t] = 0
        BY <2>7
      <3>. QED BY <3>1, <3>2, FiniteAssumption, SumFilter
    <2>9. \A t \in TicketId : g[t] \in Int /\ d[t] \in Int
      BY <1>7, <2>3, <2>7
    <2>10. SumFunctionOnSet([t \in TicketId |-> g[t] + d[t]], TicketId)
              = SumFunctionOnSet(g, TicketId) + SumFunctionOnSet(d, TicketId)
      BY <2>9, FiniteAssumption, SumPlus
    <2>11. SumFunctionOnSet(f, TicketId)
              = SumFunctionOnSet([t \in TicketId |-> g[t] + d[t]], TicketId)
      <3>1. PICK w : w = [t \in TicketId |-> g[t] + d[t]]
        OBVIOUS
      <3>2. \A t \in TicketId : f[t] = w[t]
        BY <2>3, <2>5, <2>6, <2>7, <3>1
      <3>. QED BY <3>1, <3>2, FiniteAssumption, SumSame
    <2>12. SumFunctionOnSet(g, TicketId) \in Nat
      BY <2>3, FiniteAssumption, SumIsNat
    <2>13. EscrowSum = SumFunctionOnSet(f, TicketId) /\ EscrowSum' = SumFunctionOnSet(g, TicketId)
      BY <2>1 DEF EscrowSum
    <2>. QED BY <1>8, <2>8, <2>10, <2>11, <2>12, <2>13
  <1>11. CreatorSum' = CreatorSum + SumFunctionOnSet(creator, E)
    <2>1. PICK k : k = [t \in E |-> CreatorOf[tickets[t].publication]]
      OBVIOUS
    <2>2. \A t \in E : k[t] \in Creator /\ k[t] = CreatorOf[tickets[t].publication]
      BY <1>2, <2>1, DataAssumption DEF Ticket
    <2>3. PICK G : G = [c \in Creator |-> SumFunctionOnSet(creator, {t \in E : k[t] = c})]
      OBVIOUS
    <2>4. SumFunctionOnSet(G, Creator) = SumFunctionOnSet(creator, E)
      <3>1. \A t \in E : creator[t] \in Int /\ k[t] \in Creator
        BY <1>7, <2>2
      <3>. QED BY <1>3, <2>3, <3>1, FiniteAssumption, SumGroups
    <2>5. \A c \in Creator : creator_balances'[c] = creator_balances[c] + G[c] /\ G[c] \in Nat
      <3>. SUFFICES ASSUME NEW c \in Creator
                    PROVE  creator_balances'[c] = creator_balances[c] + G[c] /\ G[c] \in Nat
        OBVIOUS
      <3>. DEFINE W == {t \in E : CreatorOf[tickets[t].publication] = c}
      <3>1. creator_balances'[c] = creator_balances[c] + total("creator", W)
        BY <1>1 DEF release_expired
      <3>2. W = {t \in E : k[t] = c} /\ W \subseteq E /\ IsFiniteSet(W)
        BY <1>3, <2>2, FS_Subset
      <3>3. PICK V : V = W
        OBVIOUS
      <3>4. PICK u : u = [t \in V |-> tickets[t]["creator"]]
        OBVIOUS
      <3>5. total("creator", V) = SumFunctionOnSet(u, V)
        BY <3>4 DEF total, SumFunction
      <3>6. \A t \in V : u[t] = creator[t] /\ creator[t] \in Nat
        BY <1>4, <1>7, <3>2, <3>3, <3>4
      <3>. HIDE DEF W
      <3>7. SumFunctionOnSet(u, V) = SumFunctionOnSet(creator, V)
        BY <3>2, <3>3, <3>6, SumSame
      <3>8. SumFunctionOnSet(creator, V) \in Nat
        BY <3>2, <3>3, <3>6, SumIsNat
      <3>9. G[c] = SumFunctionOnSet(creator, V)
        BY <2>3, <3>2, <3>3
      <3>. QED BY <3>1, <3>3, <3>5, <3>7, <3>8, <3>9
    <2>6. \A c \in Creator : creator_balances[c] \in Int /\ G[c] \in Int
      BY <2>5, EntriesType
    <2>7. PICK f : f = creator_balances
      OBVIOUS
    <2>8. SumFunctionOnSet([c \in Creator |-> f[c] + G[c]], Creator)
             = SumFunctionOnSet(f, Creator) + SumFunctionOnSet(G, Creator)
      BY <2>6, <2>7, FiniteAssumption, SumPlus
    <2>9. creator_balances' = [c \in Creator |-> f[c] + G[c]]
      BY <2>5, <2>7 DEF release_expired
    <2>. QED BY <2>4, <2>7, <2>8, <2>9 DEF CreatorSum
  <1>. QED BY <1>1, <1>5, <1>8, <1>9, <1>10, <1>11

\* A ticket's life keeps the books: what leaves the escrow is what the three
\* balances are given, and a card ticket never had anything in it.
LEMMA TicketsBooks ==
    ASSUME TypeOK, SharesInv, Books, TypeOK', Tickets PROVE Books'
  <1>1. /\ EscrowSum \in Nat /\ OwedSum \in Nat /\ HeldSum \in Nat /\ CreatorSum \in Nat
        /\ escrow_balance \in Nat /\ tax_balance \in Nat
        /\ platform_balance \in Nat /\ usdc \in Nat
    BY SumsType
  <1>2. ASSUME EscrowSum' = EscrowSum, UNCHANGED <<ledger, promises>> PROVE Books'
    BY <1>1, <1>2, Same DEF Books, ledger, promises
  <1>3. ASSUME NEW t \in TicketId, mark_watched(t) PROVE Books'
    <2>1. Exists(t) /\ tickets[t].status = "purchased" /\ UNCHANGED <<ledger, promises>>
      BY <1>3 DEF mark_watched
    <2>2. PICK x : /\ tickets' = [tickets EXCEPT ![t].status = x]
                   /\ x = IF tickets[t].rail = "crypto" THEN "watched_in_escrow" ELSE "watched"
      BY <1>3 DEF mark_watched, SetStatus
    <2>3. InEscrow(t) /\ tickets[t].rail \in {"crypto", "card"}
      BY <2>1, TicketType DEF InEscrow, InEscrowStatus, Exists, Ticket
    <2>4. CASE tickets[t].rail = "crypto"
      <3>1. x \in InEscrowStatus
        BY <2>2, <2>4 DEF InEscrowStatus
      <3>. QED BY <1>2, <2>1, <2>2, <2>3, <3>1, StatusMoves
    <2>5. CASE tickets[t].rail = "card"
      <3>1. x \notin InEscrowStatus
        BY <2>2, <2>5 DEF InEscrowStatus
      <3>2. tickets[t].gross = 0
        BY <2>1, <2>5 DEF SharesInv
      <3>3. EscrowSum' = EscrowSum - tickets[t].gross
        BY <2>1, <2>2, <2>3, <3>1, StatusMoves
      <3>. QED BY <1>1, <1>2, <2>1, <3>2, <3>3
    <2>. QED BY <2>3, <2>4, <2>5
  <1>4. ASSUME NEW t \in TicketId, void_card_ticket(t) PROVE Books'
    <2>1. /\ Exists(t) /\ tickets[t].rail = "card"
          /\ tickets' = [tickets EXCEPT ![t].status = "voided"]
          /\ UNCHANGED <<ledger, promises>>
      BY <1>4 DEF void_card_ticket, SetStatus
    <2>2. tickets[t].gross = 0
      BY <2>1 DEF SharesInv
    <2>3. "voided" \notin InEscrowStatus
      BY DEF InEscrowStatus
    <2>4. \/ EscrowSum' = EscrowSum - tickets[t].gross
          \/ EscrowSum' = EscrowSum
      BY <2>1, <2>3, StatusMoves
    <2>. QED BY <1>1, <1>2, <2>1, <2>2, <2>4
  <1>5. ASSUME NEW t \in TicketId, NEW p \in Publication, NEW r \in CardReference,
               NEW d \in Session, issue_card_ticket(t, p, r, d)
        PROVE  Books'
    <2>1. /\ ~Exists(t) /\ tickets'[t].gross = 0
          /\ \A u \in TicketId \ {t} : tickets'[u] = tickets[u]
          /\ UNCHANGED <<ledger, promises>>
      BY <1>5 DEF issue_card_ticket, TypeOK, TicketsOK
    <2>2. grossOf(tickets[t]) = 0 /\ grossOf(tickets'[t]) = 0
      BY <2>1 DEF grossOf, Exists, InEscrowStatus
    <2>. QED BY <1>1, <1>2, <2>1, <2>2, TicketMoves
  <1>6. ASSUME NEW batch \in SUBSET TicketId, release_expired(batch) PROVE Books'
    <2>1. PICK E : E = {t \in batch : releasable(t)}
      OBVIOUS
    <2>2. /\ EscrowSum' = EscrowSum - total("gross", E)
          /\ CreatorSum' = CreatorSum + total("creator", E)
          /\ total("gross", E) = total("vat", E) + total("platform", E) + total("creator", E)
          /\ total("gross", E) \in Nat /\ total("vat", E) \in Nat
          /\ total("platform", E) \in Nat /\ total("creator", E) \in Nat
      BY <1>6, <2>1, ReleaseMoves
    <2>3. /\ escrow_balance' = escrow_balance - total("gross", E)
          /\ tax_balance' = tax_balance + total("vat", E)
          /\ platform_balance' = platform_balance + total("platform", E)
          /\ UNCHANGED promises
      BY <1>6, <2>1 DEF release_expired
    <2>. QED BY <1>1, <2>2, <2>3, Same DEF Books, promises
  <1>. QED BY <1>3, <1>4, <1>5, <1>6 DEF Tickets

\* Devices and the rest of the contract touch no money.
LEMMA NextBooks ==
    TypeOK /\ PaidOnce /\ SharesInv /\ Books /\ [Next]_vars => Books'
  <1> SUFFICES ASSUME TypeOK, PaidOnce, SharesInv, Books, [Next]_vars PROVE Books'
    OBVIOUS
  <1>1. TypeOK'
    BY NextTypeOK
  <1>2. ASSUME Devices \/ Environment \/ UNCHANGED vars PROVE Books'
    <2>1. UNCHANGED <<tickets, ledger, promises>>
      BY <1>2 DEF Devices, SignDevice, add_device, revoke_device,
         revoke_ticket_device, Environment, suspend_sales, takedown_publication,
         pause_new_purchases, unpause_new_purchases, BetaEnds, revoke_vat_key,
         HeadroomChanges, Tick, Others, vars
    <2>. QED BY <2>1, Same DEF Books, ledger, promises
  <1>. QED
    BY <1>1, <1>2, TransfersBooks, PayoutsBooks, TicketsBooks DEF Next
-----------------------------------------------------------------------------
(* The theorems. *)

\* Types, at most one payment of each refund, shares that add up, and the books.
MoneyInv == TypeOK /\ PaidOnce /\ SharesInv /\ Books

\* Whatever the tickets, the creators, the prices and the order of the receipts,
\* these hold together.
THEOREM MoneyInvariant == Spec => []MoneyInv
  <1>1. Init => MoneyInv
    BY InitTypeOK, InitPaidOnce, InitBooks DEF MoneyInv
  <1>2. MoneyInv /\ [Next]_vars => MoneyInv'
    BY NextTypeOK, NextPaidOnce, NextShares, NextBooks DEF MoneyInv
  <1>. QED BY <1>1, <1>2, PTL DEF Spec

\* escrow_balance is the gross of the tickets in escrow, after any sales, views,
\* releases, refunds and failed refunds.
THEOREM EscrowBackedCorrect == Spec => []EscrowBacked
  <1>1. MoneyInv => EscrowBacked
    BY BooksMean DEF MoneyInv
  <1>. QED BY <1>1, MoneyInvariant, PTL

\* The USDC at the market is exactly what it owes, in any interleaving of
\* transfers, payouts, failures and callbacks.
THEOREM SolventCorrect == Spec => []Solvent
  <1>1. MoneyInv => Solvent
    BY BooksMean DEF MoneyInv
  <1>. QED BY <1>1, MoneyInvariant, PTL

\* Everything the runs check of tickets and devices holds together: the invariant
\* from which each of the properties follows.
THEOREM SafetyInvCorrect == Spec => []SafetyInv
  <1>. DEFINE Inv == /\ TypeOK /\ SharesInv /\ PaidOnce /\ RefundEndsPlayback
                     /\ WatchedInv /\ CardInv /\ DeviceInv
  <1>1. Init => Inv
    BY InitTypeOK, InitPaidOnce, InitBooks, InitPlayback, InitWatched, InitCard, InitDevice
  <1>2. Inv /\ [Next]_vars => Inv'
    BY NextTypeOK, NextPaidOnce, NextShares, NextPlayback, NextWatched, NextCard, NextDevice
  <1>3. Inv => SafetyInv
    BY DEF SafetyInv, CardInv, DeviceInv
  <1>. QED BY <1>1, <1>2, <1>3, PTL DEF Spec
=============================================================================
