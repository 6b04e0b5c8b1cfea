--------------------------- MODULE MarketTickets ---------------------------
(***************************************************************************)
(* The ticket half of the V2 market contract, contracts/market-v2/src/     *)
(* lib.rs: crypto and card tickets, the escrow, the three balances it is   *)
(* released into, the withdrawals, the refund and its callback, and the    *)
(* devices a ticket may play on.                                           *)
(*                                                                         *)
(* A NEAR call is atomic and a panic reverts it, so an entry point is one  *)
(* action whose guard is the conjunction of its require!s.  What is not    *)
(* atomic is everything that leaves the contract: ft_transfer_call (money  *)
(* arrives, ft_on_transfer runs later, the unused part is returned later   *)
(* still) and ft_transfer (balance debited, USDC executes later, the       *)
(* callback runs later still).  Those receipts are state: inbound and      *)
(* outbound hold them, one per slot, and any other call may run in between.*)
(***************************************************************************)
EXTENDS Integers, FiniteSets, Functions

CONSTANTS
    TicketId,            \* hashes of ticket public keys
    Publication,         \* published videos
    Creator,             \* creator accounts
    Session,             \* device session keys
    CardReference,       \* payment_reference_hmac values
    VatKey,              \* VAT attestation key versions
    InSlot,              \* bound: concurrent incoming transfer receipts
    OutSlot,             \* bound: concurrent outgoing transfer receipts
    CreatorOf, PriceOf,  \* the immutable fields of a publication
    Amount,              \* amounts a sender may attach
    Vat,                 \* VAT amounts the service may attest
    MIN_TICKET_PRICE, MAX_VAT_RATE_BPS, PLATFORM_DIVISOR,
    MAX_TICKET_DEVICES, ESCROW_RELEASE, DEVICE_LIFETIME, SIGNATURE_TTL,
    MAX_RELEASE_BATCH,
    EMERGENCY_RUNWAY,    \* storage runway a purchase must leave
    MAX_BALANCE,         \* u128::MAX: checked_add and checked_sub stop there
    USDC_SUPPLY,         \* bound: USDC that can be at the market at once
    HasBeta,             \* does this deployment run as a public beta?
    MaxNow, MaxHeadroom, MaxEpoch, MaxSigned, MaxAdded    \* bounds

ASSUME DataAssumption ==
    /\ CreatorOf \in [Publication -> Creator]
    /\ PriceOf \in [Publication -> Nat]
    /\ Amount \subseteq Nat /\ Vat \subseteq Nat

ASSUME LimitAssumption ==
    /\ MIN_TICKET_PRICE \in Nat
    /\ MAX_VAT_RATE_BPS \in Nat
    /\ PLATFORM_DIVISOR \in Nat \ {0}
    /\ MAX_TICKET_DEVICES \in Nat \ {0}
    /\ MAX_RELEASE_BATCH \in Nat
    /\ ESCROW_RELEASE \in Nat
    /\ DEVICE_LIFETIME \in Nat
    /\ SIGNATURE_TTL \in Nat
    /\ EMERGENCY_RUNWAY \in Nat
    /\ MAX_BALANCE \in Nat

ASSUME BoundAssumption ==
    /\ USDC_SUPPLY \in 0 .. MAX_BALANCE
    /\ MaxNow \in Nat
    /\ MaxHeadroom \in Nat
    /\ MaxEpoch \in Nat
    /\ MaxSigned \in Nat
    /\ MaxAdded \in Nat
    /\ HasBeta \in BOOLEAN

\* The sums over tickets, creators and receipts are finite.
ASSUME FiniteAssumption ==
    /\ IsFiniteSet(TicketId) /\ IsFiniteSet(Creator)
    /\ IsFiniteSet(InSlot) /\ IsFiniteSet(OutSlot)

\* A device signature cannot outlive the device it authorises (1 hour, 30 days).
ASSUME LifetimeAssumption == SIGNATURE_TTL < DEVICE_LIFETIME

VARIABLES
    tickets,          \* tickets: NoTicket or the stored record
    devices,          \* ticket.devices, each with its rank in the list
    added,            \* devices authorised so far: the last rank given out
    device_epoch,     \* ticket.device_epoch
    escrow_balance, tax_balance, platform_balance, creator_balances,
    card_references,  \* card_references: payment references already used
    vat_keys,         \* vat_keys: the versions not revoked
    availability,     \* publications[p].availability
    paused,           \* NEW_PURCHASES_PAUSED
    beta_open,        \* no public beta, or one that is active
    headroom,         \* reserve_headroom, in tickets' worth of storage
    now,              \* env::block_timestamp_ms
    inbound,          \* ft_transfer_call receipts on their way
    outbound,         \* ft_transfer receipts and callbacks on their way
    usdc,             \* the market's balance at the USDC contract
    refund_paid,      \* USDC paid out as the refund of each ticket
    signed,           \* add_device messages ticket keys have signed
    fresh,            \* history: sessions signed since last revoked or evicted
    seen              \* history: tickets mark_watched has accepted

ledger   == <<escrow_balance, tax_balance, platform_balance, creator_balances>>
promises == <<inbound, outbound, usdc, refund_paid>>
device   == <<devices, added, device_epoch, signed, fresh>>
env      == <<availability, paused, beta_open, vat_keys>>
vars     == <<tickets, ledger, promises, device, env, card_references,
              headroom, now, seen>>

-----------------------------------------------------------------------------
(* Data. *)

InEscrowStatus == {"purchased", "watched_in_escrow"}
PlayableStatus == InEscrowStatus \cup {"watched", "released"}
TicketStatus   == PlayableStatus \cup {"refunded", "voided"}

\* u128.  Every change of a balance is a checked operation that panics outside.
Balance == 0 .. MAX_BALANCE

NoReference == "no reference"
NoTicket == [status |-> "none"]

Ticket == [status : TicketStatus, rail : {"crypto", "card"},
           publication : Publication, gross : Nat, vat : Nat, platform : Nat,
           creator : Nat, purchased_at : Nat,
           reference : CardReference \cup {NoReference}]

\* The list is in authorisation order, which the rank records.
Device == [session : Session, expires : Nat, rank : Nat]

\* split_ticket_amount: VAT is attested and only bounded here.
split_allowed(gross, vat) ==
    /\ gross >= MIN_TICKET_PRICE
    /\ vat * (10000 + MAX_VAT_RATE_BPS) <= gross * MAX_VAT_RATE_BPS

platform_share(gross, vat) == (gross - vat) \div PLATFORM_DIVISOR

\* Mutant: the platform share is not taken from the creator's.
creator_share_whole_net(gross, vat) == gross - vat
creator_share(gross, vat) == (gross - vat) - platform_share(gross, vat)

Inbound == [kind : {"buy", "job"}, ticket : TicketId, publication : Publication,
            amount : Nat, vat : Nat, key : VatKey, session : Session,
            expires : Nat, stage : {"transferred", "returning"}]
NoInbound == [stage |-> "free"]

Stage == {"sent", "ok", "failed"}
CreatorPayout == [kind : {"creator"}, creator : Creator, amount : Nat,
                  stage : Stage]
RolePayout == [kind : {"platform", "tax"}, amount : Nat, stage : Stage]
Refund == [kind : {"refund"}, ticket : TicketId, amount : Nat,
           restore : InEscrowStatus, stage : Stage]
Outbound == CreatorPayout \cup RolePayout \cup Refund
NoOutbound == [stage |-> "free"]

SignedDevice == [ticket : TicketId, session : Session, epoch : Nat,
                 expires : Nat]

Exists(t)    == tickets[t].status # "none"
InEscrow(t)  == tickets[t].status \in InEscrowStatus
TakenDown(t) == availability[tickets[t].publication] = "takedown"
due(t)       == tickets[t].purchased_at + ESCROW_RELEASE

\* playable_ticket
playable_ticket(t) ==
    /\ Exists(t)
    /\ tickets[t].status \in PlayableStatus
    /\ ~TakenDown(t)

Sessions(t) == {v.session : v \in devices[t]}

SetStatus(t, status) == tickets' = [tickets EXCEPT ![t].status = status]
-----------------------------------------------------------------------------
Init ==
    /\ tickets = [t \in TicketId |-> NoTicket]
    /\ devices = [t \in TicketId |-> {}]
    /\ added = [t \in TicketId |-> 0]
    /\ device_epoch = [t \in TicketId |-> 0]
    /\ escrow_balance = 0 /\ tax_balance = 0 /\ platform_balance = 0
    /\ creator_balances = [c \in Creator |-> 0]
    /\ card_references = {}
    /\ vat_keys = VatKey
    /\ availability = [p \in Publication |-> "active"]
    /\ paused = FALSE
    /\ beta_open = TRUE
    /\ headroom = MaxHeadroom
    /\ now = 0
    /\ inbound = [s \in InSlot |-> NoInbound]
    /\ outbound = [s \in OutSlot |-> NoOutbound]
    /\ usdc = 0
    /\ refund_paid = [t \in TicketId |-> 0]
    /\ signed = {}
    /\ fresh = [t \in TicketId |-> {}]
    /\ seen = {}
-----------------------------------------------------------------------------
(* Money in: ft_transfer_call, ft_on_transfer, ft_resolve_transfer. *)

\* What a sender may attach now: VAT and device signatures not yet expired.
Transfer ==
    [kind : {"buy", "job"}, ticket : TicketId, publication : Publication,
     amount : Amount \ {0}, vat : Vat, key : VatKey, session : Session,
     expires : now + 1 .. now + SIGNATURE_TTL, stage : {"transferred"}]

\* The USDC contract (external) credits the market first and then calls it.
\* The second conjunct bounds the run: what is bought falls due in time.
ft_transfer_call(s) ==
    /\ inbound[s] = NoInbound
    /\ now + SIGNATURE_TTL + ESCROW_RELEASE <= MaxNow + 1
    /\ \E p \in Transfer :
        /\ usdc + p.amount <= USDC_SUPPLY
        /\ inbound' = [inbound EXCEPT ![s] = p]
        /\ usdc' = usdc + p.amount
    /\ UNCHANGED <<tickets, ledger, outbound, refund_paid, device, env,
                   card_references, headroom, now, seen>>

\* Every early return and every panic of buy_ticket_v2 gives the buyer the
\* whole amount back, so they are one condition.
buy_accepted(p) ==
    /\ p.expires > now
    /\ ~paused /\ beta_open
    /\ availability[p.publication] = "active"
    /\ p.amount = PriceOf[p.publication]
    /\ ~Exists(p.ticket)
    /\ p.key \in vat_keys
    /\ split_allowed(p.amount, p.vat)
    /\ headroom >= EMERGENCY_RUNWAY + 1

\* The device list a new ticket starts with.
first_device(t, d) ==
    /\ devices' = [devices EXCEPT ![t] =
          {[session |-> d, expires |-> now + DEVICE_LIFETIME, rank |-> 1]}]
    /\ added' = [added EXCEPT ![t] = 1]
    /\ fresh' = [fresh EXCEPT ![t] = @ \cup {d}]
    /\ UNCHANGED <<device_epoch, signed>>

buy_ticket_v2(s) ==
    LET p == inbound[s] IN
    /\ p.stage = "transferred" /\ p.kind = "buy"
    /\ buy_accepted(p)
    /\ tickets' = [tickets EXCEPT ![p.ticket] =
          [status |-> "purchased", rail |-> "crypto",
           publication |-> p.publication, gross |-> p.amount, vat |-> p.vat,
           platform |-> platform_share(p.amount, p.vat),
           creator |-> creator_share(p.amount, p.vat),
           purchased_at |-> now, reference |-> NoReference]]
    /\ first_device(p.ticket, p.session)
    /\ escrow_balance' = escrow_balance + p.amount
    /\ escrow_balance' \in Balance
    /\ headroom' = headroom - 1
    /\ inbound' = [inbound EXCEPT ![s] = NoInbound]
    /\ UNCHANGED <<tax_balance, platform_balance, creator_balances, outbound,
                   usdc, refund_paid, env, card_references, now, seen>>

\* An upload fee.  Which jobs are admitted is MarketPublications' subject;
\* here the fee is either credited, when purchases are open, or returned.
create_paid_job(s) ==
    LET p == inbound[s] IN
    /\ p.stage = "transferred" /\ p.kind = "job"
    /\ ~paused /\ beta_open
    /\ platform_balance' = platform_balance + p.amount
    /\ platform_balance' \in Balance
    /\ inbound' = [inbound EXCEPT ![s] = NoInbound]
    /\ UNCHANGED <<tickets, escrow_balance, tax_balance, creator_balances,
                   outbound, usdc, refund_paid, device, env, card_references,
                   headroom, now, seen>>

ft_on_transfer_returns(s) ==
    LET p == inbound[s] IN
    /\ p.stage = "transferred"
    /\ p.kind = "buy" => ~buy_accepted(p)
    /\ inbound' = [inbound EXCEPT ![s].stage = "returning"]
    /\ UNCHANGED <<tickets, ledger, outbound, usdc, refund_paid, device, env,
                   card_references, headroom, now, seen>>

\* USDC (external) takes the unused amount back.
ft_resolve_transfer(s) ==
    /\ inbound[s].stage = "returning"
    /\ usdc >= inbound[s].amount
    /\ usdc' = usdc - inbound[s].amount
    /\ inbound' = [inbound EXCEPT ![s] = NoInbound]
    /\ UNCHANGED <<tickets, ledger, outbound, refund_paid, device, env,
                   card_references, headroom, now, seen>>
-----------------------------------------------------------------------------
(* Money out: ft_transfer and the callbacks. *)

\* The transfer receipt, followed by its callback.
ft_transfer(s, receipt) ==
    /\ outbound[s] = NoOutbound
    /\ outbound' = [outbound EXCEPT ![s] = receipt]

withdraw_creator_balance(c, s) ==
    /\ creator_balances[c] > 0
    /\ creator_balances' = [creator_balances EXCEPT ![c] = 0]
    /\ ft_transfer(s, [kind |-> "creator", creator |-> c,
                       amount |-> creator_balances[c], stage |-> "sent"])
    /\ UNCHANGED <<tickets, escrow_balance, tax_balance, platform_balance,
                   inbound, usdc, refund_paid, device, env, card_references,
                   headroom, now, seen>>

withdraw_platform_balance(s) ==
    /\ platform_balance > 0
    /\ platform_balance' = 0
    /\ ft_transfer(s, [kind |-> "platform", amount |-> platform_balance,
                       stage |-> "sent"])
    /\ UNCHANGED <<tickets, escrow_balance, tax_balance, creator_balances,
                   inbound, usdc, refund_paid, device, env, card_references,
                   headroom, now, seen>>

withdraw_tax_balance(s) ==
    /\ tax_balance > 0
    /\ tax_balance' = 0
    /\ ft_transfer(s, [kind |-> "tax", amount |-> tax_balance, stage |-> "sent"])
    /\ UNCHANGED <<tickets, escrow_balance, platform_balance, creator_balances,
                   inbound, usdc, refund_paid, device, env, card_references,
                   headroom, now, seen>>

refund_open(t, caller) ==
    \/ TakenDown(t)
    \/ caller = "operator" /\ ~paused /\ now < due(t)

\* Before a takedown the payment operator refunds inside the escrow period and
\* while purchases are not paused; after one, anybody does, at any time.
refundable(t, caller) ==
    /\ Exists(t)
    /\ tickets[t].rail = "crypto" /\ InEscrow(t)
    /\ refund_open(t, caller)

\* Mutant: the VAT is not given back.
refund_net(t) == tickets[t].gross - tickets[t].vat
refund_amount(t) == tickets[t].gross

refund_ticket(t, caller, s) ==
    /\ refundable(t, caller)
    /\ SetStatus(t, "refunded")
    /\ escrow_balance' = escrow_balance - refund_amount(t)
    /\ escrow_balance' \in Balance
    /\ ft_transfer(s, [kind |-> "refund", ticket |-> t,
                       amount |-> refund_amount(t),
                       restore |-> tickets[t].status, stage |-> "sent"])
    /\ UNCHANGED <<tax_balance, platform_balance, creator_balances, inbound,
                   usdc, refund_paid, device, env, card_references, headroom,
                   now, seen>>

\* The USDC contract (external) executes the transfer or fails it.
UsdcPays(s) ==
    LET r == outbound[s] IN
    /\ r.stage = "sent"
    /\ usdc >= r.amount
    /\ usdc' = usdc - r.amount
    /\ outbound' = [outbound EXCEPT ![s].stage = "ok"]
    /\ refund_paid' = IF r.kind = "refund"
                      THEN [refund_paid EXCEPT ![r.ticket] = @ + r.amount]
                      ELSE refund_paid
    /\ UNCHANGED <<tickets, ledger, inbound, device, env, card_references,
                   headroom, now, seen>>

UsdcFails(s) ==
    /\ outbound[s].stage = "sent"
    /\ outbound' = [outbound EXCEPT ![s].stage = "failed"]
    /\ UNCHANGED <<tickets, ledger, inbound, usdc, refund_paid, device, env,
                   card_references, headroom, now, seen>>

\* Mutant: the callback handles success alone.
done_ok_only(s, kind) == /\ outbound[s].stage = "ok"
                         /\ outbound[s].kind = kind
                         /\ outbound' = [outbound EXCEPT ![s] = NoOutbound]

Done(s, kind) == /\ outbound[s].stage \in {"ok", "failed"}
                 /\ outbound[s].kind = kind
                 /\ outbound' = [outbound EXCEPT ![s] = NoOutbound]

\* What a callback gives back to the balance it was taken from.
Restored(s) == IF outbound[s].stage = "failed" THEN outbound[s].amount ELSE 0

on_creator_withdraw(s) ==
    /\ Done(s, "creator")
    /\ creator_balances' =
          [creator_balances EXCEPT ![outbound[s].creator] = @ + Restored(s)]
    /\ creator_balances' \in [Creator -> Balance]
    /\ UNCHANGED <<tickets, escrow_balance, tax_balance, platform_balance,
                   inbound, usdc, refund_paid, device, env, card_references,
                   headroom, now, seen>>

on_platform_withdraw(s) ==
    /\ Done(s, "platform")
    /\ platform_balance' = platform_balance + Restored(s)
    /\ platform_balance' \in Balance
    /\ UNCHANGED <<tickets, escrow_balance, tax_balance, creator_balances,
                   inbound, usdc, refund_paid, device, env, card_references,
                   headroom, now, seen>>

on_tax_withdraw(s) ==
    /\ Done(s, "tax")
    /\ tax_balance' = tax_balance + Restored(s)
    /\ tax_balance' \in Balance
    /\ UNCHANGED <<tickets, escrow_balance, platform_balance, creator_balances,
                   inbound, usdc, refund_paid, device, env, card_references,
                   headroom, now, seen>>

\* Mutant: a failed refund restores every ticket as unwatched.
restore_purchased(r) == [tickets EXCEPT ![r.ticket].status = "purchased"]
restore_status(r) == [tickets EXCEPT ![r.ticket].status = r.restore]

\* Mutant: the failed refund's amount is not put back in escrow.
escrow_not_restored(s) == escrow_balance
escrow_restored(s) == escrow_balance + Restored(s)

\* Mutant: the refunded ticket keeps its devices.
devices_kept(t) == devices
devices_cleared(t) == [devices EXCEPT ![t] = {}]

on_ticket_refund(s) ==
    LET r == outbound[s] IN
    /\ Done(s, "refund")
    /\ \/ /\ r.stage = "ok"
          /\ devices' = devices_cleared(r.ticket)
          /\ tickets' = tickets
       \/ /\ r.stage = "failed"
          /\ tickets' = restore_status(r)
          /\ devices' = devices
    /\ escrow_balance' = escrow_restored(s)
    /\ escrow_balance' \in Balance
    /\ UNCHANGED <<tax_balance, platform_balance, creator_balances, inbound,
                   usdc, refund_paid, added, device_epoch, signed, fresh, env,
                   card_references, headroom, now, seen>>
-----------------------------------------------------------------------------
(* The ticket's life. *)

mark_watched(t) ==
    /\ Exists(t)
    /\ tickets[t].status = "purchased"
    /\ ~TakenDown(t)
    /\ SetStatus(t, IF tickets[t].rail = "crypto" THEN "watched_in_escrow"
                                                 ELSE "watched")
    /\ seen' = seen \cup {t}
    /\ UNCHANGED <<ledger, promises, device, env, card_references, headroom,
                   now>>

\* Mutant: the status is not looked at.
releasable_any_status(t) ==
    /\ Exists(t)
    /\ tickets[t].rail = "crypto"
    /\ now >= due(t)
    /\ ~TakenDown(t)

\* Mutant: only watched tickets are released.
releasable_watched(t) ==
    /\ Exists(t)
    /\ tickets[t].rail = "crypto" /\ tickets[t].status = "watched_in_escrow"
    /\ now >= due(t)
    /\ ~TakenDown(t)

releasable(t) ==
    /\ Exists(t)
    /\ tickets[t].rail = "crypto" /\ InEscrow(t)
    /\ now >= due(t)
    /\ ~TakenDown(t)

\* What settle_ticket moves for a set of tickets: their gross, or one share.
total(field, S) == SumFunction([t \in S |-> tickets[t][field]])

\* A batch: settle_ticket for each eligible ID, the others skipped.  A batch
\* that releases something must leave the emergency runway.
release_expired(batch) ==
    LET E == {t \in batch : releasable(t)} IN
    /\ E # {} /\ Cardinality(batch) <= MAX_RELEASE_BATCH
    /\ headroom >= EMERGENCY_RUNWAY
    /\ tickets' = [t \in TicketId |->
          IF t \in E THEN [tickets[t] EXCEPT !.status = "released"]
                     ELSE tickets[t]]
    /\ escrow_balance' = escrow_balance - total("gross", E)
    /\ escrow_balance' \in Balance
    /\ tax_balance' = tax_balance + total("vat", E)
    /\ tax_balance' \in Balance
    /\ platform_balance' = platform_balance + total("platform", E)
    /\ platform_balance' \in Balance
    /\ creator_balances' = [c \in Creator |-> creator_balances[c]
          + total("creator", {t \in E : CreatorOf[tickets[t].publication] = c})]
    /\ creator_balances' \in [Creator -> Balance]
    /\ UNCHANGED <<promises, device, env, card_references, headroom, now, seen>>


\* The storage of a card ticket is paid from the reserve headroom.
card_storage_covered == headroom >= 1

reference_unused(ref) == ref \notin card_references

issue_card_ticket(t, p, ref, d) ==
    /\ ~paused /\ beta_open
    /\ availability[p] = "active"
    /\ ~Exists(t)
    /\ reference_unused(ref)
    /\ card_storage_covered
    /\ tickets' = [tickets EXCEPT ![t] =
          [status |-> "purchased", rail |-> "card", publication |-> p,
           gross |-> 0, vat |-> 0, platform |-> 0, creator |-> 0,
           purchased_at |-> now, reference |-> ref]]
    /\ first_device(t, d)
    /\ card_references' = card_references \cup {ref}
    /\ headroom' = headroom - 1
    /\ UNCHANGED <<ledger, promises, env, now, seen>>

void_card_ticket(t) ==
    /\ ~paused
    /\ Exists(t)
    /\ tickets[t].rail = "card"
    /\ tickets[t].status \in {"purchased", "watched"}
    /\ SetStatus(t, "voided")
    /\ devices' = devices_cleared(t)
    /\ UNCHANGED <<ledger, promises, added, device_epoch, signed, fresh, env,
                   card_references, headroom, now, seen>>
-----------------------------------------------------------------------------
(* Devices. *)

\* The ticket key signs an add_device message for the epoch it last read, which
\* may be behind the contract's.  The signed message can be submitted by anyone,
\* any number of times, until it expires.
SignDevice(t, d, e) ==
    /\ Exists(t) /\ Cardinality(signed) < MaxSigned
    /\ e \in 0 .. device_epoch[t]
    /\ \E x \in now + 1 .. now + SIGNATURE_TTL :
          signed' = signed \cup {[ticket |-> t, session |-> d, epoch |-> e,
                                 expires |-> x]}
    /\ fresh' = IF e = device_epoch[t] THEN [fresh EXCEPT ![t] = @ \cup {d}]
                                       ELSE fresh
    /\ UNCHANGED <<tickets, ledger, promises, devices, added, device_epoch, env,
                   card_references, headroom, now, seen>>


\* Expired devices and the session's own earlier entry are dropped.
kept_devices(t, d) == {v \in devices[t] : v.expires > now /\ v.session # d}

oldest(S) == CHOOSE v \in S : \A w \in S : v.rank <= w.rank

\* Mutant: only a revocation advances the epoch.
epoch_same(t, evicts) == device_epoch[t]

\* An eviction advances the epoch like a revocation.
epoch_after(t, evicts) == device_epoch[t] + (IF evicts THEN 1 ELSE 0)

add_device(m) ==
    LET t == m.ticket
        kept == kept_devices(t, m.session)
        full == Cardinality(kept) = MAX_TICKET_DEVICES
        evicted == IF full THEN {oldest(kept)} ELSE {}
        new == [session |-> m.session, expires |-> now + DEVICE_LIFETIME,
                rank |-> added[t] + 1]
    IN
    /\ playable_ticket(t)
    /\ m.expires > now /\ m.expires - now <= SIGNATURE_TTL
    /\ m.epoch = device_epoch[t]
    /\ headroom >= EMERGENCY_RUNWAY
    /\ added[t] < MaxAdded /\ device_epoch[t] < MaxEpoch
    /\ devices' = [devices EXCEPT ![t] = (kept \ evicted) \cup {new}]
    /\ added' = [added EXCEPT ![t] = @ + 1]
    /\ device_epoch' = [device_epoch EXCEPT ![t] = epoch_after(t, full)]
    /\ fresh' = [fresh EXCEPT ![t] = @ \ {v.session : v \in evicted}]
    /\ UNCHANGED <<tickets, ledger, promises, signed, env, card_references,
                   headroom, now, seen>>

\* revoke_ticket_device
revoke_ticket_device(t, d) ==
    /\ device_epoch[t] < MaxEpoch
    /\ devices' = [devices EXCEPT ![t] = {v \in @ : v.session # d}]
    /\ device_epoch' = [device_epoch EXCEPT ![t] = @ + 1]
    /\ fresh' = [fresh EXCEPT ![t] = @ \ {d}]
    /\ UNCHANGED <<tickets, ledger, promises, added, signed, env,
                   card_references, headroom, now, seen>>

\* revoke_device, signed by the ticket key for the current epoch, whatever the
\* ticket's status; and platform_revoke_device, with no signature at all.
revoke_device(t, d) == Exists(t) /\ revoke_ticket_device(t, d)
-----------------------------------------------------------------------------
(* The rest of the contract and the chain, as tickets see them. *)

Others == <<tickets, ledger, promises, device, card_references, seen>>

suspend_sales(p) ==
    /\ availability[p] = "active"
    /\ availability' = [availability EXCEPT ![p] = "sales_suspended"]
    /\ UNCHANGED <<Others, paused, beta_open, vat_keys, headroom, now>>

takedown_publication(p) ==
    /\ availability[p] \in {"active", "sales_suspended"}
    /\ availability' = [availability EXCEPT ![p] = "takedown"]
    /\ UNCHANGED <<Others, paused, beta_open, vat_keys, headroom, now>>

pause_new_purchases ==
    /\ ~paused
    /\ paused' = TRUE
    /\ UNCHANGED <<Others, availability, beta_open, vat_keys, headroom, now>>

unpause_new_purchases ==
    /\ paused
    /\ paused' = FALSE
    /\ UNCHANGED <<Others, availability, beta_open, vat_keys, headroom, now>>

\* The beta ends by its clock, or the guardian closes it and pauses with it.
BetaEnds ==
    /\ HasBeta /\ beta_open
    /\ beta_open' = FALSE
    /\ paused' \in {paused, TRUE}
    /\ UNCHANGED <<Others, availability, vat_keys, headroom, now>>

revoke_vat_key(k) ==
    /\ k \in vat_keys
    /\ vat_keys' = vat_keys \ {k}
    /\ UNCHANGED <<Others, availability, paused, beta_open, headroom, now>>

\* NEAR is sent to the contract, or other writes use some of its storage.
HeadroomChanges ==
    /\ headroom' \in {h \in {headroom - 1, headroom + 1} :
                        0 <= h /\ h <= MaxHeadroom}
    /\ UNCHANGED <<Others, env, now>>

Tick ==
    /\ now < MaxNow
    /\ now' = now + 1
    /\ UNCHANGED <<Others, env, headroom>>
-----------------------------------------------------------------------------
ft_on_transfer(s) ==
    \/ buy_ticket_v2(s)
    \/ create_paid_job(s)
    \/ ft_on_transfer_returns(s)

Transfers(s) ==
    \/ ft_transfer_call(s)
    \/ ft_on_transfer(s)
    \/ ft_resolve_transfer(s)

Callbacks(s) ==
    \/ on_creator_withdraw(s)
    \/ on_platform_withdraw(s)
    \/ on_tax_withdraw(s)
    \/ on_ticket_refund(s)

Payouts(s) ==
    \/ \E c \in Creator : withdraw_creator_balance(c, s)
    \/ withdraw_platform_balance(s)
    \/ withdraw_tax_balance(s)
    \/ \E t \in TicketId, caller \in {"operator", "anyone"} :
          refund_ticket(t, caller, s)
    \/ UsdcPays(s)
    \/ UsdcFails(s)
    \/ Callbacks(s)

Tickets ==
    \/ \E t \in TicketId : mark_watched(t) \/ void_card_ticket(t)
    \/ \E batch \in SUBSET TicketId : release_expired(batch)
    \/ \E t \in TicketId, p \in Publication, r \in CardReference, d \in Session :
          issue_card_ticket(t, p, r, d)

Devices ==
    \/ \E t \in TicketId, d \in Session, e \in 0 .. MaxEpoch : SignDevice(t, d, e)
    \/ \E m \in signed : add_device(m)
    \/ \E t \in TicketId, d \in Session : revoke_device(t, d)

Environment ==
    \/ \E p \in Publication : suspend_sales(p) \/ takedown_publication(p)
    \/ pause_new_purchases
    \/ unpause_new_purchases
    \/ BetaEnds
    \/ \E k \in VatKey : revoke_vat_key(k)
    \/ HeadroomChanges
    \/ Tick

Next ==
    \/ \E s \in InSlot : Transfers(s)
    \/ \E s \in OutSlot : Payouts(s)
    \/ Tickets
    \/ Devices
    \/ Environment

Spec == Init /\ [][Next]_vars

\* NEAR executes every receipt and every callback, block time advances, and the
\* bridge's scheduled release submits every due ticket.
Fairness ==
    /\ WF_vars(Tick)
    /\ \A s \in InSlot : /\ WF_vars(ft_on_transfer(s))
                         /\ WF_vars(ft_resolve_transfer(s))
    /\ \A s \in OutSlot : /\ WF_vars(UsdcPays(s) \/ UsdcFails(s))
                          /\ WF_vars(Callbacks(s))
    /\ \A t \in TicketId : WF_vars(release_expired({t}))

FairSpec == Spec /\ Fairness
-----------------------------------------------------------------------------
(* Properties. *)

TicketsOK ==
    /\ tickets \in [TicketId -> Ticket \cup {NoTicket}]
    /\ card_references \subseteq CardReference
    /\ seen \subseteq TicketId

DevicesOK ==
    /\ devices \in [TicketId -> SUBSET Device]
    /\ added \in [TicketId -> Nat]
    /\ device_epoch \in [TicketId -> Nat]
    /\ signed \subseteq SignedDevice
    /\ fresh \in [TicketId -> SUBSET Session]

LedgerOK ==
    /\ escrow_balance \in Balance
    /\ tax_balance \in Balance
    /\ platform_balance \in Balance
    /\ creator_balances \in [Creator -> Balance]

PromisesOK ==
    /\ inbound \in [InSlot -> Inbound \cup {NoInbound}]
    /\ outbound \in [OutSlot -> Outbound \cup {NoOutbound}]
    /\ usdc \in Nat
    /\ refund_paid \in [TicketId -> Nat]

EnvironmentOK ==
    /\ vat_keys \subseteq VatKey
    /\ availability \in [Publication -> {"active", "sales_suspended", "takedown"}]
    /\ paused \in BOOLEAN
    /\ beta_open \in BOOLEAN
    /\ headroom \in Nat
    /\ now \in Nat

\* Every variable has the type of the field it models; balances stay in u128
\* and the storage reserve is never spent.
TypeOK == TicketsOK /\ DevicesOK /\ LedgerOK /\ PromisesOK /\ EnvironmentOK

IsRefund(s) == outbound[s].stage # "free" /\ outbound[s].kind = "refund"
Refunding(t) == {s \in OutSlot : IsRefund(s) /\ outbound[s].ticket = t}

\* escrow_balance is exactly the gross of the tickets still in escrow, through
\* refunds that fail, overlap releases, or follow a takedown.
EscrowBacked ==
    escrow_balance = total("gross", {t \in TicketId : Exists(t) /\ InEscrow(t)})

\* The USDC the market holds is what it owes: escrow, the three balances, the
\* transfers USDC has not executed or has failed, and the transfers it must
\* process or return.  No interleaving of receipts loses or mints a unit.
Solvent ==
    LET owed == {s \in OutSlot : outbound[s].stage \in {"sent", "failed"}}
        held == {s \in InSlot : inbound[s].stage # "free"}
    IN usdc = escrow_balance + tax_balance + platform_balance
              + SumFunction(creator_balances)
              + SumFunction([s \in owed |-> outbound[s].amount])
              + SumFunction([s \in held |-> inbound[s].amount])

PaymentOK(t) ==
    refund_paid[t] > 0 => /\ tickets[t].status = "refunded"
                          /\ refund_paid[t] = tickets[t].gross

ReceiptOK(s) ==
    LET t == outbound[s].ticket IN
    /\ tickets[t].status = "refunded"
    /\ outbound[s].amount = tickets[t].gross
    /\ Refunding(t) = {s}
    /\ outbound[s].stage # "ok" => refund_paid[t] = 0

\* A ticket's money leaves escrow once: at most one refund of it is ever in
\* flight or paid, for the gross it was bought for, and a released ticket has
\* neither.
PaidOnce ==
    /\ \A t \in TicketId : PaymentOK(t)
    /\ \A s \in OutSlot : IsRefund(s) => ReceiptOK(s)

\* A refund that fails does not un-watch a ticket: once mark_watched accepted
\* it, it never shows as purchased again.
WatchedStays == \A t \in seen : tickets[t].status # "purchased"

\* Once a refund has been paid and its callback has run, no device can play.
RefundEndsPlayback ==
    \A t \in TicketId :
        refund_paid[t] > 0 /\ Refunding(t) = {} => devices[t] = {}

\* One payment reference makes one ticket, also after that ticket is voided.
OneTicketPerReference ==
    \A t, u \in TicketId :
        /\ Exists(t) /\ Exists(u) /\ t # u
        /\ tickets[t].rail = "card" /\ tickets[u].rail = "card"
        => tickets[t].reference # tickets[u].reference

\* A device that was revoked or evicted is on the list again only when the
\* ticket key has signed for it since: no earlier signature brings it back.
NoResurrection == \A t \in TicketId : Sessions(t) \subseteq fresh[t]

\* At most MAX_TICKET_DEVICES devices, each listed once.
DeviceLimit ==
    \A t \in TicketId :
        /\ Cardinality(devices[t]) <= MAX_TICKET_DEVICES
        /\ \A v, w \in devices[t] : v.session = w.session => v = w

\* A released or voided ticket, and one whose refund was paid, never changes.
Final(t) == \/ tickets[t].status \in {"released", "voided"}
            \/ refund_paid[t] > 0
SettledIsFinal == [][\A t \in TicketId : Final(t) => tickets'[t] = tickets[t]]_vars

\* While the storage runway lasts, no crypto ticket stays in escrow for ever
\* unless its publication is taken down.
EscrowDrains ==
    <>[](headroom >= EMERGENCY_RUNWAY) =>
        \A t \in TicketId :
            (InEscrow(t) /\ tickets[t].rail = "crypto")
                ~> \/ tickets[t].status \in {"released", "refunded"}
                   \/ Exists(t) /\ TakenDown(t)

\* A refund always ends: paid, or the ticket is back in escrow.
RefundResolves ==
    \A t \in TicketId :
        tickets[t].status = "refunded" ~> \/ refund_paid[t] > 0
                                         \/ InEscrow(t)
-----------------------------------------------------------------------------
(* What makes those invariants inductive. *)

\* The three shares of a crypto ticket add up to its gross, which is all there is
\* to release; a card ticket brings nothing into escrow.
SharesInv ==
    \A t \in TicketId : Exists(t) =>
        LET k == tickets[t] IN
        /\ k.gross = k.vat + k.platform + k.creator
        /\ k.rail = "card" => k.gross = 0

\* A watched ticket exists, and a refund of it remembers that it was watched.
WatchedInv ==
    /\ \A t \in seen : tickets[t].status \notin {"none", "purchased"}
    /\ \A s \in OutSlot :
          IsRefund(s) /\ outbound[s].ticket \in seen
              => outbound[s].restore # "purchased"

\* The reference of every card ticket is recorded as used.
ReferenceInv ==
    \A t \in TicketId : Exists(t) /\ tickets[t].rail = "card"
        => tickets[t].reference \in card_references

\* A signature for the current epoch was made after the last removal; one for
\* an earlier epoch is useless for ever.
SignatureInv ==
    \A m \in signed :
        /\ m.epoch <= device_epoch[m.ticket]
        /\ m.epoch = device_epoch[m.ticket] => m.session \in fresh[m.ticket]

FiniteDevices == \A t \in TicketId : IsFiniteSet(devices[t])

\* The safety of tickets and devices in its inductive form: types, shares, payments,
\* watched tickets whose refund fails, card references and device signatures.
SafetyInv ==
    /\ TypeOK /\ SharesInv /\ PaidOnce /\ RefundEndsPlayback
    /\ WatchedInv
    /\ ReferenceInv /\ OneTicketPerReference
    /\ SignatureInv /\ NoResurrection /\ FiniteDevices /\ DeviceLimit
=============================================================================
