---------------------------- MODULE SwapPayments -----------------------------
(***************************************************************************)
(* Paying for a ticket with another asset: a swap service converts a       *)
(* deposit to USDC in the buyer's account, and the ticket is then bought   *)
(* with it.  One account, one ticket, several tabs of its page.  The tabs  *)
(* share the active checkout in the local storage; each has its own copy   *)
(* on the screen and polls the bridge, which asks the service.  Amounts    *)
(* are in units of the ticket's price; no checkout is a month old.         *)
(***************************************************************************)
EXTENDS Integers, FiniteSets

CONSTANTS
    Pages,          \* tabs
    MaxQuotes,      \* bound: firm quotes
    MaxSteps,       \* bound: what the buyer does on the pages
    QuoteLimit      \* firm and dry quotes per window

ASSUME SwapAssumption == {MaxQuotes, MaxSteps, QuoteLimit} \subseteq Nat

Quotes == 1..MaxQuotes
NoCheckout == [quote |-> 0, state |-> "none"]

VARIABLES
    checkout,       \* local storage: the active checkout
    page,           \* per tab: the checkout shown, its poll, its purchase, and whether it knows of a ticket
    swaps,          \* the service: status of each quote
    unpaid,         \* conversions that succeeded and have not reached the account
    usdc,           \* the account's balance
    registered,     \* the account can hold USDC
    entitled,       \* the account has the ticket
    buys,           \* ticket payments sent and not executed
    rate,           \* requests counted in the bridge's current windows
    quotes, steps,  \* counters
    dropped         \* history: a tab dismissed what another tab had under way

chain == <<usdc, registered, entitled, buys>>
service == <<swaps, unpaid>>
swapVars == <<checkout, page, service, chain, rate, quotes, steps, dropped>>

-----------------------------------------------------------------------------
(* The bridge between the pages and the swap service. *)

TERMINAL_STATES == {"complete", "refunded", "failed"}
Polled == {"awaiting_deposit", "converting"}

\* Each window counts its requests; the alarm at its end forgets them.
paymentRateLimit(kind) ==
    /\ rate[kind] < (IF kind = "quote" THEN QuoteLimit ELSE 1)
    /\ rate' = [rate EXCEPT ![kind] = @ + 1]

expirePaymentRateLimit(kind) ==
    /\ rate[kind] > 0
    /\ rate' = [rate EXCEPT ![kind] = 0]
    /\ UNCHANGED <<checkout, page, service, chain, quotes, steps, dropped>>

\* What the service may answer to a quote request: signed or not, for this request or another,
\* with fields nobody asked for, with or without an address, fast or slow.
OneClickAnswers ==
    [signed : BOOLEAN, request : {"same", "other"}, extras : BOOLEAN,
     amountOut : {1, 2}, depositAddress : BOOLEAN, slow : BOOLEAN]

verifySignedQuote(a) == a.signed
unsafeOneClickFields(a) == a.extras

\* Accepted is the signed answer to exactly the request, with an address if and only if the
\* request was not dry.
validateQuoteResponse(a, dry) ==
    /\ verifySignedQuote(a) /\ ~unsafeOneClickFields(a)
    /\ a.request = "same" /\ a.amountOut = 1
    /\ a.depositAddress = ~dry

\* A firm quote also has to be fast.
paymentQuote(a, dry) == validateQuoteResponse(a, dry) /\ (dry \/ ~a.slow)

\* A status is only passed on with the signed quote of the address asked about.
validateStoredQuote(a) ==
    verifySignedQuote(a) /\ ~unsafeOneClickFields(a) /\ a.request = "same" /\ a.depositAddress

-----------------------------------------------------------------------------
(* The stored checkout. *)

loadActivePaymentCheckout == checkout

\* Another quote is not stored over a checkout that is still open.
save_any(c) == TRUE
maySave(c) ==
    checkout.quote \in {0, c.quote} \/ checkout.state \in TERMINAL_STATES

saveActivePaymentCheckout(c) == maySave(c) /\ checkout' = c

\* The purchase moves the checkout between these states only, and otherwise leaves it.
updateActivePaymentCheckoutState(state) ==
    checkout' = IF <<checkout.state, state>> \in
                     {<<"usdc_final", "core_pending">>, <<"core_pending", "complete">>,
                      <<"core_pending", "usdc_final">>}
                THEN [checkout EXCEPT !.state = state] ELSE checkout

paymentCheckoutState(status, ready) ==
    CASE status = "PENDING_DEPOSIT" -> "awaiting_deposit"
      [] status = "SUCCESS" /\ ready -> "usdc_final"
      [] status = "REFUNDED" -> "refunded"
      [] status = "FAILED" -> "failed"
      [] OTHER -> "converting"

\* The gas reserve may be there or not.
readPaymentPreflight == [userRegistered |-> registered, usdcSufficient |-> usdc >= 1]
verifyConvertedUsdcReady(status) ==
    status = "SUCCESS" /\ readPaymentPreflight.userRegistered /\ readPaymentPreflight.usdcSufficient

-----------------------------------------------------------------------------
(* The panel. *)

Fresh == [shown |-> NoCheckout, status |-> "none", op |-> "idle", converted |-> FALSE,
          owns |-> FALSE, preview |-> FALSE]
Step == steps < MaxSteps /\ steps' = steps + 1

\* The page is opened or loaded again: what it was doing is gone.
openPage(t) ==
    /\ Step
    /\ page' = [page EXCEPT ![t] = [Fresh EXCEPT !.shown = loadActivePaymentCheckout, !.owns = entitled]]
    /\ UNCHANGED <<checkout, service, chain, rate, quotes, dropped>>

\* A dry quote shows what the conversion would cost.
getPreview(t) ==
    /\ Step
    /\ page[t].shown = NoCheckout /\ page[t].op = "idle" /\ ~page[t].owns
    /\ paymentRateLimit("quote")
    /\ \E a \in OneClickAnswers :
         page' = [page EXCEPT ![t].preview = @ \/ paymentQuote(a, TRUE)]
    /\ UNCHANGED <<checkout, service, chain, quotes, dropped>>

\* The account is registered for USDC first.
prepareAccount(t) ==
    /\ Step
    /\ page[t].op = "idle" /\ page[t].preview /\ ~registered
    /\ registered' = TRUE
    /\ UNCHANGED <<checkout, page, service, usdc, entitled, buys, rate, quotes, dropped>>

\* With enough USDC there is nothing to convert.
createDeposit(t) ==
    /\ Step
    /\ page[t].shown = NoCheckout /\ page[t].op = "idle" /\ page[t].preview /\ ~page[t].owns
    /\ readPaymentPreflight.userRegistered /\ ~readPaymentPreflight.usdcSufficient
    /\ page' = [page EXCEPT ![t].op = "quoting"]
    /\ UNCHANGED <<checkout, service, chain, rate, quotes, dropped>>

\* The firm quote arrives and is stored, unless another checkout was opened meanwhile.
depositQuoted(t) ==
    /\ page[t].op = "quoting" /\ quotes < MaxQuotes
    /\ paymentRateLimit("quote")
    /\ \E a \in OneClickAnswers :
       LET new == [quote |-> quotes + 1, state |-> "awaiting_deposit"] IN
       \/ /\ paymentQuote(a, FALSE)
          /\ quotes' = quotes + 1 /\ swaps' = [swaps EXCEPT ![quotes + 1] = "PENDING_DEPOSIT"]
          /\ saveActivePaymentCheckout(new)
          /\ page' = [page EXCEPT ![t].op = "idle", ![t].shown = new, ![t].preview = FALSE]
       \/ /\ ~(paymentQuote(a, FALSE) /\ maySave(new))
          /\ page' = [page EXCEPT ![t].op = "idle"]
          /\ UNCHANGED <<checkout, quotes, swaps>>
    /\ UNCHANGED <<unpaid, chain, steps, dropped>>

\* No answer, or too many requests.
depositFails(t) ==
    /\ page[t].op = "quoting"
    /\ page' = [page EXCEPT ![t].op = "idle"]
    /\ UNCHANGED <<checkout, service, chain, rate, quotes, steps, dropped>>

\* The poll asks for the status of the checkout on the screen...
readPaymentStatus(t) ==
    /\ page[t].shown.state \in Polled /\ page[t].status = "none"
    /\ paymentRateLimit("status")
    /\ \E a \in OneClickAnswers :
         page' = [page EXCEPT ![t].status = IF validateStoredQuote(a) THEN swaps[page[t].shown.quote] ELSE @]
    /\ UNCHANGED <<checkout, service, chain, quotes, steps, dropped>>

\* ... and, after it has read the balance too, stores the state it finds if it is new on this screen.
poll(t) ==
    /\ page[t].status # "none"
    /\ \E gas \in BOOLEAN :
       LET state == paymentCheckoutState(page[t].status, gas /\ verifyConvertedUsdcReady(page[t].status))
           new == [page[t].shown EXCEPT !.state = state]
       IN IF state = page[t].shown.state
          THEN page' = [page EXCEPT ![t].status = "none"] /\ UNCHANGED checkout
          ELSE \/ /\ saveActivePaymentCheckout(new)
                  /\ page' = [page EXCEPT ![t].status = "none", ![t].shown = new]
               \/ /\ ~maySave(new)
                  /\ page' = [page EXCEPT ![t].status = "none"] /\ UNCHANGED checkout
    /\ UNCHANGED <<service, chain, rate, quotes, steps, dropped>>

\* "New quote": whatever is stored is cleared.
resetTerminal(t) ==
    /\ Step
    /\ page[t].shown.state \in TERMINAL_STATES \cup {"usdc_final"}
    /\ checkout' = NoCheckout
    /\ page' = [page EXCEPT ![t].shown = NoCheckout, ![t].preview = FALSE]
    /\ dropped' = (dropped \/ (checkout.quote # page[t].shown.quote /\ checkout.state \in Polled))
    /\ UNCHANGED <<service, chain, rate, quotes>>

-----------------------------------------------------------------------------
(* The purchase with USDC. *)

Continues(t, op) == page' = [page EXCEPT ![t].op = op]
Ends(t) == page' = [page EXCEPT ![t].op = "idle", ![t].converted = FALSE]

\* The stored checkout tells whether this is the payment of converted money.
purchase(t) ==
    /\ Step
    /\ page[t].op = "idle" /\ ~page[t].owns
    /\ CASE loadActivePaymentCheckout.state = "usdc_final" -> Continues(t, "verifying")
         [] loadActivePaymentCheckout.state = "core_pending" ->
              page' = [page EXCEPT ![t].op = "rechecking", ![t].converted = TRUE]
         [] OTHER -> Continues(t, "signing")
    /\ UNCHANGED <<checkout, service, chain, rate, quotes, dropped>>

\* The converted money is still there: the checkout is marked before the wallet is asked.
convertedReady(t) ==
    /\ page[t].op = "verifying"
    /\ \E gas \in BOOLEAN :
         IF gas /\ verifyConvertedUsdcReady("SUCCESS")
         THEN /\ updateActivePaymentCheckoutState("core_pending")
              /\ page' = [page EXCEPT ![t].op = "signing", ![t].converted = (checkout.state = "usdc_final")]
         ELSE Ends(t) /\ UNCHANGED checkout
    /\ UNCHANGED <<service, chain, rate, quotes, steps, dropped>>

\* The wallet sends the payment, does not, or does and loses the answer.
buyLivepeerTicket(t) ==
    /\ page[t].op = "signing"
    /\ \/ buys' = buys + 1 /\ Continues(t, "waiting") /\ UNCHANGED checkout
       \/ /\ buys' \in {buys, buys + 1}
          /\ IF page[t].converted THEN updateActivePaymentCheckoutState("usdc_final") ELSE UNCHANGED checkout
          /\ Ends(t)
    /\ UNCHANGED <<service, usdc, registered, entitled, rate, quotes, steps, dropped>>

\* The ticket is there, or is not yet: then the money may have come back.
waitForLivepeerEntitlement(t) ==
    /\ page[t].op \in {"waiting", "rechecking"}
    /\ \/ /\ entitled
          /\ IF page[t].converted THEN updateActivePaymentCheckoutState("complete") ELSE UNCHANGED checkout
          /\ page' = [page EXCEPT ![t].op = "idle", ![t].converted = FALSE, ![t].owns = TRUE]
       \/ /\ UNCHANGED checkout
          /\ IF page[t].converted THEN Continues(t, "recovering") ELSE Ends(t)
    /\ UNCHANGED <<service, chain, rate, quotes, steps, dropped>>

\* The page never pays again by itself.
recoverRefundedTicketPayment(t) ==
    /\ page[t].op = "recovering"
    /\ \E gas \in BOOLEAN :
         IF gas /\ verifyConvertedUsdcReady("SUCCESS")
         THEN updateActivePaymentCheckoutState("usdc_final") ELSE UNCHANGED checkout
    /\ Ends(t)
    /\ UNCHANGED <<service, chain, rate, quotes, steps, dropped>>

-----------------------------------------------------------------------------
(* The service and the chain. *)

\* The buyer sends the deposit to the address on the screen.
deposit(t) ==
    /\ Step
    /\ page[t].shown.quote # 0 /\ swaps[page[t].shown.quote] = "PENDING_DEPOSIT"
    /\ swaps' = [swaps EXCEPT ![page[t].shown.quote] = "PROCESSING"]
    /\ UNCHANGED <<checkout, page, unpaid, chain, rate, quotes, dropped>>

swapSettles(q) ==
    /\ \/ /\ swaps[q] = "PROCESSING"
          /\ \E outcome \in {"SUCCESS", "REFUNDED", "FAILED"} : swaps' = [swaps EXCEPT ![q] = outcome]
       \/ swaps[q] = "PENDING_DEPOSIT" /\ swaps' = [swaps EXCEPT ![q] = "FAILED"]
    /\ unpaid' = IF swaps'[q] = "SUCCESS" THEN unpaid \cup {q} ELSE unpaid
    /\ UNCHANGED <<checkout, page, chain, rate, quotes, steps, dropped>>

usdcArrives(q) ==
    /\ unpaid' = unpaid \ {q} /\ usdc' = usdc + 1
    /\ UNCHANGED <<checkout, page, swaps, registered, entitled, buys, rate, quotes, steps, dropped>>

\* A second ticket is not sold to the account, and its payment returns.
buyExecutes ==
    /\ buys > 0 /\ buys' = buys - 1
    /\ IF usdc >= 1 /\ ~entitled
       THEN \/ entitled' = TRUE /\ usdc' = usdc - 1
            \/ UNCHANGED <<entitled, usdc>>
       ELSE UNCHANGED <<entitled, usdc>>
    /\ UNCHANGED <<checkout, page, service, registered, rate, quotes, steps, dropped>>

-----------------------------------------------------------------------------
SwapInit ==
    /\ checkout = NoCheckout
    /\ page = [t \in Pages |-> Fresh]
    /\ swaps = [q \in Quotes |-> "none"] /\ unpaid = {}
    /\ usdc = 0 /\ registered \in BOOLEAN /\ entitled = FALSE /\ buys = 0
    /\ rate = [quote |-> 0, status |-> 0]
    /\ quotes = 0 /\ steps = 0 /\ dropped = FALSE

SwapNext ==
    \/ \E t \in Pages :
         \/ openPage(t) \/ getPreview(t) \/ prepareAccount(t) \/ createDeposit(t)
         \/ depositQuoted(t) \/ depositFails(t) \/ readPaymentStatus(t) \/ poll(t)
         \/ resetTerminal(t) \/ purchase(t) \/ convertedReady(t) \/ buyLivepeerTicket(t)
         \/ waitForLivepeerEntitlement(t) \/ recoverRefundedTicketPayment(t) \/ deposit(t)
    \/ \E q \in Quotes : swapSettles(q)
    \/ \E q \in unpaid : usdcArrives(q)
    \/ buyExecutes
    \/ \E kind \in {"quote", "status"} : expirePaymentRateLimit(kind)

-----------------------------------------------------------------------------
States == {"none", "awaiting_deposit", "converting", "usdc_final", "core_pending"} \cup TERMINAL_STATES
Checkouts == [quote : 0..MaxQuotes, state : States]
SwapTypeOK ==
    /\ checkout \in Checkouts /\ \A t \in Pages : page[t].shown \in Checkouts
    /\ usdc \in 0..quotes /\ unpaid \subseteq Quotes /\ buys \in Nat /\ rate.status \in 0..1

\* Money sent to the service is remembered in the browser until the service is done with it: only
\* a tab that dismisses an older checkout can drop it.
DepositRemembered ==
    \A q \in Quotes :
        swaps[q] = "PROCESSING" /\ ~dropped
            => checkout.quote = q /\ checkout.state \in Polled

\* The ticket is never paid for, in the name of a conversion, before the conversion succeeded, and
\* never called complete before the account has it.
ConversionFirst ==
    /\ checkout.state \in {"usdc_final", "core_pending", "complete"} => swaps[checkout.quote] = "SUCCESS"
    /\ checkout.state = "complete" => entitled

SwapSafe == SwapTypeOK /\ DepositRemembered /\ ConversionFirst
=============================================================================
