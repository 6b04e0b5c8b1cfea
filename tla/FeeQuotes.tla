------------------------------ MODULE FeeQuotes -----------------------------
(***************************************************************************)
(* Upload fee quotes: the bridge signs what an upload costs, in NEAR at    *)
(* the oracle's rate or in USDC with the sponsor's share, and the market   *)
(* contract computes the amounts again before it takes the money.  The     *)
(* two run on different clocks: a contract call sees the time of its       *)
(* block, which lags behind the clock of the worker.  One object per       *)
(* creator limits how many quotes are signed in a window.                  *)
(***************************************************************************)
EXTENDS Integers, FiniteSets, FiniteSetsExt, Functions

CONSTANTS
    SourceSizes,    \* sizes of a source, small numbers
    Rates,          \* prices of one NEAR
    Numerator, Denominator, MinFee, SponsorFee, Yocto,   \* the fee formulas' constants, scaled
    SourceAge,      \* QUOTE_MAX_SOURCE_AGE_MS, CREATOR_FEE_MAX_SOURCE_AGE_MS
    Lifetime,       \* QUOTE_MAX_LIFETIME_MS, CREATOR_FEE_QUOTE_LIFETIME_MS
    BlockWindow,    \* SPONSORED_UPLOAD_MAX_BLOCK_WINDOW
    MaxLag,         \* SPONSORED_UPLOAD_FINAL_BLOCK_MAX_AGE_MS
    RateWindow, RateLimit,    \* CREATOR_FEE_RATE_WINDOW_MS, CREATOR_FEE_RATE_LIMIT
    MaxWall         \* bound: ticks of the clock

ASSUME FeeConstantsAssumption ==
    /\ SourceSizes \subseteq Nat \ {0} /\ Rates \subseteq Nat \ {0}
    /\ {Numerator, Denominator, MinFee, SponsorFee, Yocto} \subseteq Nat \ {0}
    /\ {SourceAge, Lifetime, BlockWindow, MaxLag, RateLimit, MaxWall} \subseteq Nat
    /\ RateWindow \in Nat \ {0}
    /\ SourceAge < Lifetime     \* one minute and two

NoQuote == [kind |-> "none"]
NoWindow == [start |-> 0, count |-> 0]

VARIABLES
    wall,           \* the clock of the workers
    block,          \* the chain: time and height of its last block
    oracle,         \* the oracle: its price and when it was set
    bridgeKey,      \* the version of the key the bridge signs with
    contractKey,    \* the version of the key the contract verifies with
    rateRecord,     \* storage of the creator's object: quote-rate:v1
    quote,          \* the last quote the creator got
    issued          \* history: quotes signed at each tick

quoteVars == <<wall, block, oracle, bridgeKey, contractKey, rateRecord, quote, issued>>

-----------------------------------------------------------------------------
(* The contract. *)

div_ceil(n, d) == n \div d + (IF n % d # 0 THEN 1 ELSE 0)

upload_fee_usdc(b) == Max({div_ceil(b * Numerator, Denominator), MinFee})

verify_creator_fee_quote(q, b) ==
    /\ q.bytes = b /\ q.version = contractKey
    /\ q.at <= block.time /\ block.time - q.at <= SourceAge
    /\ q.expires > block.time /\ q.expires - q.at <= Lifetime
    /\ q.usd = upload_fee_usdc(b)
    /\ q.amount = div_ceil(upload_fee_usdc(b) * Yocto, q.rate)

verify_sponsored_upload_quote(q, b) ==
    /\ q.bytes = b /\ q.version = contractKey
    /\ q.height <= block.height /\ block.height <= q.height + BlockWindow
    /\ q.at <= block.time /\ block.time - q.at <= Lifetime
    /\ q.expires > block.time /\ q.expires > q.at /\ q.expires - q.at <= Lifetime
    /\ q.usd = upload_fee_usdc(b)
    /\ q.amount = upload_fee_usdc(b) + SponsorFee

-----------------------------------------------------------------------------
(* The bridge. *)

\* Mutant: the fee is rounded down.
byteFee_floor(b) == (b * Numerator) \div Denominator
byteFeeUsdMicro(b) == (b * Numerator + Denominator - 1) \div Denominator
feeUsdMicro(b) == IF byteFeeUsdMicro(b) < MinFee THEN MinFee ELSE byteFeeUsdMicro(b)

\* A new window opens when the last one is over; a full one refuses.
nextWindow ==
    IF rateRecord.count = 0 \/ wall - rateRecord.start >= RateWindow
    THEN [start |-> wall, count |-> 1]
    ELSE [rateRecord EXCEPT !.count = @ + 1]

enforceCreatorFeeQuoteRateLimit ==
    /\ nextWindow.count <= RateLimit
    /\ rateRecord' = nextWindow

\* The alarm: the object forgets the window once it is over.
expireCreatorFeeQuoteRateLimit ==
    /\ rateRecord.count > 0 /\ wall - rateRecord.start >= RateWindow
    /\ rateRecord' = NoWindow
    /\ UNCHANGED <<wall, block, oracle, bridgeKey, contractKey, quote, issued>>

readOutlayerNearUsd == oracle.at <= wall /\ wall - oracle.at <= SourceAge
readFinalBlock == block.time <= wall /\ wall - block.time <= MaxLag

issueCreatorFeeQuote(b) ==
    /\ enforceCreatorFeeQuoteRateLimit
    /\ readOutlayerNearUsd
    /\ quote' = [kind |-> "near", bytes |-> b, usd |-> feeUsdMicro(b), rate |-> oracle.price,
                 amount |-> (feeUsdMicro(b) * Yocto + oracle.price - 1) \div oracle.price,
                 at |-> oracle.at, expires |-> oracle.at + Lifetime, version |-> bridgeKey]
    /\ issued' = [issued EXCEPT ![wall] = @ + 1]
    /\ UNCHANGED <<wall, block, oracle, bridgeKey, contractKey>>

\* The price, the block or the signature cannot be had: the attempt has been counted already.
quoteFails ==
    /\ enforceCreatorFeeQuoteRateLimit
    /\ UNCHANGED <<wall, block, oracle, bridgeKey, contractKey, quote, issued>>

issueSponsoredUploadQuote(b) ==
    /\ enforceCreatorFeeQuoteRateLimit
    /\ readFinalBlock
    /\ quote' = [kind |-> "sponsored", bytes |-> b, usd |-> feeUsdMicro(b),
                 amount |-> feeUsdMicro(b) + SponsorFee, height |-> block.height,
                 at |-> block.time, expires |-> block.time + Lifetime, version |-> bridgeKey]
    /\ issued' = [issued EXCEPT ![wall] = @ + 1]
    /\ UNCHANGED <<wall, block, oracle, bridgeKey, contractKey>>

\* What the relay asks of a quote before it spends on it.
verifySponsoredUploadQuote(q, b) ==
    /\ q.bytes = b /\ q.version = bridgeKey
    /\ q.usd = feeUsdMicro(b) /\ q.amount = feeUsdMicro(b) + SponsorFee
    /\ q.expires > q.at /\ q.expires - q.at <= Lifetime

quoteIsFresh(q) ==
    /\ q.at <= wall /\ wall - q.at <= Lifetime /\ q.expires > wall
    /\ block.height >= q.height /\ block.height <= q.height + BlockWindow

-----------------------------------------------------------------------------
FeeTick ==
    /\ wall < MaxWall /\ wall - block.time < MaxLag
    /\ wall' = wall + 1
    /\ UNCHANGED <<block, oracle, bridgeKey, contractKey, rateRecord, quote, issued>>

\* Blocks come at their own pace.
BlockFinal ==
    /\ \E t \in (block.time + 1)..wall : block' = [time |-> t, height |-> block.height + 1]
    /\ UNCHANGED <<wall, oracle, bridgeKey, contractKey, rateRecord, quote, issued>>

OracleMoves ==
    /\ \E p \in Rates : oracle' = [price |-> p, at |-> block.time]
    /\ UNCHANGED <<wall, block, bridgeKey, contractKey, rateRecord, quote, issued>>

\* A rotation reaches the contract and the bridge's configuration one after the other.
rotate_quote_public_key ==
    /\ \/ contractKey = 1 /\ contractKey' = 2 /\ UNCHANGED bridgeKey
       \/ bridgeKey = 1 /\ contractKey = 2 /\ bridgeKey' = 2 /\ UNCHANGED contractKey
    /\ UNCHANGED <<wall, block, oracle, rateRecord, quote, issued>>

FeeInit ==
    /\ wall = 0 /\ block = [time |-> 0, height |-> 1]
    /\ oracle \in [price : Rates, at : {0}]
    /\ bridgeKey = 1 /\ contractKey = 1
    /\ rateRecord = NoWindow /\ quote = NoQuote /\ issued = [t \in 0..MaxWall |-> 0]

FeeNext ==
    \/ \E b \in SourceSizes : issueCreatorFeeQuote(b) \/ issueSponsoredUploadQuote(b)
    \/ quoteFails \/ expireCreatorFeeQuoteRateLimit
    \/ FeeTick \/ BlockFinal \/ OracleMoves \/ rotate_quote_public_key

-----------------------------------------------------------------------------
FeeTypeOK ==
    /\ wall \in 0..MaxWall /\ block.time \in 0..wall /\ block.height \in Nat
    /\ oracle.price \in Rates /\ oracle.at \in 0..block.time
    /\ bridgeKey \in {1, 2} /\ contractKey \in {1, 2} /\ bridgeKey <= contractKey
    /\ rateRecord \in [start : 0..MaxWall, count : 0..RateLimit]
    /\ quote.kind \in {"none", "near", "sponsored"}

\* A quote the bridge signed is one the contract accepts: a NEAR quote while its rate is fresh, a
\* sponsored one whenever the relay would still send it, and both with the same amounts to the
\* last unit, whatever the source's size and the rate.
QuotesHonoured ==
    contractKey = bridgeKey =>
        /\ quote.kind = "near" /\ quote.version = bridgeKey /\ block.time - quote.at <= SourceAge
              => verify_creator_fee_quote(quote, quote.bytes)
        /\ quote.kind = "sponsored" /\ verifySponsoredUploadQuote(quote, quote.bytes) /\ quoteIsFresh(quote)
              => verify_sponsored_upload_quote(quote, quote.bytes)

\* However the windows fall and whenever the alarm clears them, no creator gets more than twice
\* the limit of quotes in any stretch as long as a window.
QuotesLimited ==
    \A t \in 0..MaxWall :
        SumFunctionOnSet(issued, {u \in 0..MaxWall : t <= u /\ u < t + RateWindow}) <= 2 * RateLimit

\* The quotes are honoured by the contract and limited by the bridge.
QuotesSafe == FeeTypeOK /\ QuotesHonoured /\ QuotesLimited
=============================================================================
