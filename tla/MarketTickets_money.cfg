CONSTANTS
    t1 = t1  t2 = t2  c1 = c1  p1 = p1  o1 = o1  o2 = o2
    TicketId = {t1, t2}
    Publication = {p1}
    Creator = {c1}
    Session = {d1}
    CardReference = {r1}
    VatKey = {1}
    InSlot = {i1}
    OutSlot = {o1, o2}
    CreatorOf <- MCCreatorOf
    PriceOf <- MCPriceOf
    Amount = {100}
    Vat = {21}
    MIN_TICKET_PRICE = 100
    MAX_VAT_RATE_BPS = 2700
    PLATFORM_DIVISOR = 20
    MAX_TICKET_DEVICES = 3
    ESCROW_RELEASE = 1
    DEVICE_LIFETIME = 2
    SIGNATURE_TTL = 1
    MAX_RELEASE_BATCH = 25
    EMERGENCY_RUNWAY = 0
    MAX_BALANCE = 200
    USDC_SUPPLY = 200
    HasBeta = FALSE
    MaxNow = 1
    MaxHeadroom = 1
    MaxEpoch = 0
    MaxSigned = 0
    MaxAdded = 1
SPECIFICATION Spec
INVARIANTS EscrowBacked Solvent PaidOnce
SYMMETRY Symmetry
CHECK_DEADLOCK FALSE
