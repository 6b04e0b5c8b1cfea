SPECIFICATION OperatorSpec
CONSTANTS
    Requests = {1, 2}  Payloads = {1, 2}
    Mixes <- MCMixes  LegacyMixes <- MCLegacyMixes
    MaxNonce = 6  MaxFaults = 1  ScanBatch = 1
    Jobs = {1, 2}  Delegates = {1, 2}  MaxRelayNonce = 6
    Offers <- MCOffers
INVARIANTS  RelaySafe
PROPERTIES  RelaySettles
CHECK_DEADLOCK FALSE
