SPECIFICATION ServicesSpec
CONSTANTS
    Workers = {1, 2}  Alarmer = 3  Identities = {1, 2}
    Polls = 0  SignTimeout = 1  ExpiresAt = 2  MaxRelayerTime = 2
    Operations <- MCOperations
INVARIANT RelayerSafe
PROPERTY RelayerSettles
CHECK_DEADLOCK FALSE
