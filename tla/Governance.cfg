SPECIFICATION GovernanceSpec
CONSTANTS
    Account = {a1, a2, a3, a4, a5}
    Network = "mainnet"
    MAINNET_ROLE_ROTATION_DELAY = 1
    MAINNET_BRIDGE_ROTATION_DELAY = 1
    MaxPending = 2
    Code = {v0, v1, v2}
    FirstCode = v0
    Slot = {s1, s2}
    MAINNET_REOPEN_DELAY = 1
    MAINNET_CODE_UPGRADE_DELAY = 1
    MaxNow = 2
    MaxProposals = 2
SYMMETRY Symmetry
INVARIANT RolesSeparate
PROPERTIES
    VetoHolds ReopenOnNotice CodeOnNotice
