CONSTANTS
    Phone = phone
    Others = {client}
    usdcVault = usdcVault
    otherVault = otherVault
    Vaults = {usdcVault, otherVault}
    UsdcVaults = {usdcVault}
    Metadata <- MCMetadata
    Deployments <- MCDeployments
    Risks = {0}
    target = target
    Targets = {target}
    Written <- MCWritten
    NoPolicy = NoPolicy
    None = None
    MaxDeploys = 1
    MaxChanges = 1
SPECIFICATION FairSpec
INVARIANTS
    VaultIsNamed
    UsdcStaysUsdc
    AdviceIsHonest
PROPERTIES
    FlowsEnd
CHECK_DEADLOCK FALSE
