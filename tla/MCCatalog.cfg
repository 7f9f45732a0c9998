SPECIFICATION FairSpec
CONSTANTS
    alice = alice
    bob = bob
    escrowed = escrowed
    vested = vested
    airdropped = airdropped
    key1 = key1
    key2 = key2
    Address <- MCAddress
    Person <- MCPerson
    Deployments <- MCDeployments
    Endowment <- MCEndowment
    Amounts <- MCAmounts
    MaxTime = 5
    MaxI128 = 6
    MinTempTtl = 1
    MaxEntryTtl = 2
    EscrowVault = escrowed
    Depositor = alice
    Arbiter = bob
    EscrowBeneficiary = bob
    VestingVault = vested
    Beneficiary = alice
    Sums <- MCSums
    Starts = {1}
    Durations = {0, 3}
    Cliffs = {0, 2, 4}
    Subscriber = alice
    Merchant = bob
    Prices <- MCPrices
    Intervals = {0, 2}
    AirdropVault = airdropped
    Admin = bob
    Lists <- MCLists
    Indices = {0, 1, 2, 3}
    ProofLength = 2
    Key = {key1, key2}
    ObservedPrices <- MCObservedPrices
    ObservedTimes = {0, 1, 2}
    MaxSigned = 2
    Proposal = {"pay", "stop"}
    Thresholds = {0, 1, 2, 3, 4}
    Role = {"minter"}
CHECK_DEADLOCK FALSE
INVARIANTS TypeOK BothOutcomesPossible ReleasedIsVested ListedCanClaim ExecutedByQuorum
PROPERTIES ImplementsCustody FundingIsKept FundedIsReleased ChargesFollowPlan EachIndexPaysOnce
    PayoutsAreListed PricesMoveForward SignedIsOvertaken PaymentsConserve
