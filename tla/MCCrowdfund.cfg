SPECIFICATION FairSpec
CONSTANTS
    alice = alice
    bob = bob
    fund = fund
    gold = gold
    silver = silver
    Address <- MCAddress
    Asset <- MCAsset
    Fund = fund
    SafeTtl = 1
    Endowment <- MCEndowment
    Amounts <- MCAmounts
    Goals <- MCGoals
    Deadlines <- MCDeadlines
    Expirations <- MCExpirations
    MaxCampaigns = 2
    MaxI128 = 4
    MinTempTtl = 1
    MaxEntryTtl = 2
    MaxTime = 3
CHECK_DEADLOCK FALSE
INVARIANTS TypeOK HoldingsAreOwed EveryoneIsWhole NoStandingApproval
PROPERTIES OutcomeIsFinal EventuallyResolved
