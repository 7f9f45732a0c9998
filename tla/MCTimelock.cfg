SPECIFICATION FairSpec
CONSTANTS
    alice = alice
    bob = bob
    lockbox = lockbox
    gold = gold
    silver = silver
    Address <- MCAddress
    Asset <- MCAsset
    Lockbox = lockbox
    Endowment <- MCEndowment
    Amounts <- MCAmounts
    UnlockTimes <- MCUnlockTimes
    MaxLocks = 2
    MaxI128 = 2
    MinTempTtl = 1
    MaxEntryTtl = 2
    MaxTime = 1
INVARIANT HoldingsCoverLocks
PROPERTIES ImplementsCustody EventuallyReleased
