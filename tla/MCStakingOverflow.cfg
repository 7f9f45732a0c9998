SPECIFICATION Spec
CONSTANTS
    alice = alice
    bob = bob
    contract = contract
    Address <- MCAddress
    Pool = contract
    PRECISION = 5
    Duration = 2
    Endowment <- MCEndowment
    Amounts <- MCAmounts
    MaxI128 = 12
    MinTempTtl = 1
    MaxEntryTtl = 1
    MaxTime = 5
INVARIANT StakeIsReturned
