SPECIFICATION Spec
CONSTANTS
    alice = alice
    bob = bob
    carol = carol
    manager = manager
    Address <- MCAddress
    Manager = manager
    Endowment <- MCEndowment
    Policies <- TwoSpenders
    DirectOwners <- Nobody
    Amounts <- MCAmounts
    Expirations <- MCExpirations
    SafeTtl = 2
    MaxI128 = 2
    MinTempTtl = 1
    MaxEntryTtl = 3
    MaxSeq = 1
INVARIANT RemainingIsSpendable
