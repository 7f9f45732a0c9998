SPECIFICATION ClaimableFairSpec
CONSTANTS
    alice = alice
    bob = bob
    vault = vault
    Address <- MCAddress
    Vault = vault
    Admin = bob
    SafeTtl = 1
    Endowment <- MCEndowment
    DepositAmounts <- MCDepositAmounts
    Delays <- MCDelays
    Expiries <- MCExpiries
    Horizons <- MCHorizons
    MaxBalances = 2
    MaxI128 = 2
    MinTempTtl = 1
    MaxEntryTtl = 2
    MaxTime = 2
INVARIANTS ViewIsTruthful AlwaysRecoverable
PROPERTIES ImplementsCustody EventuallySettled
