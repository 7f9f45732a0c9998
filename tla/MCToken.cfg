SPECIFICATION Spec
CONSTANTS
    alice = alice
    bob = bob
    carol = carol
    Address <- MCAddress
    Amounts <- MCAmounts
    Grants <- MCGrants
    Expirations <- MCExpirations
    MaxI128 = 2
    MinTempTtl = 2
    MaxEntryTtl = 2
    MaxSeq = 3
INVARIANTS TypeOK TtlCoversExpiration
PROPERTY ImplementsAsset
