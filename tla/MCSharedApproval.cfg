SPECIFICATION SwapSpec
CONSTANTS
    alice = alice
    bob = bob
    swap = swap
    gold = gold
    silver = silver
    Address <- MCAddress
    Asset <- MCAsset
    Swap = swap
    OfferTtl = 1
    Endowments <- MCEndowments
    OfferAmounts <- MCAmounts
    Payments <- MCPayments
    MaxOffers = 2
    MaxI128 = 3
    MinTempTtl = 1
    MaxEntryTtl = 2
    MaxSeq = 1
INVARIANT OfferIsBacked
