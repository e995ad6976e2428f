SPECIFICATION Spec
CONSTANTS
    HashSize = 16
    HashOf <- MCHash
    max_symbol = 3
    PartNums = {1, 2, 3, 4}
    Inputs <- MCGraphs
INVARIANTS
    TextLossless
    RecordsMatchText
    HashFinds
    OidStays
    HeapHoldsRecords
    MergeLossless
    MergedFitsFilter
    IndexErrorOnlyWithManyParts
PROPERTIES
    TakesMostFrequent
    Returns
