SPECIFICATION Spec
CONSTANTS
    HashSize = 2
    HashOf <- MCHash
    max_symbol = 3
    PartNums = {1}
    Inputs <- MCRuns
INVARIANT HashFinds
