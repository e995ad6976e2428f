SPECIFICATION Spec
CONSTANT Inputs <- MCGraphs
INVARIANTS
    TypeOK
    NumberingIsPermutation
    OutputIsRenaming
