SPECIFICATION Spec
CONSTANTS
    vertex_cnt = 2
    threshold = 0
    Copies = {TRUE, FALSE}
    Inputs <- MCGraphs
INVARIANTS
    TypeOK
    FilterLossless
    FindNeverFails
    KeptRulesPay
PROPERTIES
    DecisionsStand
