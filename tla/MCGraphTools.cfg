SPECIFICATION Spec
CONSTANTS
    vertex_cnt = 3
    Graphs <- MCGraphs
    Candidates <- MCCandidates
    NumPs = {0, 1, 3}
    MaxDepths = {0, 1, 2, 3}
    MinEdges = {0, 3, 4, 5, 100}
    Teams <- MCTeams
    Indexes <- MCIndexes
    Beyond <- MCBeyond
    num_thread = 3
INVARIANTS
    OrderFollowsMentions
    FusionOrdered
    WeightsMultiply
    FormatsAgree
    SplicedRowsDecode
    CheckExact
    DepthFilterLossless
    LevelsJudgedLast
PROPERTY LoopsProgress
