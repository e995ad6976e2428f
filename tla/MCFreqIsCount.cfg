SPECIFICATION Spec
CONSTANTS
    vertex_cnt = 2
    threshold = 0
    Copies = {TRUE}
    Inputs <- MCGraphs
INVARIANT FreqIsCount
