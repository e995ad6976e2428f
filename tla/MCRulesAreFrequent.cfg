SPECIFICATION Spec
CONSTANTS
    thread_num = 3
    threshold = 2
    compress_rate = 2
    Word = 64
    Inputs <- MCFewGraphs
INVARIANT RulesAreFrequent
