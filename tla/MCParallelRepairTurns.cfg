SPECIFICATION FairSpec
CONSTANTS
    thread_num = 3
    threshold = 2
    compress_rate = 3
    Word = 64
    Inputs <- MCFewGraphs
PROPERTIES
    TurnsAreRewritings
    Termination
