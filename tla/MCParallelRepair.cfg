SPECIFICATION Spec
CONSTANTS
    thread_num = 2
    threshold = 2
    compress_rate = 2
    Word = 64
    Inputs <- MCManyGraphs
INVARIANTS
    TypeOK
    Lossless
    IdsUnique
    RuleRowsMatchIds
    CrashOnlyIfIllShaped
PROPERTIES
    ReplaceOnlyReads
