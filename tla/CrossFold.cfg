\* Graphs of up to three edges over four symbols; two memories, two lives, a budget of one.
SPECIFICATION Spec
CONSTANTS
    Ids <- Symbols
    Questions <- AllQuestions
    ExtraDepth = 1
    Memories <- Remembered
    Stamps = {0, 1}
    MaxCross = 1
    MaxErasures = 1
INVARIANTS
    WalksAreHonest
    BlastIsHonest
    FoldIsHonest
\* A question is asked once and answered.
CHECK_DEADLOCK FALSE
