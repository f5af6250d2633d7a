SPECIFICATION LiveSpec

CONSTANTS
    Words = {"x", "y", "bar", "bang", "odd"}
    Punct = {"bar", "bang", "odd"}
    Bang = "bang"
    Odd = {"odd"}
    MinTokenRepeat = 3
    MinNgramRepeat = 2
    MaxNgram = 2
    MinOdd = 2
    Unit = 12
    MaxNed = 5
    PromptSets <- FixedAndOwn
    Texts <- FewTexts
    MaxRuns = 2

INVARIANT PassIsOwn
INVARIANT NoServerLeft
PROPERTY VerdictEarned
PROPERTY GateEnds

CHECK_DEADLOCK FALSE
