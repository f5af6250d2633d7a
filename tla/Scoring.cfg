SPECIFICATION Spec

CONSTANTS
    Written <- TextsOf
    Fields <- ReasoningFields
    Called <- CallItems
    Listed <- PartItems

INVARIANT CreditFromVisible
INVARIANT OnlyCommittedCredited
INVARIANT CutIsNotWrong
INVARIANT MatchedOneToOne

CHECK_DEADLOCK FALSE
