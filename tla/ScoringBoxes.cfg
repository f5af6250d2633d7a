SPECIFICATION Spec

CONSTANTS
    Written <- TextsOf
    Fields <- ReasoningFields
    Called <- CallItems
    Listed <- PartItems

INVARIANT BoxedAlternativesNotCredited

CHECK_DEADLOCK FALSE
