\* An Anthropic request that waits for the pacer while its account is replaced.
SPECIFICATION Spec
CONSTANTS
    Kinds = {"claude"}
    None = None
    Interval = 1
    MaxOwners = 2
    MaxTokens = 2
    MaxTime = 2
CHECK_DEADLOCK FALSE
INVARIANT
    HeadersAreTheOwners
