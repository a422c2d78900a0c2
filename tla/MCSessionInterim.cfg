SPECIFICATION Spec
CONSTANTS
    Replies <- InterimReplies
    MaxExchanges = 2
    MaxHeader = 3
    MaxBody = 2
    MaxFields = 1
    MaxPiece = 3
INVARIANT ReusableMeansConsumed
