SPECIFICATION FairSpec
CONSTANTS
    Replies <- AllReplies
    MaxExchanges = 3
    MaxHeader = 3
    MaxBody = 2
    MaxFields = 1
    MaxPiece = 3
INVARIANTS AnswersOwnRequest ReusableMeansConsumed WholeBody BufferBounded
PROPERTIES ImplementsLife ExecuteReturns
