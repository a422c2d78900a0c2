SPECIFICATION Spec
CONSTANTS
    Samples <- AllSamples
    Streams <- AllStreams
    Percentiles <- Asked
    Reservoir = 3
    MaxSamples = 5
INVARIANTS CountersExact WindowRecent PercentilesInPlace
CHECK_DEADLOCK FALSE
