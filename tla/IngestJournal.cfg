SPECIFICATION FairSpec
CONSTANTS
    b1 = b1  b2 = b2  NoBatch = NoBatch
    Batches <- TwoBatches
    QueueDepth = 1
    MaxCrashes = 1
    MaxOutages = 2
    MaxFaults = 1
CHECK_DEADLOCK FALSE
INVARIANTS NothingVanishes CallsRepeatOnlyByMishap JournalInOrder
PROPERTIES DrainsAndExits HonoursQueued
