CONSTANT MaxRanks = 6
SPECIFICATION CollectiveSpec
INVARIANT BroadcastReachesAll
CHECK_DEADLOCK FALSE
