SPECIFICATION FairExchange
CHECK_DEADLOCK FALSE
INVARIANTS RecordTruthful
PROPERTIES RelayCleansUp
