CONSTANT Access <- AnyAccess
CONSTANT Catalogs <- TwoCatalogs
CONSTANT EffectiveFrom <- OneInTheMiddle
CONSTANT HourlyRate <- RatesRise
CONSTANT MinimumBilled = 3
SPECIFICATION FairCostSpec
CHECK_DEADLOCK FALSE
INVARIANTS BestStartIsKept SegmentAgreesWithRow DeletionClosesTheWindow EveryMomentAtItsPrice PeriodsAddUp
PROPERTIES DeletedVMsAreCharged LaterPricesLeaveEarlierWorkAlone
