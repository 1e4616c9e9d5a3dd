SPECIFICATION ReportSpec
CONSTANTS
  r1 = r1
  r2 = r2
  none = none
  Outcomes <- SomeOutcomes
  NameOrder <- SortedNames
  MaxReported = 4
  TransportsOf <- Registry
  L3 <- Layer3
  TestLists <- AnyTests
  SpecLists <- AnySpecs
  Parallels = {0, 2}
  MaxPort = 3
INVARIANTS
  BatchesWellFormed
  PlanIsWhatWasAsked
  ValidationExact
  RangesFaithful
  RangesMaximal
  FailLineExact
  EveryResultTold
  ReportCoversScan
