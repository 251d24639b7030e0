CONSTANTS
  Root <- ARMPLATDB
  Requests <- SummaryRequests
  MaxDepth <- MCMaxDepth
SPECIFICATION SummarySpec
INVARIANT FailuresReported
