CONSTANTS
  Root <- ARMPLATDB
  MaxDepth <- MCMaxDepth
  MaxIncludes <- MCMaxIncludes
SPECIFICATION Spec
INVARIANT EveryConfigurationCompletes
