CONSTANTS
  Root <- ARMPLATDB
  MaxDepth <- MCMaxDepth
  MaxIncludes <- MCMaxIncludes
SPECIFICATION Spec
INVARIANTS TypeOK ChosenPlatformEnabled FilesystemSupported ManifestMatchesWorkspace IncludesTerminate DependenciesDownloadable QaCompletes QaSyncsEveryManifest
