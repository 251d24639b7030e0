CONSTANTS
  Versions <- MCVersions
  MajorOnly <- MCMajorOnly
SPECIFICATION Spec
INVARIANT GccRangeEnforced
