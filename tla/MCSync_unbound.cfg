CONSTANTS
  Deps <- MCDeps
SPECIFICATION Spec
INVARIANT SyncFailuresReported
