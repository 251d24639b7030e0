CONSTANTS
  Deps <- MCDeps
SPECIFICATION Spec
INVARIANT WorkspaceInitialised
