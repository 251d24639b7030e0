CONSTANTS
  Root <- MCRoot
  Requests <- MCRequests
  MaxDepth <- MCMaxDepth
SPECIFICATION Spec
INVARIANTS
  TypeOK
  BracesFree
  InheritanceOverride
