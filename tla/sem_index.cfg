SPECIFICATION Spec
CONSTANTS
  Nodes <- MCNodes
  Types <- MCTypes
  Conditions <- MCConditions
  Here = "here"
  NoToken = NoToken
  Compilations <- MCCompilations
  Positions <- MCPositions
CHECK_DEADLOCK FALSE
INVARIANTS TypeOK EachNameOnce NamesResolve  LookupFinds OverlapsAreSeen
