CONSTANTS
  Events = {e1, e2}
  Details = {d1, d2}
  NullValue = NullValue
  Types <- MCTypes
SPECIFICATION Spec
INVARIANT
  DetailMatchesEventInit
