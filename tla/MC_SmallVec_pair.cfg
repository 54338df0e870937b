CONSTANTS
  Vecs = {v1, v2}
  InlineSize = 1
  MaxCap = 4
  MaxAllocs = 2
  MaxTokens = 4
  GrowArgs <- MCNoGrow
  ZeroSized = FALSE
  OwnsManaged = FALSE
  Null = Null
  Zero = Zero
  Uninit = Uninit
SPECIFICATION Spec
INVARIANTS
  TypeOK
  OwnedOnce
  HeapOwnedOnce
PROPERTIES
  Refines
SYMMETRY MCSymmetry
VIEW MCPairView
