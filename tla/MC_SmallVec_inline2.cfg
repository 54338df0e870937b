CONSTANTS
  Vecs = {v1}
  InlineSize = 2
  MaxCap = 8
  MaxAllocs = 3
  MaxTokens = 5
  GrowArgs <- MCNoGrow
  ZeroSized = FALSE
  OwnsManaged = FALSE
  Null = Null
  Zero = Zero
  Uninit = Uninit
SPECIFICATION Spec
INVARIANTS
  TypeOK
  OwnedOnce
  HeapOwnedOnce
PROPERTIES
  Refines
