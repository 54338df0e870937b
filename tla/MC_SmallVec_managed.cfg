CONSTANTS
  Vecs = {v1}
  InlineSize = 1
  MaxCap = 4
  MaxAllocs = 3
  MaxTokens = 4
  GrowArgs <- MCNoGrow
  ZeroSized = FALSE
  OwnsManaged = TRUE
  Null = Null
  Zero = Zero
  Uninit = Uninit
SPECIFICATION Spec
INVARIANT
  FreedByItsAllocator
