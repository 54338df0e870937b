CONSTANTS
  Ctxs = {c1, c2, c3}
  MaxRefs = 3
SPECIFICATION SpecWithLibClone
INVARIANT
  NoUseAfterDone
