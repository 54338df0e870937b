----------------------------- MODULE MC_SmallVec -----------------------------
(***************************************************************************)
(* Model-checking instance of SmallVec.  InlineSize, MaxCap and the     *)
(* vector objects come from each cfg: one SmallVec1 with direct grow     *)
(* calls (single), two SmallVec1s for clone and push_all_move (pair),    *)
(* one SmallVec2 that spills 2 -> 4 and grows again 4 -> 8 (inline2).     *)
(***************************************************************************)
EXTENDS SmallVec, TLC

\* grow arguments for which grow keeps the vector spilled
MCGrowSpilled == {n \in 1..MaxCap : n > InlineSize}

\* grow arguments including the inline size itself
MCGrowAny == {n \in 1..MaxCap : n >= InlineSize}

\* no direct grow calls (the single-vector runs cover them)
MCNoGrow == {}

\* Zeroed and uninitialized bytes differ only in whether drop glue on them
\* is undefined behaviour, which only NoUninitDrop (and the ub counter)
\* observes; the pair run, which does not check it, identifies them.
MCBytes(f) == [i \in DOMAIN f |-> IF f[i] = Uninit THEN Zero ELSE f[i]]

MCPairView ==
  <<[v \in Vecs |-> [vec[v] EXCEPT !.data = MCBytes(@)]],
    [a \in DOMAIN heap |-> [heap[a] EXCEPT !.slots = MCBytes(@)]],
    it, held, drops, minted, origin, status>>

\* the two vector objects are interchangeable
MCSymmetry == Permutations(Vecs)

=============================================================================
