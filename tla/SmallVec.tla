------------------------------ MODULE SmallVec ------------------------------
(***************************************************************************)
(* The small vectors of components/util/smallvec.rs: the generic         *)
(* algorithm layer (trait SmallVec), the storage accessors each variant    *)
(* supplies (def_small_vector!), its Drop and Clone impls, and the move     *)
(* iterator with its Drop.  Memory is modelled slot by slot: a slot holds  *)
(* an element value (a token), Zero (bytes set by mem::zeroed or            *)
(* set_memory, which old-Rust drop glue treats as already dropped) or      *)
(* Uninit (bytes of mem::uninitialized or of fresh heap memory).           *)
(*                                                                         *)
(* Every public method is one atomic step: the container is single-owner  *)
(* and runs each call to completion, so a loop inside a call (clone,       *)
(* push_all_move, the iterator's drop) is folded into the step.            *)
(* A raw pointer is a location (the inline array of a vector, or a heap    *)
(* block) with an offset in elements; offset(n) advances n * size_of::<T>  *)
(* bytes, so with a zero-sized T it does not move (EndOffset).             *)
(***************************************************************************)
EXTENDS Naturals, Sequences, SequencesExt, FiniteSets

CONSTANTS
  Vecs,         \* the vector objects the caller may create
  InlineSize,   \* $size of the variant: number of inline slots
  MaxCap,       \* bound: largest capacity a grow may reach
  MaxAllocs,    \* bound: heap blocks allocated in one behaviour
  MaxTokens,    \* bound: element values created (pushed or cloned)
  GrowArgs,     \* capacities the caller may pass to the public grow
  ZeroSized,    \* mem::size_of::<T>() == 0
  OwnsManaged,  \* intrinsics::owns_managed::<T>()
  Null, Zero, Uninit

ASSUME InlineSize \in Nat \ {0} /\ MaxCap >= 2 * InlineSize
ASSUME GrowArgs \subseteq 1..MaxCap

Tokens    == 1..MaxTokens
Slots     == Tokens \cup {Zero, Uninit}
InlineIdx == 0..InlineSize-1
HeapIdx   == 0..MaxCap-1
\* bytes per element; offsets and block sizes are counted in these units
ElemBytes == IF ZeroSized THEN 0 ELSE 1
\* the routine that frees a heap block (grow, Drop, move iterator Drop)
FreeRoutine == IF OwnsManaged THEN "local_free" ELSE "deallocate"
\* offsets lo, lo+1, ..., hi-1 in order: the code's range(lo, hi)
Offsets(lo, hi) == [k \in 1..(hi - lo) |-> lo + k - 1]

VARIABLES
  vec,     \* vec[v]: the struct fields len, cap, ptr, data
  heap,    \* heap[a]: heap block a (allocation order), its slots and frees
  it,      \* it[v]: the move iterator borrowing v, or Null
  held,    \* element values owned by the caller
  drops,   \* drops[t]: times the destructor of value t has run
  minted,  \* element values created so far
  origin,  \* origin[t]: the value t was cloned from (itself if pushed new)
  ub,      \* drop glue run on uninitialized bytes (undefined behaviour)
  status   \* "unborn", "live", "iterating", "dropped" (caller's view)

vars == <<vec, heap, it, held, drops, minted, origin, ub, status>>

\* The memory state as one record, so that a call can be written as a
\* composition of the functions it calls.
Sys == [vec |-> vec, heap |-> heap, it |-> it, held |-> held, drops |-> drops,
        minted |-> minted, origin |-> origin, ub |-> ub]

Become(s) ==
  /\ vec' = s.vec /\ heap' = s.heap /\ it' = s.it /\ held' = s.held
  /\ drops' = s.drops /\ minted' = s.minted /\ origin' = s.origin
  /\ ub' = s.ub

-----------------------------------------------------------------------------
(* Storage accessors and pointers                                          *)

NewVec == [len |-> 0, cap |-> InlineSize, ptr |-> Null,
           data |-> [i \in InlineIdx |-> Zero]]

\* the fields of a vector whose storage has gone out of scope
Released == [NewVec EXCEPT !.data = [i \in InlineIdx |-> Uninit]]

Spilled(r) == r.cap > InlineSize

Begin(s, v) == IF Spilled(s.vec[v]) THEN <<"heap", s.vec[v].ptr>>
                                    ELSE <<"inline", v>>

EndOffset(n) == n * ElemBytes

Load(s, loc, i) ==
  IF loc[1] = "inline" THEN s.vec[loc[2]].data[i] ELSE s.heap[loc[2]].slots[i]

Store(s, loc, i, x) ==
  IF loc[1] = "inline" THEN [s EXCEPT !.vec[loc[2]].data[i] = x]
                       ELSE [s EXCEPT !.heap[loc[2]].slots[i] = x]

\* as_slice: slice(0, len) from begin()
AsSlice(s, v) == [k \in 1..s.vec[v].len |-> Load(s, Begin(s, v), k - 1)]

\* SmallVecIterator::next, repeated: the offsets it yields from ptr until
\* ptr = end; each step is ptr.offset(1), or ptr as uint + 1 for a
\* zero-sized T, one offset of this model either way
RECURSIVE Walk(_, _)
Walk(ptr, end) == IF ptr = end THEN <<>> ELSE <<ptr>> \o Walk(ptr + 1, end)

\* what iter() yields: the slots of begin() that the walk to end() visits
IterSeq(s, v) ==
  LET w == Walk(0, EndOffset(s.vec[v].len))
  IN  [k \in DOMAIN w |-> Load(s, Begin(s, v), w[k])]

\* freeing a block; its bytes are no longer anyone's (Uninit)
Deallocate(s, a, n) ==
  [s EXCEPT !.heap[a].frees = @ + 1, !.heap[a].freedSize = n * ElemBytes,
            !.heap[a].freedBy = FreeRoutine,
            !.heap[a].slots = [i \in HeapIdx |-> Uninit]]

\* drop glue on one slot: a value's destructor runs, zeroed bytes are
\* skipped, uninitialized bytes are undefined behaviour
DropSlot(s, x) ==
  CASE x \in Tokens -> [s EXCEPT !.drops[x] = @ + 1]
    [] x = Uninit   -> [s EXCEPT !.ub = @ + 1]
    [] OTHER        -> s

Mint(s, o) ==
  LET t == s.minted + 1 IN
  [s EXCEPT !.minted = t, !.origin[t] = IF o = 0 THEN t ELSE o]

-----------------------------------------------------------------------------
(* The generic algorithm layer                                             *)

\* mutant: the relocation copies one element too few
GrowCopyShort(s, v, n) ==
  LET r     == s.vec[v]
      block == [size |-> n * ElemBytes, allocBy |-> "deallocate",
                frees |-> 0, freedSize |-> 0, freedBy |-> "none",
                slots |-> [i \in HeapIdx |->
                  IF i < r.len - 1 THEN Load(s, Begin(s, v), i) ELSE Uninit]]
      s1    == [s EXCEPT !.heap = Append(@, block)]
      s2    == IF Spilled(r) THEN Deallocate(s1, r.ptr, r.cap)
               ELSE [s1 EXCEPT !.vec[v].data =
                       [i \in InlineIdx |-> IF i < r.len THEN Zero ELSE @[i]]]
  IN [s2 EXCEPT !.vec[v].ptr = Len(s.heap) + 1, !.vec[v].cap = n]

\* mutant: the spill zeroes only the first inline slot it moved
GrowZeroOne(s, v, n) ==
  LET r     == s.vec[v]
      block == [size |-> n * ElemBytes, allocBy |-> "deallocate",
                frees |-> 0, freedSize |-> 0, freedBy |-> "none",
                slots |-> [i \in HeapIdx |->
                  IF i < r.len THEN Load(s, Begin(s, v), i) ELSE Uninit]]
      s1    == [s EXCEPT !.heap = Append(@, block)]
      s2    == IF Spilled(r) THEN Deallocate(s1, r.ptr, r.cap)
               ELSE [s1 EXCEPT !.vec[v].data =
                       [i \in InlineIdx |-> IF i < 1 THEN Zero ELSE @[i]]]
  IN [s2 EXCEPT !.vec[v].ptr = Len(s.heap) + 1, !.vec[v].cap = n]

Grow(s, v, n) ==
  LET r     == s.vec[v]
      from  == Begin(s, v)
      block == [size |-> n * ElemBytes, allocBy |-> "deallocate",
                frees |-> 0, freedSize |-> 0, freedBy |-> "none",
                slots |-> [i \in HeapIdx |->
                             IF i < r.len THEN Load(s, from, i) ELSE Uninit]]
      s1    == [s EXCEPT !.heap = Append(@, block)]
      s2    == IF Spilled(r)
               THEN Deallocate(s1, r.ptr, r.cap)
               ELSE [s1 EXCEPT !.vec[v].data =
                       [i \in InlineIdx |-> IF i < r.len THEN Zero ELSE @[i]]]
  IN [s2 EXCEPT !.vec[v].ptr = Len(s.heap) + 1, !.vec[v].cap = n]

Push(s, v, x) ==
  LET r  == s.vec[v]
      s1 == IF r.len = r.cap THEN Grow(s, v, Max({r.cap * 2, 1})) ELSE s
  IN [Store(s1, Begin(s1, v), r.len, x) EXCEPT !.vec[v].len = r.len + 1]

\* mutant: pop takes the element at begin() instead of at len - 1
PopFirst(s, v, fill) ==
  LET last == s.vec[v].len - 1
      loc  == Begin(s, v)
  IN [Store(s, loc, last, fill) EXCEPT !.vec[v].len = last,
                                       !.held = @ \cup {Load(s, loc, 0)}]

\* fill: the bytes of mem::uninitialized() swapped into the vacated slot
Pop(s, v, fill) ==
  LET last == s.vec[v].len - 1
      loc  == Begin(s, v)
  IN [Store(s, loc, last, fill) EXCEPT !.vec[v].len = last,
                                       !.held = @ \cup {Load(s, loc, last)}]

\* mutant: move_iter resets the capacity to 0 instead of inline_size
MoveIterZeroCap(s, v) ==
  LET r == s.vec[v] IN
  [s EXCEPT !.it[v] = [loc |-> Begin(s, v), ptr |-> 0, end |-> EndOffset(r.len),
                       allocation |-> IF Spilled(r) THEN r.ptr ELSE Null,
                       cap |-> InlineSize],
            !.vec[v].cap = 0, !.vec[v].len = 0]

\* mutant: move_iter does not take over the heap block (ptr_opt = None)
MoveIterNoAlloc(s, v) ==
  LET r == s.vec[v] IN
  [s EXCEPT !.it[v] = [loc |-> Begin(s, v), ptr |-> 0, end |-> EndOffset(r.len),
                       allocation |-> Null, cap |-> InlineSize],
            !.vec[v].cap = InlineSize, !.vec[v].len = 0]

MoveIter(s, v) ==
  LET r == s.vec[v] IN
  [s EXCEPT !.it[v] = [loc |-> Begin(s, v), ptr |-> 0,
                       end |-> EndOffset(r.len),
                       allocation |-> IF Spilled(r) THEN r.ptr ELSE Null,
                       cap |-> InlineSize],
            !.vec[v].cap = InlineSize,
            !.vec[v].len = 0]

\* mutant: next() reads the value out without zeroing the slot
YieldNoZero(s, v) == [s EXCEPT !.it[v].ptr = s.it[v].ptr + 1]

\* the move iterator's next(): read the slot at ptr, zero it, advance
Yield(s, v) ==
  LET i == s.it[v] IN
  [Store(s, i.loc, i.ptr, Zero) EXCEPT !.it[v].ptr = i.ptr + 1]

\* for _ in *self: run the move iterator to its end, dropping each value
DrainDropping(s, v) ==
  FoldLeft(LAMBDA acc, p : DropSlot(Yield(acc, v), Load(acc, acc.it[v].loc, p)),
           s, Walk(s.it[v].ptr, s.it[v].end))

\* for value in other.move_iter() { self.push(value) }
DrainPushing(s, other, self) ==
  FoldLeft(LAMBDA acc, p : Push(Yield(acc, other), self,
                                Load(acc, acc.it[other].loc, p)),
           s, Walk(s.it[other].ptr, s.it[other].end))

DropIter(s, v) ==
  LET i  == s.it[v]
      s1 == DrainDropping(s, v)
      s2 == IF i.allocation = Null THEN s1
            ELSE Deallocate(s1, i.allocation, i.cap)
  IN [s2 EXCEPT !.it[v] = Null]

\* Drop of the variant, then the drop glue of its inline data array
DropVec(s, v) ==
  LET r    == s.vec[v]
      hp   == <<"heap", r.ptr>>
      s1   == IF ~Spilled(r) THEN s
              ELSE Deallocate(
                     FoldLeft(LAMBDA acc, i :
                                Store(DropSlot(acc, Load(acc, hp, i)), hp, i, Uninit),
                              s, Offsets(0, r.len)),
                     r.ptr, r.cap)
      s2   == FoldLeft(LAMBDA acc, i : DropSlot(acc, acc.vec[v].data[i]),
                       s1, Offsets(0, InlineSize))
  IN [s2 EXCEPT !.vec[v] = Released]

\* mutant: clone pushes the source's own values instead of clones
CloneShallow(s, src, dst) ==
  FoldLeft(LAMBDA acc, e : Push(acc, dst, e),
           [s EXCEPT !.vec[dst] = NewVec], IterSeq(s, src))

\* new_vector = $name::new(), then a push of a clone of each of the first
\* n elements that iter() yields
ClonePrefix(s, src, dst, n) ==
  LET Step(acc, e) == Push(Mint(acc, s.origin[e]), dst, acc.minted + 1)
  IN FoldLeft(Step, [s EXCEPT !.vec[dst] = NewVec], SubSeq(IterSeq(s, src), 1, n))

Clone(s, src, dst) == ClonePrefix(s, src, dst, Len(IterSeq(s, src)))

PushAllMove(s, self, other) ==
  LET s1 == DrainPushing(MoveIter(s, other), other, self)
  IN DropVec(DropIter(s1, other), other)

\* *v.get_mut(i) = t, or through mut_slice, the mutable iterator or
\* vec_mut_slice: all address begin().offset(i); the caller's value t
\* moves in and the old element is dropped in place
Assign(s, v, i, t) ==
  LET loc == Begin(s, v)
  IN Store(DropSlot([s EXCEPT !.held = @ \ {t}], Load(s, loc, i)), loc, i, t)

\* mut_slice(0, len).swap(i, j): the two elements trade places
Swap(s, v, i, j) ==
  LET loc == Begin(s, v)
  IN Store(Store(s, loc, i, Load(s, loc, j)), loc, j, Load(s, loc, i))

\* fail! unwinds the task: the move iterators (which borrow their vectors)
\* are dropped first, then the vectors in scope (st), then the values the
\* caller holds
Unwind(s, st) ==
  LET s1 == FoldSet(LAMBDA v, acc : IF acc.it[v] /= Null THEN DropIter(acc, v)
                                                        ELSE acc, s, Vecs)
      s2 == FoldSet(LAMBDA v, acc : IF st[v] \in {"live", "iterating"}
                                    THEN DropVec(acc, v) ELSE acc, s1, Vecs)
  IN [FoldSet(LAMBDA t, acc : DropSlot(acc, t), s2, s2.held) EXCEPT !.held = {}]

-----------------------------------------------------------------------------
(* The caller's steps                                                      *)

InBounds(s) ==
  /\ s.minted <= MaxTokens
  /\ Len(s.heap) <= MaxAllocs
  /\ \A v \in Vecs : s.vec[v].cap <= MaxCap

Apply(s) == InBounds(s) /\ Become(s)

Live(v) == status[v] = "live"

SetStatus(v, st) == status' = [status EXCEPT ![v] = st]

DoNew(v) ==
  /\ status[v] = "unborn"
  /\ Become([Sys EXCEPT !.vec[v] = NewVec])
  /\ SetStatus(v, "live")

DoPushFresh(v) ==
  /\ Live(v) /\ minted < MaxTokens
  /\ Apply(Push(Mint(Sys, 0), v, minted + 1))
  /\ UNCHANGED status

DoPushHeld(v, t) ==
  /\ Live(v) /\ t \in held
  /\ Apply(Push([Sys EXCEPT !.held = @ \ {t}], v, t))
  /\ UNCHANGED status

DoPop(v) ==
  /\ Live(v) /\ vec[v].len > 0
  /\ \E fill \in {Zero, Uninit} : Become(Pop(Sys, v, fill))
  /\ UNCHANGED status

\* grow called directly; the spec requires new_capacity >= length
DoGrow(v, n) ==
  /\ Live(v) /\ n >= vec[v].len
  /\ Apply(Grow(Sys, v, n))
  /\ UNCHANGED status

DoMoveIter(v) ==
  /\ Live(v)
  /\ Become(MoveIter(Sys, v))
  /\ SetStatus(v, "iterating")

DoIterNext(v) ==
  /\ status[v] = "iterating" /\ it[v].ptr /= it[v].end
  /\ Become([Yield(Sys, v) EXCEPT !.held = @ \cup {Load(Sys, it[v].loc, it[v].ptr)}])
  /\ UNCHANGED status

DoDropIter(v) ==
  /\ status[v] = "iterating"
  /\ Become(DropIter(Sys, v))
  /\ SetStatus(v, "live")

DoDropVec(v) ==
  /\ Live(v)
  /\ Become(DropVec(Sys, v))
  /\ SetStatus(v, "dropped")

DoClone(src, dst) ==
  /\ Live(src) /\ status[dst] = "unborn"
  /\ minted + vec[src].len <= MaxTokens
  /\ Apply(Clone(Sys, src, dst))
  /\ SetStatus(dst, "live")

DoPushAllMove(self, other) ==
  /\ self /= other /\ Live(self) /\ Live(other)
  /\ Apply(PushAllMove(Sys, self, other))
  /\ SetStatus(other, "dropped")

DoCallerDrop(t) ==
  /\ t \in held
  /\ Become([DropSlot(Sys, t) EXCEPT !.held = @ \ {t}])
  /\ UNCHANGED status

DoAssign(v, i, t) ==
  /\ Live(v) /\ i < vec[v].len /\ t \in held
  /\ Become(Assign(Sys, v, i, t))
  /\ UNCHANGED status

DoSwap(v, i, j) ==
  /\ Live(v) /\ i < j /\ j < vec[v].len
  /\ Become(Swap(Sys, v, i, j))
  /\ UNCHANGED status

Gone == [v \in Vecs |-> "dropped"]

\* get/get_mut with index >= len (fail_bounds_check), slice/mut_slice
\* with start > end or end > len, or any other fail! of the task while
\* it has vectors (possibly one borrowed by a move iterator): the task ends
DoFail ==
  /\ \E v \in Vecs : status[v] \in {"live", "iterating"}
  /\ Become(Unwind(Sys, status))
  /\ status' = Gone

\* clone: the (n+1)-th element's T::clone panics; the half-built
\* new_vector is a local of clone and is dropped while unwinding
DoClonePanic(src, dst, n) ==
  /\ Live(src) /\ status[dst] = "unborn" /\ n < vec[src].len
  /\ minted + n <= MaxTokens
  /\ Apply(Unwind(ClonePrefix(Sys, src, dst, n), [status EXCEPT ![dst] = "live"]))
  /\ status' = Gone

\* every vector and every value is gone: the program has finished
Finished ==
  /\ \A v \in Vecs : status[v] \in {"unborn", "dropped"}
  /\ held = {}
  /\ UNCHANGED vars

Init ==
  /\ vec = [v \in Vecs |-> NewVec]
  /\ heap = <<>>
  /\ it = [v \in Vecs |-> Null]
  /\ held = {}
  /\ drops = [t \in Tokens |-> 0]
  /\ minted = 0
  /\ origin = [t \in Tokens |-> 0]
  /\ ub = 0
  /\ status = [v \in Vecs |-> "unborn"]

Next ==
  \/ \E v \in Vecs : \/ DoNew(v) \/ DoPushFresh(v) \/ DoPop(v)
                     \/ DoMoveIter(v) \/ DoIterNext(v) \/ DoDropIter(v)
                     \/ DoDropVec(v)
  \/ \E v \in Vecs, n \in GrowArgs : DoGrow(v, n)
  \/ \E v \in Vecs, t \in Tokens : DoPushHeld(v, t)
  \/ \E s, d \in Vecs : DoClone(s, d) \/ DoPushAllMove(s, d)
  \/ \E t \in Tokens : DoCallerDrop(t)
  \/ \E v \in Vecs, i, j \in 0..MaxCap-1 : DoSwap(v, i, j)
  \/ \E v \in Vecs, i \in 0..MaxCap-1, t \in Tokens : DoAssign(v, i, t)
  \/ DoFail
  \/ \E s, d \in Vecs, n \in 0..MaxTokens-1 : DoClonePanic(s, d, n)
  \/ Finished

Spec == Init /\ [][Next]_vars

-----------------------------------------------------------------------------
(* Properties                                                              *)

TypeOK ==
  /\ vec \in [Vecs -> [len : 0..MaxCap, cap : 1..MaxCap, ptr : Nat \cup {Null},
                       data : [InlineIdx -> Slots]]]
  /\ \A a \in DOMAIN heap :
       heap[a] \in [size : 0..MaxCap, allocBy : {"deallocate"},
                    frees : Nat, freedSize : Nat,
                    freedBy : {"none", "deallocate", "local_free"},
                    slots : [HeapIdx -> Slots]]
  /\ Len(heap) <= MaxAllocs
  /\ \A v \in Vecs : it[v] = Null \/ it[v].ptr <= it[v].end
  /\ held \subseteq Tokens
  /\ drops \in [Tokens -> Nat] /\ minted \in 0..MaxTokens
  /\ status \in [Vecs -> {"unborn", "live", "iterating", "dropped"}]

\* the places that own value t: a slot in [0, len) of a vector's active
\* storage, a slot a move iterator has still to yield, or the caller
Owners(t) ==
  LET InVec  == {<<v, k>> \in Vecs \X (1..MaxCap) :
                   /\ status[v] \in {"live", "iterating"}
                   /\ k <= vec[v].len /\ AsSlice(Sys, v)[k] = t}
      InIter == {<<v, p>> \in Vecs \X HeapIdx :
                   /\ status[v] = "iterating" /\ it[v].ptr <= p /\ p < it[v].end
                   /\ Load(Sys, it[v].loc, p) = t}
  IN Cardinality(InVec) + Cardinality(InIter) + (IF t \in held THEN 1 ELSE 0)

(* Every element value ever created is, at every moment, either owned by  *)
(* exactly one place and not yet destroyed, or destroyed exactly once and *)
(* owned by nobody.  It is what grow's relocation, move_iter's detaching  *)
(* of the source, the iterator's zeroing of yielded slots and the two     *)
(* Drop impls (with the inline array's drop glue) must together achieve: *)
(* no leak, no double drop, no value in two vectors.                      *)
OwnedOnce ==
  \A t \in 1..minted :
    \/ drops[t] = 0 /\ Owners(t) = 1
    \/ drops[t] = 1 /\ Owners(t) = 0

\* the vectors and iterators that own heap block a
BlockOwners(a) ==
  Cardinality({v \in Vecs : /\ status[v] \in {"live", "iterating"}
                            /\ Spilled(vec[v]) /\ vec[v].ptr = a})
  + Cardinality({v \in Vecs : status[v] = "iterating" /\ it[v].allocation = a})

(* Every heap block is owned by exactly one spilled vector or move        *)
(* iterator while it is allocated, and is freed exactly once, when its    *)
(* owner gives it up (grow moving to a bigger block, Drop, the move       *)
(* iterator's Drop): no leaked block, no double free, no use after free.  *)
HeapOwnedOnce ==
  \A a \in 1..Len(heap) :
    \/ heap[a].frees = 0 /\ BlockOwners(a) = 1
    \/ heap[a].frees = 1 /\ BlockOwners(a) = 0

(* A heap block is released with the size it was allocated with          *)
(* (heap::deallocate takes the byte size of the allocation).             *)
FreedWithAllocatedSize ==
  \A a \in 1..Len(heap) : heap[a].frees > 0 => heap[a].freedSize = heap[a].size

(* A heap block is released by the allocator that allocated it: grow     *)
(* always allocates with heap::allocate.                                  *)
FreedByItsAllocator ==
  \A a \in 1..Len(heap) : heap[a].frees > 0 => heap[a].freedBy = heap[a].allocBy

(* Drop glue never runs on bytes that were never initialized: the inline  *)
(* array's glue drops every slot, so every slot not holding a live value  *)
(* must hold zeroed bytes.                                                *)
NoUninitDrop == ub = 0

(* The vector refines the abstract vector of VecSpec: its as_slice view   *)
(* is the abstract contents, what its move iterator has still to yield is *)
(* the abstract drain, and a value is dropped when its destructor has run.*)
AbsContents == [v \in Vecs |-> IF status[v] \in {"live", "iterating"}
                               THEN AsSlice(Sys, v) ELSE <<>>]
AbsDrain == [v \in Vecs |-> IF it[v] = Null THEN <<>>
               ELSE [k \in 1..(it[v].end - it[v].ptr) |->
                       Load(Sys, it[v].loc, it[v].ptr + k - 1)]]
Abs == INSTANCE VecSpec WITH contents <- AbsContents, drain <- AbsDrain,
                             dropped <- {t \in Tokens : drops[t] > 0}
Refines == Abs!ASpec

=============================================================================
