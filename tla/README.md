# TLA+ models of servo's small vectors (and their neighbours)

This directory holds TLA+ models of the code under `src/`, and the TLC configurations that check them.

## 1. Inventory

The sample has three source files:

| Component | Source | State it keeps | Operations |
|---|---|---|---|
| Storage accessors (`SmallVecPrivate`, `def_small_vector!`) | `util/smallvec.rs` 49-57, 343-421 | `len`, `cap`, `ptr`, `data: [T, ..$size]` | `set_len`, `set_cap`, `data`, `mut_data`, `ptr`, `set_ptr`, `new` |
| Generic algorithm layer (trait `SmallVec`) | `smallvec.rs` 59-245 | the accessors' state; a heap block once spilled | `spilled`, `begin`, `end`, `iter`, `mut_iter`, `move_iter`, `push`, `push_all_move`, `pop`, `grow`, `get`, `get_mut`, `slice`, `as_slice`, `mut_slice` |
| Iterators | `smallvec.rs` 247-339 | `ptr`, `end`; the move iterator also has `allocation` and `cap` | `next`; the move iterator's `Drop` |
| Size variants with `Drop` and `Clone` | `smallvec.rs` 423-487 | (as above) | drop, clone |
| `VecLike` | `smallvec.rs` 19-47, 390-405 | - | `vec_len`, `vec_push`, `vec_mut_slice` for `Vec<T>` and the small vectors |
| FreeType font context | `gfx/platform/linux/font_context.rs` | a malloc'd `FT_MemoryRec`, an `Rc<FreeTypeLibraryHandle>` | `new`, clone, drop (`FT_Done_FreeType`), `create_font_from_identifier` |
| `CustomEvent` | `script/dom/customevent.rs` | a `Cell` holding `detail`, the inner `Event` | `new`, `Constructor`, `Detail`, `InitCustomEvent` |

**How the small-vector parts interact.** The callers of a concrete variant (`SmallVec1` … `SmallVec32`) only use the trait methods. Each trait method reads and writes the struct through the accessors. The accessors take the active storage from `spilled()`, which compares `cap` with the inline size.

Raw pointers connect the parts:

- `begin()` selects the inline array or the heap block.
- `end()` is `begin().offset(len)`.
- The iterators walk from `begin()` to `end()`.
- The move iterator takes over the heap block and leaves the source inline and empty.

**Destruction happens in two stages.** The variant's `Drop` runs first: if the vector is spilled, it drops the heap elements and frees the block. Then the compiler's drop glue drops every slot of the inline `data` array.

The code relies on old Rust's zeroing drop: a zeroed value counts as already dropped. This is why `new` zero-fills `data`, `grow` zeroes the inline slots it moved, and the move iterator zeroes every slot it yields.

**What makes the code hard.** The container is single-threaded and has no await points, so there are no interleavings. What is hard is ownership through long sequences of legal calls:

- relocation at the spill boundary (`len == cap`);
- heap-to-heap regrowth;
- detaching the source at `move_iter`;
- a move iterator that is dropped part-way through;
- the two-stage destruction;
- the bytes that `pop` leaves behind;
- zero-sized element types, where `offset` does not move;
- which allocator frees a block.

**Correctness properties.**

- Every element value is owned by exactly one place until it is dropped, and is dropped exactly once (`OwnedOnce`).
- Every heap block has exactly one owner while allocated, and is freed exactly once (`HeapOwnedOnce`).
- A block is freed with its allocated size (`FreedWithAllocatedSize`) and by the allocator that allocated it (`FreedByItsAllocator`).
- Drop glue never runs on uninitialized bytes (`NoUninitDrop`).
- Seen through `as_slice` and through what the iterator still has to yield, the container behaves as an ordinary vector (`Refines`, against `VecSpec`). This covers LIFO `pop`, growth that callers cannot observe, deep `clone`, and drain order.

**The font context** shares the library handle through `Rc`. `FT_Done_FreeType` must run exactly once, when the last owner is dropped; it also frees the memory record (FreeType's `FT_Done_Memory`). If `FT_New_Library` fails, `new` calls `fail!`, and the task unwinds, dropping every handle it owns.

**`CustomEvent`** stores `detail` and then calls `Event::InitEvent`, whose code is not in this sample. The DOM Standard says `initEvent` does nothing while the event is being dispatched. So the order of the two writes decides whether `detail` and the event's type can disagree.

## 2. Modules

| Module | Models |
|---|---|
| `VecSpec` | The abstract vector: sequences of owned values, a drain sequence per move iterator, and the values held by the caller. It is what `VecLike` on `Vec<T>` promises. It also has in-place assignment, swap, and a panic that drops everything the task owns. |
| `SmallVec` | `smallvec.rs`: the variant's struct fields (`vec`), the heap blocks (`heap`, in allocation order), the move iterators (`it`), and the destructor runs per value (`drops`). |
| `MC_SmallVec` | The TLC instance: the `GrowArgs` sets, the symmetry set, and the VIEW. |
| `FontContext` | `font_context.rs`: per `FontContextHandle::new` call, the memory record, the library, the `Rc` strong count, the library handles copied out of the `Rc`, and the `FT_Done_FreeType` calls. |
| `MC_FontContext` | The TLC instance (contexts are model values). |
| `CustomEvent` | `customevent.rs`: per event, the `detail` cell and the `Event` fields. `Event` is modelled from the DOM Standard. A ghost variable `evDetail` records the detail argument of the initialization that `InitEvent` accepted. |
| `MC_CustomEvent` | The TLC instance (the event types are strings). |

### How `SmallVec` corresponds to the code

- **Memory.** A slot holds one of three things: a token (an element value), `Zero` (zeroed bytes), or `Uninit` (bytes from `mem::uninitialized()` or fresh heap memory).
- **Pointers.** A pointer is a location (`<<"inline", v>>` or `<<"heap", a>>`) plus an offset. `offset(n)` moves `n * ElemBytes` elements, so it does not move when `ZeroSized`. For zero-sized `T` the model keeps each value's identity at its logical index, because no bytes move. Only `end()`, which is computed by pointer arithmetic, depends on `ElemBytes`.
- **Atomic calls.** Each public call is a single step, composed of the functions the call makes. For example, `PushAllMove` is `DropVec(DropIter(DrainPushing(MoveIter(..))))`. The loops inside a call (in `clone`, `push_all_move`, and the iterator's `Drop`) are `FoldLeft`s, because a call runs to completion and nothing can observe it halfway through.
- **Drop.** `DropVec` is the variant's `Drop` followed by the drop glue of `data`. Glue on a token runs its destructor, glue on `Zero` does nothing, and glue on `Uninit` counts as undefined behaviour (`ub`).
- **`pop`.** The content of a vacated slot is chosen nondeterministically from `{Zero, Uninit}`, because reading uninitialized memory is undefined.
- **Iterators.** `Walk(ptr, end)` is `SmallVecIterator::next` called until it returns `None`: the offsets it yields, each step `offset(1)` (or one byte for a zero-sized `T`), until `ptr == end`. `iter()` (`IterSeq`, used by `clone`), the move iterator's drain in its `Drop` and `push_all_move` all follow it. The move iterator's `next` (`Yield`) is one step of it that also zeroes the slot.
- **Deallocation.** A freed block records the size and routine it was freed with. Its slots become `Uninit`.
- **The caller's steps.** These are `DoNew`, `DoPushFresh` (a new value) and `DoPushHeld` (re-push a value the caller holds), `DoPop`, `DoGrow` (a direct call; the spec's precondition `n >= len` is the guard), `DoMoveIter`, `DoIterNext`, `DoDropIter`, `DoDropVec`, `DoClone`, `DoPushAllMove`, and `DoCallerDrop`.
- **Writes through `&mut`.** `get_mut(i)`, `mut_slice`, the mutable iterator and `vec_mut_slice` all address `begin().offset(i)`. `DoAssign` models `*r = t`: the caller's value moves in and the old element is dropped in place. `DoSwap` models a swap of two elements of a mutable slice.
- **Panics.** `DoFail` models `fail_bounds_check`, a failed `slice`/`mut_slice` assert, or any other `fail!` of the task. `DoClonePanic` models an element's `T::clone` panicking after `n` clones. Both unwind (`Unwind`): live move iterators are dropped first (they borrow their vectors), then the vectors in scope (including `clone`'s half-built `new_vector`), then the values the caller holds. Nothing runs after that.
- **Borrowing** is a status per vector: a vector borrowed by a move iterator accepts no other call.
- **Termination.** `Finished` is the state where every vector is gone and the caller holds no value. A program may stop there, so the model stutters in that state instead of deadlocking. Deadlock is checked everywhere else.

### How `FontContext` corresponds to the code

- `New` is `FontContextHandle::new`. `Malloc` is what `libc::malloc` returns, and so what `ft_alloc` returns: a block or null. Each `new` makes two such choices:
  - The record's `malloc` may return null. The unchecked `mem::overwrite` then writes through null, the task dies at once (`task = "crashed"`) and no destructor runs.
  - Otherwise the record is malloc'd and `FT_New_Library` calls `ft_alloc` for the library object. If that returns null, `FT_New_Library` fails (`fail!`, then `Unwind`). If it returns a block, the library is live and the `Rc` has strong count 1.
- `DoCloneHandle` and `DoDropHandle` are the derived `Clone` of `FontContextHandle` and `Rc`'s `Drop`. `DropRc` drops the box (`DropLibHandle`: the ctx assert, then `FT_Done_FreeType`) when the count reaches 0.
- `DoCloneLib` and `DoDropLib` are the derived `Clone` of `FreeTypeLibraryHandle`, reached as `h.ctx.deref().clone()`, and the Drop of that copy. `DoCreateFont` is `create_font_from_identifier` opening a face on the library.
- These three are only in `NextWithLibClone`. `Next` is the API through `FontContextHandle` alone.
- The FreeType library is an external collaborator. Only its observable contract is modelled: `FT_Done_FreeType` discards the library and its memory record. `ft_alloc` appears only as the outcome of the library allocation in `FT_New_Library`. `ft_free` and `ft_realloc` act on FreeType's own blocks and are not modelled.

### How `CustomEvent` corresponds to the code

- `NewInherited` is `new_inherited`. `DoNewUninitialized` and `DoNew` are `new_uninitialized` and `new` (`Constructor` calls `new`).
- `InitCustomEvent` writes `detail` and then calls `InitEvent`. `DoInitCustomEvent` is script calling it at any time, including from a listener while the event is dispatched (`DoDispatch` … `DoDispatchEnd`).
- `Detail`, `is_customevent` and `reflector` only read.

### Runs

| Run | cfg | Expect | What it shows |
|---|---|---|---|
| single | `MC_SmallVec_single.cfg` | pass | One `SmallVec1`, 4 values, capacity ≤ 4, ≤ 3 blocks, direct `grow` to 2, 3 or 4. Covers inline, spilled and regrown states, partial and full draining, writes through `&mut`, panics while iterating, and every drop order. Checks `TypeOK`, `OwnedOnce`, `HeapOwnedOnce` and `Refines`. |
| pair | `MC_SmallVec_pair.cfg` | pass | Two vectors (symmetric), 4 values, ≤ 2 blocks, no direct grow. Adds `clone` (the destination spills), a `clone` that panics part-way, and `push_all_move` from an inline or spilled source. Checks the same four properties. A VIEW (`MCPairView`) identifies zeroed and uninitialized bytes, which none of these properties tells apart (only `NoUninitDrop` does). |
| inline2 | `MC_SmallVec_inline2.cfg` | pass | One `SmallVec2`, 5 values, capacity ≤ 8: the spec's scenario of a spill on the third push and regrowth 4 → 8 on the fifth, with two inline slots to move, zero and drop. Checks the same four properties. |
| iter_free_size | `…_iterfree.cfg` | violation | Push 2 values, `move_iter`, drop the iterator: the block of capacity 2 is freed with size 1. |
| managed_free | `…_managed.cfg` | violation | `OwnsManaged`: the first heap-to-heap grow frees a `heap::allocate` block with `local_free`. |
| pop_uninit | `…_popuninit.cfg` | violation | Push, pop, drop: the inline glue drops the uninitialized bytes that `pop` left behind. |
| grow_inline | `…_growinline.cfg` | violation | `grow(1)` on a `SmallVec1` holding one value loses that value. |
| zst_iter | `…_zst.cfg` | violation | Zero-sized `T`: `move_iter` yields nothing, so the vector no longer implements `VecSpec`. |
| fontctx_libclone | `MC_FontContext_libclone.cfg` | violation | `new`, copy the library handle out of the `Rc`, drop the copy, `create_font_from_identifier`: the font is opened on a discarded library. |
| fontctx_leak | `MC_FontContext_leak.cfg` | violation | `NoRecordLeak`: `new` whose `FT_New_Library` fails (`ft_alloc` returns null) `fail!`s, and the task ends with the memory record still allocated. A crash is not counted: it ends the process. |
| fontctx_nullwrite | `MC_FontContext_nullwrite.cfg` | violation | `NoNullRecordWrite`: `new` whose `malloc` returns null writes the record through the null pointer, and the task dies at once. |
| customevent_dispatch | `MC_CustomEvent_dispatch.cfg` | violation | `new`, dispatch, `initCustomEvent` from a listener: `detail` changes, but the type and flags stay from the first initialization. |

**Bounds.** `InlineSize = 1` puts both growth kinds within 4 values: the spill (1 → 2) and the heap regrowth (2 → 4). `inline2` repeats them with two inline slots; this is the smallest size at which the spill's zeroing of the *moved* slots can differ from zeroing *one* slot. Every property is about relocation and ownership, which these transitions exercise. The font context has only violation runs: each defect shows within three contexts and three handles. It has no passing run. What a passing run could check there (one `FT_Done_FreeType` per library, by its last `FontContextHandle`) follows from `Rc` alone, not from code in this repository, so it is not checked. `FontContext`'s `TypeOK` is kept as documentation of its variables; no run checks it.

**Mutants.** Each property of the passing runs is broken by a plausible bug in the code it covers:

- `Grow` copies one element too few: breaks `OwnedOnce` (single).
- The spill zeroes only the first inline slot: breaks `OwnedOnce` (inline2; `InlineSize = 1` cannot see it).
- `Pop` reads `begin()` instead of the last slot: breaks `Refines`.
- `MoveIter` resets `cap` to 0: breaks `TypeOK`.
- `MoveIter` does not take over the block: breaks `HeapOwnedOnce` (single, pair, inline2).
- The move iterator's `next` does not zero the slot: breaks `OwnedOnce` (pair).
- `Clone` pushes the source's own values: breaks `Refines` (pair).

**Fairness.** None is assumed. Every step is a call that the caller (or script) chooses to make, and nothing in the code must eventually happen: a handle may be held forever, and an event need not be dispatched. The loops (the iterator's `Drop`, `clone`, unwinding) terminate inside their step. For this reason there is no liveness property: what the code promises at the end (each library and each value released) is an invariant over the state after the last drop.

## 3. Findings

1. **Wrong free size in the move iterator** (smallvec.rs:117, 332). `move_iter` stores `cap: inline_size`, and the iterator's `Drop` frees the captured block with that size, not with the block's capacity.
2. **Mismatched allocator for managed types** (smallvec.rs:171, 329, 447). Blocks are allocated with `heap::allocate` but freed with `local_heap::local_free` when `owns_managed::<T>()`.
3. **Drop glue on uninitialized bytes** (smallvec.rs:149-157). `pop` leaves `mem::uninitialized()` bytes in an inline slot, and dropping the vector runs the drop glue on them.
4. **Spec gap in `grow`** (smallvec.rs:184). `grow(n)` with `len <= n <= inline_size` is allowed by the spec's stated precondition, but the moved elements become unreachable and their block leaks.
5. **Zero-sized element types** (smallvec.rs:80). `end()` uses `offset`, which does not move for a zero-sized `T`. So `iter`, `clone` and `move_iter` see no elements, and the move iterator leaks them.

6. **The library handle can be copied out of the `Rc`** (font_context.rs:45). `FreeTypeLibraryHandle` derives `Clone` and its `ctx` is public. Each copy calls `FT_Done_FreeType` when dropped, so dropping a copy discards the library while the `FontContextHandle` still uses it, and the last handle's drop discards it again.
7. **Memory record leaked when `FT_New_Library` fails** (font_context.rs:78). `new` fails without freeing the record it malloc'd at line 66.
8. **`initCustomEvent` during dispatch** (customevent.rs:74). `detail` is set before and regardless of the dispatch flag. The DOM Standard's `initCustomEvent` returns when that flag is set, and `InitEvent` then ignores the call, so `detail` and the event's type come from different initializations.
9. **`malloc`'s result is not checked** (font_context.rs:67). A null record pointer is transmuted to `&mut` and written through, so the task faults instead of failing. This is the trace of `fontctx_nullwrite`.

The spec also says that a vector never un-spills, but `move_iter` resets the source to inline storage. The spec's own section 4.3 describes that reset, so the code follows the spec here; it is not a finding.

## 4. Not modelled

- The FreeType C library (only `FT_Done_FreeType`'s contract is modelled), the `ft_free`/`ft_realloc` callbacks it calls on its own blocks (and `ft_alloc` beyond the library allocation), and `path_from_identifier` are external.
- `Event` is not in this sample. Its `InitEvent` and dispatch are modelled from the DOM Standard and are not mapped to code.
- The JS reflector and binding code (`reflect_dom_object`, `Wrap`) are generated.
- Formatting of the `fail!` messages.
- A panic inside `push_all_move`: it would need a failing allocation, which aborts rather than unwinds.
- A panicking destructor (a double panic aborts the task).
- A direct `grow(n)` with `n < len` (smallvec.rs:167). The code copies `len` elements into a block of `n` slots. The spec makes `n >= len` the caller's obligation, and `DoGrow` keeps that as its guard.
- The zero-byte `heap::allocate` request for a zero-sized `T` (smallvec.rs:165). The allocator's contract on it is outside the code.
