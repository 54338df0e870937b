---------------------------- MODULE FontContext ----------------------------
(***************************************************************************)
(* The FreeType font context of gfx/platform/linux/font_context.rs.        *)
(*                                                                         *)
(* FontContextHandle::new mallocs an FT_MemoryRec, fills it in with the    *)
(* ft_alloc/ft_free/ft_realloc callbacks, creates a library with          *)
(* FT_New_Library (fail! if that does not succeed), adds the default      *)
(* modules and wraps the library in an Rc<FreeTypeLibraryHandle>.  Clones *)
(* of the FontContextHandle share the Rc; the Drop of the                  *)
(* FreeTypeLibraryHandle, run when the last strong reference goes, calls   *)
(* FT_Done_FreeType, which discards the library and then its memory       *)
(* record (FreeType's FT_Done_Memory frees the record with free()).        *)
(*                                                                         *)
(* FreeTypeLibraryHandle itself derives Clone and has a public ctx field, *)
(* so a caller can also copy the handle out of the Rc, h.ctx.deref().clone(). *)
(* Each copy owns the raw library pointer and calls FT_Done_FreeType when *)
(* dropped.  Next is the API through FontContextHandle only;               *)
(* NextWithLibClone adds those copies and the library's use by            *)
(* create_font_from_identifier.                                            *)
(*                                                                         *)
(* A fail! unwinds the task: every handle the task owns is dropped on the *)
(* way out, and the task runs nothing more.                                *)
(***************************************************************************)
EXTENDS Naturals

CONSTANTS
  Ctxs,     \* the FontContextHandle::new calls of the task
  MaxRefs   \* bound on the strong count of an Rc and on library copies

ASSUME MaxRefs >= 2

VARIABLES
  task,     \* "running"; "failed" once a fail! has unwound it; "crashed"
            \* once a write through a null pointer has killed it
  rec,      \* rec[c]: c's FT_MemoryRec: "none", "malloced", "freed", or
            \* "null" when malloc returned null and new wrote through it
  lib,      \* lib[c]: c's FT_Library: "none", "live" or "done"
  strong,   \* strong[c]: strong count of c's Rc = FontContextHandles of c
  copies,   \* copies[c]: FreeTypeLibraryHandles of c outside the Rc box
  dones,    \* dones[c]: FT_Done_FreeType calls made on c's library
  uaf       \* the library of some context was used after FT_Done_FreeType

vars == <<task, rec, lib, strong, copies, dones, uaf>>

Sys == [task |-> task, rec |-> rec, lib |-> lib, strong |-> strong,
        copies |-> copies, dones |-> dones, uaf |-> uaf]

Become(s) ==
  /\ task' = s.task /\ rec' = s.rec /\ lib' = s.lib /\ strong' = s.strong
  /\ copies' = s.copies /\ dones' = s.dones /\ uaf' = s.uaf

-----------------------------------------------------------------------------
(* The code                                                                *)

\* what libc::malloc returns, and so what ft_alloc, which passes its size
\* straight to malloc, hands FreeType: a block, or null when memory is
\* exhausted
Malloc == {"block", "null"}

\* Drop for FreeTypeLibraryHandle: assert!(ctx.is_not_null()), which holds
\* for every handle (new fails before it builds one with a null ctx), then
\* FT_Done_FreeType, which discards the library and its memory record
DropLibHandle(s, c) ==
  [s EXCEPT !.lib[c] = "done", !.rec[c] = "freed", !.dones[c] = @ + 1]

\* Rc's Drop: the handle inside the box is dropped with the last strong ref
DropRc(s, c) ==
  LET t == [s EXCEPT !.strong[c] = @ - 1]
  IN  IF t.strong[c] = 0 THEN DropLibHandle(t, c) ELSE t

\* fail! unwinds: every FontContextHandle and library copy the task owns
\* is dropped, each copy calling FT_Done_FreeType and each Rc dropping its
\* box once; what was never wrapped in a handle is not dropped
Unwind(s) ==
  LET owned(c) == s.strong[c] + s.copies[c] > 0
      calls(c) == s.copies[c] + (IF s.strong[c] > 0 THEN 1 ELSE 0)
  IN  [s EXCEPT
         !.task   = "failed",
         !.strong = [c \in Ctxs |-> 0],
         !.copies = [c \in Ctxs |-> 0],
         !.lib    = [c \in Ctxs |-> IF owned(c) THEN "done" ELSE s.lib[c]],
         !.rec    = [c \in Ctxs |-> IF owned(c) THEN "freed" ELSE s.rec[c]],
         !.dones  = [c \in Ctxs |-> s.dones[c] + calls(c)]]

\* FontContextHandle::new: malloc the memory record (r) and write it with
\* mem::overwrite, unchecked: through a null r the write faults and the
\* task dies on the spot, running no destructor.  Then FT_New_Library,
\* whose first act is to ft_alloc the library object (l): on null it
\* fails and new fail!s with the record still allocated; otherwise
\* FT_Add_Default_Modules and Rc::new (strong count 1)
New(s, c, r, l) ==
  LET t == [s EXCEPT !.rec[c] = "malloced"]
  IN  CASE r = "null" -> [s EXCEPT !.rec[c] = "null", !.task = "crashed"]
        [] l = "null" -> Unwind(t)
        [] OTHER      -> [t EXCEPT !.lib[c] = "live", !.strong[c] = 1]

\* create_font_from_identifier: when path_from_identifier finds a file,
\* FontHandle::new_from_file opens a face on self's library
CreateFont(s, c) == [s EXCEPT !.uaf = @ \/ s.lib[c] = "done"]

-----------------------------------------------------------------------------
(* The caller's steps                                                      *)

Running == task = "running"

DoNew(c) ==
  /\ Running /\ rec[c] = "none"
  /\ \E r, l \in Malloc : Become(New(Sys, c, r, l))

\* FontContextHandle's derived Clone clones the Rc
DoCloneHandle(c) ==
  /\ Running /\ strong[c] \in 1..MaxRefs-1
  /\ strong' = [strong EXCEPT ![c] = @ + 1]
  /\ UNCHANGED <<task, rec, lib, copies, dones, uaf>>

DoDropHandle(c) ==
  /\ Running /\ strong[c] > 0
  /\ Become(DropRc(Sys, c))

\* FreeTypeLibraryHandle's derived Clone, through the Rc: h.ctx.deref().clone()
DoCloneLib(c) ==
  /\ Running /\ strong[c] > 0 /\ copies[c] < MaxRefs
  /\ copies' = [copies EXCEPT ![c] = @ + 1]
  /\ UNCHANGED <<task, rec, lib, strong, dones, uaf>>

DoDropLib(c) ==
  /\ Running /\ copies[c] > 0
  /\ Become(DropLibHandle([Sys EXCEPT !.copies[c] = @ - 1], c))

DoCreateFont(c) ==
  /\ Running /\ strong[c] > 0
  /\ Become(CreateFont(Sys, c))

\* the task failed or crashed, or every context was made and let go:
\* nothing is left to do and the program may stop here
Ended ==
  \/ task /= "running"
  \/ \A c \in Ctxs : rec[c] /= "none" /\ strong[c] + copies[c] = 0

Finished == Ended /\ UNCHANGED vars

Init ==
  /\ task = "running"
  /\ rec = [c \in Ctxs |-> "none"]
  /\ lib = [c \in Ctxs |-> "none"]
  /\ strong = [c \in Ctxs |-> 0]
  /\ copies = [c \in Ctxs |-> 0]
  /\ dones = [c \in Ctxs |-> 0]
  /\ uaf = FALSE

Next ==
  \/ \E c \in Ctxs : DoNew(c) \/ DoCloneHandle(c) \/ DoDropHandle(c)
  \/ Finished

NextWithLibClone ==
  \/ Next
  \/ \E c \in Ctxs : DoCloneLib(c) \/ DoDropLib(c) \/ DoCreateFont(c)

Spec == Init /\ [][Next]_vars

SpecWithLibClone == Init /\ [][NextWithLibClone]_vars

-----------------------------------------------------------------------------
(* Properties                                                              *)

TypeOK ==
  /\ task \in {"running", "failed", "crashed"}
  /\ rec \in [Ctxs -> {"none", "malloced", "freed", "null"}]
  /\ lib \in [Ctxs -> {"none", "live", "done"}]
  /\ strong \in [Ctxs -> 0..MaxRefs]
  /\ copies \in [Ctxs -> 0..MaxRefs]
  /\ dones \in [Ctxs -> Nat]
  /\ uaf \in BOOLEAN

\* create_font_from_identifier on a live FontContextHandle never reaches a
\* library that FT_Done_FreeType has already discarded
NoUseAfterDone == ~uaf

\* FontContextHandle::new: once the task has ended without dying, no
\* memory record malloc'd by new is still allocated (a crash ends the
\* process, and its memory with it)
NoRecordLeak ==
  (Ended /\ task /= "crashed") => \A c \in Ctxs : rec[c] /= "malloced"

\* FontContextHandle::new never writes its memory record through the null
\* pointer malloc returns when memory is exhausted
NoNullRecordWrite == \A c \in Ctxs : rec[c] /= "null"

=============================================================================
