------------------------------ MODULE VecSpec -------------------------------
(***************************************************************************)
(* What a small vector promises its caller, with no storage at all: each  *)
(* vector is a sequence of owned element values, a draining (move)        *)
(* iterator owns the sequence it has still to yield, and every value is   *)
(* owned by exactly one vector, iterator or the caller until it is        *)
(* dropped.  This is the behaviour of an ordinary growable vector, the    *)
(* other implementation of VecLike (smallvec.rs 32-47).                   *)
(*                                                                         *)
(* Values are numbered in the order they are created; origin[t] is the    *)
(* value t was cloned from (t itself for a value the caller made).        *)
(***************************************************************************)
EXTENDS Naturals, Sequences, SequencesExt

CONSTANTS
  Vecs,       \* the vector objects
  MaxTokens   \* number of element values that may be created

Tokens == 1..MaxTokens

VARIABLES
  status,    \* "unborn", "live", "iterating" (borrowed by move_iter), "dropped"
  contents,  \* contents[v]: the elements of v, in order
  drain,     \* drain[v]: what v's move iterator has still to yield
  held,      \* values owned by the caller (popped, yielded)
  dropped,   \* values whose destructor has run
  minted,    \* number of values created so far
  origin     \* origin[t]: the value t is a clone of

avars == <<status, contents, drain, held, dropped, minted, origin>>

AInit ==
  /\ status   = [v \in Vecs |-> "unborn"]
  /\ contents = [v \in Vecs |-> <<>>]
  /\ drain    = [v \in Vecs |-> <<>>]
  /\ held     = {}
  /\ dropped  = {}
  /\ minted   = 0
  /\ origin   = [t \in Tokens |-> 0]

ANew(v) ==
  /\ status[v] = "unborn"
  /\ status' = [status EXCEPT ![v] = "live"]
  /\ UNCHANGED <<contents, drain, held, dropped, minted, origin>>

\* push of a value the caller creates now, or of one it holds
APushFresh(v) ==
  LET t == minted + 1 IN
  /\ status[v] = "live" /\ t \in Tokens
  /\ contents' = [contents EXCEPT ![v] = Append(@, t)]
  /\ minted' = t
  /\ origin' = [origin EXCEPT ![t] = t]
  /\ UNCHANGED <<status, drain, held, dropped>>

APushHeld(v, t) ==
  /\ status[v] = "live" /\ t \in held
  /\ contents' = [contents EXCEPT ![v] = Append(@, t)]
  /\ held' = held \ {t}
  /\ UNCHANGED <<status, drain, dropped, minted, origin>>

APop(v) ==
  /\ status[v] = "live" /\ contents[v] /= <<>>
  /\ contents' = [contents EXCEPT ![v] = Front(@)]
  /\ held' = held \cup {Last(contents[v])}
  /\ UNCHANGED <<status, drain, dropped, minted, origin>>

\* the source gives up all its elements to the iterator at once
AMoveIter(v) ==
  /\ status[v] = "live"
  /\ status' = [status EXCEPT ![v] = "iterating"]
  /\ drain' = [drain EXCEPT ![v] = contents[v]]
  /\ contents' = [contents EXCEPT ![v] = <<>>]
  /\ UNCHANGED <<held, dropped, minted, origin>>

AIterNext(v) ==
  /\ status[v] = "iterating" /\ drain[v] /= <<>>
  /\ drain' = [drain EXCEPT ![v] = Tail(@)]
  /\ held' = held \cup {Head(drain[v])}
  /\ UNCHANGED <<status, contents, dropped, minted, origin>>

\* dropping the iterator drops what it has not yielded
ADropIter(v) ==
  /\ status[v] = "iterating"
  /\ status' = [status EXCEPT ![v] = "live"]
  /\ dropped' = dropped \cup Range(drain[v])
  /\ drain' = [drain EXCEPT ![v] = <<>>]
  /\ UNCHANGED <<contents, held, minted, origin>>

ADropVec(v) ==
  /\ status[v] = "live"
  /\ status' = [status EXCEPT ![v] = "dropped"]
  /\ dropped' = dropped \cup Range(contents[v])
  /\ contents' = [contents EXCEPT ![v] = <<>>]
  /\ UNCHANGED <<drain, held, minted, origin>>

\* a clone holds new values, each a clone of the source's element
AClone(src, dst) ==
  LET n == Len(contents[src]) IN
  /\ status[src] = "live" /\ status[dst] = "unborn"
  /\ minted + n \in 0..MaxTokens
  /\ status' = [status EXCEPT ![dst] = "live"]
  /\ contents' = [contents EXCEPT ![dst] = [k \in 1..n |-> minted + k]]
  /\ origin' = [t \in Tokens |->
                  IF t \in minted+1..minted+n
                  THEN origin[contents[src][t - minted]] ELSE origin[t]]
  /\ minted' = minted + n
  /\ UNCHANGED <<drain, held, dropped>>

\* self takes other's elements, in order; other is consumed
APushAllMove(self, other) ==
  /\ self /= other
  /\ status[self] = "live" /\ status[other] = "live"
  /\ contents' = [contents EXCEPT ![self] = @ \o contents[other],
                                  ![other] = <<>>]
  /\ status' = [status EXCEPT ![other] = "dropped"]
  /\ UNCHANGED <<drain, held, dropped, minted, origin>>

ACallerDrop(t) ==
  /\ t \in held
  /\ held' = held \ {t}
  /\ dropped' = dropped \cup {t}
  /\ UNCHANGED <<status, contents, drain, minted, origin>>

\* *v.get_mut(i) = t: t replaces the element at index i, which is dropped
AAssign(v, i, t) ==
  /\ status[v] = "live" /\ i \in 1..Len(contents[v]) /\ t \in held
  /\ contents' = [contents EXCEPT ![v][i] = t]
  /\ held' = held \ {t}
  /\ dropped' = dropped \cup {contents[v][i]}
  /\ UNCHANGED <<status, drain, minted, origin>>

\* swap of two elements through a mutable slice
ASwap(v, i, j) ==
  /\ status[v] = "live" /\ i \in 1..Len(contents[v]) /\ j \in 1..Len(contents[v])
  /\ contents' = [contents EXCEPT ![v][i] = contents[v][j], ![v][j] = contents[v][i]]
  /\ UNCHANGED <<status, drain, held, dropped, minted, origin>>

\* a panic ends the task: every value it owns is dropped, and n values
\* made just before it (clones of src's first n elements) with them
APanic(src, n) ==
  /\ minted + n \in 0..MaxTokens /\ n <= Len(contents[src])
  /\ status' = [v \in Vecs |-> "dropped"]
  /\ contents' = [v \in Vecs |-> <<>>]
  /\ drain' = [v \in Vecs |-> <<>>]
  /\ held' = {}
  /\ dropped' = dropped \cup held \cup (minted+1..minted+n)
                \cup UNION {Range(contents[v]) \cup Range(drain[v]) : v \in Vecs}
  /\ origin' = [t \in Tokens |->
                  IF t \in minted+1..minted+n
                  THEN origin[contents[src][t - minted]] ELSE origin[t]]
  /\ minted' = minted + n

ANext ==
  \/ \E v \in Vecs : ANew(v) \/ APushFresh(v) \/ APop(v) \/ AMoveIter(v)
                     \/ AIterNext(v) \/ ADropIter(v) \/ ADropVec(v)
  \/ \E v \in Vecs, t \in Tokens : APushHeld(v, t)
  \/ \E s, d \in Vecs : AClone(s, d) \/ APushAllMove(s, d)
  \/ \E t \in Tokens : ACallerDrop(t)
  \/ \E v \in Vecs, i, j \in 1..MaxTokens :
       ASwap(v, i, j) \/ (j \in held /\ AAssign(v, i, j))
  \/ \E v \in Vecs, n \in 0..MaxTokens : APanic(v, n)

ASpec == AInit /\ [][ANext]_avars

=============================================================================
