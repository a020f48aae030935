------------------------------- MODULE ForkDB -------------------------------
(***************************************************************************)
(* The in-memory block DAG kept by a Forkable (spec.md section 4.1).  The  *)
(* ForkDB source file is not part of this repository's src/, so every     *)
(* operator here is modelled from the spec.                                *)
(*                                                                         *)
(* Block data never changes once a block exists, so the DAG is abstracted *)
(* to the set `ids` of block ids it holds: links[id] and nums[id] are     *)
(* Parent[id] and Num[id] restricted to `ids`.  `lib` is lib_ref, NoBlock  *)
(* standing for the empty ref.  Operators take the DB state explicitly    *)
(* because Forkable queries the intermediate states of one ProcessBlock.  *)
(***************************************************************************)
EXTENDS Naturals, Sequences, FiniteSets

LOCAL INSTANCE SequencesExt

CONSTANTS
  Parent,   (* block id -> previous id; a previous id may be outside Blocks *)
  Num,      (* block id -> block number                                     *)
  NoBlock   (* the empty ref (id "")                                        *)

\* The first of a set of sequence indices, 0 when there is none.
FirstIndex(K) == IF K = {} THEN 0 ELSE Min(K)

\* LIBNum(): the number of lib_ref, 0 for the empty ref.
LIBNum(lib) == IF lib = NoBlock THEN 0 ELSE Num[lib]

\* Follow links from `id` while the id is in the DB, newest first.  The walk
\* is bounded by the DB size, the cycle guard of spec section 4.1.
RECURSIVE Walk(_, _, _)
Walk(ids, id, fuel) ==
  IF id \in ids /\ fuel > 0
  THEN <<id>> \o Walk(ids, Parent[id], fuel - 1)
  ELSE <<>>

Ancestry(ids, id) == Walk(ids, id, Cardinality(ids))

\* AddLink: inserts the node unless its id is already present.
AddLink(ids, id) == ids \cup {id}

\* Mutation variants (README, "Mutation runs").  Fails open: returns the
\* walk even when it ends at a missing parent instead of the LIB.
ReversibleSegmentFailOpen(ids, lib, head) ==
  LET w == Ancestry(ids, head)
      k == FirstIndex({q \in 1..Len(w) : Parent[w[q]] = lib})
  IN IF lib # NoBlock /\ k > 0 THEN Reverse(SubSeq(w, 1, k)) ELSE Reverse(w)

\* Off by one: loses the block right above the LIB.
ReversibleSegmentShort(ids, lib, head) ==
  LET w == Ancestry(ids, head)
      k == FirstIndex({q \in 1..Len(w) : Parent[w[q]] = lib})
  IN IF lib # NoBlock /\ k > 0 THEN Reverse(SubSeq(w, 1, k - 1)) ELSE <<>>

\* ReversibleSegment(head): the path lib (exclusive) .. head, oldest first;
\* empty (nil) when the walk reaches a missing parent before the LIB.
ReversibleSegment(ids, lib, head) ==
  LET w   == Ancestry(ids, head)
      k   == FirstIndex({q \in 1..Len(w) : Parent[w[q]] = lib})
  IN IF lib # NoBlock /\ k > 0 THEN Reverse(SubSeq(w, 1, k)) ELSE <<>>

\* BlockInCurrentChain(head, num): walk from head towards the LIB (the LIB
\* included) and return the node numbered `n`, or the empty ref.
BlockInCurrentChain(ids, lib, head, n) ==
  LET w    == Ancestry(ids, head)
      stop == FirstIndex({q \in 1..Len(w) : w[q] = lib})
      upTo == IF stop > 0 THEN SubSeq(w, 1, stop) ELSE w
      k    == FirstIndex({q \in 1..Len(upTo) : Num[upTo[q]] = n})
  IN IF k > 0 THEN upTo[k] ELSE NoBlock

\* SetLIB(block, previous_id, lib_num): the LIB the block asserts, resolved
\* through the links; the empty ref when it is not linked yet.
SetLIB(ids, head, libNum) ==
  IF libNum = Num[head] THEN head
  ELSE BlockInCurrentChain(ids, NoBlock, head, libNum)

\* The ids met walking back from `id`: the ancestry and the first id that
\* is not in the DB (a previous_id is an id even when its node is gone).
IdWalk(ids, id) ==
  LET w == Ancestry(ids, id)
  IN w \o <<IF w = <<>> THEN id ELSE Parent[w[Len(w)]]>>

\* ChainSwitchSegments(from, to): the ids above the lowest common
\* ancestor, undos newest first and redos oldest first.
ChainSwitchSegments(ids, from, to) ==
  LET wf == IdWalk(ids, from)
      wt == IdWalk(ids, to)
      i  == FirstIndex({q \in 1..Len(wf) : wf[q] \in ToSet(wt)})
      j  == FirstIndex({q \in 1..Len(wt) : wt[q] \in ToSet(wf)})
  IN IF i = 0 THEN [undos |-> <<>>, redos |-> <<>>]
     ELSE [undos |-> SubSeq(wf, 1, i - 1), redos |-> Reverse(SubSeq(wt, 1, j - 1))]

\* Mutation variant: the stalled range starts at the current LIB itself.
HasNewIrreversibleSegmentFromLIB(ids, lib, newLib) ==
  LET irr     == ReversibleSegment(ids, lib, newLib)
      stalled == {x \in ids : LIBNum(lib) <= Num[x] /\ Num[x] <= Num[newLib]}
                   \ ToSet(irr)
  IN IF lib = NoBlock \/ lib = newLib \/ irr = <<>>
     THEN [hasNew |-> FALSE, irr |-> <<>>, stalled |-> {}]
     ELSE [hasNew |-> TRUE, irr |-> irr, stalled |-> stalled]

\* HasNewIrreversibleSegment(new_lib): the nodes lib (exclusive) ..
\* new_lib (inclusive) become irreversible; every other node numbered
\* above the current LIB and up to new_lib is stalled.
HasNewIrreversibleSegment(ids, lib, newLib) ==
  LET irr     == ReversibleSegment(ids, lib, newLib)
      stalled == {x \in ids : LIBNum(lib) < Num[x] /\ Num[x] <= Num[newLib]}
                   \ ToSet(irr)
  IN IF lib = NoBlock \/ lib = newLib \/ irr = <<>>
     THEN [hasNew |-> FALSE, irr |-> <<>>, stalled |-> {}]
     ELSE [hasNew |-> TRUE, irr |-> irr, stalled |-> stalled]

\* CompleteSegment(head): the path lib_ref .. head, the LIB included, oldest
\* first, and whether the walk from head reached the LIB at all.
CompleteSegment(ids, lib, head) ==
  LET w == Ancestry(ids, head)
      k == FirstIndex({q \in 1..Len(w) : w[q] = lib})
  IN [seg |-> IF k > 0 THEN Reverse(SubSeq(w, 1, k)) ELSE <<>>, reach |-> k > 0]

\* MoveLIB then PurgeBeforeLIB(kept): drop every node numbered below
\* lib_ref.num - kept.
PurgeBeforeLIB(ids, lib, kept) == {x \in ids : Num[x] + kept >= LIBNum(lib)}

=============================================================================
