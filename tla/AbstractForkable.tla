-------------------------- MODULE AbstractForkable --------------------------
(***************************************************************************)
(* What a Forkable promises its handler, spec.md sections 4.2 and 8, as a *)
(* consumer sees it: the chain it holds (New pushes a block, Undo pops    *)
(* one), the blocks it was told are final, and the blocks it was told     *)
(* will never be canonical.                                                *)
(*                                                                         *)
(* One step is everything one ProcessBlock call hands over: some blocks   *)
(* are rolled back, others pushed, the final chain grows, blocks stall.  *)
(***************************************************************************)
EXTENDS Naturals, Sequences, FiniteSets

LOCAL INSTANCE SequencesExt

CONSTANTS
  Blocks,   (* block ids                                                   *)
  Parent    (* id -> previous id                                           *)

VARIABLES
  chain,    (* the blocks the consumer holds, oldest first                 *)
  final,    (* the blocks sent as Irreversible, in order                   *)
  stalled   (* the blocks sent as Stalled                                  *)

avars == <<chain, final, stalled>>

\* Each block of s is the child of the one before it.
Linked(s) == \A i \in 1..Len(s) - 1 : Parent[s[i + 1]] = s[i]

\* x and the blocks below it, following previous ids inside Blocks.
RECURSIVE AncestorsOrSelf(_, _)
AncestorsOrSelf(x, n) ==
  {x} \cup IF n = 0 \/ Parent[x] \notin Blocks \/ Parent[x] = x THEN {}
           ELSE AncestorsOrSelf(Parent[x], n - 1)

Below(x) == AncestorsOrSelf(x, Cardinality(Blocks))

Init ==
  /\ chain = <<>>
  /\ final = <<>>
  /\ stalled = {}

\* The top k blocks are rolled back and the rest stays; none rolled back
\* is final, and none pushed has been reported stalled.
Reorganised(k) ==
  LET kept == SubSeq(chain, 1, Len(chain) - k) IN
  /\ IsPrefix(kept, chain')
  /\ \A i \in Len(kept) + 1..Len(chain) : chain[i] \notin ToSet(final)
  /\ \A i \in Len(kept) + 1..Len(chain') : chain'[i] \notin stalled

\* One delivery: the consumer stays on one chain; the final blocks extend
\* the final chain and lie below the consumer's head; stalled blocks are
\* off the consumer's chain.
Deliver ==
  /\ \E k \in 0..Len(chain) : Reorganised(k)
  /\ Linked(chain')
  /\ IsPrefix(final, final') /\ Linked(final')
  /\ \A i \in Len(final) + 1..Len(final') : chain' # <<>> /\ final'[i] \in Below(Last(chain'))
  /\ stalled \subseteq stalled'
  /\ \A x \in stalled' \ stalled : x \notin ToSet(chain')

Spec == Init /\ [][Deliver]_avars

=============================================================================
