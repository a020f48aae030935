-------------------------- MODULE LookupBlockIndex --------------------------
(***************************************************************************)
(* FileSource.lookupBlockIndex (filesource.go): from the bundle `in`, ask  *)
(* the block indexer for the indexed blocks of one bundle after the other *)
(* until a bundle yields something, and return that bundle's base and its *)
(* filtered block list.  The indexer is the set `Index` of indexed block  *)
(* numbers; it holds nothing above the last bundle MaxBase, so a scan     *)
(* that passes MaxBase without a result never ends (the result "spin").   *)
(* BlocksInRange errors are the caller's concern (FileSource.RunLookup).  *)
(*                                                                         *)
(* Listed is spec.md section 4.5's account of a bundle's list, written   *)
(* over sets; FileSource's reference stream reads bundles through it.    *)
(***************************************************************************)
EXTENDS Naturals, Sequences, FiniteSets

LOCAL INSTANCE SequencesExt

CONSTANTS
  StartBlockNum,
  StopBlockNum,       (* 0: open-ended                                   *)
  BundleSize,
  Index,              (* the block numbers the indexer holds             *)
  MaxBase             (* the last bundle base the indexer may hold       *)

\* The three outcomes: a bundle and its list, the index-misuse error, and
\* a loop that never returns.
Found(b, out) == [kind |-> "ok", base |-> b, blocks |-> out]
Misuse        == [kind |-> "error", base |-> 0, blocks |-> <<>>]
Spin          == [kind |-> "spin", base |-> 0, blocks |-> <<>>]

\* BlockIndexer.BlocksInRange(base, bundleSize): ascending (spec section 6).
BlocksInRange(b) == SetToSortSeq({x \in Index : b <= x /\ x < b + BundleSize}, <)

\* The `for _, blk := range blocks` loop over one bundle: skip blocks below
\* startBlockNum; in the first call, put startBlockNum ahead of a first
\* block above it; the first block at or past stopBlockNum is replaced by
\* stopBlockNum and ends the loop.
RECURSIVE collect(_, _, _)
collect(in, blocks, out) ==
  IF blocks = <<>> THEN out
  ELSE
    LET blk  == Head(blocks)
        outS == IF in <= StartBlockNum /\ blk > StartBlockNum /\ out = <<>>
                THEN Append(out, StartBlockNum) ELSE out
    IN CASE blk < StartBlockNum                       -> collect(in, Tail(blocks), out)
         [] StopBlockNum # 0 /\ blk >= StopBlockNum   -> Append(outS, StopBlockNum)
         [] OTHER                                     -> collect(in, Tail(blocks), Append(outS, blk))

containsStartBlock(b) == b <= StartBlockNum /\ b + BundleSize > StartBlockNum
containsStopBlock(b) ==
  StopBlockNum # 0 /\ b <= StopBlockNum /\ b + BundleSize > StopBlockNum

\* Mutation variant: an empty bundle holding startBlockNum or stopBlockNum
\* is skipped like any other.
RECURSIVE scanNoSentinels(_, _)
scanNoSentinels(in, b) ==
  LET out == collect(in, BlocksInRange(b), <<>>) IN
  CASE out # <<>> -> Found(b, out)
    [] b + BundleSize > MaxBase -> Spin
    [] OTHER -> scanNoSentinels(in, b + BundleSize)

\* The outer `for` loop, one bundle per iteration: a non-nil outBlocks is
\* returned; a nil one is replaced by the start and stop sentinels of the
\* bundle, or the loop moves on to the next bundle.
RECURSIVE scan(_, _)
scan(in, b) ==
  LET out == collect(in, BlocksInRange(b), <<>>) IN
  CASE out # <<>> -> Found(b, out)
    [] containsStartBlock(b) /\ containsStopBlock(b) ->
         Found(b, <<StartBlockNum, StopBlockNum>>)
    [] containsStartBlock(b) -> Found(b, <<StartBlockNum>>)
    [] containsStopBlock(b)  -> Found(b, <<StopBlockNum>>)
    [] b + BundleSize > MaxBase -> Spin
    [] OTHER -> scan(in, b + BundleSize)

\* lookupBlockIndex(in): refuses a base above stopBlockNum, then scans.
lookupBlockIndex(in) ==
  IF StopBlockNum # 0 /\ in > StopBlockNum THEN Misuse ELSE scan(in, in)
-----------------------------------------------------------------------------
(* Spec section 4.5, over sets                                             *)

\* The indexed blocks of bundle b that are not below startBlockNum.
Yielded(b) == {x \in Index : b <= x /\ x < b + BundleSize /\ x >= StartBlockNum}

InBundle(n, b) == b <= n /\ n < b + BundleSize

\* The list of a bundle: the sentinels when it yields nothing; otherwise
\* startBlockNum first when the bundle holds it and it is not indexed, the
\* yielded blocks below stopBlockNum, and stopBlockNum when some yielded
\* block reaches it.
Listed(b) ==
  LET y    == Yielded(b)
      hit  == StopBlockNum # 0 /\ \E x \in y : x >= StopBlockNum
      kept == {x \in y : StopBlockNum = 0 \/ x < StopBlockNum}
  IN IF y = {}
     THEN (IF InBundle(StartBlockNum, b) THEN <<StartBlockNum>> ELSE <<>>)
          \o (IF StopBlockNum # 0 /\ InBundle(StopBlockNum, b) THEN <<StopBlockNum>> ELSE <<>>)
     ELSE (IF InBundle(StartBlockNum, b) /\ StartBlockNum \notin y
           THEN <<StartBlockNum>> ELSE <<>>)
          \o SetToSortSeq(kept, <)
          \o (IF hit THEN <<StopBlockNum>> ELSE <<>>)

=============================================================================
