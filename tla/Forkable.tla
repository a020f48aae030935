------------------------------ MODULE Forkable ------------------------------
(***************************************************************************)
(* Forkable.ProcessBlock (forkable.go): the step state machine over the   *)
(* ForkDB that turns an upstream stream of blocks, in any order and with  *)
(* replays, into New / Undo / Irreversible / Stalled steps for the        *)
(* downstream handler.                                                     *)
(*                                                                         *)
(* ProcessBlock runs entirely under the Forkable's write lock and calls   *)
(* the handler synchronously, so one call is one atomic step.  It is     *)
(* split into one action per exit path of the Go function; each action's *)
(* guard is the conjunction of the conditions of the earlier returns.     *)
(* `stream` records every handler call: the history the consumer sees.   *)
(* An error returned by ProcessBlock shuts the source down (`failed`).    *)
(***************************************************************************)
EXTENDS Naturals, Sequences, FiniteSets

LOCAL INSTANCE SequencesExt

CONSTANTS
  Blocks,             (* ids of the blocks upstream may send              *)
  Parent,             (* id -> previous id                                *)
  Num,                (* id -> block number                               *)
  LibNum,             (* id -> the LIB number the block asserts           *)
  NoBlock,            (* the empty BlockRef                               *)
  FilterSteps,        (* filterSteps: the step kinds handed to handler    *)
  InitialLIBs,        (* the lib_ref a ForkDB may be created with        *)
  IncludeInitialLIB,  (* includeInitialLIB                                *)
  EnsureBlockFlows,   (* ensureBlockFlows, or NoBlock                     *)
  EnsureAllBlocksTriggerLongestChain,
  HoldBlocksUntilLIB,
  KeptFinalBlocks,
  UnlinkableLimit,    (* the hard-coded 20 of ProcessBlock                *)
  MaxCalls            (* bound on the number of ProcessBlock calls        *)

DB == INSTANCE ForkDB

Steps == {"New", "Undo", "Irreversible", "Stalled"}

VARIABLES
  links,                        (* ids held by forkDB                       *)
  libRef,                       (* forkDB.libRef                            *)
  sentAsNew,                    (* ids whose ForkDB object has sentAsNew    *)
  lastBlockSent,
  lastLIBSeen,
  lastLongestChain,
  consecutiveUnlinkableBlocks,
  ensureBlockFlowed,
  stream,                       (* handler.ProcessBlock calls, in order     *)
  calls,                        (* ProcessBlock calls so far                *)
  failed                        (* ProcessBlock returned an error           *)

vars == <<links, libRef, sentAsNew, lastBlockSent, lastLIBSeen,
          lastLongestChain, consecutiveUnlinkableBlocks, ensureBlockFlowed,
          stream, calls, failed>>

Ref == Blocks \cup {NoBlock}
Emission == [step : Steps, block : Blocks, head : Blocks, lib : Ref]

TypeOK ==
  /\ links \subseteq Blocks
  /\ libRef \in Ref
  /\ sentAsNew \subseteq links
  /\ lastBlockSent \in Ref
  /\ lastLIBSeen \in Ref
  /\ lastLongestChain \in Seq(Blocks)
  /\ consecutiveUnlinkableBlocks \in 0..UnlinkableLimit + 1
  /\ ensureBlockFlowed \in BOOLEAN
  /\ stream \in Seq(Emission)
  /\ calls \in 0..MaxCalls
  /\ failed \in BOOLEAN

Init ==
  /\ links = {}
  /\ libRef \in InitialLIBs
  /\ sentAsNew = {}
  /\ lastBlockSent = NoBlock
  /\ lastLIBSeen = NoBlock
  /\ lastLongestChain = <<>>
  /\ consecutiveUnlinkableBlocks = 0
  /\ ensureBlockFlowed = FALSE
  /\ stream = <<>>
  /\ calls = 0
  /\ failed = FALSE

-----------------------------------------------------------------------------
(* Helpers of forkable.go                                                  *)

matchFilter(step) == step \in FilterSteps

triggersNewLongestChain(b) ==
  \/ EnsureAllBlocksTriggerLongestChain
  \/ lastBlockSent = NoBlock
  \/ lastBlockSent # NoBlock /\ Num[b] > Num[lastBlockSent]

targetChainBlock(b) ==
  IF EnsureBlockFlows # NoBlock /\ ~ensureBlockFlowed THEN EnsureBlockFlows ELSE b

\* The lastLIBSent of a New or Undo: lastLIBSeen, else the ForkDB LIB.
libSent(lib) == IF lastLIBSeen = NoBlock THEN lib ELSE lastLIBSeen

\* Mutation variant: redoes every block of the new branch, sent or not.
sentChainSwitchSegmentsAllRedos(from, to) ==
  IF from = to THEN [undos |-> <<>>, redos |-> <<>>]
  ELSE DB!ChainSwitchSegments(links, from, to)

\* sentChainSwitchSegments: undos, and the redos already sent as New.
sentChainSwitchSegments(from, to) ==
  IF from = to THEN [undos |-> <<>>, redos |-> <<>>]
  ELSE LET s == DB!ChainSwitchSegments(links, from, to)
       IN [undos |-> s.undos,
           redos |-> SelectSeq(s.redos, LAMBDA x : x \in sentAsNew)]

\* processBlocks / processNewBlocks / processStalledSegment: one handler
\* call per block when the step passes the filter, all with one cursor LIB.
Emit(step, blocks, head, lib) ==
  IF matchFilter(step)
  THEN [i \in 1..Len(blocks) |->
          [step |-> step, block |-> blocks[i], head |-> head, lib |-> lib]]
  ELSE <<>>

\* processIrreversibleSegment: each block is the LIB of its own cursor.
EmitIrreversible(blocks, head) ==
  IF matchFilter("Irreversible")
  THEN [i \in 1..Len(blocks) |->
          [step |-> "Irreversible", block |-> blocks[i], head |-> head, lib |-> blocks[i]]]
  ELSE <<>>

\* computeNewLongestChain, over the DB as it is after AddLink and SetLIB.
computeNewLongestChain(b, ids, lib) ==
  LET chain == lastLongestChain
      canSkipRecompute ==
        /\ Len(chain) # 0
        /\ Parent[b] = Last(chain)
        /\ lib = Parent[chain[1]]
  IN IF canSkipRecompute THEN Append(chain, b)
     ELSE DB!ReversibleSegment(ids, lib, targetChainBlock(b))

\* The blocks processNewBlocks hands over: those not yet sent as New.
unsent(chain) == SelectSeq(chain, LAMBDA x : x \notin sentAsNew)

\* blockFlowed over the blocks sent as New.
flowed(blocks) ==
  ensureBlockFlowed \/ (EnsureBlockFlows # NoBlock /\ EnsureBlockFlows \in ToSet(blocks))

-----------------------------------------------------------------------------
(* ProcessBlock, one action per exit path                                  *)

Called == calls' = calls + 1

\* Preamble shared by every path: the stream is running and the bound holds.
Running == ~failed /\ calls < MaxCalls

\* blk.Id == blk.PreviousId: bad data, ProcessBlock returns an error.
ProcessBlockInvalid(b) ==
  /\ Running
  /\ Parent[b] = b
  /\ failed' = TRUE
  /\ Called
  /\ UNCHANGED <<links, libRef, sentAsNew, lastBlockSent, lastLIBSeen,
                 lastLongestChain, consecutiveUnlinkableBlocks,
                 ensureBlockFlowed, stream>>

Valid(b) == Parent[b] # b
BelowLIB(b) == Num[b] < DB!LIBNum(libRef) /\ lastBlockSent # NoBlock
InitialLIBBlock(b) ==
  IncludeInitialLIB /\ lastBlockSent = NoBlock /\ b = libRef

\* A replay below the LIB, or a block already in the ForkDB, is ignored.
ProcessBlockIgnored(b) ==
  /\ Running
  /\ Valid(b)
  /\ \/ BelowLIB(b)
     \/ ~InitialLIBBlock(b) /\ b \in links
  /\ Called
  /\ UNCHANGED <<links, libRef, sentAsNew, lastBlockSent, lastLIBSeen,
                 lastLongestChain, consecutiveUnlinkableBlocks,
                 ensureBlockFlowed, stream, failed>>

\* processInitialInclusiveIrreversibleBlock(blk, obj, true): New then
\* Irreversible for the block alone.  The ForkableBlock it marks as sent
\* is a fresh object, not the ForkDB's, so sentAsNew is left alone.
InitialInclusive(b, lib) ==
  /\ stream' = stream \o Emit("New", <<b>>, b, libSent(lib))
                      \o EmitIrreversible(<<b>>, b)
  /\ lastBlockSent' = b
  /\ ensureBlockFlowed' = flowed(<<b>>)
  /\ lastLIBSeen' = b

\* The block is the LIB the ForkDB was created with (includeInitialLIB).
ProcessBlockInitialLIB(b) ==
  /\ Running
  /\ Valid(b)
  /\ ~BelowLIB(b)
  /\ InitialLIBBlock(b)
  /\ InitialInclusive(b, libRef)
  /\ Called
  /\ UNCHANGED <<links, libRef, sentAsNew, lastLongestChain,
                 consecutiveUnlinkableBlocks, failed>>

\* A new block while the ForkDB has no LIB: SetLIB either finds that the
\* block is its own LIB (initial inclusive path), or finds nothing and
\* holdBlocksUntilLIB makes ProcessBlock return.
ProcessBlockSetLIBSelf(b) ==
  /\ Running
  /\ Valid(b)
  /\ ~BelowLIB(b) /\ ~InitialLIBBlock(b) /\ b \notin links
  /\ libRef = NoBlock
  /\ DB!SetLIB(DB!AddLink(links, b), b, LibNum[b]) = b
  /\ links' = DB!AddLink(links, b)
  /\ libRef' = b
  /\ InitialInclusive(b, b)
  /\ Called
  /\ UNCHANGED <<sentAsNew, lastLongestChain, consecutiveUnlinkableBlocks,
                 failed>>

ProcessBlockHeld(b) ==
  /\ Running
  /\ Valid(b)
  /\ ~BelowLIB(b) /\ ~InitialLIBBlock(b) /\ b \notin links
  /\ libRef = NoBlock
  /\ DB!SetLIB(DB!AddLink(links, b), b, LibNum[b]) = NoBlock
  /\ HoldBlocksUntilLIB
  /\ links' = DB!AddLink(links, b)
  /\ Called
  /\ UNCHANGED <<libRef, sentAsNew, lastBlockSent, lastLIBSeen, lastLongestChain,
                 consecutiveUnlinkableBlocks, ensureBlockFlowed, stream, failed>>


\* The rest of ProcessBlock, once the block is added to the ForkDB and the
\* LIB, if unset, was looked up without the early returns above.
Linked(b) ==
  /\ Running
  /\ Valid(b)
  /\ ~BelowLIB(b) /\ ~InitialLIBBlock(b) /\ b \notin links
  /\ libRef = NoBlock =>
       LET lib == DB!SetLIB(DB!AddLink(links, b), b, LibNum[b])
       IN lib # b /\ (lib = NoBlock => ~HoldBlocksUntilLIB)

\* The DB and longest chain once ProcessBlock reached computeNewLongestChain.
After(b) ==
  LET ids   == DB!AddLink(links, b)
      lib   == IF libRef # NoBlock THEN libRef ELSE DB!SetLIB(ids, b, LibNum[b])
      chain == computeNewLongestChain(b, ids, lib)
  IN [ids        |-> ids,
      lib        |-> lib,
      firstIrr   |-> IF libRef = NoBlock THEN lib ELSE NoBlock,
      chain      |-> chain,
      unlinkable |-> IF chain = <<>> /\ lib # NoBlock
                     THEN consecutiveUnlinkableBlocks + 1 ELSE 0]

\* Mutation variant: an off-by-one unlinkable limit.
tooManyUnlinkablePlusOne(n) == n > UnlinkableLimit + 1

\* The handler calls of ProcessBlock before the LIB moves: Undo for the
\* undos, New for the redos (processBlocks), then New for the blocks of
\* the longest chain not sent yet (processNewBlocks).
sendLongestChain(b, sw, news, chain, lib) ==
  Emit("Undo", sw.undos, b, libSent(lib))
  \o Emit("New", sw.redos, b, libSent(lib))
  \o Emit("New", news, Last(chain), libSent(lib))

tooManyUnlinkable(n) == n > UnlinkableLimit

\* More than UnlinkableLimit consecutive blocks that do not link to the LIB.
ProcessBlockUnlinkable(b) ==
  LET a == After(b) IN
  /\ Linked(b)
  /\ tooManyUnlinkable(a.unlinkable)
  /\ links' = a.ids
  /\ libRef' = a.lib
  /\ lastLongestChain' = a.chain
  /\ consecutiveUnlinkableBlocks' = a.unlinkable
  /\ failed' = TRUE
  /\ Called
  /\ UNCHANGED <<sentAsNew, lastBlockSent, lastLIBSeen, ensureBlockFlowed, stream>>

\* !triggersNewLongestChain || len(longestChain) == 0: nothing is sent.
ProcessBlockNoEmit(b) ==
  LET a == After(b) IN
  /\ Linked(b)
  /\ ~tooManyUnlinkable(a.unlinkable)
  /\ ~triggersNewLongestChain(b) \/ a.chain = <<>>
  /\ links' = a.ids
  /\ libRef' = a.lib
  /\ lastLongestChain' = a.chain
  /\ consecutiveUnlinkableBlocks' = a.unlinkable
  /\ Called
  /\ UNCHANGED <<sentAsNew, lastBlockSent, lastLIBSeen, ensureBlockFlowed,
                 stream, failed>>

\* Undos, redos and the new blocks of the longest chain are sent; then the
\* LIB is moved to the LIB the last block sent asserts, when that block is
\* linked on the current chain, the DB is purged below it, and the newly
\* irreversible and stalled blocks are sent.
ProcessBlockEmit(b) ==
  LET a      == After(b)
      sw     == IF matchFilter("Undo") /\ lastBlockSent # NoBlock
                THEN sentChainSwitchSegments(lastBlockSent, Parent[b])
                ELSE [undos |-> <<>>, redos |-> <<>>]
      news   == unsent(a.chain)
      sent   == IF news = <<>> THEN lastBlockSent ELSE Last(news)
      out1   == sendLongestChain(b, sw, news, a.chain, a.lib)
      newLIB == IF sent = NoBlock \/ a.lib = NoBlock THEN NoBlock
                ELSE DB!BlockInCurrentChain(a.ids, a.lib, sent, LibNum[sent])
      h      == DB!HasNewIrreversibleSegment(a.ids, a.lib, newLIB)
      irr    == h.irr \o (IF a.firstIrr # NoBlock THEN <<a.firstIrr>> ELSE <<>>)
      moves  == newLIB # NoBlock /\ (h.hasNew \/ a.firstIrr # NoBlock)
      seen   == IF irr # <<>> THEN Last(irr) ELSE lastLIBSeen
      kept   == DB!PurgeBeforeLIB(a.ids, newLIB, KeptFinalBlocks)
      irrOut == EmitIrreversible(irr, b)
      out    == IF moves
                THEN out1 \o irrOut
                     \o Emit("Stalled", SetToSortSeq(h.stalled, LAMBDA x, y : Num[x] < Num[y]), b, seen)
                ELSE out1
  IN
  /\ Linked(b)
  /\ ~tooManyUnlinkable(a.unlinkable)
  /\ triggersNewLongestChain(b) /\ a.chain # <<>>
  /\ lastLongestChain' = a.chain
  /\ consecutiveUnlinkableBlocks' = a.unlinkable
  /\ lastBlockSent' = sent
  /\ ensureBlockFlowed' = flowed(news)
  /\ stream' = stream \o out
  /\ IF moves
     THEN /\ libRef' = newLIB
          /\ links' = kept
          /\ sentAsNew' = (sentAsNew \cup ToSet(news)) \cap kept
          /\ lastLIBSeen' = seen
     ELSE /\ libRef' = a.lib
          /\ links' = a.ids
          /\ sentAsNew' = sentAsNew \cup ToSet(news)
          /\ lastLIBSeen' = lastLIBSeen
  /\ Called
  /\ UNCHANGED failed

ProcessBlock(b) ==
  \/ ProcessBlockInvalid(b)
  \/ ProcessBlockIgnored(b)
  \/ ProcessBlockInitialLIB(b)
  \/ ProcessBlockSetLIBSelf(b)
  \/ ProcessBlockHeld(b)
  \/ ProcessBlockUnlinkable(b)
  \/ ProcessBlockNoEmit(b)
  \/ ProcessBlockEmit(b)

\* Upstream may send any block, in any order, any number of times.
Next == \E b \in Blocks : ProcessBlock(b)

Spec == Init /\ [][Next]_vars


-----------------------------------------------------------------------------
(* BlocksFromFinal / BlocksFromCursor: read-only queries under the read   *)
(* lock.  They see the state between two ProcessBlock calls.               *)

\* Mutation variants: the LIB itself labelled New; the list starting after
\* blk.
BlocksFromFinalLIBAsNew(blk) ==
  LET head == lastBlockSent
      cs   == DB!CompleteSegment(links, libRef, head)
      from == DB!FirstIndex({q \in 1..Len(cs.seg) : cs.seg[q] = blk})
      wrap(x) == [step  |-> IF Num[x] < DB!LIBNum(libRef) THEN "NewIrreversible" ELSE "New",
                  block |-> x, head |-> head,
                  lib   |-> IF DB!LIBNum(libRef) > Num[x] THEN x ELSE libRef]
  IN IF libRef = NoBlock \/ lastLongestChain = <<>> \/ ~cs.reach \/ from = 0 THEN <<>>
     ELSE [i \in 1..Len(cs.seg) - from + 1 |-> wrap(cs.seg[from + i - 1])]

BlocksFromFinalAfterBlk(blk) ==
  LET head == lastBlockSent
      cs   == DB!CompleteSegment(links, libRef, head)
      from == DB!FirstIndex({q \in 1..Len(cs.seg) : cs.seg[q] = blk})
      wrap(x) == [step  |-> IF Num[x] <= DB!LIBNum(libRef) THEN "NewIrreversible" ELSE "New",
                  block |-> x, head |-> head,
                  lib   |-> IF DB!LIBNum(libRef) > Num[x] THEN x ELSE libRef]
  IN IF libRef = NoBlock \/ lastLongestChain = <<>> \/ ~cs.reach \/ from = 0 THEN <<>>
     ELSE [i \in 1..Len(cs.seg) - from |-> wrap(cs.seg[from + i])]

\* BlocksFromFinal(blk): from blk up to the last block sent, along the
\* complete segment; NewIrreversible up to the LIB, New above it, and a
\* cursor LIB never above the block.  Nil (<<>>) without a LIB, a longest
\* chain, a segment reaching the LIB, or blk on that segment.
BlocksFromFinal(blk) ==
  LET head == lastBlockSent
      cs   == DB!CompleteSegment(links, libRef, head)
      from == DB!FirstIndex({q \in 1..Len(cs.seg) : cs.seg[q] = blk})
      wrap(x) == [step  |-> IF Num[x] <= DB!LIBNum(libRef) THEN "NewIrreversible" ELSE "New",
                  block |-> x, head |-> head,
                  lib   |-> IF DB!LIBNum(libRef) > Num[x] THEN x ELSE libRef]
  IN IF libRef = NoBlock \/ lastLongestChain = <<>> \/ ~cs.reach \/ from = 0 THEN <<>>
     ELSE [i \in 1..Len(cs.seg) - from + 1 |-> wrap(cs.seg[from + i - 1])]

\* The outcomes of BlocksFromCursor: a list (possibly empty), nil, or the
\* nil-pointer panic of lastBlockSent.AsRef() when nothing was sent yet.
Returned(out) == [kind |-> "ok", out |-> out]
NilOut        == [kind |-> "nil", out |-> <<>>]
PanicOut      == [kind |-> "panic", out |-> <<>>]

\* Mutation variant: the cursor's own block is sent again as New.
catchUpFromBlock(c, head, seg) ==
  LET libN == DB!LIBNum(libRef)
      above(x) == Num[x] > DB!LIBNum(c.lib)
      one(x) ==
        (IF Num[x] <= libN
         THEN <<[step |-> IF Num[x] > Num[c.block] THEN "NewIrreversible" ELSE "Irreversible",
                 block |-> x, head |-> head, lib |-> x]>>
         ELSE <<>>)
        \o (IF Num[x] >= Num[c.block]
            THEN <<[step |-> "New", block |-> x, head |-> head, lib |-> libRef]>> ELSE <<>>)
      kept == SelectSeq(seg, above)
  IN FlattenSeq([i \in 1..Len(kept) |-> one(kept[i])])

\* The non-forked cursor: over the segment above cursor.LIB, Irreversible
\* (NewIrreversible past the cursor's block) up to the ForkDB LIB, and New
\* above the cursor's block.
catchUp(c, head, seg) ==
  LET libN == DB!LIBNum(libRef)
      above(x) == Num[x] > DB!LIBNum(c.lib)
      one(x) ==
        (IF Num[x] <= libN
         THEN <<[step |-> IF Num[x] > Num[c.block] THEN "NewIrreversible" ELSE "Irreversible",
                 block |-> x, head |-> head, lib |-> x]>>
         ELSE <<>>)
        \o (IF Num[x] > Num[c.block]
            THEN <<[step |-> "New", block |-> x, head |-> head, lib |-> libRef]>> ELSE <<>>)
      kept == SelectSeq(seg, above)
  IN FlattenSeq([i \in 1..Len(kept) |-> one(kept[i])])

\* The forked cursor's loop: from `id`, an Undo per block found in the DB
\* (not for the cursor's own block when its step is already Undo) until
\* the previous id is on the segment; fails when a block is missing.
RECURSIVE undoWalk(_, _, _, _)
undoWalk(c, id, head, seg) ==
  IF id \notin links THEN [ok |-> FALSE, undos |-> <<>>, at |-> id]
  ELSE
    LET u == IF id = c.block /\ c.step = "Undo" THEN <<>>
             ELSE <<[step |-> "Undo", block |-> id, head |-> head, lib |-> c.lib]>>
    IN IF Parent[id] \in ToSet(seg)
       THEN [ok |-> TRUE, undos |-> u, at |-> Parent[id]]
       ELSE LET r == undoWalk(c, Parent[id], head, seg)
            IN [r EXCEPT !.undos = u \o @]

\* BlocksFromCursor(cursor): a cursor whose block and LIB are both on the
\* complete segment is caught up; a forked one is undone down to the
\* segment, then caught up by the recursive call from the junction.
RECURSIVE BlocksFromCursor(_)
BlocksFromCursor(c) ==
  LET head == lastBlockSent
      cs   == DB!CompleteSegment(links, libRef, head)
      seg  == cs.seg
  IN CASE libRef = NoBlock -> NilOut
       [] head = NoBlock   -> PanicOut
       [] ~cs.reach        -> NilOut
       [] c.block \in ToSet(seg) /\ c.lib \in ToSet(seg) -> Returned(catchUp(c, head, seg))
       [] OTHER ->
            LET w == undoWalk(c, c.block, head, seg)
                r == BlocksFromCursor([step |-> "New", block |-> w.at, head |-> head, lib |-> c.lib])
            IN IF ~w.ok \/ r.kind # "ok" THEN NilOut ELSE Returned(w.undos \o r.out)

-----------------------------------------------------------------------------
(* Properties of the stream the handler receives                           *)

\* The chain a consumer following the stream holds: New (and the
\* NewIrreversible of the queries) pushes the block, Undo pops the newest.
Follow(c, e) ==
  CASE e.step \in {"New", "NewIrreversible"} -> Append(c, e.block)
    [] e.step = "Undo" /\ c # <<>>  -> Front(c)
    [] OTHER                         -> c

\* Chains[i]: the consumer's chain before stream[i] (Chains[Len + 1]: now).
Chains ==
  FoldLeft(LAMBDA cs, e : Append(cs, Follow(cs[Len(cs)], e)), <<<<>>>>, stream)

\* New and Undo steps keep the consumer on one chain: a New is a child of
\* the consumer's head (undo and redo segments from sentChainSwitchSegments
\* and the new blocks of processNewBlocks join up), and an Undo rolls back
\* exactly the consumer's head.
StreamFollowsChain ==
  LET cs == Chains IN
  \A i \in 1..Len(stream) :
    LET e == stream[i]
        c == cs[i]
    IN /\ (e.step = "New" /\ c # <<>>) => Parent[e.block] = Last(c)
       /\ e.step = "Undo" => (c # <<>> /\ Last(c) = e.block)

\* Spec section 4.2: Irreversible is sent for "a block previously delivered
\* as New" (processIrreversibleSegment, including the first LIB block that
\* ProcessBlock appends to the segment).
IrreversibleAfterNew ==
  \A i \in 1..Len(stream) :
    stream[i].step = "Irreversible" =>
      \E j \in 1..i - 1 : stream[j].step = "New" /\ stream[j].block = stream[i].block

\* Spec section 3: every cursor handed out satisfies
\* lib.num <= block.num <= head_block.num (ForkableObject.Cursor()).
CursorWellFormed ==
  \A i \in 1..Len(stream) :
    DB!LIBNum(stream[i].lib) <= Num[stream[i].block] /\ Num[stream[i].block] <= Num[stream[i].head]

\* One step of a consumer replaying a query's answer: whether every step
\* so far applied (a New extends the head, an Undo pops exactly the head)
\* and the chain it holds.
Replay(acc, e) ==
  [ok    |-> /\ acc.ok
             /\ e.step \in {"New", "NewIrreversible"} /\ acc.chain # <<>>
                  => Parent[e.block] = Last(acc.chain)
             /\ e.step = "Undo" => acc.chain # <<>> /\ Last(acc.chain) = e.block,
   chain |-> Follow(acc.chain, e)]

\* A consumer that stopped right after stream[i], a step in `steps`, and
\* resumes with that step's cursor: BlocksFromCursor either says nil
\* (restart lower) or gives steps that apply to what the consumer holds
\* and bring it to the Forkable's head, lastBlockSent.
ResumesFrom(steps) ==
  LET cs == Chains IN
  \A i \in 1..Len(stream) :
    stream[i].step \in steps =>
      LET r   == BlocksFromCursor(stream[i])
          acc == FoldLeft(Replay, [ok |-> TRUE, chain |-> cs[i + 1]], r.out)
      IN r.kind = "ok" => acc.ok /\ acc.chain # <<>> /\ Last(acc.chain) = lastBlockSent

\* Spec section 4.4: resuming from the cursor of a New step (the fast path
\* over the complete segment, or the undo walk of a forked cursor and the
\* recursive call from the junction) brings the consumer to the head.
ResumeFromNewCursor == ResumesFrom({"New"})

\* The same for the cursor of an Undo step: the consumer already rolled
\* the cursor's block back (the undo walk skips it; the fast path must not
\* assume the consumer still holds it).
ResumeFromUndoCursor == ResumesFrom({"Undo"})

\* BlocksFromFinal(blk) for a block the consumer holds replays exactly what
\* the consumer holds from blk up to its head, NewIrreversible up to the
\* LIB and New above it: the complete segment agrees with the stream.
FinalReplayMatchesStream ==
  LET c == FoldLeft(Follow, <<>>, stream) IN
  \A k \in 1..Len(c) :
    LET r == BlocksFromFinal(c[k]) IN
    r # <<>> =>
      /\ [i \in 1..Len(r) |-> r[i].block] = SubSeq(c, k, Len(c))
      /\ \A i \in 1..Len(r) :
           r[i].step = "NewIrreversible" <=>
             \E j \in 1..Len(stream) : stream[j].step = "Irreversible" /\ stream[j].block = r[i].block

-----------------------------------------------------------------------------
(* Refinement: Forkable implements AbstractForkable                       *)

\* What the consumer holds after the stream so far: the chain it follows,
\* the blocks it was told are final, and those it was told stalled.
ConsumerChain == FoldLeft(Follow, <<>>, stream)

FinalBlocks ==
  LET irr == SelectSeq(stream, LAMBDA e : e.step = "Irreversible")
  IN [i \in 1..Len(irr) |-> irr[i].block]

StalledBlocks == {stream[i].block : i \in {j \in 1..Len(stream) : stream[j].step = "Stalled"}}

AF == INSTANCE AbstractForkable
        WITH chain <- ConsumerChain, final <- FinalBlocks, stalled <- StalledBlocks

\* Every ProcessBlock call, taken as a whole, is one Deliver of the
\* abstract Forkable (spec sections 4.2 and 8): the undos roll back no
\* final block, the redos and new blocks leave the consumer on one linked
\* chain and never push a block reported stalled, the Irreversible steps
\* extend one gapless final chain lying below the consumer's head, and
\* the Stalled blocks are off that chain.
ImplementsAbstractForkable == AF!Spec


=============================================================================
