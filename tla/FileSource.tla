----------------------------- MODULE FileSource -----------------------------
(***************************************************************************)
(* FileSource (filesource.go): streams the bundle files of a block store  *)
(* to a handler.  Goroutines, each a set of actions below:                *)
(*   run          the main loop: look the next bundle up, retry while it  *)
(*                does not exist, push it on fileStream (capacity 1) and  *)
(*                spawn its reader;                                       *)
(*   streamReader one per file: read the blocks, start one preprocess    *)
(*                goroutine per kept block and queue its result channel   *)
(*                on `preprocessed` (capacity preprocessorThreadCount);   *)
(*   output       one per file: take the queued channels in order, wait   *)
(*                for the result, hand it over the file's unbuffered      *)
(*                `blocks` channel;                                       *)
(*   preprocess   one per block;                                          *)
(*   launchSink   take files from fileStream and call the handler for     *)
(*                every block of each, in order.                          *)
(* A block is its number.  Each bundle file holds the BundleSize blocks   *)
(* numbered from its base.  With a block indexer, run asks it for the    *)
(* next bundle that holds an indexed block (LookupBlockIndex).           *)
(* `terminating` is the shutter: any goroutine may trip it on an error.   *)
(***************************************************************************)
EXTENDS Naturals, Sequences, FiniteSets

LOCAL INSTANCE SequencesExt

CONSTANTS
  StartBlockNum,
  StopBlockNum,             (* 0: open-ended                              *)
  BundleSize,
  PreprocessorThreadCount,
  GatorPass,                (* the block numbers gator.Pass accepts       *)
  MaxBase,                  (* the last bundle the store will ever hold   *)
  BlockIndexer,             (* a block indexer is configured              *)
  Index,                    (* the block numbers it holds                 *)
  Failures                  (* subset of {"index","exists","open","read",
                               "preprocess","handler"}: calls that may fail *)

None == -1

\* The bundle bases of the store, and the block numbers of a file.
Bases == {k * BundleSize : k \in 0..MaxBase \div BundleSize}
Nums == 0..MaxBase + BundleSize - 1
FileBlocks(f) == [i \in 1..BundleSize |-> f + i - 1]

LB == INSTANCE LookupBlockIndex

VARIABLES
  mpc, base, delay,         (* run                                        *)
  published,                (* bases whose file exists in the store       *)
  fileStream,
  rpc, pos, preprocessed, qclosed,    (* streamReader, per file           *)
  working, ready,           (* preprocess goroutines running / results    *)
  opc, held,                (* output goroutine, per file                 *)
  spc, cur, got,            (* launchSink                                 *)
  delivered,                (* handler.ProcessBlock calls, in order       *)
  highestFileProcessedBlock,
  terminating

mainVars   == <<mpc, base, delay>>
readerVars == <<rpc, pos, preprocessed, qclosed, working, ready>>
outVars    == <<opc, held>>
sinkVars   == <<spc, cur, got, delivered, highestFileProcessedBlock>>
vars == <<mainVars, published, fileStream, readerVars, outVars, sinkVars, terminating>>

\* Mutation variant: a fileStream with room for two files.
FileStreamCapTwo == 2

\* NewFileSource: fileStream is a channel of capacity 1.
FileStreamCap == 1

\* Types; the channels hold no more than their capacity.
TypeOK ==
  /\ mpc \in {"loop", "push", "wait", "spin", "exit"}
  /\ base \in Nat /\ delay \in BOOLEAN
  /\ published \subseteq Bases
  /\ fileStream \in BoundedSeq(Bases, FileStreamCap)
  /\ rpc \in [Bases -> {"none", "open", "read", "drain", "failed", "exit"}]
  /\ pos \in [Bases -> 1..BundleSize + 1]
  /\ preprocessed \in [Bases -> BoundedSeq(Nums, PreprocessorThreadCount)]
  /\ qclosed \in [Bases -> BOOLEAN]
  /\ working \in [Bases -> SUBSET Nums]
  /\ ready \in [Bases -> SUBSET Nums]
  /\ opc \in [Bases -> {"none", "wait", "hold", "send", "exit"}]
  /\ held \in [Bases -> Nums \cup {None}]
  /\ spc \in {"idle", "recv", "got", "call", "exit"}
  /\ cur \in Bases \cup {None} /\ got \in Nums \cup {None}
  /\ delivered \in Seq(Nums)
  /\ highestFileProcessedBlock \in Nums \cup {None}
  /\ terminating \in BOOLEAN

\* The first lines of run: base is rounded down to its bundle.  The store
\* already holds some first bundles.
Init ==
  /\ mpc = "loop" /\ base = StartBlockNum - (StartBlockNum % BundleSize)
  /\ delay = FALSE
  /\ published \in {{b \in Bases : b < p} : p \in Bases \cup {MaxBase + BundleSize}}
  /\ fileStream = <<>>
  /\ rpc = [f \in Bases |-> "none"] /\ pos = [f \in Bases |-> 1]
  /\ preprocessed = [f \in Bases |-> <<>>] /\ qclosed = [f \in Bases |-> FALSE]
  /\ working = [f \in Bases |-> {}] /\ ready = [f \in Bases |-> {}]
  /\ opc = [f \in Bases |-> "none"] /\ held = [f \in Bases |-> None]
  /\ spc = "idle" /\ cur = None /\ got = None
  /\ delivered = <<>> /\ highestFileProcessedBlock = None
  /\ terminating = FALSE

\* Shutdown(err): the shutter trips once; later calls change nothing.
Shutdown == terminating' = TRUE

Fails(op) == op \in Failures

\* The merger of the store writes the next bundle file.
Publish ==
  \E f \in Bases \ published :
    /\ \A g \in Bases : g < f => g \in published
    /\ published' = published \cup {f}
    /\ UNCHANGED <<mainVars, fileStream, readerVars, outVars, sinkVars, terminating>>

\* The caller of the source stops it (Shutdown(nil)).
CallerShutdown ==
  /\ ~terminating
  /\ Shutdown
  /\ UNCHANGED <<mainVars, published, fileStream, readerVars, outVars, sinkVars>>
-----------------------------------------------------------------------------
(* run                                                                     *)

\* Top of the loop: the select on Terminating returns.
RunTerminated ==
  /\ mpc \in {"loop", "push", "wait"}
  /\ terminating
  /\ mpc' = "exit"
  /\ UNCHANGED <<base, delay, published, fileStream, readerVars, outVars,
                 sinkVars, terminating>>

\* time.After(delay) fired.  With an indexer, lookupBlockIndex moves base
\* to the next bundle holding an indexed block; an error of BlocksInRange
\* or the index-misuse error ends run, and Run shuts the source down; a
\* scan that never finds a bundle never returns, and never looks at the
\* shutter.  Then FileExists on the bundle of `base`: an error ends run, a
\* missing file sets the retry delay and loops, an existing one clears it.
RunLookup ==
  LET r == IF BlockIndexer THEN LB!lookupBlockIndex(base) ELSE LB!Found(base, <<>>)
  IN
  /\ mpc = "loop"
  /\ \/ /\ \/ BlockIndexer /\ (Fails("index") \/ r.kind = "error")
           \/ r.kind = "ok" /\ Fails("exists")
        /\ mpc' = "exit" /\ Shutdown
        /\ UNCHANGED <<base, delay>>
     \/ /\ r.kind = "spin"
        /\ mpc' = "spin"
        /\ UNCHANGED <<base, delay, terminating>>
     \/ /\ r.kind = "ok" /\ r.base \notin published
        /\ base' = r.base /\ delay' = TRUE
        /\ UNCHANGED <<mpc, terminating>>
     \/ /\ r.kind = "ok" /\ r.base \in published
        /\ base' = r.base /\ delay' = FALSE /\ mpc' = "push"
        /\ UNCHANGED terminating
  /\ UNCHANGED <<published, fileStream, readerVars, outVars, sinkVars>>

\* The file is pushed on fileStream, its streamIncomingFile goroutine is
\* spawned, and base moves to the next bundle; past stopBlockNum, run only
\* waits for termination.
RunPush ==
  /\ mpc = "push"
  /\ Len(fileStream) < FileStreamCap
  /\ fileStream' = Append(fileStream, base)
  /\ rpc' = [rpc EXCEPT ![base] = "open"]
  /\ base' = base + BundleSize
  /\ mpc' = IF StopBlockNum # 0 /\ base + BundleSize > StopBlockNum
            THEN "wait" ELSE "loop"
  /\ UNCHANGED <<delay, published, pos, preprocessed, qclosed, working, ready,
                 outVars, sinkVars, terminating>>
-----------------------------------------------------------------------------
(* streamIncomingFile / streamReader, the goroutine of file f              *)

\* OpenObject, or the block reader factory, fails: the goroutine returns
\* the error and shuts the source down.  Otherwise streamReader starts the
\* output goroutine of the file.
ReaderOpen(f) ==
  /\ rpc[f] = "open"
  /\ \/ /\ Fails("open")
        /\ rpc' = [rpc EXCEPT ![f] = "exit"] /\ Shutdown
        /\ UNCHANGED opc
     \/ /\ rpc' = [rpc EXCEPT ![f] = "read"]
        /\ opc' = [opc EXCEPT ![f] = "wait"]
        /\ UNCHANGED terminating
  /\ UNCHANGED <<mainVars, published, fileStream, pos, preprocessed, qclosed,
                 working, ready, held, sinkVars>>

\* IsTerminating at the top of the read loop, or the select on Terminating
\* while the queue is full: return, leaving `preprocessed` open.
ReaderTerminated(f) ==
  /\ rpc[f] = "read" /\ terminating
  /\ rpc' = [rpc EXCEPT ![f] = "exit"]
  /\ UNCHANGED <<mainVars, published, fileStream, pos, preprocessed, qclosed,
                 working, ready, outVars, sinkVars, terminating>>

\* Mutation variant: drops startBlockNum itself.
KeptAfterStart(n) == n > StartBlockNum /\ n \in GatorPass

\* A block streamReader passes on: not below startBlockNum and passed by
\* the gator (prevLastBlockRead is always nil from streamIncomingFile).
Kept(n) == n >= StartBlockNum /\ n \in GatorPass

\* Read returns a block that is dropped.
ReaderSkip(f) ==
  /\ rpc[f] = "read" /\ ~terminating
  /\ pos[f] <= BundleSize /\ ~Kept(FileBlocks(f)[pos[f]])
  /\ pos' = [pos EXCEPT ![f] = @ + 1]
  /\ UNCHANGED <<mainVars, published, fileStream, rpc, preprocessed, qclosed,
                 working, ready, outVars, sinkVars, terminating>>

\* Mutation variant: queues one result channel more than the capacity.
ReaderEnqueueOverCap(f) ==
  LET n == FileBlocks(f)[pos[f]] IN
  /\ rpc[f] = "read" /\ ~terminating
  /\ pos[f] <= BundleSize /\ Kept(n)
  /\ Len(preprocessed[f]) <= PreprocessorThreadCount
  /\ preprocessed' = [preprocessed EXCEPT ![f] = Append(@, n)]
  /\ pos' = [pos EXCEPT ![f] = @ + 1]
  /\ working' = [working EXCEPT ![f] = @ \cup {n}]
  /\ UNCHANGED <<mainVars, published, fileStream, rpc, qclosed, ready,
                 outVars, sinkVars, terminating>>

\* Read returns a kept block: its result channel is queued on
\* `preprocessed` (a hand-off to the output goroutine when the capacity is
\* 0) and its preprocess goroutine starts.
ReaderEnqueue(f) ==
  LET n == FileBlocks(f)[pos[f]] IN
  /\ rpc[f] = "read" /\ ~terminating
  /\ pos[f] <= BundleSize /\ Kept(n)
  /\ \/ /\ Len(preprocessed[f]) < PreprocessorThreadCount
        /\ preprocessed' = [preprocessed EXCEPT ![f] = Append(@, n)]
        /\ UNCHANGED outVars
     \/ /\ PreprocessorThreadCount = 0 /\ opc[f] = "wait"
        /\ opc' = [opc EXCEPT ![f] = "hold"] /\ held' = [held EXCEPT ![f] = n]
        /\ UNCHANGED preprocessed
  /\ pos' = [pos EXCEPT ![f] = @ + 1]
  /\ working' = [working EXCEPT ![f] = @ \cup {n}]
  /\ UNCHANGED <<mainVars, published, fileStream, rpc, qclosed, ready,
                 sinkVars, terminating>>

\* io.EOF closes `preprocessed` and waits for the output goroutine (done);
\* any other Read error closes it and returns the error, without waiting.
ReaderEOF(f) ==
  /\ rpc[f] = "read" /\ ~terminating
  /\ \/ pos[f] > BundleSize /\ rpc' = [rpc EXCEPT ![f] = "drain"]
     \/ Fails("read") /\ rpc' = [rpc EXCEPT ![f] = "failed"]
  /\ qclosed' = [qclosed EXCEPT ![f] = TRUE]
  /\ UNCHANGED <<mainVars, published, fileStream, pos, preprocessed, working,
                 ready, outVars, sinkVars, terminating>>

\* streamIncomingFile returns the read error (after its deferred
\* reader.Close), and the goroutine run spawned shuts the source down.
ReaderFailed(f) ==
  /\ rpc[f] = "failed"
  /\ rpc' = [rpc EXCEPT ![f] = "exit"]
  /\ Shutdown
  /\ UNCHANGED <<mainVars, published, fileStream, pos, preprocessed, qclosed,
                 working, ready, outVars, sinkVars>>

\* <-done: the output goroutine has closed the file's blocks channel.
ReaderDone(f) ==
  /\ rpc[f] = "drain" /\ opc[f] = "exit"
  /\ rpc' = [rpc EXCEPT ![f] = "exit"]
  /\ UNCHANGED <<mainVars, published, fileStream, pos, preprocessed, qclosed,
                 working, ready, outVars, sinkVars, terminating>>

\* preprocess(block, out): preprocFunc fails and shuts the source down, or
\* the result is put in `out` (capacity 1; dropped once terminating).
Preprocess(f, n) ==
  /\ n \in working[f]
  /\ working' = [working EXCEPT ![f] = @ \ {n}]
  /\ \/ Fails("preprocess") /\ Shutdown /\ UNCHANGED ready
     \/ ready' = [ready EXCEPT ![f] = @ \cup {n}] /\ UNCHANGED terminating
     \/ terminating /\ UNCHANGED <<ready, terminating>>
  /\ UNCHANGED <<mainVars, published, fileStream, rpc, pos, preprocessed,
                 qclosed, outVars, sinkVars>>
-----------------------------------------------------------------------------
(* The output goroutine of file f (streamReader), and launchSink           *)

\* Mutation variant: waits for the preprocess result without a select.
OutputTerminatedNoHold(f) ==
  /\ opc[f] \in {"wait", "send"} /\ terminating
  /\ opc' = [opc EXCEPT ![f] = "exit"]
  /\ UNCHANGED <<mainVars, published, fileStream, readerVars, held, sinkVars,
                 terminating>>

\* Any of its selects sees Terminating: return, closing the blocks channel.
OutputTerminated(f) ==
  /\ opc[f] \in {"wait", "hold", "send"} /\ terminating
  /\ opc' = [opc EXCEPT ![f] = "exit"]
  /\ UNCHANGED <<mainVars, published, fileStream, readerVars, held, sinkVars,
                 terminating>>

\* Mutation variant: takes whichever queued result is ready first.
OutputTakeReady(f) ==
  /\ opc[f] = "wait"
  /\ \E i \in 1..Len(preprocessed[f]) :
       /\ preprocessed[f][i] \in ready[f]
       /\ held' = [held EXCEPT ![f] = preprocessed[f][i]]
       /\ preprocessed' = [preprocessed EXCEPT ![f] = RemoveAt(@, i)]
  /\ opc' = [opc EXCEPT ![f] = "hold"]
  /\ UNCHANGED <<mainVars, published, fileStream, rpc, pos, qclosed, working,
                 ready, sinkVars, terminating>>

\* <-preprocessed: the oldest queued result channel.
OutputTake(f) ==
  /\ opc[f] = "wait" /\ preprocessed[f] # <<>>
  /\ held' = [held EXCEPT ![f] = Head(preprocessed[f])]
  /\ preprocessed' = [preprocessed EXCEPT ![f] = Tail(@)]
  /\ opc' = [opc EXCEPT ![f] = "hold"]
  /\ UNCHANGED <<mainVars, published, fileStream, rpc, pos, qclosed, working,
                 ready, sinkVars, terminating>>

\* `preprocessed` closed and drained: return, closing the blocks channel.
OutputClosed(f) ==
  /\ opc[f] = "wait" /\ qclosed[f] /\ preprocessed[f] = <<>>
  /\ opc' = [opc EXCEPT ![f] = "exit"]
  /\ UNCHANGED <<mainVars, published, fileStream, readerVars, held, sinkVars,
                 terminating>>

\* <-ppChan: the held block's preprocess result arrives.
OutputResult(f) ==
  /\ opc[f] = "hold" /\ held[f] \in ready[f]
  /\ ready' = [ready EXCEPT ![f] = @ \ {held[f]}]
  /\ opc' = [opc EXCEPT ![f] = "send"]
  /\ UNCHANGED <<mainVars, published, fileStream, rpc, pos, preprocessed,
                 qclosed, working, held, sinkVars, terminating>>

\* output <- block: the unbuffered blocks channel hands the block to the
\* sink ranging over this file.
OutputSend(f) ==
  /\ opc[f] = "send" /\ spc = "recv" /\ cur = f
  /\ opc' = [opc EXCEPT ![f] = "wait"]
  /\ spc' = "got" /\ got' = held[f]
  /\ UNCHANGED <<mainVars, published, fileStream, readerVars, held, cur,
                 delivered, highestFileProcessedBlock, terminating>>

\* launchSink: the select on Terminating, or the next file of fileStream.
SinkNextFile ==
  /\ spc = "idle"
  /\ \/ terminating /\ spc' = "exit" /\ UNCHANGED <<cur, fileStream>>
     \/ fileStream # <<>> /\ spc' = "recv" /\ cur' = Head(fileStream)
        /\ fileStream' = Tail(fileStream)
  /\ UNCHANGED <<mainVars, published, readerVars, outVars, got, delivered,
                 highestFileProcessedBlock, terminating>>

\* The range over the file's blocks channel ends when it is closed.
SinkFileDone ==
  /\ spc = "recv" /\ opc[cur] = "exit"
  /\ spc' = "idle"
  /\ UNCHANGED <<mainVars, published, fileStream, readerVars, outVars, cur,
                 got, delivered, highestFileProcessedBlock, terminating>>

\* highestFileProcessedBlock is replaced only when already set.
highestAfter(n) ==
  IF highestFileProcessedBlock # None /\ n > highestFileProcessedBlock
  THEN n ELSE highestFileProcessedBlock

\* IsTerminating, checked on every block received: return.
SinkCheck ==
  /\ spc = "got"
  /\ spc' = IF terminating THEN "exit" ELSE "call"
  /\ UNCHANGED <<mainVars, published, fileStream, readerVars, outVars, cur, got,
                 delivered, highestFileProcessedBlock, terminating>>

\* handler.ProcessBlock: an error shuts the source down and returns.
SinkProcessBlock ==
  /\ spc = "call"
  /\ \/ Fails("handler") /\ spc' = "exit" /\ Shutdown
        /\ UNCHANGED <<delivered, highestFileProcessedBlock>>
     \/ spc' = "recv"
        /\ delivered' = Append(delivered, got)
        /\ highestFileProcessedBlock' = highestAfter(got)
        /\ UNCHANGED terminating
  /\ UNCHANGED <<mainVars, published, fileStream, readerVars, outVars, cur, got>>

-----------------------------------------------------------------------------
Next ==
  \/ Publish \/ CallerShutdown
  \/ RunTerminated \/ RunLookup \/ RunPush
  \/ \E f \in Bases :
       \/ ReaderOpen(f) \/ ReaderTerminated(f) \/ ReaderSkip(f)
       \/ ReaderEnqueue(f) \/ ReaderEOF(f) \/ ReaderFailed(f) \/ ReaderDone(f)
       \/ \E n \in Nums : Preprocess(f, n)
       \/ OutputTerminated(f) \/ OutputTake(f) \/ OutputClosed(f)
       \/ OutputResult(f) \/ OutputSend(f)
  \/ SinkNextFile \/ SinkFileDone \/ SinkCheck \/ SinkProcessBlock

\* Every goroutine that can run eventually runs (the Go scheduler), and
\* the store's writer eventually writes every bundle up to MaxBase.
Fairness ==
  /\ WF_vars(Publish)
  /\ WF_vars(RunTerminated) /\ WF_vars(RunLookup) /\ WF_vars(RunPush)
  /\ \A f \in Bases :
       /\ WF_vars(ReaderOpen(f)) /\ WF_vars(ReaderTerminated(f))
       /\ WF_vars(ReaderSkip(f)) /\ WF_vars(ReaderEnqueue(f))
       /\ WF_vars(ReaderEOF(f)) /\ WF_vars(ReaderFailed(f))
       /\ WF_vars(ReaderDone(f))
       /\ WF_vars(\E n \in Nums : Preprocess(f, n))
       /\ WF_vars(OutputTerminated(f)) /\ WF_vars(OutputTake(f))
       /\ WF_vars(OutputClosed(f)) /\ WF_vars(OutputResult(f))
       /\ WF_vars(OutputSend(f))
  /\ WF_vars(SinkNextFile) /\ WF_vars(SinkFileDone)
  /\ WF_vars(SinkCheck) /\ WF_vars(SinkProcessBlock)

Spec == Init /\ [][Next]_vars /\ Fairness
-----------------------------------------------------------------------------
(* Properties                                                              *)

\* Reference: the blocks a source from startBlockNum hands over, ascending:
\* every block from startBlockNum up to the end of the bundle holding
\* stopBlockNum (up to the last bundle when open-ended) that the gator
\* passes; with an indexer, only in the bundles whose list spec section 4.5
\* makes non-empty, read whole (streamReader reads every block of a file).
ExpectedStream ==
  LET last == IF StopBlockNum = 0 THEN MaxBase + BundleSize
              ELSE (StopBlockNum \div BundleSize + 1) * BundleSize
      listed(n) == ~BlockIndexer \/ LB!Listed(n - (n % BundleSize)) # <<>>
  IN SetToSortSeq({n \in Nums : n >= StartBlockNum /\ n < last /\ n \in GatorPass
                                /\ listed(n)}, <)

\* The handler gets the blocks in ascending order (spec section 5: a totally
\* ordered stream, although blocks are preprocessed in parallel and two
\* files are read at once), none twice, none below startBlockNum or refused
\* by the gator, none skipped: what it got so far is a prefix of the
\* reference stream.
DeliveredIsPrefix == IsPrefix(delivered, ExpectedStream)

\* The preprocess goroutines alive at once: per file, the results queued on
\* `preprocessed` and the one the output goroutine waits for, and at most
\* two files read at once (the one the sink drains, the one on fileStream).
PreprocessGoroutinesBounded ==
  /\ Cardinality({f \in Bases : working[f] # {}}) <= 2
  /\ \A f \in Bases : Cardinality(working[f]) <= PreprocessorThreadCount + 1

AFS == INSTANCE AbstractFileSource
         WITH Stream <- ExpectedStream, handled <- delivered, stopped <- terminating

\* FileSource implements AbstractFileSource under the mapping above: each
\* handler call (launchSink) appends the next block of the reference
\* stream, the shutter never resets, and unless the source shuts down
\* every block is eventually handed over (retries on missing files, the
\* index lookup, the hand-over between output goroutine and sink, end of
\* file via close).
ImplementsAbstractFileSource == AFS!Spec

\* Every goroutine has returned: run, launchSink, and the reader, output
\* and preprocess goroutines of every file.
Quiesced ==
  /\ mpc = "exit" /\ spc = "exit"
  /\ \A f \in Bases : /\ rpc[f] \in {"none", "exit"}
                      /\ opc[f] \in {"none", "exit"}
                      /\ working[f] = {}

\* Spec section 5: on shutdown every task observing termination exits, and
\* channels are closed on every path so that no task stays blocked: once
\* the shutter trips, every goroutine eventually returns.
ShutdownQuiesces == terminating ~> Quiesced

=============================================================================
