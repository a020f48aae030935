---------------------------- MODULE ForkableLock ----------------------------
(***************************************************************************)
(* The sync.RWMutex embedded in Forkable (forkable.go) and the goroutines *)
(* that take it.  ProcessBlock holds the write lock for the whole call    *)
(* (p.Lock(), deferred Unlock); it is called serially by the source's     *)
(* goroutine.  BlocksFromFinal and BlocksFromCursor take the read lock    *)
(* (p.RLock(), deferred RUnlock) from other goroutines.  On a forked      *)
(* cursor BlocksFromCursor calls itself while its own frame still holds   *)
(* the read lock, so it read-locks once per frame.                        *)
(*                                                                         *)
(* The Forkable's data is left out: how many frames a query enters        *)
(* depends on the cursor, which is the client's input, so a query picks   *)
(* its depth when it starts (1: BlocksFromFinal or a cursor on the chain).*)
(*                                                                         *)
(* Go's RWMutex: a Lock call makes every later RLock call wait at once    *)
(* and waits itself for the read locks held at that moment; Unlock hands  *)
(* the read lock to every RLock call that waited.                         *)
(***************************************************************************)
EXTENDS Naturals

CONSTANTS
  Queries,    (* goroutines calling the queries                           *)
  MaxDepth    (* deepest BlocksFromCursor recursion considered            *)

VARIABLES
  qpc,        (* per query: "idle", "rlock" (inside RLock), "held"        *)
  want,       (* per query: the frames the call enters                    *)
  frames,     (* per query: the frames holding a read lock                *)
  wpc         (* ProcessBlock: "idle", "lock" (inside Lock), "held"       *)

vars == <<qpc, want, frames, wpc>>

Init ==
  /\ qpc = [q \in Queries |-> "idle"]
  /\ want = [q \in Queries |-> 0]
  /\ frames = [q \in Queries |-> 0]
  /\ wpc = "idle"

\* The state of a query once its frame got the read lock: the next
\* recursive call (line 197) read-locks again, the last frame runs.
afterRLock(q) == IF frames[q] + 1 < want[q] THEN "rlock" ELSE "held"

\* A client calls BlocksFromFinal or BlocksFromCursor.
QueryStart(q) ==
  /\ qpc[q] = "idle"
  /\ \E d \in 1..MaxDepth : want' = [want EXCEPT ![q] = d]
  /\ qpc' = [qpc EXCEPT ![q] = "rlock"]
  /\ UNCHANGED <<frames, wpc>>

\* p.RLock() returns while no writer holds or waits for the lock.
QueryRLock(q) ==
  /\ qpc[q] = "rlock" /\ wpc = "idle"
  /\ frames' = [frames EXCEPT ![q] = @ + 1]
  /\ qpc' = [qpc EXCEPT ![q] = afterRLock(q)]
  /\ UNCHANGED <<want, wpc>>

\* The innermost frame returns, and every frame's deferred RUnlock runs.
QueryReturn(q) ==
  /\ qpc[q] = "held"
  /\ frames' = [frames EXCEPT ![q] = 0]
  /\ qpc' = [qpc EXCEPT ![q] = "idle"]
  /\ want' = [want EXCEPT ![q] = 0]
  /\ UNCHANGED wpc

\* The source hands ProcessBlock the next block: p.Lock() is called.
WriterLock ==
  /\ wpc = "idle"
  /\ wpc' = "lock"
  /\ UNCHANGED <<qpc, want, frames>>

\* p.Lock() returns once the read locks held when it was called are gone.
WriterAcquire ==
  /\ wpc = "lock"
  /\ \A q \in Queries : frames[q] = 0
  /\ wpc' = "held"
  /\ UNCHANGED <<qpc, want, frames>>

\* ProcessBlock returns (its handler calls done) and the deferred Unlock
\* hands the read lock to the RLock calls that waited.
WriterUnlock ==
  /\ wpc = "held"
  /\ wpc' = "idle"
  /\ frames' = [q \in Queries |-> IF qpc[q] = "rlock" THEN frames[q] + 1 ELSE frames[q]]
  /\ qpc' = [q \in Queries |-> IF qpc[q] = "rlock" THEN afterRLock(q) ELSE qpc[q]]
  /\ UNCHANGED want

Next ==
  \/ \E q \in Queries : QueryStart(q) \/ QueryRLock(q) \/ QueryReturn(q)
  \/ WriterLock \/ WriterAcquire \/ WriterUnlock

\* Runnable goroutines run; clients and upstream need not call at all.
Spec ==
  /\ Init /\ [][Next]_vars
  /\ \A q \in Queries : WF_vars(QueryRLock(q)) /\ WF_vars(QueryReturn(q))
  /\ WF_vars(WriterAcquire) /\ WF_vars(WriterUnlock)

\* Spec section 5: queries take the read lock and return; every call of
\* BlocksFromFinal or BlocksFromCursor eventually returns, whatever
\* ProcessBlock calls the source makes meanwhile.
QueriesReturn == \A q \in Queries : qpc[q] = "rlock" ~> qpc[q] = "idle"

=============================================================================
