------------------------- MODULE AbstractFileSource -------------------------
(***************************************************************************)
(* What a FileSource promises its handler (spec.md sections 4.5 and 5):   *)
(* the blocks of `Stream` one at a time and in order, until the source is *)
(* stopped, and all of them unless it is stopped.  A stop is final.  A    *)
(* block may still be handed over after the stop (a handler call already  *)
(* under way), but none is owed any more.                                 *)
(***************************************************************************)
EXTENDS Naturals, Sequences

CONSTANT Stream        (* the blocks the handler is to get, in order      *)

VARIABLES handled,     (* the blocks handed over so far                  *)
          stopped      (* the source was shut down                       *)

vars == <<handled, stopped>>

Init == handled = <<>> /\ stopped = FALSE

\* The next block of the stream is handed over.
Deliver ==
  /\ Len(handled) < Len(Stream)
  /\ handled' = Append(handled, Stream[Len(handled) + 1])
  /\ UNCHANGED stopped

\* The source is shut down: by its caller or by an error.
Stop ==
  /\ ~stopped
  /\ stopped' = TRUE
  /\ UNCHANGED handled

Next == Deliver \/ Stop

\* Delivery is owed only while the source runs.
Spec == Init /\ [][Next]_vars /\ WF_vars(~stopped /\ Deliver)

=============================================================================
