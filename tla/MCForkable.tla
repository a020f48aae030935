----------------------------- MODULE MCForkable -----------------------------
(***************************************************************************)
(* A fork of two branches above b2, as in spec.md section 8 scenarios 1-2: *)
(*                                                                         *)
(*   b1 <- b2 <- b3 <- b4 <- b5      (b4, b5 assert LIB 2)                *)
(*           \<- c3 <- c4 <- c5      (c5 asserts LIB 4: b3, b4 stall)     *)
(*                                                                         *)
(* b1's parent b0 is never sent; bx is self-parented bad data.            *)
(***************************************************************************)
EXTENDS Forkable, TLC

MCBlocks == {"b1", "b2", "b3", "b4", "b5", "c3", "c4", "c5", "bx"}

MCParent == [b \in MCBlocks |->
  CASE b = "b1" -> "b0" [] b = "b2" -> "b1" [] b = "b3" -> "b2"
    [] b = "b4" -> "b3" [] b = "b5" -> "b4" [] b = "c3" -> "b2" [] b = "c4" -> "c3"
    [] b = "c5" -> "c4" [] b = "bx" -> "bx"]

MCNum == [b \in MCBlocks |->
  CASE b = "b1" -> 1 [] b = "b2" -> 2 [] b = "b3" -> 3 [] b = "b4" -> 4 [] b = "b5" -> 5
    [] b = "c3" -> 3 [] b = "c4" -> 4 [] b = "c5" -> 5 [] b = "bx" -> 5]

MCLibNum == [b \in MCBlocks |->
  CASE b = "b1" -> 1 [] b = "b2" -> 1 [] b = "b3" -> 1 [] b = "b4" -> 2 [] b = "b5" -> 2
    [] b = "c3" -> 1 [] b = "c4" -> 1 [] b = "c5" -> 4 [] b = "bx" -> 4]

MCAllSteps == {"New", "Undo", "Irreversible", "Stalled"}

=============================================================================
