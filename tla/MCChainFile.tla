---------------------------- MODULE MCChainFile -----------------------------
(***************************************************************************)
(* A small instance of ChainFile: two blocks besides the genesis blocks,   *)
(* chains of up to three blocks.                                           *)
(***************************************************************************)
EXTENDS ChainFile

=============================================================================
