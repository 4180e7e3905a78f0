---------------------------- MODULE MCChainSync -----------------------------
(***************************************************************************)
(* Two nodes on a fork, for ChainSync.                                     *)
(***************************************************************************)
EXTENDS ChainSync, TLC

CONSTANTS n1, n2

Pair == {n1, n2}

PairLinks == {{n1, n2}}

\* The chain whose blocks the miners of the sequence mined.
ChainOf(miners) == [i \in 1..Len(miners)+1 |-> SubSeq(miners, 1, i - 1)]

\* Two nodes that mined apart, on a common first block.
ForkChain ==
    (n1 :> ChainOf(<<n1, n1>>)) @@ (n2 :> ChainOf(<<n1, n2, n2>>))

=============================================================================
