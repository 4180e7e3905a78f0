--------------------------- MODULE MCSyncHistory ----------------------------
(***************************************************************************)
(* Three nodes in a line for SyncHistory: the first is behind, the second  *)
(* mines and finds that the third has a longer chain.                      *)
(***************************************************************************)
EXTENDS SyncHistory, TLC

CONSTANTS n1, n2, n3

Line == {n1, n2, n3}
LineLinks == {{n1, n2}, {n2, n3}}
MiddleOnly == {n2}

\* The chain whose blocks the miners of the sequence mined.
ChainOf(miners) == [i \in 1..Len(miners)+1 |-> SubSeq(miners, 1, i - 1)]

\* Three nodes that mined apart.
LineChain ==
    (n1 :> ChainOf(<<n1>>)) @@ (n2 :> ChainOf(<<n2, n2>>))
      @@ (n3 :> ChainOf(<<n3, n3, n3, n3>>))

=============================================================================
