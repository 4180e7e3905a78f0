---------------------------- MODULE SyncHistory -----------------------------
(***************************************************************************)
(* ChainSync with what an observer of a sync remembers: the chain the peer *)
(* had when it gave its latest answer.  A round of a sync asks for the     *)
(* height, for hashes and for batches of blocks one after the other, and   *)
(* the peer's chain may be another one at each answer (p2p.ts:341-409).    *)
(***************************************************************************)
EXTENDS ChainSync

VARIABLES
    source,    \* the chain the latest answer to each node was read from
    steady     \* it continues those of the earlier answers of the round

hvars == <<vars, source, steady>>

HistoryInit ==
    /\ Init
    /\ source = [n \in Nodes |-> <<>>]
    /\ steady = [n \in Nodes |-> FALSE]

Answered(n) == response[n] = NoResponse /\ response'[n] # NoResponse

\* Nothing is remembered of a sync that is over.
Remember ==
    LET PeerChain(n) == chain[sync[n].peer]
        Continues(n) == \/ sync[n].pc = "height"
                        \/ steady[n] /\ IsPrefix(source[n], PeerChain(n))
    IN  /\ source' = [n \in Nodes |-> IF ~ Waiting(n)' THEN <<>>
                                      ELSE IF Answered(n) THEN PeerChain(n)
                                      ELSE source[n]]
        /\ steady' = [n \in Nodes |-> /\ Waiting(n)'
                                      /\ IF Answered(n) THEN Continues(n)
                                         ELSE steady[n]]

HistoryNext == Next /\ Remember

HistorySpec == HistoryInit /\ [][HistoryNext]_hvars

-----------------------------------------------------------------------------
(* Properties *)

\* A sync brings a node to the chain of its peer.  What it adopts is never put
\* together from two chains the peer had, however it reorganised between its
\* answers: it is the beginning of the one the last batch was read from.  And
\* if the peer only appended blocks since it gave its height, the search finds
\* where the chains part, no batch is refused, and the node ends the round with
\* all that the peer had promised.
FollowsPeer ==
    [][\A n \in Nodes :
         Receive(n) =>
           /\ chain'[n] # chain[n] => IsPrefix(chain'[n], source[n])
           /\ steady[n] /\ sync[n].pc # "height" =>
                \/ sync'[n].pc \in {"hash", "blocks"}
                \/ chain'[n] = SubSeq(source[n], 1, sync[n].remote_height + 1)
      ]_hvars

=============================================================================
