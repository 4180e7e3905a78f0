------------------------------ MODULE BlockBody -----------------------------
(***************************************************************************)
(* Why the other modules may take a block hash for the contents of the     *)
(* block: the hash covers the transactions through their Merkle root       *)
(* alone (src/src/core/block.ts), and a list of transactions is not the    *)
(* only one with its root: merkleroot.ts:14 repeats the last node of every *)
(* odd level, so that abcde, abcdee, abcdeee and abcdeeee share one.       *)
(***************************************************************************)
EXTENDS BlockChain, MerkleRoot

\* The lists of transactions a peer may put in the place of those of a block.
CONSTANT OtherBodies(_)

\* No block of the chain can be taken for another: a block with the same
\* header, so with the same Merkle root and hash, and with any other list of
\* transactions does not pass validate_system_transactions.
RootCoversBlock ==
    \A h \in 2..Len(chain) : \A txs \in OtherBodies(chain[h].txs) :
        /\ txs \in Seq(Tx)
        /\ validate_system_transactions([chain[h] EXCEPT !.txs = txs])
        /\ calc_merkleroot(txs) = calc_merkleroot(chain[h].txs)
        => txs = chain[h].txs

=============================================================================
