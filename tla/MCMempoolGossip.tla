--------------------------- MODULE MCMempoolGossip --------------------------
(***************************************************************************)
(* Two nodes on a chain of one block, whose miner u1 makes three payments, *)
(* one more than an answer about the mempool carries; a version that gives *)
(* transactions a memo, and one that leaves out the nonce, are heard, too. *)
(***************************************************************************)
EXTENDS MempoolGossip, TLC

CONSTANTS n1, n2, u1, u2, r1, r2

MCNodes == {n1, n2}
MCUsers == {u1, u2}
MCMiners == (n1 :> u1) @@ (n2 :> u2)
MCSlots == {r1, r2}

MCChain ==
    <<genesis_block,
      new_block(<<genesis_block>>, MIN_DIFFICULTY, <<>>, u1, BlockTime)>>

Pay(amount, fee, nonce) ==
    [amount |-> amount, sender |-> u1, recipient |-> u2, fee |-> fee,
     timestamp |-> 1, nonce |-> nonce, signature |-> "valid"]

\* The fee of the later two is enough until a block confirms the first alone;
\* the miner's reward pays for all three.
first  == Pay(80, 210, 1)
second == Pay(60, 204, 2)
third  == Pay(40, 204, 3)

MCRequests == {first, second, third}

MCSymmetry == Permutations(MCSlots)

\* Transactions of a version with memos, and of one without nonces.
memo(tx) == [field \in TxFields \cup {"memo"} |->
                IF field = "memo" THEN "rent" ELSE tx[field]]
old(tx)  == [field \in TxFields \ {"nonce"} |-> tx[field]]

MCForeignTxs == {memo(first), memo(second), old(first)}

MCForeignAnswers == {<<old(first), memo(first), memo(second)>>}

\* A block of a version without difficulty, and one without nonces.
MCForeignBlocks ==
    {[block_header |-> [block_height |-> 2, timestamp |-> 2 * BlockTime],
      transactions |-> <<>>],
     [block_header |-> serialize_block(MCChain[2]).block_header,
      transactions |-> <<old(first)>>]}

=============================================================================
