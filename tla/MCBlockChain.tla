---------------------------- MODULE MCBlockChain ----------------------------
(***************************************************************************)
(* A small instance of BlockChain for TLC: two users, four transactions,   *)
(* windows of two and three blocks, and the blocks and branches peers send *)
(* on any chain the node may have.                                         *)
(***************************************************************************)
EXTENDS BlockBody, TLC

CONSTANTS u1, u2

MCUsers == {u1, u2}

\* With BLOCK_WINDOW_FEE = 2 one coin is 4000 units, the fee on a short chain
\* 400 (0.1 coin) and later 200 plus one for every recent transaction.
\* The node's miner, u1, earns the first balance.
Pay(sender, recipient, amount, fee, nonce) ==
    [amount |-> amount, sender |-> sender, recipient |-> recipient,
     fee |-> fee, timestamp |-> 1, nonce |-> nonce, signature |-> "valid"]

first   == Pay(u1, u2, 80, 400, 1)
\* A second payment with the fee of a quiet chain; it fits beside first only
\* after a second reward.
second  == Pay(u1, u2, 90, 204, 2)
\* The same payment as first, made once more.
again   == [first EXCEPT !.nonce = 2]
back    == Pay(u2, u1, 30, 400, 1)

MCRequests == {first, second, again, back}

-----------------------------------------------------------------------------

\* A peer's block with these transactions on a chain; its miner is u2.
PeerBlock(c, txs, step) ==
    new_block(c, rebuild_next_difficulty(c), txs, u2,
              get_latest_block(c).timestamp + step)

Unfunded == Pay(u1, u2, 5000, 400, 1)
Unsigned == [first EXCEPT !.signature = "none"]

\* Blocks as peers mine them (some of their transactions do not apply to this
\* chain), and blocks with one thing wrong.
MCPeerBlocks(c) ==
    LET honest == PeerBlock(c, <<first>>, 5)
        n == Len(honest.txs)
    IN  {PeerBlock(c, txs, 5) : txs \in {<<>>, <<first>>, <<back>>,
                                         <<Unfunded>>, <<Unsigned>>}}
          \cup {[honest EXCEPT !.difficulty = @ + 1],
                [honest EXCEPT !.sealed = FALSE],
                [honest EXCEPT !.height = @ - 1],
                [honest EXCEPT !.prev = <<>>],
                [honest EXCEPT !.txs[n].amount = @ + 1],
                [honest EXCEPT !.txs[n-1].amount = @ + 1]}

\* c and k blocks on top of it, the first of which holds txs.
Extended(c, txs, k) ==
    LET longer[i \in 0..k] ==
            IF i = 0 THEN c
            ELSE LET d == longer[i-1]
                 IN  Append(d, PeerBlock(d, IF i = 1 THEN txs ELSE <<>>, 15))
    IN  longer[k]

\* The branch from height h that is one block longer than c.
LongerBranch(c, txs, h) ==
    SubSeq(Extended(SubSeq(c, 1, h + 1), txs, Len(c) - h), h + 2, Len(c) + 1)

\* Longer branches from every block of the chain, one with a bad last block,
\* and one that is not longer.
MCPeerBranches(c) ==
    LET tip == Len(c) - 1
        plain(h) == LongerBranch(c, <<>>, h)
    IN  IF Len(c) = MaxChain THEN {<<tip, <<>>>>}
        ELSE {<<h, LongerBranch(c, txs, h)>> :
                 h \in 0..tip, txs \in {<<>>, <<first>>}}
             \cup {<<tip, [plain(tip) EXCEPT ![1].sealed = FALSE]>>,
                   <<0, SubSeq(plain(0), 1, tip)>>}

-----------------------------------------------------------------------------
(* For RootCoversBlock: what a peer may put in the place of a body *)

\* The beginnings of a body, each followed by up to three of its transactions.
MCOtherBodies(txs) ==
    {SubSeq(txs, 1, k) \o rest :
        k \in 0..Len(txs),
        rest \in UNION {[1..m -> Range(txs)] : m \in 0..3}}

-----------------------------------------------------------------------------
(* For PendingIsConfirmed: payments of u1 behind one another *)

one   == Pay(u1, u2, 20, 400, 1)
\* Fits the fee of a quiet chain; one payment in a peer's block is too many.
cheap == Pay(u1, u2, 20, 204, 2)
dear  == Pay(u1, u2, 30, 400, 2)
\* The highest fee, behind either of them.
three == Pay(u1, u2, 10, 400, 3)

MCLiveRequests == {one, cheap, dear, three}

\* Peers have u1's first payment, or another one u1 gave the same nonce.
rival == Pay(u1, u2, 40, 400, 1)

MCLivePeerBlocks(c) ==
    {PeerBlock(c, txs, 5) : txs \in {<<>>, <<one>>, <<rival>>, <<one, dear>>}}

=============================================================================
