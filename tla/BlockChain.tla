----------------------------- MODULE BlockChain -----------------------------
(***************************************************************************)
(* The BlockChain object of one node (src/src/core/blockchain.ts): the     *)
(* chain, what is derived from it incrementally, the mempool, and the      *)
(* chain the node last wrote to disk.  Every public method that changes    *)
(* the object is an action; JavaScript runs each to completion, so each is *)
(* one step.  The callers (HTTP API, timer, gossip, sync) call them in any *)
(* order: transactions, blocks and branches arrive from the sets Requests, *)
(* PeerBlocks(chain) and PeerBranches(chain).                              *)
(*                                                                         *)
(* saved says whether save_state, the last call of every method that       *)
(* commits, returns or throws; reply is what the caller of the last method *)
(* was told.                                                               *)
(***************************************************************************)
EXTENDS Ledger, FiniteSetsExt

CONSTANTS
    MINER,            \* miner_addr of bc-setup.json
    Requests,         \* transactions clients and peers submit
    PeerBlocks(_),    \* blocks a peer may gossip to a node with that chain
    PeerBranches(_),  \* <<common_height, blocks>> a sync may download
    TimeSteps,        \* how far the clock is from the latest block's time
    MaxChain          \* bound on the length of the chain

ASSUME BlockChainAssumption ==
    /\ MINER \in Accounts
    /\ Requests \subseteq Tx
    /\ TimeSteps \subseteq Int
    /\ MaxChain \in Nat

VARIABLES
    tx_pool, chain, difficulty, addr_state, addr_tx_index,  \* in memory
    disk,    \* the chain of data/chain.json
    reply    \* "accepted" or "rejected"

vars == <<tx_pool, chain, difficulty, addr_state, addr_tx_index, disk, reply>>

-----------------------------------------------------------------------------

\* The constructor with no chain on disk yet starts from the genesis block.
Init ==
    /\ tx_pool = <<>>
    /\ chain = <<genesis_block>>
    /\ difficulty = MIN_DIFFICULTY
    /\ addr_state = NoAccounts
    /\ addr_tx_index = NoEntries
    /\ disk = <<genesis_block>>
    /\ reply = "accepted"

Rejected ==
    /\ reply' = "rejected"
    /\ UNCHANGED <<tx_pool, chain, difficulty, addr_state, addr_tx_index, disk>>

\* Mutant of save_state: the file is written before the block is pushed.
save_state_early(saved) ==
    /\ disk' = IF saved THEN chain ELSE disk
    /\ reply' = IF saved THEN "accepted" ELSE "rejected"

\* save_state(this.chain, ...) as the last call of a method.
save_state(saved) ==
    /\ disk' = IF saved THEN chain' ELSE disk
    /\ reply' = IF saved THEN "accepted" ELSE "rejected"

\* Mutant of push_block: the difficulty is adjusted before the block counts.
push_block_late(b) ==
    /\ chain' = Append(chain, b)
    /\ addr_state' = apply_block(addr_state, b)
    /\ difficulty' = difficulty_after_append(chain, difficulty)
    /\ addr_tx_index' = index_block(addr_tx_index, b)

\* The commit mine_block and append_single_block share.
push_block(b) ==
    /\ chain' = Append(chain, b)
    /\ addr_state' = apply_block(addr_state, b)
    /\ difficulty' = difficulty_after_append(chain', difficulty)
    /\ addr_tx_index' = index_block(addr_tx_index, b)

-----------------------------------------------------------------------------
(* Methods *)

add_new_tx(tx) ==
    IF Admissible(tx, tx_pool, chain, addr_state)
    THEN /\ tx_pool' = Append(tx_pool, tx)
         /\ reply' = "accepted"
         /\ UNCHANGED <<chain, difficulty, addr_state, addr_tx_index, disk>>
    ELSE Rejected

\* proof_of_work finds no hash with more zeros than a hash has digits.
mine_block(now, saved) ==
    LET b == new_block(chain, difficulty, tx_pool, MINER, now)
    IN  /\ Len(chain) < MaxChain
        /\ IF difficulty <= HASH_DIGITS /\ BlockApplies(b, addr_state)
           THEN /\ push_block(b)
                /\ tx_pool' = <<>>
                /\ save_state(saved)
           ELSE Rejected

append_single_block(b, saved) ==
    /\ Len(chain) < MaxChain
    /\ IF validate_next_block(b, get_latest_block(chain), addr_state, difficulty)
       THEN /\ push_block(b)
            /\ tx_pool' = revalidate_pending_transactions(tx_pool, chain',
                                                          addr_state')
            /\ save_state(saved)
       ELSE Rejected

replace_chain_from(common_height, replacement_blocks, saved) ==
    LET candidate == SubSeq(chain, 1, common_height + 1) \o replacement_blocks
    IN  IF /\ replacement_blocks \in Seq(Block)
           /\ common_height \in 0..Len(chain)-1
           /\ Len(candidate) > Len(chain)
           /\ ValidChain(candidate)
        THEN /\ chain' = candidate
             /\ addr_state' = LedgersOf(candidate)[Len(candidate)-1]
             /\ difficulty' = rebuild_next_difficulty(candidate)
             /\ addr_tx_index' = rebuild_index(candidate)
             /\ tx_pool' = revalidate_pending_transactions(tx_pool, chain',
                                                           addr_state')
             /\ save_state(saved)
        ELSE Rejected

\* The process stops, and the constructor of the next one restores the chain
\* from disk, derives the rest from it and writes the same chain back.
Restart ==
    /\ tx_pool' = <<>>
    /\ chain' = disk
    /\ addr_state' = rebuild_account_state(disk)
    /\ difficulty' = rebuild_next_difficulty(disk)
    /\ addr_tx_index' = rebuild_index(disk)
    /\ disk' = disk
    /\ reply' = "accepted"

-----------------------------------------------------------------------------

SubmitTx == \E tx \in Requests : add_new_tx(tx)

MineBlock ==
    \E step \in TimeSteps, saved \in BOOLEAN :
        mine_block(get_latest_block(chain).timestamp + step, saved)

ReceiveBlock ==
    \E b \in PeerBlocks(chain), saved \in BOOLEAN :
        append_single_block(b, saved)

SyncBranch ==
    \E branch \in PeerBranches(chain), saved \in BOOLEAN :
        replace_chain_from(branch[1], branch[2], saved)

Next == SubmitTx \/ MineBlock \/ ReceiveBlock \/ SyncBranch \/ Restart

Spec == Init /\ [][Next]_vars

\* A node that stays up and meets no longer branch, and whose mining timer
\* (main.ts:19) keeps firing.  The chain has no bound in the code; here peers
\* leave the node the last place below MaxChain.
SteadySpec ==
    /\ Init
    /\ [][\/ SubmitTx
          \/ MineBlock
          \/ ReceiveBlock /\ Len(chain) < MaxChain - 1]_vars
    /\ WF_vars(MineBlock)

-----------------------------------------------------------------------------
(* Properties *)

\* Every variable has its type; the chain is never empty, and the difficulty
\* stays within the bounds difficulty_after_append clamps it to.
TypeOK ==
    /\ tx_pool \in Seq(Tx)
    /\ chain \in Seq(Block) /\ chain # <<>>
    /\ difficulty \in MIN_DIFFICULTY..MAX_DIFFICULTY
    /\ addr_state \in AddrState
    /\ addr_tx_index \in AddrTxIndex
    /\ disk \in Seq(Block) /\ disk # <<>>
    /\ reply \in {"accepted", "rejected"}

\* No account is ever overdrawn: neither blocks mined here, nor accepted from
\* peers, nor a reorganisation, nor the unchecked replay of a restart spends
\* what an account does not have.
NoOverdraft == \A a \in Accounts : addr_state[a].balance >= 0

Balance(a) == addr_state[a].balance

\* Coins come from block rewards alone: every fee a sender loses is paid out
\* by the fee transaction of the same block.
SupplyConserved ==
    MapThenSumSet(Balance, Accounts) = BLOCK_REWARD * (Len(chain) - 1)

\* The block mine_block assembles from the pool always passes its own
\* validation, so an admitted transaction can never block mining, whatever
\* blocks and branches were adopted since.
PoolMineable ==
    BlockApplies(new_block(chain, difficulty, tx_pool, MINER,
                           get_latest_block(chain).timestamp), addr_state)

\* Every pending transaction would be admitted again, in pool order: none is
\* confirmed, underpaid, unfunded or out of order after the chain changed.
PoolStillAdmissible ==
    \A i \in 1..Len(tx_pool) :
        Admissible(tx_pool[i], SubSeq(tx_pool, 1, i - 1), chain, addr_state)

\* Blocks clear the transactions they include from the pool, on adoption of a
\* peer's block or branch as well as when mining (README.md:82).
ConfirmedNotPending == PendingIds(tx_pool) \cap ConfirmedIds(chain) = {}

\* The balances and nonces kept incrementally are those a restart computes
\* from the chain.
LedgerIsReplay == addr_state = rebuild_account_state(chain)

\* The difficulty kept incrementally is the one a restart, or a peer that
\* validates the chain from its genesis block, computes.
DifficultyIsReplay == difficulty = rebuild_next_difficulty(chain)

\* The index of an address lists the transactions that mention it in the order
\* of the chain, each once as sender and once as recipient, and nothing else:
\* every reference get_txs_for_addr returns leads get_tx_from_block to a
\* transaction of that address (node.ts:99 does not check), and none is missing
\* or double after blocks, reorganisations and restarts.
IndexResolves ==
    \A a \in Accounts :
      LET refs == addr_tx_index[a]
          mentions(h, i) == SumSeq([k \in 1..i |->
                               Cardinality({role \in {"sender", "recipient"} :
                                               chain[h].txs[k][role] = a})])
          before(h) == SumSeq([g \in 1..h-1 |->
                                  mentions(g, Len(chain[g].txs))])
          ref(h, i, role) == [tx_id |-> tx_id(chain[h].txs[i]),
                              block_height |-> h - 1, role |-> role]
      IN  /\ Len(refs) = before(Len(chain) + 1)
          /\ \A k \in 1..Len(refs) :
               /\ refs[k].block_height + 1 \in 1..Len(chain)
               /\ \E i \in 1..Len(chain[refs[k].block_height + 1].txs) :
                    LET tx == chain[refs[k].block_height + 1].txs[i]
                    IN  /\ tx_id(tx) = refs[k].tx_id
                        /\ a = IF refs[k].role = "sent" THEN tx.sender
                               ELSE tx.recipient
          /\ \A h \in 1..Len(chain) : \A i \in 1..Len(chain[h].txs) :
               /\ chain[h].txs[i].sender = a =>
                    refs[before(h) + mentions(h, i - 1) + 1] = ref(h, i, "sent")
               /\ chain[h].txs[i].recipient = a =>
                    refs[before(h) + mentions(h, i)] = ref(h, i, "received")

\* A user's confirmed transactions carry the nonces 1, 2, 3, ... in chain
\* order: none is confirmed twice and none is skipped, so funds are not spent
\* twice by confirming one payment in two blocks.
NoncesCountUp ==
    \A user \in Users : \A p \in ConfirmedBy(chain, user) :
        chain[p[1]].txs[p[2]].nonce = ConfirmedCount(chain, user, p[1], p[2])

Pending(tx)   == \E i \in 1..Len(tx_pool) : tx_pool[i] = tx
Confirmed(tx) == \E h \in 1..Len(chain) :
                     \E i \in 1..Len(chain[h].txs) : chain[h].txs[i] = tx

\* README.md:14: a transaction is held until it is included.  When the chain
\* grows, no pending transaction that the pool could still take is dropped.
NoPendingDropped ==
    [][\A tx \in Requests :
         Pending(tx) /\ Len(chain') > Len(chain) =>
           ~ Admissible(tx, tx_pool', chain', addr_state')]_vars

\* The node implements ChainSelection: validating one block against cached
\* balances and difficulty adopts only chains valid from the genesis block,
\* only longer ones, and the file is always such a chain.
Selection == INSTANCE ChainSelection
                 WITH durable <- disk, Genesis <- genesis_block,
                      Valid <- ValidChain
SelectionSpec == Selection!Spec

\* The highest fee calculate_dynamic_fee asks for, 0.1 coin.
Dear == {tx \in Requests : tx.fee >= 200 * BLOCK_WINDOW_FEE}

PendingAhead(tx) ==
    {t \in Requests : Pending(t) /\ t.sender = tx.sender /\ t.nonce < tx.nonce}

\* Another transaction of the sender was confirmed with the nonce of tx.
Overtaken(tx) ==
    \E h \in 1..Len(chain) : \E i \in 1..Len(chain[h].txs) :
        LET c == chain[h].txs[i]
        IN  c # tx /\ c.sender = tx.sender /\ c.nonce = tx.nonce

\* On a steady node a pending transaction is confirmed in the end (README.md:80)
\* if it pays the highest fee and so do those of its sender ahead of it, unless
\* a peer's block confirms another transaction with the nonce of one of them:
\* revalidation drops it neither for its fee nor for its place among the
\* pending ones.  (Behind a cheaper one it is lost with that one when the fee
\* rises: its nonce no longer follows, blockchain.ts:260.)
PendingIsConfirmed ==
    \A tx \in Dear : \A ahead \in SUBSET {t \in Dear : t.sender = tx.sender
                                                     /\ t.nonce < tx.nonce} :
        (Pending(tx) /\ PendingAhead(tx) = ahead /\ Len(chain) < MaxChain)
          ~> (Confirmed(tx) \/ \E t \in ahead \cup {tx} : Overtaken(t))

-----------------------------------------------------------------------------
(* What the documentation or a message says and the code does not do *)

\* README.md:18: a sender's balance is immediately reduced by the sent amount.
BalanceReducedOnSubmit ==
    [][\A tx \in Requests :
         tx_pool' = Append(tx_pool, tx) =>
           addr_state'[tx.sender].balance
             = addr_state[tx.sender].balance - tx.amount]_vars

\* blockchain.ts:237: a transaction refused as already in the mempool is in
\* the mempool.
RefusedAsPendingIsPending ==
    \A tx \in Requests : tx_id(tx) \in PendingIds(tx_pool) => Pending(tx)

\* README.md:14: a transaction is held until it is included.  When the chain
\* changes, no transaction the node knew and could still pool is forgotten.
NothingForgotten ==
    [][\A tx \in Requests :
         (Pending(tx) \/ Confirmed(tx)) /\ Len(chain') > Len(chain) =>
           ~ Admissible(tx, tx_pool', chain', addr_state')]_vars

=============================================================================
