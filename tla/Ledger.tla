------------------------------- MODULE Ledger -------------------------------
(***************************************************************************)
(* The pure rules of a ByteChain ledger: what src/src/core/blockchain.ts,  *)
(* block.ts and transaction.ts compute from their arguments alone.  The    *)
(* modules with state (BlockChain, ChainSelection) are built from these.   *)
(*                                                                         *)
(* Data is abstracted as follows.                                          *)
(*  - A hash is collision free, so a block hash IS what was hashed: the    *)
(*    contents of the block and of every block before it (a Digest).       *)
(*  - sealed says that the Merkle root, the block hash and the proof of    *)
(*    work a block carries are the ones its contents call for.             *)
(*  - A signature is "valid", "invalid" or "none" (the empty string).      *)
(*  - Amounts are integers, in units of which 100 * BLOCK_WINDOW_FEE make  *)
(*    0.05 coin: the dynamic fee is then a whole number of units.          *)
(* Every loop over a list is an Iterate of module Loops.                   *)
(***************************************************************************)
EXTENDS Loops, FiniteSets

CONSTANTS
    Users,               \* addresses somebody holds the key of
    BC_NAME,             \* sender of the system transactions
    VANITY_ADDR,         \* recipient of the fee transaction
    BLOCK_REWARD,
    MIN_DIFFICULTY, MAX_DIFFICULTY,
    HASH_DIGITS,         \* hexadecimal digits of a hash: 64
    BLOCK_TIME_DIFF, BLOCK_WINDOW_DIFF, BLOCK_WINDOW_FEE,
    GENESIS_TIMESTAMP

ASSUME AddressAssumption ==
    /\ BC_NAME \notin Users
    /\ VANITY_ADDR \notin Users
    /\ BC_NAME # VANITY_ADDR
    /\ IsFiniteSet(Users)

ASSUME NumberAssumption ==
    /\ BLOCK_REWARD \in Nat
    /\ GENESIS_TIMESTAMP \in Int
    /\ BLOCK_TIME_DIFF \in Nat
    /\ BLOCK_WINDOW_DIFF \in Nat \ {0}
    /\ BLOCK_WINDOW_FEE \in Nat \ {0}

ASSUME DifficultyAssumption ==
    /\ MIN_DIFFICULTY \in Nat \ {0}
    /\ MAX_DIFFICULTY \in Nat
    /\ HASH_DIGITS \in Nat
    /\ MIN_DIFFICULTY <= MAX_DIFFICULTY

Accounts == Users \cup {BC_NAME, VANITY_ADDR}

Tx == [amount: Int, sender: Accounts, recipient: Accounts, fee: Int,
       timestamp: Int, nonce: Int, signature: {"valid", "invalid", "none"}]

\* What the hash of a block covers, and a hash: all contents up to a block.
Content == [height: Int, difficulty: Int, timestamp: Int, txs: Seq(Tx)]
Digest  == Seq(Content)

Block == [height: Int, prev: Digest, difficulty: Int, timestamp: Int,
          txs: Seq(Tx), sealed: BOOLEAN]

\* An address the Map does not hold reads as { nonce: 0, balance: 0 }.
AccState  == [nonce: Nat, balance: Int]
AddrState == [Accounts -> AccState]
NoAccounts == [a \in Accounts |-> [nonce |-> 0, balance |-> 0]]

TxId == [amount: Int, sender: Accounts, recipient: Accounts, fee: Int,
         timestamp: Int]
AddrTxRef   == [tx_id: TxId, block_height: Int, role: {"sent", "received"}]
AddrTxIndex == [Accounts -> Seq(AddrTxRef)]
NoEntries   == [a \in Accounts |-> <<>>]

-----------------------------------------------------------------------------
(* transaction.ts *)

\* compute_tx_id runs in the constructor before this.nonce is assigned, so
\* the nonce is not part of what is hashed.
tx_id(tx) == [amount |-> tx.amount, sender |-> tx.sender,
              recipient |-> tx.recipient, fee |-> tx.fee,
              timestamp |-> tx.timestamp]

verify_tx_sig(tx) == tx.sender = BC_NAME \/ tx.signature = "valid"

SystemTx(amount, recipient, timestamp) ==
    [amount |-> amount, sender |-> BC_NAME, recipient |-> recipient,
     fee |-> 0, timestamp |-> timestamp, nonce |-> 0, signature |-> "none"]

-----------------------------------------------------------------------------
(* block.ts *)

block_hash(b) == Append(b.prev, [height |-> b.height,
                                 difficulty |-> b.difficulty,
                                 timestamp |-> b.timestamp, txs |-> b.txs])

genesis_block ==
    [height |-> 0, prev |-> <<>>, difficulty |-> MIN_DIFFICULTY,
     timestamp |-> GENESIS_TIMESTAMP, txs |-> <<>>, sealed |-> TRUE]

get_latest_block(chain) == chain[Len(chain)]

\* The block mine_block assembles and seals at time now: the whole pool, the
\* reward, and last the fees.
new_block(chain, difficulty, pool, miner, now) ==
    LET fees == SumSeq([i \in 1..Len(pool) |-> pool[i].fee])
    IN  [height |-> get_latest_block(chain).height + 1,
         prev |-> block_hash(get_latest_block(chain)),
         difficulty |-> difficulty,
         timestamp |-> now,
         txs |-> pool \o <<SystemTx(BLOCK_REWARD, miner, now),
                           SystemTx(fees, VANITY_ADDR, now)>>,
         sealed |-> TRUE]

-----------------------------------------------------------------------------
(* Account state *)

\* One turn of the loop of apply_transactions_to_state.
apply_tx(state, tx) ==
    LET counted == [state EXCEPT ![tx.sender].nonce = @ + 1]
        paid == IF tx.sender = BC_NAME THEN counted
                ELSE [counted EXCEPT ![tx.sender].balance =
                                         @ - (tx.amount + tx.fee)]
    IN  [paid EXCEPT ![tx.recipient].balance = @ + tx.amount]

\* StatesAlong(state, txs)[i] is the state after the first i transactions.
StatesAlong(state, txs) ==
    Iterate([i \in 1..Len(txs) |-> [s \in AddrState |-> apply_tx(s, txs[i])]],
            state, Len(txs))

apply_block(state, b) == StatesAlong(state, b.txs)[Len(b.txs)]

\* Mutant of replay_tx: the replay forgets the fee.
replay_tx_without_fee(state, tx) ==
    apply_tx(state, [tx EXCEPT !.fee = 0])

\* One turn of the loop of rebuild_account_state, a copy of that update
\* without the checks.
replay_tx(state, tx) ==
    LET sender == IF tx.sender = BC_NAME
                  THEN [state[tx.sender] EXCEPT !.nonce = @ + 1]
                  ELSE [nonce   |-> state[tx.sender].nonce + 1,
                        balance |-> state[tx.sender].balance
                                      - (tx.amount + tx.fee)]
        debited == [state EXCEPT ![tx.sender] = sender]
    IN  [debited EXCEPT ![tx.recipient].balance = @ + tx.amount]

replay_block(state, b) ==
    Iterate([i \in 1..Len(b.txs) |-> [s \in AddrState |->
                                         replay_tx(s, b.txs[i])]],
            state, Len(b.txs))[Len(b.txs)]

rebuild_account_state(chain) ==
    LET last == Len(chain) - 1
    IN  Iterate([height \in 1..last |-> [s \in AddrState |->
                    replay_block(s, chain[height+1])]], NoAccounts, last)[last]

-----------------------------------------------------------------------------
(* Difficulty *)

\* Mutant of difficulty_after_append: no floor.
difficulty_after_append_unclamped(chain, current) ==
    LET last == Len(chain)
    IN  IF last < BLOCK_WINDOW_DIFF THEN current
        ELSE IF chain[last].timestamp
                  - chain[last - BLOCK_WINDOW_DIFF + 1].timestamp
                    < BLOCK_TIME_DIFF
             THEN current + 1 ELSE current - 1

difficulty_after_append(chain, current) ==
    LET last == Len(chain)
        elapsed == chain[last].timestamp
                     - chain[last - BLOCK_WINDOW_DIFF + 1].timestamp
        raised  == IF current < MAX_DIFFICULTY THEN current + 1
                   ELSE MAX_DIFFICULTY
        lowered == IF current > MIN_DIFFICULTY THEN current - 1
                   ELSE MIN_DIFFICULTY
    IN  IF last < BLOCK_WINDOW_DIFF \/ elapsed = BLOCK_TIME_DIFF
        THEN current
        ELSE IF elapsed < BLOCK_TIME_DIFF THEN raised ELSE lowered

\* DifficultiesOf(chain)[i] is the difficulty asked of the block at height
\* i + 1, from the blocks at heights 0..i.
DifficultiesOf(chain) ==
    Iterate([i \in 1..Len(chain)-1 |-> [d \in Int |->
                difficulty_after_append(SubSeq(chain, 1, i + 1), d)]],
            chain[1].difficulty, Len(chain) - 1)

rebuild_next_difficulty(chain) == DifficultiesOf(chain)[Len(chain)-1]

-----------------------------------------------------------------------------
(* Block validation *)

\* Mutant of validate_system_transactions: the fee payout is not compared.
validate_system_transactions_any_payout(b) ==
    LET n == Len(b.txs)
    IN  b.height # 0 => /\ n >= 2
                        /\ \A i \in 1..n-2 : b.txs[i].sender # BC_NAME
                        /\ b.txs[n-1].amount = BLOCK_REWARD
                        /\ b.txs[n].sender = BC_NAME

\* Mutant of validate_system_transactions: only the last is looked at.
validate_system_transactions_last_only(b) ==
    LET n == Len(b.txs)
        fees == SumSeq([i \in 1..n-1 |-> b.txs[i].fee])
    IN  b.height # 0 =>
          /\ n >= 1
          /\ b.txs[n] = SystemTx(fees, VANITY_ADDR, b.txs[n].timestamp)

validate_system_transactions(b) ==
    LET n == Len(b.txs)
        reward == b.txs[n-1]
        fee_tx == b.txs[n]
        fees == SumSeq([i \in 1..n-2 |-> b.txs[i].fee])
    IN  b.height # 0 =>
          /\ n >= 2
          /\ \A i \in 1..n-2 : b.txs[i].sender # BC_NAME
          /\ reward = SystemTx(BLOCK_REWARD, reward.recipient, reward.timestamp)
          /\ fee_tx = SystemTx(fees, VANITY_ADDR, fee_tx.timestamp)

\* Mutant of BlockApplies: the balance is not checked.
BlockApplies_on_credit(b, state) ==
    /\ validate_system_transactions(b)
    /\ \A i \in 1..Len(b.txs) :
         LET tx == b.txs[i]
         IN  /\ verify_tx_sig(tx)
             /\ tx.sender # BC_NAME =>
                  tx.nonce = StatesAlong(state, b.txs)[i-1][tx.sender].nonce + 1

\* Mutant of BlockApplies: the nonce is not checked.
BlockApplies_any_nonce(b, state) ==
    /\ validate_system_transactions(b)
    /\ \A i \in 1..Len(b.txs) :
         LET tx == b.txs[i]
         IN  /\ verify_tx_sig(tx)
             /\ tx.sender # BC_NAME =>
                  StatesAlong(state, b.txs)[i-1][tx.sender].balance
                    >= tx.amount + tx.fee

\* apply_transactions_to_state returns a state (it throws otherwise).
BlockApplies(b, state) ==
    /\ \A i \in 1..Len(b.txs) : verify_tx_sig(b.txs[i])
    /\ validate_system_transactions(b)
    /\ \A i \in 1..Len(b.txs) :
         LET tx == b.txs[i]
             sender == StatesAlong(state, b.txs)[i-1][tx.sender]
         IN  /\ tx.amount >= 0
             /\ tx.fee >= 0
             /\ tx.nonce >= 0
             /\ tx.sender # BC_NAME =>
                  /\ tx.nonce = sender.nonce + 1
                  /\ sender.balance >= tx.amount + tx.fee

validate_next_block(b, previous, state, expected_difficulty) ==
    /\ b \in Block
    /\ b.height = previous.height + 1
    /\ b.prev = block_hash(previous)
    /\ b.difficulty = expected_difficulty
    /\ b.difficulty \in 1..HASH_DIGITS
    /\ b.txs # <<>>
    /\ b.sealed
    /\ BlockApplies(b, state)

\* The account state after each block, as replace_chain_from computes it.
LedgersOf(chain) ==
    Iterate([i \in 1..Len(chain)-1 |-> [s \in AddrState |->
                apply_block(s, chain[i+1])]],
            NoAccounts, Len(chain) - 1)

\* The loop of replace_chain_from over a candidate chain does not throw.
ValidChain(chain) ==
    \A i \in 1..Len(chain)-1 :
        validate_next_block(chain[i+1], chain[i], LedgersOf(chain)[i-1],
                            DifficultiesOf(chain)[i-1])

\* The positions of a user's transactions on a chain, and how many there are
\* up to the i-th transaction of the h-th block.
ConfirmedBy(chain, user) ==
    UNION {{<<h, i>> : i \in {j \in 1..Len(chain[h].txs) :
                                 chain[h].txs[j].sender = user}} :
              h \in 1..Len(chain)}

ConfirmedCount(chain, user, h, i) ==
    Cardinality({q \in ConfirmedBy(chain, user) :
                    q[1] < h \/ (q[1] = h /\ q[2] <= i)})

-----------------------------------------------------------------------------
(* The index of transactions by address *)

\* Mutant of index_tx: entries carry the height of the next block.
index_tx_off_by_one(index, tx, height) ==
    LET ref(role) == [tx_id |-> tx_id(tx), block_height |-> height + 1,
                      role |-> role]
        sent == [index EXCEPT ![tx.sender] = Append(@, ref("sent"))]
    IN  [sent EXCEPT ![tx.recipient] = Append(@, ref("received"))]

index_tx(index, tx, height) ==
    LET ref(role) == [tx_id |-> tx_id(tx), block_height |-> height,
                      role |-> role]
        sent == [index EXCEPT ![tx.sender] = Append(@, ref("sent"))]
    IN  [sent EXCEPT ![tx.recipient] = Append(@, ref("received"))]

index_block(index, b) ==
    Iterate([i \in 1..Len(b.txs) |-> [x \in AddrTxIndex |->
                index_tx(x, b.txs[i], b.height)]],
            index, Len(b.txs))[Len(b.txs)]

rebuild_index(chain) ==
    Iterate([i \in 1..Len(chain) |-> [x \in AddrTxIndex |->
                index_block(x, chain[i])]],
            NoEntries, Len(chain))[Len(chain)]

-----------------------------------------------------------------------------
(* The mempool *)

\* 0.1 coin on a short chain; later 0.05 * (1 + average / 100) coin, at most
\* 0.1, from the average number of transactions of the last blocks.
calculate_dynamic_fee(chain) ==
    LET n == Len(chain)
        most == 200 * BLOCK_WINDOW_FEE
        recent == SumSeq([i \in 1..BLOCK_WINDOW_FEE |->
                              Len(chain[n - BLOCK_WINDOW_FEE + i].txs)])
        dynamic == 100 * BLOCK_WINDOW_FEE + recent
    IN  IF n >= BLOCK_WINDOW_FEE /\ dynamic < most THEN dynamic ELSE most

pending_for_sender(pool, sender) ==
    {i \in 1..Len(pool) : pool[i].sender = sender}

\* Mutant of reserved: nothing is set aside for pending transactions.
reserved_nothing(pool, sender) == 0

\* What the pending transactions of a sender will cost.
reserved(pool, sender) ==
    SumSeq([i \in 1..Len(pool) |-> IF pool[i].sender = sender
                                   THEN pool[i].amount + pool[i].fee ELSE 0])

ConfirmedIds(chain) ==
    UNION {{tx_id(chain[h].txs[i]) : i \in 1..Len(chain[h].txs)} :
               h \in 1..Len(chain)}

PendingIds(pool) == {tx_id(pool[i]) : i \in 1..Len(pool)}

\* add_new_tx pushes tx (it throws otherwise).  The pending transactions of
\* the sender, sorted by nonce, have to count on from the confirmed nonce.
Admissible(tx, pool, chain, state) ==
    LET pending  == pending_for_sender(pool, tx.sender)
        last     == state[tx.sender].nonce + Cardinality(pending)
    IN  /\ tx.amount >= 0 /\ tx.fee >= 0 /\ tx.nonce >= 1
        /\ tx.sender # BC_NAME
        /\ tx_id(tx) \notin PendingIds(pool)
        /\ tx_id(tx) \notin ConfirmedIds(chain)
        /\ tx.fee >= calculate_dynamic_fee(chain)
        /\ verify_tx_sig(tx)
        /\ {pool[i].nonce : i \in pending} = state[tx.sender].nonce + 1 .. last
        /\ tx.nonce = last + 1
        /\ tx.amount + tx.fee
             <= state[tx.sender].balance - reserved(pool, tx.sender)

\* Mutants of revalidate_pending_transactions: the pool is kept; it is
\* emptied; only the confirmed transactions are dropped from it; each
\* transaction is offered as if none were pending ahead of it.
pending_kept(pending, chain, state) == pending
pending_dropped(pending, chain, state) == <<>>
pending_not_confirmed(pending, chain, state) ==
    LET Unconfirmed(tx) == tx_id(tx) \notin ConfirmedIds(chain)
    IN  SelectSeq(pending, Unconfirmed)

pending_each_alone(pending, chain, state) ==
    LET Alone(tx) == Admissible(tx, <<>>, chain, state)
    IN  SelectSeq(pending, Alone)

\* The pool after pending is offered to an empty one, in order.
revalidate_pending_transactions(pending, chain, state) ==
    Iterate([i \in 1..Len(pending) |-> [pool \in Seq(Tx) |->
                IF Admissible(pending[i], pool, chain, state)
                THEN Append(pool, pending[i]) ELSE pool]],
            <<>>, Len(pending))[Len(pending)]

=============================================================================
