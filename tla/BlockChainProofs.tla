-------------------------- MODULE BlockChainProofs --------------------------
(***************************************************************************)
(* Theorems about BlockChain for every set of users, of requests, of peer  *)
(* blocks and branches, every window, reward and difficulty bound, and     *)
(* chains of any length up to MaxChain.                                    *)
(*                                                                         *)
(* The argument is one inductive invariant, Inv: both the chain in memory  *)
(* and the chain on disk are valid from the genesis block, and what the    *)
(* node keeps beside the chain is what the chain determines.  No weaker    *)
(* conjunct is inductive by itself: balances are only known not to go      *)
(* below zero because they are the ledger of a valid chain, and a peer's   *)
(* block makes a valid chain only because it was validated on that ledger. *)
(* What is said of the pool needs it to be admissible in its own order,    *)
(* and the file never to hold a longer chain than the memory.              *)
(***************************************************************************)
EXTENDS BlockBody, ValidChainProofs

\* A chain a node may hold.
GoodChain(c) ==
    /\ c \in Seq(Block) /\ c # <<>>
    /\ c[1] = genesis_block
    /\ ValidChain(c)

\* What the node keeps beside the chain is determined by the chain.
Derived ==
    /\ addr_state = LedgersOf(chain)[Len(chain)-1]
    /\ difficulty = rebuild_next_difficulty(chain)
    /\ addr_tx_index = rebuild_index(chain)

Inv ==
    /\ tx_pool \in Seq(Tx)
    /\ reply \in {"accepted", "rejected"}
    /\ GoodChain(chain)
    /\ GoodChain(disk)
    /\ Derived
    /\ ConfirmedNotPending

\* The chain and its file stay, or the chain grows and may be saved.
ChainStep ==
    \/ UNCHANGED <<chain, disk>>
    \/ /\ Len(chain') > Len(chain)
       /\ disk' \in {disk, chain'}

-----------------------------------------------------------------------------
(* What a good chain determines *)

LEMMA GoodChainDerived ==
    ASSUME NEW c, GoodChain(c)
    PROVE  /\ LedgersOf(c)[Len(c)-1] \in Funded
           /\ LedgersOf(c)[Len(c)-1] \in AddrState
           /\ rebuild_next_difficulty(c) \in MIN_DIFFICULTY..MAX_DIFFICULTY
           /\ rebuild_account_state(c) = LedgersOf(c)[Len(c)-1]
           /\ rebuild_index(c) \in AddrTxIndex
<1>1. c \in Seq(Block) /\ c # <<>> /\ c[1] = genesis_block /\ ValidChain(c)
  BY DEF GoodChain
<1>2. Len(c) - 1 \in 0..Len(c)-1
  BY <1>1
<1>3. LedgersOf(c)[Len(c)-1] \in Funded
  BY <1>1, <1>2, ValidChainFunded
<1>4. rebuild_next_difficulty(c) \in MIN_DIFFICULTY..MAX_DIFFICULTY
  BY <1>1, <1>2, DifficultiesOfEquation DEF rebuild_next_difficulty
<1>5. QED
  BY <1>1, <1>3, <1>4, RebuildIsLastLedger, RebuildIndexType DEF Funded

\* Pushing a block that is valid on the latest one keeps the chain good and
\* what is kept beside it determined by it.
LEMMA PushBlock ==
    ASSUME Inv, NEW b, push_block(b),
           validate_next_block(b, get_latest_block(chain), addr_state,
                               difficulty)
    PROVE  /\ GoodChain(chain')
           /\ Derived'
           /\ Len(chain') = Len(chain) + 1
<1>1. /\ chain \in Seq(Block) /\ chain # <<>>
      /\ chain[1] = genesis_block /\ ValidChain(chain)
      /\ addr_state = LedgersOf(chain)[Len(chain)-1]
      /\ difficulty = rebuild_next_difficulty(chain)
      /\ addr_tx_index = rebuild_index(chain)
  BY DEF Inv, GoodChain, Derived
<1>2. b \in Block
  BY DEF validate_next_block
<1>3. /\ chain' = Append(chain, b)
      /\ addr_state' = apply_block(addr_state, b)
      /\ difficulty' = difficulty_after_append(chain', difficulty)
      /\ addr_tx_index' = index_block(addr_tx_index, b)
  BY DEF push_block
<1>4. /\ chain' \in Seq(Block) /\ chain' # <<>>
      /\ chain'[1] = chain[1] /\ Len(chain') = Len(chain) + 1
  BY <1>1, <1>2, <1>3, AppendFacts
<1>5. ValidChain(chain')
  BY <1>1, <1>3, ValidChainAppend
<1>6. addr_state' = LedgersOf(chain')[Len(chain')-1]
  BY <1>1, <1>2, <1>3, <1>4, LedgersOfAppend
<1>7. difficulty' = rebuild_next_difficulty(chain')
  BY <1>1, <1>2, <1>3, <1>4, DifficultiesOfAppend DEF rebuild_next_difficulty
<1>8. addr_tx_index' = rebuild_index(chain')
  BY <1>1, <1>2, <1>3, RebuildIndexAppend
<1>9. QED
  BY <1>1, <1>4, <1>5, <1>6, <1>7, <1>8 DEF GoodChain, Derived

\* The candidate replace_chain_from accepts is a good chain.
LEMMA Candidate ==
    ASSUME NEW c, GoodChain(c), NEW h \in 0..Len(c)-1,
           NEW blocks \in Seq(Block),
           ValidChain(SubSeq(c, 1, h + 1) \o blocks)
    PROVE  GoodChain(SubSeq(c, 1, h + 1) \o blocks)
<1> DEFINE kept == SubSeq(c, 1, h + 1)
<1>1. /\ c \in Seq(Block) /\ Len(c) \in Nat /\ c[1] = genesis_block
      /\ h + 1 \in 1..Len(c)
  BY DEF GoodChain
<1>2. /\ kept \in Seq(Block) /\ Len(kept) = h + 1 /\ kept[1] = genesis_block
  BY <1>1
<1> HIDE DEF kept
<1>3. /\ kept \o blocks \in Seq(Block) /\ kept \o blocks # <<>>
      /\ (kept \o blocks)[1] = genesis_block
  BY <1>1, <1>2
<1>4. QED
  BY <1>3 DEF GoodChain, kept

-----------------------------------------------------------------------------
(* The inductive invariant *)

LEMMA InitInv == Init => Inv
<1> SUFFICES ASSUME Init
             PROVE  Inv
  OBVIOUS
<1> USE DEF Init
<1>1. tx_pool \in Seq(Tx) /\ reply \in {"accepted", "rejected"}
  OBVIOUS
<1>2. GoodChain(chain) /\ GoodChain(disk)
  BY GenesisChain DEF GoodChain
<1>3. Derived
  BY GenesisChain, GenesisIndex DEF Derived
<1>4. ConfirmedNotPending
  BY DEF ConfirmedNotPending, PendingIds
<1>5. QED
  BY <1>1, <1>2, <1>3, <1>4 DEF Inv

LEMMA RejectedInv ==
    ASSUME Inv, Rejected
    PROVE  Inv'
BY DEF Inv, Rejected, GoodChain, Derived, ConfirmedNotPending

\* After save_state the file holds a good chain.
LEMMA SaveState ==
    ASSUME Inv, GoodChain(chain'), NEW saved \in BOOLEAN, save_state(saved)
    PROVE  /\ GoodChain(disk')
           /\ reply' \in {"accepted", "rejected"}
           /\ disk' \in {disk, chain'}
BY DEF Inv, save_state

LEMMA SubmitInv ==
    ASSUME Inv, NEW tx \in Requests, add_new_tx(tx)
    PROVE  Inv'
<1>1. CASE ~ Admissible(tx, tx_pool, chain, addr_state)
  BY <1>1, RejectedInv DEF add_new_tx
<1>2. CASE Admissible(tx, tx_pool, chain, addr_state)
  <2>1. /\ tx_pool' = Append(tx_pool, tx)
        /\ reply' = "accepted"
        /\ UNCHANGED <<chain, difficulty, addr_state, addr_tx_index, disk>>
    BY <1>2 DEF add_new_tx
  <2>2. tx_pool \in Seq(Tx) /\ tx \in Tx
    BY BlockChainAssumption DEF Inv
  <2>3. PendingIds(tx_pool') = PendingIds(tx_pool) \cup {tx_id(tx)}
    BY <2>1, <2>2, PendingIdsAppend
  <2>4. tx_id(tx) \notin ConfirmedIds(chain)
    BY <1>2 DEF Admissible
  <2>5. ConfirmedNotPending'
    BY <2>1, <2>3, <2>4 DEF Inv, ConfirmedNotPending
  <2>6. QED
    BY <2>1, <2>2, <2>5 DEF Inv, GoodChain, Derived
<1>3. QED
  BY <1>1, <1>2

\* What mine_block does when it does not throw.
LEMMA MineValid ==
    ASSUME Inv, NEW now \in Int, difficulty <= HASH_DIGITS,
           BlockApplies(new_block(chain, difficulty, tx_pool, MINER, now),
                        addr_state)
    PROVE  validate_next_block(
               new_block(chain, difficulty, tx_pool, MINER, now),
               get_latest_block(chain), addr_state, difficulty)
<1>1. chain \in Seq(Block) /\ chain # <<>> /\ tx_pool \in Seq(Tx)
  BY DEF Inv, GoodChain
<1>2. difficulty \in MIN_DIFFICULTY..MAX_DIFFICULTY
  BY GoodChainDerived DEF Inv, Derived
<1>3. difficulty \in 1..HASH_DIGITS
  BY <1>2, DifficultyAssumption
<1>4. MINER \in Accounts
  BY BlockChainAssumption
<1>5. QED
  BY <1>1, <1>3, <1>4, NewBlockValid

LEMMA MineInv ==
    ASSUME Inv, NEW now \in Int, NEW saved \in BOOLEAN, mine_block(now, saved)
    PROVE  Inv' /\ ChainStep
<1> DEFINE b == new_block(chain, difficulty, tx_pool, MINER, now)
           Mines == difficulty <= HASH_DIGITS /\ BlockApplies(b, addr_state)
<1>1. CASE ~ Mines
  BY <1>1, RejectedInv DEF mine_block, Rejected, ChainStep
<1>2. CASE Mines
  <2>1. push_block(b) /\ tx_pool' = <<>> /\ save_state(saved)
    BY <1>2 DEF mine_block
  <2>2. validate_next_block(b, get_latest_block(chain), addr_state, difficulty)
    BY <1>2, MineValid
  <2> HIDE DEF b
  <2>3. /\ GoodChain(chain') /\ Derived'
        /\ Len(chain') = Len(chain) + 1
    BY <2>1, <2>2, PushBlock
  <2>4. /\ GoodChain(disk') /\ reply' \in {"accepted", "rejected"}
        /\ disk' \in {disk, chain'}
    BY <2>1, <2>3, SaveState
  <2>5. tx_pool' \in Seq(Tx) /\ ConfirmedNotPending'
    BY <2>1 DEF ConfirmedNotPending, PendingIds
  <2>6. ChainStep
    BY <2>3, <2>4 DEF Inv, GoodChain, ChainStep
  <2>7. QED
    BY <2>3, <2>4, <2>5, <2>6 DEF Inv, GoodChain
<1>3. QED
  BY <1>1, <1>2

LEMMA AppendInv ==
    ASSUME Inv, NEW b, NEW saved \in BOOLEAN, append_single_block(b, saved)
    PROVE  Inv' /\ ChainStep
<1> DEFINE Valid == validate_next_block(b, get_latest_block(chain), addr_state,
                                        difficulty)
<1>1. CASE ~ Valid
  BY <1>1, RejectedInv DEF append_single_block, Rejected, ChainStep
<1>2. CASE Valid
  <2>1. /\ push_block(b) /\ save_state(saved)
        /\ tx_pool' = revalidate_pending_transactions(tx_pool, chain',
                                                      addr_state')
    BY <1>2 DEF append_single_block
  <2>2. /\ GoodChain(chain') /\ Derived'
        /\ Len(chain') = Len(chain) + 1
    BY <1>2, <2>1, PushBlock
  <2>3. /\ GoodChain(disk') /\ reply' \in {"accepted", "rejected"}
        /\ disk' \in {disk, chain'}
    BY <2>1, <2>2, SaveState
  <2>4. tx_pool' \in Seq(Tx) /\ ConfirmedNotPending'
    BY <2>1, RevalidatePending DEF Inv, ConfirmedNotPending
  <2>5. ChainStep
    BY <2>2, <2>3 DEF Inv, GoodChain, ChainStep
  <2>6. QED
    BY <2>2, <2>3, <2>4, <2>5 DEF Inv, GoodChain
<1>3. QED
  BY <1>1, <1>2

LEMMA ReplaceInv ==
    ASSUME Inv, NEW h, NEW blocks, NEW saved \in BOOLEAN,
           replace_chain_from(h, blocks, saved)
    PROVE  Inv' /\ ChainStep
<1> DEFINE candidate == SubSeq(chain, 1, h + 1) \o blocks
           Longer == /\ blocks \in Seq(Block) /\ h \in 0..Len(chain)-1
                     /\ Len(candidate) > Len(chain) /\ ValidChain(candidate)
<1>1. CASE ~ Longer
  BY <1>1, RejectedInv DEF replace_chain_from, Rejected, ChainStep
<1>2. CASE Longer
  <2>1. GoodChain(candidate)
    BY <1>2, Candidate DEF Inv
  <2>2. /\ chain' = candidate /\ Len(candidate) > Len(chain)
        /\ addr_state' = LedgersOf(candidate)[Len(candidate)-1]
        /\ difficulty' = rebuild_next_difficulty(candidate)
        /\ addr_tx_index' = rebuild_index(candidate)
        /\ tx_pool' = revalidate_pending_transactions(tx_pool, chain',
                                                      addr_state')
        /\ save_state(saved)
    BY <1>2 DEF replace_chain_from
  <2> HIDE DEF candidate
  <2>3. GoodChain(chain') /\ Derived'
    BY <2>1, <2>2 DEF Derived
  <2>4. /\ GoodChain(disk') /\ reply' \in {"accepted", "rejected"}
        /\ disk' \in {disk, chain'}
    BY <2>2, <2>3, SaveState
  <2>5. tx_pool' \in Seq(Tx) /\ ConfirmedNotPending'
    BY <2>2, RevalidatePending DEF Inv, ConfirmedNotPending
  <2>6. ChainStep
    BY <2>2, <2>4 DEF ChainStep
  <2>7. QED
    BY <2>2, <2>3, <2>4, <2>5, <2>6 DEF Inv, GoodChain
<1>3. QED
  BY <1>1, <1>2

LEMMA RestartInv ==
    ASSUME Inv, Restart
    PROVE  Inv'
<1>1. /\ tx_pool' = <<>> /\ chain' = disk /\ disk' = disk
      /\ addr_state' = rebuild_account_state(disk)
      /\ difficulty' = rebuild_next_difficulty(disk)
      /\ addr_tx_index' = rebuild_index(disk) /\ reply' = "accepted"
  BY DEF Restart
<1>2. GoodChain(disk)
  BY DEF Inv
<1>3. Derived'
  BY <1>1, <1>2, GoodChainDerived DEF Derived
<1>4. tx_pool' \in Seq(Tx) /\ ConfirmedNotPending'
  BY <1>1 DEF ConfirmedNotPending, PendingIds
<1>5. QED
  BY <1>1, <1>2, <1>3, <1>4 DEF Inv, GoodChain

\* The time MineBlock passes is a number.
LEMMA MineTime ==
    ASSUME Inv, NEW step \in TimeSteps
    PROVE  get_latest_block(chain).timestamp + step \in Int
<1>1. get_latest_block(chain) \in Block
  BY DEF Inv, GoodChain, get_latest_block
<1>2. QED
  BY <1>1, BlockChainAssumption DEF Block

LEMMA StutterInv ==
    ASSUME Inv, UNCHANGED vars
    PROVE  Inv'
BY DEF Inv, vars, GoodChain, Derived, ConfirmedNotPending

LEMMA NextInv == Inv /\ [Next]_vars => Inv'
<1> SUFFICES ASSUME Inv, [Next]_vars
             PROVE  Inv'
  OBVIOUS
<1>1. CASE SubmitTx
  BY <1>1, SubmitInv DEF SubmitTx
<1>2. CASE MineBlock
  BY <1>2, MineInv, MineTime DEF MineBlock
<1>3. CASE ReceiveBlock
  BY <1>3, AppendInv DEF ReceiveBlock
<1>4. CASE SyncBranch
  BY <1>4, ReplaceInv DEF SyncBranch
<1>5. CASE Restart
  BY <1>5, RestartInv
<1>6. CASE UNCHANGED vars
  BY <1>6, StutterInv
<1>7. QED
  BY <1>1, <1>2, <1>3, <1>4, <1>5, <1>6 DEF Next

LEMMA Invariance == Spec => []Inv
BY InitInv, NextInv, PTL DEF Spec

-----------------------------------------------------------------------------
(* The pool *)

\* Whatever a step makes of the chain, the pool it leaves is admissible in
\* its order: it is emptied, offered again, or one transaction is added.
LEMMA PoolStep ==
    Inv /\ PoolStillAdmissible /\ [Next]_vars => PoolStillAdmissible'
<1> SUFFICES ASSUME Inv, PoolStillAdmissible, [Next]_vars
             PROVE  PoolStillAdmissible'
  OBVIOUS
<1>1. /\ PoolStillAdmissible <=> PoolOK(tx_pool, chain, addr_state)
      /\ PoolStillAdmissible' <=> PoolOK(tx_pool', chain', addr_state')
  BY DEF PoolStillAdmissible, PoolOK
<1>2. ASSUME UNCHANGED <<tx_pool, chain, addr_state>>
      PROVE  PoolStillAdmissible'
  BY <1>1, <1>2
<1>3. ASSUME tx_pool' = <<>>
      PROVE  PoolStillAdmissible'
  BY <1>1, <1>3 DEF PoolOK
<1>4. ASSUME tx_pool' = revalidate_pending_transactions(tx_pool, chain',
                                                        addr_state')
      PROVE  PoolStillAdmissible'
  BY <1>1, <1>4, RevalidatedOK DEF Inv
<1>5. CASE SubmitTx
  <2>1. PICK tx \in Requests : add_new_tx(tx)
    BY <1>5 DEF SubmitTx
  <2>2. tx_pool \in Seq(Tx) /\ tx \in Tx
    BY BlockChainAssumption DEF Inv
  <2>3. CASE Rejected
    BY <1>2, <2>3 DEF Rejected
  <2>4. CASE ~ Rejected
    <3>1. /\ Admissible(tx, tx_pool, chain, addr_state)
          /\ tx_pool' = Append(tx_pool, tx)
          /\ UNCHANGED <<chain, addr_state>>
      BY <2>1, <2>4 DEF add_new_tx
    <3>2. QED
      BY <1>1, <2>2, <3>1, AdmittedOK
  <2>5. QED
    BY <2>3, <2>4
<1>6. CASE MineBlock
  BY <1>2, <1>3, <1>6 DEF MineBlock, mine_block, Rejected
<1>7. CASE ReceiveBlock
  BY <1>2, <1>4, <1>7 DEF ReceiveBlock, append_single_block, Rejected
<1>8. CASE SyncBranch
  BY <1>2, <1>4, <1>8 DEF SyncBranch, replace_chain_from, Rejected
<1>9. CASE Restart
  BY <1>3, <1>9 DEF Restart
<1>10. CASE UNCHANGED vars
  BY <1>2, <1>10 DEF vars
<1>11. QED
  BY <1>5, <1>6, <1>7, <1>8, <1>9, <1>10 DEF Next

\* A restart never finds a longer chain than the node had: what is written is
\* the chain in memory, which otherwise only grows.
FileBehind == Len(disk) <= Len(chain)

LEMMA FileStep == Inv /\ FileBehind /\ [Next]_vars => FileBehind'
<1> SUFFICES ASSUME Inv, FileBehind, [Next]_vars
             PROVE  FileBehind'
  OBVIOUS
<1>1. /\ Len(chain) \in Nat /\ Len(disk) \in Nat
      /\ Len(chain') \in Nat
  BY NextInv DEF Inv, GoodChain
<1>2. ASSUME ChainStep
      PROVE  FileBehind'
  BY <1>1, <1>2 DEF ChainStep, FileBehind
<1>3. CASE SubmitTx
  BY <1>3 DEF SubmitTx, add_new_tx, Rejected, FileBehind
<1>4. CASE MineBlock
  BY <1>2, <1>4, MineInv, MineTime DEF MineBlock
<1>5. CASE ReceiveBlock
  BY <1>2, <1>5, AppendInv DEF ReceiveBlock
<1>6. CASE SyncBranch
  BY <1>2, <1>6, ReplaceInv DEF SyncBranch
<1>7. CASE Restart
  BY <1>1, <1>7 DEF Restart, FileBehind
<1>8. CASE UNCHANGED vars
  BY <1>8 DEF vars, FileBehind
<1>9. QED
  BY <1>3, <1>4, <1>5, <1>6, <1>7, <1>8 DEF Next

\* What a step that lengthens the chain leaves of the pool could take none
\* of the transactions it drops.
LEMMA DropStep ==
    ASSUME Inv, Inv', PoolStillAdmissible, FileBehind, [Next]_vars,
           Len(chain') > Len(chain), NEW tx \in Requests, Pending(tx)
    PROVE  ~ Admissible(tx, tx_pool', chain', addr_state')
<1>1. PICK k \in 1..Len(tx_pool) : tx_pool[k] = tx
  BY DEF Pending
<1>2. /\ tx_pool \in Seq(Tx) /\ addr_state \in AddrState
      /\ addr_state' \in AddrState
  BY GoodChainDerived DEF Inv, Derived
<1>3. ASSUME tx_pool' = revalidate_pending_transactions(tx_pool, chain',
                                                        addr_state')
      PROVE  ~ Admissible(tx, tx_pool', chain', addr_state')
  <2>1. PoolOK(tx_pool, chain, addr_state)
    BY DEF PoolStillAdmissible, PoolOK
  <2>2. QED
    BY <1>1, <1>2, <1>3, <2>1, NoneDropped
<1>4. Len(chain) \in Nat
  BY DEF Inv, GoodChain
<1>5. ASSUME NEW b, chain' = Append(chain, b), NEW i \in 1..Len(b.txs),
             b.txs[i] = tx
      PROVE  ~ Admissible(tx, tx_pool', chain', addr_state')
  <2>1. chain'[Len(chain')] = b /\ Len(chain') \in 1..Len(chain')
    BY <1>5 DEF Inv, GoodChain
  <2>2. tx_id(tx) \in ConfirmedIds(chain')
    BY <1>5, <2>1 DEF ConfirmedIds
  <2>3. QED
    BY <2>2 DEF Admissible
<1>6. CASE MineBlock
  <2>1. PICK step \in TimeSteps, saved \in BOOLEAN :
            mine_block(get_latest_block(chain).timestamp + step, saved)
    BY <1>6 DEF MineBlock
  <2> DEFINE now == get_latest_block(chain).timestamp + step
             b == new_block(chain, difficulty, tx_pool, MINER, now)
  <2>2. chain' = Append(chain, b)
    BY <1>4, <2>1 DEF mine_block, push_block, Rejected
  <2>3. k \in 1..Len(b.txs) /\ b.txs[k] = tx
    <3>1. /\ chain \in Seq(Block) /\ chain # <<>> /\ difficulty \in Int
          /\ MINER \in Accounts /\ now \in Int
      BY GoodChainDerived, MineTime, BlockChainAssumption, DifficultyAssumption
         DEF Inv, Derived, GoodChain
    <3> HIDE DEF now
    <3>2. QED
      BY <1>1, <1>2, <3>1, NewBlockHolds
  <2> HIDE DEF b
  <2>4. QED
    BY <1>5, <2>2, <2>3
<1>7. CASE ReceiveBlock
  BY <1>3, <1>4, <1>7 DEF ReceiveBlock, append_single_block, Rejected
<1>8. CASE SyncBranch
  BY <1>3, <1>4, <1>8 DEF SyncBranch, replace_chain_from, Rejected
<1>9. CASE Restart
  BY <1>4, <1>9 DEF Restart, FileBehind
<1>10. QED
  BY <1>4, <1>6, <1>7, <1>8, <1>9
     DEF Next, SubmitTx, add_new_tx, Rejected, vars

LEMMA PoolInvariance == Spec => [](Inv /\ PoolStillAdmissible /\ FileBehind)
<1>1. Init => PoolStillAdmissible
  BY DEF Init, PoolStillAdmissible
<1>2. Init => FileBehind
  BY DEF Init, FileBehind
<1>3. QED
  BY <1>1, <1>2, InitInv, NextInv, PoolStep, FileStep, PTL DEF Spec

-----------------------------------------------------------------------------
(* Theorems *)

\* Every variable keeps its type; in particular the difficulty stays within
\* its bounds and the chain is never empty.
THEOREM TypeCorrect == Spec => []TypeOK
<1>1. Inv => TypeOK
  BY GoodChainDerived DEF Inv, Derived, TypeOK, GoodChain
<1>2. QED
  BY Invariance, <1>1, PTL

\* No account is ever overdrawn: mine_block, append_single_block,
\* replace_chain_from and the unchecked replay of a restart agree on it.
THEOREM NeverOverdrawn == Spec => []NoOverdraft
<1>1. Inv => NoOverdraft
  BY GoodChainDerived DEF Inv, Derived, NoOverdraft, Funded
<1>2. QED
  BY Invariance, <1>1, PTL

\* The balances and nonces kept incrementally are those that
\* rebuild_account_state derives from the chain.
THEOREM CachedLedgerCorrect == Spec => []LedgerIsReplay
<1>1. Inv => LedgerIsReplay
  BY GoodChainDerived DEF Inv, Derived, LedgerIsReplay
<1>2. QED
  BY Invariance, <1>1, PTL

\* The difficulty adjusted block by block is the one rebuild_next_difficulty
\* derives from the chain, so every node asks the same of the next block.
THEOREM CachedDifficultyCorrect == Spec => []DifficultyIsReplay
<1>1. Inv => DifficultyIsReplay
  BY DEF Inv, Derived, DifficultyIsReplay
<1>2. QED
  BY Invariance, <1>1, PTL

\* A confirmed transaction is never pending: mining, adopting a block or a
\* branch and restarting all clear what the chain now includes.
THEOREM NeverPendingTwice == Spec => []ConfirmedNotPending
<1>1. Inv => ConfirmedNotPending
  BY DEF Inv
<1>2. QED
  BY Invariance, <1>1, PTL

\* Every pending transaction would be admitted again, in pool order, whatever
\* blocks and branches were adopted since it was submitted.
THEOREM PoolStaysAdmissible == Spec => []PoolStillAdmissible
BY PoolInvariance, PTL

\* The block mine_block assembles from the pool never fails the checks of
\* apply_transactions_to_state: no admitted transaction can stop the mining.
THEOREM PoolAlwaysMineable == Spec => []PoolMineable
<1>1. ASSUME Inv, PoolStillAdmissible
      PROVE  PoolMineable
  <2>1. /\ chain \in Seq(Block) /\ chain # <<>> /\ tx_pool \in Seq(Tx)
        /\ difficulty \in Int /\ addr_state \in AddrState
    BY <1>1, GoodChainDerived, DifficultyAssumption DEF Inv, Derived, GoodChain
  <2>2. MINER \in Accounts /\ get_latest_block(chain).timestamp \in Int
    <3>1. get_latest_block(chain) \in Block
      BY <2>1 DEF get_latest_block
    <3>2. QED
      BY <3>1, BlockChainAssumption DEF Block
  <2>3. PoolOK(tx_pool, chain, addr_state)
    BY <1>1 DEF PoolStillAdmissible, PoolOK
  <2>4. QED
    BY <2>1, <2>2, <2>3, PoolApplies DEF PoolMineable
<1>2. QED
  BY <1>1, PoolInvariance, PTL

\* When the chain grows, no pending transaction that the pool could still
\* take is dropped: revalidation takes a transaction back in its order or
\* finds it inadmissible for good.
THEOREM PendingNeverDropped == Spec => NoPendingDropped
<1>1. Inv /\ Inv' /\ PoolStillAdmissible /\ FileBehind /\ [Next]_vars =>
        [\A tx \in Requests :
           Pending(tx) /\ Len(chain') > Len(chain) =>
             ~ Admissible(tx, tx_pool', chain', addr_state')]_vars
  BY DropStep
<1>2. QED
  BY <1>1, PoolInvariance, PTL DEF Spec, NoPendingDropped

\* The transactions of a user are confirmed with the nonces 1, 2, 3, ... in
\* chain order: no payment is confirmed twice, after any reorganisation.
THEOREM NoncesAlwaysCountUp == Spec => []NoncesCountUp
<1>1. Inv => NoncesCountUp
  <2>1. genesis_block.txs = <<>>
    BY DEF genesis_block
  <2>2. QED
    BY <2>1, ValidChainNonces DEF Inv, GoodChain, NoncesCountUp
<1>2. QED
  BY Invariance, <1>1, PTL

LEMMA SupplyIs ==
    SupplyConserved <=> Supply(addr_state) = BLOCK_REWARD * (Len(chain) - 1)
BY Zenon DEF SupplyConserved, MapThenSumSet, MapThenFoldSet, Balance, Supply, Sums

\* No coin is lost and none made but by a block's reward: all balances together
\* are the rewards of the chain, after any order of mining, adoption of blocks
\* and branches, and restarts; the fees a block takes from senders are those its
\* fee transaction (blockchain.ts:308) pays out.
THEOREM SupplyIsConserved == Spec => []SupplyConserved
<1>1. ASSUME Inv
      PROVE  SupplyConserved
  <2>1. /\ chain \in Seq(Block) /\ chain # << >> /\ ValidChain(chain)
        /\ chain[1] = genesis_block
        /\ addr_state = LedgersOf(chain)[Len(chain)-1]
    BY <1>1 DEF Inv, GoodChain, Derived
  <2>2. chain[1].height = 0
    BY <2>1 DEF genesis_block
  <2>3. Supply(addr_state) = BLOCK_REWARD * (Len(chain) - 1)
    BY <2>1, <2>2, ValidChainSupply
  <2>4. QED
    BY <2>3, SupplyIs
<1>2. QED
  BY Invariance, <1>1, PTL

\* IndexResolves, with the names the lemmas have for its parts.
LEMMA IndexIs ==
    ASSUME \A a \in Accounts : Indexed(addr_tx_index, chain, a, Len(chain)),
           Len(chain) \in Nat
    PROVE  IndexResolves
<1>1. \A a \in Accounts : MentionsUpto(chain, a, Len(chain))
                            = MentionsUpto(chain, a, (Len(chain) + 1) - 1)
  OBVIOUS
<1>2. QED
  BY <1>1, Zenon DEF IndexResolves, Indexed, Resolves, Listed, Ref, SentPlace,
     ReceivedPlace, MentionsUpto, Mentions, WaysUpto, Ways

\* The index an address is looked up in is, however blocks were adopted, the
\* one a restart makes of the chain (blockchain.ts:150), and it lists each
\* mention of the address once, in the order of the chain, and nothing else.
THEOREM IndexAlwaysResolves ==
    Spec => [](IndexResolves /\ addr_tx_index = rebuild_index(chain))
<1>1. ASSUME Inv
      PROVE  IndexResolves /\ addr_tx_index = rebuild_index(chain)
  <2>1. /\ chain \in Seq(Block) /\ chain # << >> /\ ValidChain(chain)
        /\ chain[1] = genesis_block
        /\ addr_tx_index = rebuild_index(chain)
    BY <1>1 DEF Inv, GoodChain, Derived
  <2>2. chain[1].height = 0
    BY <2>1 DEF genesis_block
  <2>3. \A i \in 0..Len(chain)-1 : chain[i+1].height = i
    BY <2>1, <2>2, ValidChainHeights
  <2>4. \A a \in Accounts : Indexed(addr_tx_index, chain, a, Len(chain))
    BY <2>1, <2>3, RebuiltIndexed
  <2>5. Len(chain) \in Nat
    BY <2>1
  <2>6. QED
    BY <2>1, <2>4, <2>5, IndexIs
<1>2. QED
  BY Invariance, <1>1, PTL

-----------------------------------------------------------------------------
(* Refinement *)

LEMMA InitSelection == Init => Selection!Init
BY DEF Init, Selection!Init

\* A step that keeps the invariant and lengthens the chain is Adopt.
LEMMA LengthenSelection ==
    ASSUME Inv', ChainStep
    PROVE  [Selection!Next]_<<chain, disk>>
BY DEF Inv, GoodChain, ChainStep, Selection!Next, Selection!Adopt

LEMMA StepSelection ==
    Inv /\ Inv' /\ [Next]_vars => [Selection!Next]_<<chain, disk>>
<1> SUFFICES ASSUME Inv, Inv', [Next]_vars
             PROVE  [Selection!Next]_<<chain, disk>>
  OBVIOUS
<1>0. Len(chain) \in Nat
  BY DEF Inv, GoodChain
<1>1. CASE SubmitTx
  BY <1>1 DEF SubmitTx, add_new_tx, Rejected
<1>2. CASE MineBlock
  BY <1>0, <1>2, MineInv, MineTime, LengthenSelection DEF MineBlock
<1>3. CASE ReceiveBlock
  BY <1>0, <1>3, AppendInv, LengthenSelection DEF ReceiveBlock
<1>4. CASE SyncBranch
  BY <1>4, ReplaceInv, LengthenSelection DEF SyncBranch
<1>5. CASE Restart
  BY <1>5 DEF Restart, Selection!Next, Selection!Recover
<1>6. CASE UNCHANGED vars
  BY <1>6 DEF vars
<1>7. QED
  BY <1>1, <1>2, <1>3, <1>4, <1>5, <1>6 DEF Next

\* The node implements ChainSelection: it only adopts longer chains that are
\* valid from the genesis block, and its file always holds such a chain.
THEOREM ImplementsSelection == Spec => SelectionSpec
BY InitSelection, StepSelection, Invariance, PTL
   DEF Spec, SelectionSpec, Selection!Spec, Selection!vars

-----------------------------------------------------------------------------
(* The Merkle root *)

\* Levels is the function its definition asks for.
LEMMA LevelsEquation ==
    ASSUME NEW d, Len(d) \in Nat
    PROVE  /\ DOMAIN Levels(d) = 0..Len(d)
           /\ Levels(d)[0] = [i \in 1..Len(d) |-> << d[i] >>]
           /\ \A k \in 1..Len(d) : Levels(d)[k] = Shrunk(Levels(d)[k-1])
<1> DEFINE n == Len(d)
           leaves == [i \in 1..n |-> << d[i] >>]
           Reaches(m) == \E g : g = [k \in 0..m |-> IF k = 0 THEN leaves
                                                ELSE Shrunk(g[k-1])]
           P == {m \in 0..n : Reaches(m)}
<1>1. n \in Nat
  OBVIOUS
<1> HIDE DEF leaves
<1>2. Reaches(0)
  <2> DEFINE g == [k \in 0..0 |-> leaves]
  <2>1. g = [k \in 0..0 |-> IF k = 0 THEN leaves ELSE Shrunk(g[k-1])]
    OBVIOUS
  <2>2. QED
    BY <2>1
<1>3. ASSUME NEW m \in 1..n, Reaches(m - 1)
      PROVE  Reaches(m)
  <2>1. PICK g : g = [k \in 0..m-1 |-> IF k = 0 THEN leaves
                                        ELSE Shrunk(g[k-1])]
    BY <1>3
  <2> DEFINE next == [k \in 0..m |-> IF k = m THEN Shrunk(g[m-1]) ELSE g[k]]
  <2>2. ASSUME NEW k \in 0..m
        PROVE  next[k] = IF k = 0 THEN leaves ELSE Shrunk(next[k-1])
    <3>1. CASE k = m
      <4>1. k # 0 /\ next[k] = Shrunk(g[m-1]) /\ k - 1 \in 0..m /\ k - 1 # m
        BY <3>1
      <4>2. next[k-1] = g[m-1]
        BY <3>1, <4>1
      <4>3. QED
        BY <4>1, <4>2
    <3>2. CASE k # m
      <4>1. k \in 0..m-1 /\ next[k] = g[k]
        BY <3>2
      <4>2. g[k] = IF k = 0 THEN leaves ELSE Shrunk(g[k-1])
        BY <2>1, <4>1
      <4>3. k # 0 => next[k-1] = g[k-1]
        BY <3>2
      <4>4. QED
        BY <4>1, <4>2, <4>3
    <3>3. QED
      BY <3>1, <3>2
  <2>3. next = [k \in 0..m |-> IF k = 0 THEN leaves ELSE Shrunk(next[k-1])]
    BY <2>2
  <2>4. QED
    BY <2>3
<1>4. n \in P
  <2>1. 0 \in 0..n /\ n \in 0..n /\ 1..n \in SUBSET (0..n)
    BY <1>1
  <2> HIDE DEF Reaches, n
  <2>2. 0 \in P /\ \A m \in 1..n : m - 1 \in P => m \in P
    BY <1>2, <1>3, <2>1
  <2>3. P \in SUBSET (0..n)
    OBVIOUS
  <2> HIDE DEF P
  <2>4. P = 0..n
    BY <1>1, <2>2, <2>3, Induction
  <2>5. QED
    BY <2>1, <2>4
<1>5. PICK level : level = [k \in 0..n |-> IF k = 0 THEN leaves
                                          ELSE Shrunk(level[k-1])]
  BY <1>4
<1>6. Levels(d) = [k \in 0..n |-> IF k = 0 THEN leaves
                                 ELSE Shrunk(Levels(d)[k-1])]
  BY <1>5, Zenon DEF Levels, leaves
<1>7. QED
  <2>1. 0 \in 0..n /\ \A k \in 1..n : k \in 0..n /\ k # 0
    BY <1>1
  <2>2. DOMAIN Levels(d) = 0..n
    BY <1>6
  <2>3. Levels(d)[0] = leaves
    BY <1>6, <2>1
  <2>4. \A k \in 1..n : Levels(d)[k] = Shrunk(Levels(d)[k-1])
    BY <1>6, <2>1
  <2>5. QED
    BY <2>2, <2>3, <2>4 DEF leaves

\* The nodes of the level above.
LEMMA NextLevelNodes ==
    ASSUME NEW S, NEW level \in Seq(S), Len(level) >= 1
    PROVE  /\ NextLevel(level) \in Seq(S \X S)
           /\ Len(NextLevel(level)) = (Len(level) + 1) \div 2
           /\ \A i \in 1..(Len(level) + 1) \div 2 :
                NextLevel(level)[i] =
                  << level[2*i-1],
                     IF 2 * i <= Len(level) THEN level[2*i] ELSE level[2*i-1] >>
<1> DEFINE n == Len(level)
           nodes == Paired(level)
           m == (n + 1) \div 2
<1>1. n \in Nat /\ n >= 1 /\ m \in Nat /\ 2 * m \in {n, n + 1} /\ m >= 1
  OBVIOUS
<1>2. /\ nodes \in Seq(S) /\ Len(nodes) = 2 * m
      /\ \A i \in 1..2*m : nodes[i] = IF i <= n THEN level[i] ELSE level[n]
  <2>1. CASE n % 2 = 0
    BY <1>1, <2>1 DEF Paired
  <2>2. CASE n % 2 # 0
    <3>1. 2 * m = n + 1
      BY <2>2
    <3>2. nodes = Append(level, level[n]) /\ level[n] \in S
      BY <1>1, <2>2 DEF Paired
    <3>3. QED
      BY <1>1, <3>1, <3>2
  <2>3. QED
    BY <2>1, <2>2
<1>3. NextLevel(level) = [i \in 1..m |-> << nodes[2*i-1], nodes[2*i] >>]
  <2>1. Len(nodes) \div 2 = m
    BY <1>1, <1>2
  <2>2. QED
    BY <2>1 DEF NextLevel
<1> HIDE DEF nodes, m
<1>4. ASSUME NEW i \in 1..m
      PROVE  /\ nodes[2*i-1] \in S /\ nodes[2*i] \in S
             /\ nodes[2*i-1] = level[2*i-1]
             /\ nodes[2*i] = IF 2 * i <= n THEN level[2*i] ELSE level[2*i-1]
  <2>1. 2*i-1 \in 1..2*m /\ 2*i \in 1..2*m
    BY <1>1
  <2>2. 2*i-1 <= n /\ (2*i > n => 2*i-1 = n)
    BY <1>1
  <2>3. QED
    BY <1>1, <1>2, <2>1, <2>2
<1>5. /\ NextLevel(level) \in Seq(S \X S)
      /\ Len(NextLevel(level)) = m
  <2>1. \A i \in 1..m : << nodes[2*i-1], nodes[2*i] >> \in S \X S
    BY <1>4
  <2>2. PICK pair : pair = [i \in 1..m |-> << nodes[2*i-1], nodes[2*i] >>]
    OBVIOUS
  <2>3. pair \in [1..m -> S \X S]
    BY <2>1, <2>2, Zenon
  <2>4. pair \in Seq(S \X S) /\ Len(pair) = m
    BY <1>1, <2>3
  <2>5. QED
    BY <1>3, <2>2, <2>4
<1>6. ASSUME NEW i \in 1..m
      PROVE  NextLevel(level)[i] =
               << level[2*i-1],
                  IF 2 * i <= n THEN level[2*i] ELSE level[2*i-1] >>
  BY <1>3, <1>4
<1>7. QED
  BY <1>5, <1>6 DEF m

\* A pair has its two components, and no list of one is a pair.
LEMMA PairOfTwo ==
    ASSUME NEW x, NEW y, NEW u, NEW v
    PROVE  /\ << x, y >> = << u, v >> => x = u /\ y = v
           /\ << x >> # << u, v >>
<1>1. << x, y >>[1] = x /\ << x, y >>[2] = y
  OBVIOUS
<1>2. << u, v >>[1] = u /\ << u, v >>[2] = v
  OBVIOUS
<1>3. << x, y >> = << u, v >> => x = u /\ y = v
  BY <1>1, <1>2, Zenon
<1>4. Len(<< x >>) = 1 /\ Len(<< u, v >>) = 2
  OBVIOUS
<1>5. << x >> # << u, v >>
  BY <1>4
<1>6. QED
  BY <1>3, <1>5

\* Two levels have the same nodes where both have one.
Agree(a, b) == \A i \in 1..Len(a) : i \in 1..Len(b) => a[i] = b[i]

LEMMA AgreeBelow ==
    ASSUME NEW S, NEW a \in Seq(S), Len(a) >= 1,
           NEW T, NEW b \in Seq(T), Len(b) >= 1,
           Agree(NextLevel(a), NextLevel(b))
    PROVE  Agree(a, b)
<1> SUFFICES ASSUME NEW i \in 1..Len(a), i \in 1..Len(b)
             PROVE  a[i] = b[i]
  BY DEF Agree
<1> DEFINE j == (i + 1) \div 2
<1>1. /\ Len(a) \in Nat /\ Len(b) \in Nat /\ i \in Nat
      /\ j \in 1..(Len(a) + 1) \div 2 /\ j \in 1..(Len(b) + 1) \div 2
      /\ i = 2 * j - 1 \/ i = 2 * j
  OBVIOUS
<1>2. NextLevel(a)[j] = NextLevel(b)[j]
  BY <1>1, NextLevelNodes DEF Agree
<1>3. /\ NextLevel(a)[j] =
            << a[2*j-1], IF 2 * j <= Len(a) THEN a[2*j] ELSE a[2*j-1] >>
      /\ NextLevel(b)[j] =
            << b[2*j-1], IF 2 * j <= Len(b) THEN b[2*j] ELSE b[2*j-1] >>
  BY <1>1, NextLevelNodes
<1> HIDE DEF j
<1>4. /\ a[2*j-1] = b[2*j-1]
      /\ (IF 2 * j <= Len(a) THEN a[2*j] ELSE a[2*j-1]) =
         (IF 2 * j <= Len(b) THEN b[2*j] ELSE b[2*j-1])
  <2>1. PICK p, q : /\ p = a[2*j-1]
                    /\ q = IF 2 * j <= Len(a) THEN a[2*j] ELSE a[2*j-1]
    OBVIOUS
  <2>2. PICK u, v : /\ u = b[2*j-1]
                    /\ v = IF 2 * j <= Len(b) THEN b[2*j] ELSE b[2*j-1]
    OBVIOUS
  <2>3. << p, q >> = << u, v >>
    BY <1>2, <1>3, <2>1, <2>2, Zenon
  <2>4. p = u /\ q = v
    BY <2>3, PairOfTwo
  <2>5. QED
    BY <2>1, <2>2, <2>4, Zenon
<1>5. ASSUME i = 2 * j
      PROVE  a[i] = b[i]
  <2>1. 2 * j <= Len(a) /\ 2 * j <= Len(b)
    BY <1>1, <1>5
  <2>2. QED
    BY <1>4, <1>5, <2>1
<1>6. QED
  BY <1>1, <1>4, <1>5

\* The levels of a list from its leaves f[0] up to a single node f[D].
Tower(f, D, d) ==
    /\ f[0] = [i \in 1..Len(d) |-> << d[i] >>]
    /\ \A k \in 0..D : \E S : f[k] \in Seq(S) /\ Len(f[k]) >= 1
    /\ \A k \in 1..D : f[k] = NextLevel(f[k-1])
    /\ Len(f[D]) = 1
    /\ calc_merkleroot(d) = f[D][1]

\* The levels get shorter until one node is left.
LEMMA LevelLengths ==
    ASSUME NEW U, NEW d \in Seq(U), Len(d) >= 1,
           NEW k \in 0..Len(d)
    PROVE  /\ \E S : Levels(d)[k] \in Seq(S)
           /\ Len(Levels(d)[k]) >= 1
           /\ (Len(Levels(d)[k]) = 1 \/ Len(Levels(d)[k]) <= Len(d) - k)
<1> DEFINE n == Len(d)
           L == Levels(d)
           Good(i) == /\ \E S : L[i] \in Seq(S)
                      /\ Len(L[i]) >= 1
                      /\ (Len(L[i]) = 1 \/ Len(L[i]) <= n - i)
           P == {i \in 0..n : Good(i)}
<1>1. n \in Nat /\ n >= 1
  OBVIOUS
<1>2. /\ L[0] = [i \in 1..n |-> << d[i] >>]
      /\ \A i \in 1..n : L[i] = Shrunk(L[i-1])
  BY LevelsEquation
<1> HIDE DEF L
<1>3. Good(0)
  <2>1. [i \in 1..n |-> << d[i] >>] \in Seq({<< d[i] >> : i \in 1..n})
    BY <1>1
  <2>2. Len([i \in 1..n |-> << d[i] >>]) = n
    BY <1>1
  <2>3. \E S : [i \in 1..n |-> << d[i] >>] \in Seq(S)
    BY <2>1
  <2>4. PICK leaves : leaves = [i \in 1..n |-> << d[i] >>]
    OBVIOUS
  <2>5. L[0] = leaves /\ Len(leaves) = n /\ \E S : leaves \in Seq(S)
    BY <1>2, <2>2, <2>3, <2>4, Zenon
  <2>6. n >= 1 /\ n <= n - 0
    BY <1>1
  <2>7. QED
    BY <2>5, <2>6, Zenon
<1>4. ASSUME NEW i \in 1..n, Good(i - 1)
      PROVE  Good(i)
  <2>1. PICK S : L[i-1] \in Seq(S)
    BY <1>4
  <2>2. PICK low : /\ low = L[i-1] /\ low \in Seq(S) /\ Len(low) >= 1
                   /\ (Len(low) = 1 \/ Len(low) <= n - (i - 1))
    BY <1>4, <2>1
  <2>3. L[i] = Shrunk(low)
    BY <1>2, <2>2
  <2>4. CASE Len(low) > 1
    <3>1. L[i] = NextLevel(low)
      BY <2>3, <2>4 DEF Shrunk
    <3>2. /\ NextLevel(low) \in Seq(S \X S)
          /\ Len(NextLevel(low)) = (Len(low) + 1) \div 2
      BY <2>2, NextLevelNodes
    <3>3. PICK m \in Nat : m = Len(low)
      BY <2>2
    <3>4. /\ (m + 1) \div 2 >= 1
          /\ (m + 1) \div 2 <= n - i
      <4>1. \A x \in Nat, y \in Nat :
              x > 1 /\ (x = 1 \/ x <= y - (i - 1))
                => (x + 1) \div 2 >= 1 /\ (x + 1) \div 2 <= y - i
        OBVIOUS
      <4>2. m > 1 /\ (m = 1 \/ m <= n - (i - 1))
        BY <2>2, <2>4, <3>3, Zenon
      <4>3. QED
        BY <1>1, <4>1, <4>2, Zenon
    <3>5. \E T : L[i] \in Seq(T)
      BY <3>1, <3>2
    <3>6. QED
      BY <3>1, <3>2, <3>3, <3>4, <3>5
  <2>5. CASE ~ (Len(low) > 1)
    <3>1. L[i] = low
      BY <2>3, <2>5 DEF Shrunk
    <3>2. Len(low) = 1
      <4>1. Len(low) \in Nat
        BY <2>2
      <4>2. \A x \in Nat : x >= 1 /\ ~ (x > 1) => x = 1
        OBVIOUS
      <4>3. QED
        BY <2>2, <2>5, <4>1, <4>2, Zenon
    <3>3. QED
      BY <2>2, <3>1, <3>2
  <2>6. QED
    BY <2>4, <2>5
<1>5. k \in P
  <2>1. 0 \in 0..n /\ 1..n \in SUBSET (0..n)
    BY <1>1
  <2> HIDE DEF Good, n
  <2>2. 0 \in P /\ \A i \in 1..n : i - 1 \in P => i \in P
    BY <1>3, <1>4, <2>1
  <2>3. P \in SUBSET (0..n)
    OBVIOUS
  <2> HIDE DEF P
  <2>4. P = 0..n
    BY <1>1, <2>2, <2>3, Induction
  <2>5. QED
    BY <2>4 DEF n
<1>6. QED
  BY <1>5 DEF L

LEMMA TowerExists ==
    ASSUME NEW U, NEW d \in Seq(U), Len(d) >= 1
    PROVE  \E D \in Nat : Tower(Levels(d), D, d)
<1> DEFINE n == Len(d)
           L == Levels(d)
           Single == {k \in 0..n : Len(L[k]) = 1}
<1>1. n \in Nat /\ n >= 1
  OBVIOUS
<1>2. /\ L[0] = [i \in 1..n |-> << d[i] >>]
      /\ \A i \in 1..n : L[i] = Shrunk(L[i-1])
  BY LevelsEquation
<1>3. \A k \in 0..n : /\ \E S : L[k] \in Seq(S)
                     /\ Len(L[k]) >= 1 /\ Len(L[k]) \in Nat
                     /\ (Len(L[k]) = 1 \/ Len(L[k]) <= n - k)
  <2>1. ASSUME NEW k \in 0..n
        PROVE  /\ \E S : L[k] \in Seq(S)
               /\ Len(L[k]) >= 1
               /\ (Len(L[k]) = 1 \/ Len(L[k]) <= n - k)
    BY LevelLengths
  <2>2. QED
    BY <2>1
<1>4. calc_merkleroot(d) = L[n][1]
  <2>1. n # 0
    BY <1>1
  <2>2. QED
    BY <2>1, Zenon DEF calc_merkleroot
<1> HIDE DEF L
<1>5. n \in Single
  BY <1>1, <1>3
<1>6. PICK D \in Single : \A k \in Single : D <= k
  <2>1. Single \in SUBSET (0..n) /\ Single # {}
    BY <1>5
  <2> HIDE DEF Single
  <2>2. QED
    BY <1>1, <2>1, LeastElement
<1>7. D \in 0..n /\ Len(L[D]) = 1
  BY <1>6
<1>8. ASSUME NEW k \in 1..D
      PROVE  L[k] = NextLevel(L[k-1])
  <2>1. k \in 1..n /\ k - 1 \in 0..n /\ ~ (D <= k - 1)
    BY <1>1, <1>7
  <2>2. Len(L[k-1]) # 1
    BY <1>6, <2>1
  <2>3. Len(L[k-1]) > 1
    <3>1. Len(L[k-1]) \in Nat /\ Len(L[k-1]) >= 1
      BY <1>3, <2>1
    <3>2. \A x \in Nat : x >= 1 /\ x # 1 => x > 1
      OBVIOUS
    <3>3. QED
      BY <2>2, <3>1, <3>2, Zenon
  <2>4. QED
    BY <1>2, <2>1, <2>3 DEF Shrunk
<1>9. L[n] = L[D]
  <2> DEFINE P == {k \in 0..n : k >= D => L[k] = L[D]}
  <2>1. 0 \in P
    BY <1>1, <1>7
  <2>2. ASSUME NEW k \in 1..n, k - 1 \in P
        PROVE  k \in P
    <3>1. CASE k > D
      <4>1. L[k-1] = L[D] /\ Len(L[D]) = 1
        BY <1>7, <2>2, <3>1
      <4>2. L[k] = Shrunk(L[D])
        BY <1>2, <4>1
      <4>3. QED
        BY <4>1, <4>2 DEF Shrunk
    <3>2. CASE k = D
      BY <1>7, <3>2
    <3>3. CASE k < D
      BY <1>7, <3>3
    <3>4. QED
      BY <1>7, <3>1, <3>2, <3>3
  <2>3. P \in SUBSET (0..n)
    OBVIOUS
  <2> HIDE DEF P
  <2>4. P = 0..n
    BY <1>1, <2>1, <2>2, <2>3, Induction
  <2>5. n \in P
    BY <1>1, <2>4
  <2>6. QED
    BY <1>1, <1>7, <2>5 DEF P
<1>10. \A k \in 0..D : \E S : L[k] \in Seq(S) /\ Len(L[k]) >= 1
  <2>1. \A k \in 0..D : k \in 0..n
    BY <1>1, <1>7
  <2>2. ASSUME NEW k \in 0..D
        PROVE  \E S : L[k] \in Seq(S) /\ Len(L[k]) >= 1
    <3>1. (\E S : L[k] \in Seq(S)) /\ Len(L[k]) >= 1
      BY <1>3, <2>1
    <3>2. QED
      BY <3>1, Zenon
  <2>3. QED
    BY <2>2
<1>11. Tower(L, D, d)
  BY <1>2, <1>4, <1>7, <1>8, <1>9, <1>10 DEF Tower
<1>12. QED
  BY <1>7, <1>11 DEF L

\* Two lists with one root agree from the root down to where the lower of the
\* towers ends, and that is at the leaves of both: a leaf is no pair.
LEMMA TowersAgree ==
    ASSUME NEW d, NEW e, NEW f, NEW g, NEW D \in Nat, NEW E \in Nat, D <= E,
           Len(d) \in Nat, Len(d) >= 1,
           Tower(f, D, d), Tower(g, E, e),
           calc_merkleroot(d) = calc_merkleroot(e)
    PROVE  D = E /\ Agree(f[0], g[0])
<1> DEFINE Good(j) == Agree(f[D-j], g[E-j])
           P == {j \in 0..D : Good(j)}
<1>1. Good(0)
  <2>1. D - 0 = D /\ E - 0 = E /\ Len(f[D]) = 1 /\ f[D][1] = g[E][1]
    BY DEF Tower
  <2>2. QED
    BY <2>1 DEF Agree
<1>2. ASSUME NEW j \in 1..D, Good(j - 1)
      PROVE  Good(j)
  <2>1. PICK p \in Nat, q \in Nat : p = D - j /\ q = E - j
    OBVIOUS
  <2>2. /\ p \in 0..D /\ p + 1 \in 1..D /\ q \in 0..E /\ q + 1 \in 1..E
        /\ p + 1 = D - (j - 1) /\ q + 1 = E - (j - 1)
        /\ (p + 1) - 1 = p /\ (q + 1) - 1 = q
    BY <2>1
  <2>3. f[p+1] = NextLevel(f[p]) /\ g[q+1] = NextLevel(g[q])
    BY <2>2 DEF Tower
  <2>4. Agree(NextLevel(f[p]), NextLevel(g[q]))
    BY <1>2, <2>2, <2>3
  <2>5. PICK S : f[p] \in Seq(S) /\ Len(f[p]) >= 1
    BY <2>2 DEF Tower
  <2>6. PICK T : g[q] \in Seq(T) /\ Len(g[q]) >= 1
    BY <2>2 DEF Tower
  <2>7. Agree(f[p], g[q])
    BY <2>4, <2>5, <2>6, AgreeBelow
  <2>8. QED
    BY <2>1, <2>7
<1>3. Agree(f[0], g[E-D])
  <2>1. 0 \in 0..D /\ D \in 0..D /\ 1..D \in SUBSET (0..D) /\ D - D = 0
    OBVIOUS
  <2> HIDE DEF Good
  <2>2. 0 \in P /\ \A j \in 1..D : j - 1 \in P => j \in P
    BY <1>1, <1>2, <2>1
  <2>3. P \in SUBSET (0..D)
    OBVIOUS
  <2>4. P = 0..D
    <3> HIDE DEF P
    <3>1. QED
      BY <2>2, <2>3, Induction
  <2>5. Good(D)
    BY <2>1, <2>4
  <2>6. QED
    BY <2>1, <2>5 DEF Good
<1>4. D = E
  <2>1. SUFFICES ASSUME D < E
                 PROVE  FALSE
    OBVIOUS
  <2>2. PICK m \in Nat : m = E - D - 1
    BY <2>1
  <2>3. m \in 0..E /\ m + 1 \in 1..E /\ m + 1 = E - D /\ (m + 1) - 1 = m
    BY <2>2
  <2>4. g[m+1] = NextLevel(g[m])
    BY <2>3 DEF Tower
  <2>5. PICK S : g[m] \in Seq(S) /\ Len(g[m]) >= 1
    BY <2>3 DEF Tower
  <2>6. /\ 1 \in 1..(Len(g[m]) + 1) \div 2
        /\ Len(g[m+1]) = (Len(g[m]) + 1) \div 2
        /\ \E x, y : g[m+1][1] = << x, y >>
    <3>1. PICK n \in Nat : n = Len(g[m]) /\ n >= 1
      BY <2>5
    <3>2. 1 \in 1..(n + 1) \div 2
      <4>1. \A x \in Nat : x >= 1 => 1 \in 1..(x + 1) \div 2
        OBVIOUS
      <4>2. QED
        BY <3>1, <4>1, Zenon
    <3>3. /\ Len(NextLevel(g[m])) = (Len(g[m]) + 1) \div 2
          /\ \A i \in 1..(Len(g[m]) + 1) \div 2 : NextLevel(g[m])[i] =
                << g[m][2*i-1],
                   IF 2 * i <= Len(g[m]) THEN g[m][2*i] ELSE g[m][2*i-1] >>
      BY <2>5, NextLevelNodes
    <3>4. \E x, y : NextLevel(g[m])[1] = << x, y >>
      BY <3>1, <3>2, <3>3, Zenon
    <3>5. QED
      BY <2>4, <3>1, <3>2, <3>3, <3>4
  <2>7. Len(f[0]) = Len(d) /\ f[0][1] = << d[1] >> /\ 1 \in 1..Len(d)
    BY DEF Tower
  <2>8. f[0][1] = g[m+1][1]
    BY <1>3, <2>3, <2>6, <2>7 DEF Agree
  <2>9. QED
    BY <2>6, <2>7, <2>8, PairOfTwo, Zenon
<1>5. QED
  BY <1>3, <1>4

\* Of two lists of transactions with one root, each is where it is not longer
\* the beginning of the other.
LEMMA SameRoot ==
    ASSUME NEW U, NEW d \in Seq(U), NEW e \in Seq(U),
           Len(d) >= 1, Len(e) >= 1,
           calc_merkleroot(d) = calc_merkleroot(e)
    PROVE  Agree(d, e)
<1>1. PICK D \in Nat : Tower(Levels(d), D, d)
  BY TowerExists
<1>2. PICK E \in Nat : Tower(Levels(e), E, e)
  BY TowerExists
<1>3. Len(d) \in Nat /\ Len(e) \in Nat
  OBVIOUS
<1>4. /\ Levels(d)[0] = [i \in 1..Len(d) |-> << d[i] >>]
      /\ Levels(e)[0] = [i \in 1..Len(e) |-> << e[i] >>]
  BY <1>3, LevelsEquation
<1>5. PICK f, g : f = Levels(d)[0] /\ g = Levels(e)[0]
  OBVIOUS
<1>6. Agree(f, g) \/ Agree(g, f)
  <2>1. CASE D <= E
    BY <1>1, <1>2, <1>3, <1>5, <2>1, TowersAgree
  <2>2. CASE E <= D
    BY <1>1, <1>2, <1>3, <1>5, <2>2, TowersAgree
  <2>3. QED
    BY <2>1, <2>2
<1>7. ASSUME NEW i \in 1..Len(d), i \in 1..Len(e)
      PROVE  d[i] = e[i]
  <2>1. Len(f) = Len(d) /\ Len(g) = Len(e)
    BY <1>3, <1>4, <1>5
  <2>2. f[i] = g[i]
    BY <1>6, <1>7, <2>1 DEF Agree
  <2>3. << d[i] >> = << e[i] >>
    BY <1>4, <1>5, <1>7, <2>2
  <2>4. QED
    BY <2>3
<1>8. QED
  BY <1>7 DEF Agree

\* The block reward comes from BC_NAME; in a longer list it is where
\* validate_system_transactions (blockchain.ts:288) allows only others.
LEMMA NoLongerBody ==
    ASSUME NEW b, NEW c, b.txs \in Seq(Tx), c.txs \in Seq(Tx),
           b.height # 0, c.height # 0,
           validate_system_transactions(b), validate_system_transactions(c),
           \A i \in 1..Len(b.txs) : i \in 1..Len(c.txs) =>
                                      b.txs[i] = c.txs[i]
    PROVE  Len(c.txs) <= Len(b.txs)
<1> DEFINE n == Len(b.txs)
           m == Len(c.txs)
<1> SUFFICES ASSUME n < m
             PROVE  FALSE
  OBVIOUS
<1>1. n \in Nat /\ m \in Nat
  OBVIOUS
<1>2. n >= 2 /\ b.txs[n-1].sender = BC_NAME
  BY DEF validate_system_transactions, SystemTx
<1>3. n - 1 \in 1..m-2 /\ n - 1 \in 1..n /\ n - 1 \in 1..m
  BY <1>1, <1>2
<1>4. c.txs[n-1].sender # BC_NAME
  BY <1>3 DEF validate_system_transactions
<1>5. QED
  BY <1>2, <1>3, <1>4

\* Every block of a node's chain but the first was validated.
LEMMA ChainValidated ==
    ASSUME Inv, NEW h \in 2..Len(chain)
    PROVE  /\ chain[h] \in Block
           /\ chain[h].height # 0
           /\ validate_system_transactions(chain[h])
<1>1. /\ chain \in Seq(Block) /\ chain # <<>>
      /\ chain[1] = genesis_block /\ ValidChain(chain)
  BY DEF Inv, GoodChain
<1> DEFINE P == {k \in 0..Len(chain)-1 : chain[k+1].height = k}
<1>2. ASSUME NEW i \in 1..Len(chain)-1
      PROVE  /\ chain[i+1].height = chain[i].height + 1
             /\ validate_system_transactions(chain[i+1])
  BY <1>1 DEF ValidChain, validate_next_block, BlockApplies
<1>3. 0 \in P
  BY <1>1 DEF genesis_block
<1>4. ASSUME NEW i \in 1..Len(chain)-1, i - 1 \in P
      PROVE  i \in P
  BY <1>1, <1>2, <1>4
<1>5. P = 0..Len(chain)-1
  <2> HIDE DEF P
  <2>1. P \in SUBSET (0..Len(chain)-1)
    BY DEF P
  <2>2. Len(chain) - 1 \in Nat
    BY <1>1
  <2>3. QED
    BY <1>3, <1>4, <2>1, <2>2, Induction
<1>6. h - 1 \in P /\ h - 1 \in 1..Len(chain)-1
  <2>1. Len(chain) \in Nat
    BY <1>1
  <2>2. h - 1 \in 0..Len(chain)-1 /\ h - 1 \in 1..Len(chain)-1
    BY <2>1
  <2>3. QED
    BY <1>5, <2>2
<1>7. chain[h].height = h - 1 /\ validate_system_transactions(chain[h])
  BY <1>1, <1>2, <1>6
<1>8. QED
  BY <1>1, <1>7

-----------------------------------------------------------------------------

\* No block of the chain can be taken for another one with the same header,
\* whatever list of transactions a peer puts in its place: lists share a root
\* only if one begins with the other, and validate_system_transactions takes
\* no two such lists.
THEOREM HashCoversBlock == Spec => []RootCoversBlock
<1>1. ASSUME Inv, NEW h \in 2..Len(chain), NEW txs \in Seq(Tx),
             validate_system_transactions([chain[h] EXCEPT !.txs = txs]),
             calc_merkleroot(txs) = calc_merkleroot(chain[h].txs)
      PROVE  txs = chain[h].txs
  <2>1. PICK b : b = chain[h] /\ b \in Block /\ b.height # 0
                 /\ validate_system_transactions(b)
    BY <1>1, ChainValidated
  <2>2. PICK c : c = [b EXCEPT !.txs = txs]
    OBVIOUS
  <2>3. /\ c.txs = txs /\ c.height # 0 /\ validate_system_transactions(c)
        /\ b.txs \in Seq(Tx)
    BY <1>1, <2>1, <2>2 DEF Block
  <2>4. Len(b.txs) >= 1 /\ Len(txs) >= 1
    BY <2>1, <2>3 DEF validate_system_transactions
  <2>5. Agree(b.txs, txs) /\ Agree(txs, b.txs)
    BY <1>1, <2>1, <2>3, <2>4, SameRoot
  <2>6. Len(txs) <= Len(b.txs)
    BY <2>1, <2>3, <2>5, NoLongerBody DEF Agree
  <2>7. Len(b.txs) <= Len(txs)
    BY <2>1, <2>3, <2>5, NoLongerBody DEF Agree
  <2>8. QED
    BY <2>1, <2>3, <2>5, <2>6, <2>7 DEF Agree
<1>2. Inv => RootCoversBlock
  BY <1>1 DEF RootCoversBlock
<1>3. QED
  BY Invariance, <1>2, PTL

=============================================================================
