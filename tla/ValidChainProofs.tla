-------------------------- MODULE ValidChainProofs --------------------------
(***************************************************************************)
(* Lemmas about whole chains: appending a block leaves what was computed   *)
(* from the chain before it unchanged, so one block can be validated       *)
(* against cached balances and difficulty; the replay of a restart is the  *)
(* validated application; a valid chain overdraws no account and confirms  *)
(* nonces in order; a block made of the pool applies, and revalidation     *)
(* drops nothing the pool could take; a block adds its reward to the       *)
(* supply; and the index of a valid chain resolves and counts.             *)
(***************************************************************************)
EXTENDS LedgerProofs

LEMMA AppendFacts ==
    ASSUME NEW c \in Seq(Block), c # <<>>, NEW b \in Block
    PROVE  /\ Append(c, b) \in Seq(Block) /\ Append(c, b) # <<>>
           /\ Len(c) \in Nat \ {0} /\ Len(Append(c, b)) = Len(c) + 1
           /\ \A i \in 1..Len(c) : Append(c, b)[i] = c[i]
           /\ Append(c, b)[Len(c) + 1] = b
OBVIOUS

\* The ledgers of the blocks of a chain stay when a block is appended, and
\* one is added.
LEMMA LedgersOfAppend ==
    ASSUME NEW c \in Seq(Block), c # <<>>, NEW b \in Block
    PROVE  /\ \A i \in 0..Len(c)-1 : LedgersOf(Append(c, b))[i] = LedgersOf(c)[i]
           /\ LedgersOf(Append(c, b))[Len(c)]
                = apply_block(LedgersOf(c)[Len(c)-1], b)
<1> DEFINE n == Len(c) - 1
           m == Len(Append(c, b)) - 1
           turn1 == [i \in 1..m |-> [s \in AddrState |->
                                        apply_block(s, Append(c, b)[i+1])]]
           turn2 == [i \in 1..n |-> [s \in AddrState |->
                                        apply_block(s, c[i+1])]]
<1>1. n \in Nat /\ m = n + 1 /\ m \in Nat /\ n <= m
  BY AppendFacts
<1>2. /\ \A i \in 1..m : Append(c, b)[i+1] \in Block
      /\ \A i \in 1..n : c[i+1] \in Block /\ Append(c, b)[i+1] = c[i+1]
  BY <1>1, AppendFacts
<1>3. turn1 \in [1..m -> [AddrState -> AddrState]]
  BY <1>2, ApplyBlockType
<1>4. turn2 \in [1..n -> [AddrState -> AddrState]]
  BY <1>2, ApplyBlockType
<1>5. SameOn(turn1, turn2, 1..n)
  <2>1. ASSUME NEW i \in 1..n
        PROVE  turn1[i] = turn2[i]
    BY <1>1, <1>2
  <2>2. QED
    BY <2>1 DEF SameOn
<1>6. /\ LedgersOf(Append(c, b)) = Iterate(turn1, NoAccounts, m)
      /\ LedgersOf(c) = Iterate(turn2, NoAccounts, n)
  BY DEF LedgersOf
<1> HIDE DEF turn1, turn2, n, m
<1>7. SameOn(Iterate(turn1, NoAccounts, m), Iterate(turn2, NoAccounts, n), 0..n)
  BY <1>1, <1>3, <1>4, <1>5, NoAccountsType, IterateAgree, Zenon
<1>8. \A i \in 0..n : LedgersOf(Append(c, b))[i] = LedgersOf(c)[i]
  BY <1>6, <1>7 DEF SameOn
<1>9. LedgersOf(Append(c, b))[m]
        = apply_block(LedgersOf(Append(c, b))[m-1], Append(c, b)[m+1])
  <2>1. m \in 1..Len(Append(c, b))-1
    BY <1>1 DEF m
  <2>2. QED
    BY <2>1, AppendFacts, LedgersOfEquation
<1>10. QED
  <2>1. m = Len(c) /\ n = Len(c) - 1 /\ n \in 0..n
    BY <1>1 DEF n
  <2>2. Append(c, b)[m+1] = b
    BY <2>1, AppendFacts
  <2>3. QED
    BY <1>1, <1>8, <1>9, <2>1, <2>2

\* So do the difficulties.
LEMMA DifficultiesOfAppend ==
    ASSUME NEW c \in Seq(Block), c # <<>>, c[1] = genesis_block,
           NEW b \in Block
    PROVE  /\ \A i \in 0..Len(c)-1 :
                 DifficultiesOf(Append(c, b))[i] = DifficultiesOf(c)[i]
           /\ DifficultiesOf(Append(c, b))[Len(c)]
                = difficulty_after_append(Append(c, b),
                                          DifficultiesOf(c)[Len(c)-1])
<1> DEFINE n == Len(c) - 1
           m == Len(Append(c, b)) - 1
           turn1 == [i \in 1..m |-> [d \in Int |->
               difficulty_after_append(SubSeq(Append(c, b), 1, i + 1), d)]]
           turn2 == [i \in 1..n |-> [d \in Int |->
               difficulty_after_append(SubSeq(c, 1, i + 1), d)]]
<1>1. n \in Nat /\ m = n + 1 /\ m \in Nat /\ n <= m
  BY AppendFacts
<1>2. \A i \in 1..n : SubSeq(Append(c, b), 1, i + 1) = SubSeq(c, 1, i + 1)
  <2> SUFFICES ASSUME NEW i \in 1..n
               PROVE  SubSeq(Append(c, b), 1, i + 1) = SubSeq(c, 1, i + 1)
    OBVIOUS
  <2>1. \A k \in 1..(i+1) : k \in 1..Len(c) /\ Append(c, b)[k] = c[k]
    BY <1>1, AppendFacts
  <2>2. /\ SubSeq(c, 1, i + 1) = [k \in 1..(i+1) |-> c[k]]
        /\ SubSeq(Append(c, b), 1, i + 1)
             = [k \in 1..(i+1) |-> Append(c, b)[k]]
    BY <1>1, AppendFacts
  <2>3. QED
    BY <2>1, <2>2
<1>3. turn1 \in [1..m -> [Int -> Int]]
  BY DifficultyAfterAppendType
<1>4. turn2 \in [1..n -> [Int -> Int]]
  BY DifficultyAfterAppendType
<1>5. SameOn(turn1, turn2, 1..n)
  <2>1. ASSUME NEW i \in 1..n
        PROVE  turn1[i] = turn2[i]
    <3>1. i \in 1..m
      BY <1>1
    <3>2. turn1[i] = [d \in Int |->
                 difficulty_after_append(SubSeq(Append(c, b), 1, i + 1), d)]
      BY <3>1
    <3>3. turn2[i] = [d \in Int |->
                 difficulty_after_append(SubSeq(c, 1, i + 1), d)]
      OBVIOUS
    <3>4. SubSeq(Append(c, b), 1, i + 1) = SubSeq(c, 1, i + 1)
      BY <1>2
    <3> HIDE DEF turn1, turn2
    <3>5. QED
      BY <3>2, <3>3, <3>4, Zenon
  <2>2. QED
    BY <2>1 DEF SameOn
<1>6. Append(c, b)[1] = genesis_block /\ MIN_DIFFICULTY \in Int
  BY AppendFacts, DifficultyAssumption
<1>7. /\ DifficultiesOf(Append(c, b)) = Iterate(turn1, MIN_DIFFICULTY, m)
      /\ DifficultiesOf(c) = Iterate(turn2, MIN_DIFFICULTY, n)
  BY <1>6 DEF DifficultiesOf, genesis_block
<1> HIDE DEF turn1, turn2, n, m
<1>8. SameOn(Iterate(turn1, MIN_DIFFICULTY, m), Iterate(turn2, MIN_DIFFICULTY, n), 0..n)
  BY <1>1, <1>3, <1>4, <1>5, <1>6, IterateAgree, Zenon
<1>9. \A i \in 0..n : DifficultiesOf(Append(c, b))[i] = DifficultiesOf(c)[i]
  BY <1>7, <1>8 DEF SameOn
<1>10. DifficultiesOf(Append(c, b))[m]
        = difficulty_after_append(SubSeq(Append(c, b), 1, m + 1),
                                  DifficultiesOf(Append(c, b))[m-1])
  <2>1. m \in 1..Len(Append(c, b))-1
    BY <1>1 DEF m
  <2>2. QED
    BY <2>1, <1>6, AppendFacts, DifficultiesOfEquation
<1>11. QED
  <2>1. m = Len(c) /\ n = Len(c) - 1 /\ n \in 0..n
    BY <1>1 DEF n
  <2>2. SubSeq(Append(c, b), 1, m + 1) = Append(c, b)
    BY <2>1, AppendFacts
  <2>3. QED
    BY <1>1, <1>9, <1>10, <2>1, <2>2

\* A block that is valid on the latest block, the last ledger and the last
\* difficulty of a valid chain makes a valid chain.
LEMMA ValidChainAppend ==
    ASSUME NEW c \in Seq(Block), c # <<>>, c[1] = genesis_block,
           ValidChain(c), NEW b,
           validate_next_block(b, get_latest_block(c), LedgersOf(c)[Len(c)-1],
                               rebuild_next_difficulty(c))
    PROVE  ValidChain(Append(c, b))
<1>1. b \in Block
  BY DEF validate_next_block
<1> DEFINE d == Append(c, b)
<1>2. ASSUME NEW i \in 1..Len(d)-1
      PROVE  validate_next_block(d[i+1], d[i], LedgersOf(d)[i-1],
                                 DifficultiesOf(d)[i-1])
  <2>1. i - 1 \in 0..Len(c)-1 /\ i \in 1..Len(c)
    BY <1>1, AppendFacts
  <2>2. /\ LedgersOf(d)[i-1] = LedgersOf(c)[i-1]
        /\ DifficultiesOf(d)[i-1] = DifficultiesOf(c)[i-1]
    BY <1>1, <2>1, LedgersOfAppend, DifficultiesOfAppend
  <2>3. d[i] = c[i]
    BY <1>1, <2>1, AppendFacts
  <2>4. CASE i = Len(c)
    <3>1. d[i+1] = b
      BY <1>1, <2>4, AppendFacts
    <3>2. QED
      BY <2>2, <2>3, <2>4, <3>1 DEF get_latest_block, rebuild_next_difficulty
  <2>5. CASE i # Len(c)
    <3>1. i \in 1..Len(c)-1 /\ i + 1 \in 1..Len(c)
      BY <2>1, <2>5
    <3>2. d[i+1] = c[i+1]
      BY <1>1, <3>1, AppendFacts
    <3>3. validate_next_block(c[i+1], c[i], LedgersOf(c)[i-1],
                              DifficultiesOf(c)[i-1])
      BY <3>1 DEF ValidChain
    <3>4. QED
      BY <2>2, <2>3, <3>2, <3>3
  <2>6. QED
    BY <2>4, <2>5
<1>3. QED
  BY <1>2 DEF ValidChain

LEMMA GenesisChain ==
    /\ <<genesis_block>> \in Seq(Block)
    /\ ValidChain(<<genesis_block>>)
    /\ LedgersOf(<<genesis_block>>)[0] = NoAccounts
    /\ rebuild_next_difficulty(<<genesis_block>>) = MIN_DIFFICULTY
<1>1. /\ <<genesis_block>> \in Seq(Block) /\ <<genesis_block>> # <<>>
      /\ Len(<<genesis_block>>) = 1 /\ <<genesis_block>>[1] = genesis_block
  BY GenesisType
<1>2. ValidChain(<<genesis_block>>)
  BY <1>1 DEF ValidChain
<1>3. LedgersOf(<<genesis_block>>)[0] = NoAccounts
  BY <1>1, LedgersOfEquation
<1>4. DifficultiesOf(<<genesis_block>>)[0] = MIN_DIFFICULTY
  BY <1>1, DifficultiesOfEquation
<1>5. QED
  BY <1>1, <1>2, <1>3, <1>4 DEF rebuild_next_difficulty

-----------------------------------------------------------------------------
(* Replay *)

\* The copy of the account update that a restart uses does the same.
LEMMA ReplayTxIsApplyTx ==
    ASSUME NEW state \in AddrState, NEW tx \in Tx
    PROVE  replay_tx(state, tx) = apply_tx(state, tx)
<1>1. /\ tx.sender \in Accounts /\ tx.recipient \in Accounts
      /\ DOMAIN state = Accounts
      /\ \A a \in Accounts : state[a] = [nonce |-> state[a].nonce,
                                        balance |-> state[a].balance]
  BY DEF AddrState, AccState, Tx
<1> DEFINE counted == [state EXCEPT ![tx.sender].nonce = @ + 1]
<1>2. CASE tx.sender = BC_NAME
  BY <1>1, <1>2 DEF replay_tx, apply_tx
<1>3. CASE tx.sender # BC_NAME
  <2> DEFINE cost == tx.amount + tx.fee
             paid == [counted EXCEPT ![tx.sender].balance = @ - cost]
             debited == [state EXCEPT ![tx.sender] =
                           [nonce |-> state[tx.sender].nonce + 1,
                            balance |-> state[tx.sender].balance - cost]]
  <2>1. ASSUME NEW a \in Accounts
        PROVE  paid[a] = debited[a]
    <3>1. CASE a = tx.sender
      <4>1. counted[a] = [nonce |-> state[a].nonce + 1,
                          balance |-> state[a].balance]
        BY <3>1, <1>1
      <4>2. DOMAIN counted = Accounts
        BY <1>1
      <4> HIDE DEF counted
      <4>3. paid[a] = [nonce |-> state[a].nonce + 1,
                       balance |-> state[a].balance - cost]
        BY <4>1, <4>2, <3>1
      <4>4. debited[a] = [nonce |-> state[a].nonce + 1,
                          balance |-> state[a].balance - cost]
        BY <3>1, <1>1
      <4>5. QED
        BY <4>3, <4>4
    <3>2. CASE a # tx.sender
      BY <3>2, <1>1
    <3>3. QED
      BY <3>1, <3>2
  <2>2. DOMAIN paid = Accounts /\ DOMAIN debited = Accounts
    BY <1>1
  <2>3. paid = debited
    BY <2>1, <2>2
  <2>4. QED
    BY <2>3, <1>3 DEF replay_tx, apply_tx
<1>4. QED
  BY <1>2, <1>3

LEMMA ReplayBlockIsApplyBlock ==
    ASSUME NEW state \in AddrState, NEW b \in Block
    PROVE  replay_block(state, b) = apply_block(state, b)
<1> DEFINE n == Len(b.txs)
           turn1 == [i \in 1..n |-> [s \in AddrState |-> replay_tx(s, b.txs[i])]]
           turn2 == [i \in 1..n |-> [s \in AddrState |-> apply_tx(s, b.txs[i])]]
<1>1. \A i \in 1..n : b.txs[i] \in Tx
  BY DEF Block
<1>2. turn1 = turn2
  BY <1>1, ReplayTxIsApplyTx
<1>3. replay_block(state, b) = Iterate(turn1, state, n)[n]
  BY DEF replay_block
<1>4. apply_block(state, b) = Iterate(turn2, state, n)[n]
  BY DEF apply_block, StatesAlong
<1> HIDE DEF turn1, turn2, n
<1>5. QED
  BY <1>2, <1>3, <1>4

\* What a restart derives from a chain is the ledger after its last block.
LEMMA RebuildIsLastLedger ==
    ASSUME NEW c \in Seq(Block), c # <<>>
    PROVE  rebuild_account_state(c) = LedgersOf(c)[Len(c)-1]
<1> DEFINE n == Len(c) - 1
           turn1 == [h \in 1..n |-> [s \in AddrState |-> replay_block(s, c[h+1])]]
           turn2 == [h \in 1..n |-> [s \in AddrState |-> apply_block(s, c[h+1])]]
<1>1. \A h \in 1..n : c[h+1] \in Block
  OBVIOUS
<1>2. turn1 = turn2
  BY <1>1, ReplayBlockIsApplyBlock
<1>3. rebuild_account_state(c) = Iterate(turn1, NoAccounts, n)[n]
  BY DEF rebuild_account_state
<1>4. LedgersOf(c)[n] = Iterate(turn2, NoAccounts, n)[n]
  BY DEF LedgersOf
<1> HIDE DEF turn1, turn2
<1>5. QED
  BY <1>2, <1>3, <1>4

-----------------------------------------------------------------------------
(* Balances *)

Funded == {s \in AddrState : \A a \in Accounts : s[a].balance >= 0}

\* A transaction that passed the checks leaves every account funded.
LEMMA ApplyTxFunded ==
    ASSUME NEW state \in Funded, NEW tx \in Tx, tx.amount >= 0, tx.fee >= 0,
           tx.sender # BC_NAME => state[tx.sender].balance >= tx.amount + tx.fee
    PROVE  apply_tx(state, tx) \in Funded
<1>1. apply_tx(state, tx) \in AddrState
  BY ApplyTxType DEF Funded
<1>2. ASSUME NEW a \in Accounts
      PROVE  apply_tx(state, tx)[a].balance >= 0
  BY DEF Funded, apply_tx, AddrState, AccState, Tx
<1>3. QED
  BY <1>1, <1>2 DEF Funded

LEMMA ApplyBlockFunded ==
    ASSUME NEW state \in Funded, NEW b \in Block, BlockApplies(b, state)
    PROVE  apply_block(state, b) \in Funded
<1> DEFINE n == Len(b.txs)
           P == {i \in 0..n : StatesAlong(state, b.txs)[i] \in Funded}
<1>1. state \in AddrState /\ b.txs \in Seq(Tx) /\ n \in Nat
  BY DEF Block, Funded
<1>2. 0 \in P
  BY <1>1, StatesAlongEquation
<1>3. ASSUME NEW i \in 1..n, i - 1 \in P
      PROVE  i \in P
  <2> DEFINE s == StatesAlong(state, b.txs)[i-1]
             tx == b.txs[i]
  <2>1. s \in Funded /\ tx \in Tx
    BY <1>1, <1>3
  <2>2. /\ tx.amount >= 0 /\ tx.fee >= 0
        /\ tx.sender # BC_NAME => s[tx.sender].balance >= tx.amount + tx.fee
    BY DEF BlockApplies
  <2>3. StatesAlong(state, b.txs)[i] = apply_tx(s, tx)
    BY <1>1, StatesAlongEquation
  <2> HIDE DEF s, tx
  <2>4. apply_tx(s, tx) \in Funded
    BY <2>1, <2>2, ApplyTxFunded
  <2>5. QED
    BY <2>3, <2>4
<1>4. P = 0..n
  <2> HIDE DEF P
  <2>1. P \in SUBSET (0..n)
    BY DEF P
  <2>2. QED
    BY <1>1, <1>2, <1>3, <2>1, Induction
<1>5. QED
  BY <1>1, <1>4 DEF apply_block

\* No account is overdrawn after any block of a valid chain.
LEMMA ValidChainFunded ==
    ASSUME NEW c \in Seq(Block), c # <<>>, ValidChain(c)
    PROVE  \A i \in 0..Len(c)-1 : LedgersOf(c)[i] \in Funded
<1> DEFINE n == Len(c) - 1
           P == {i \in 0..n : LedgersOf(c)[i] \in Funded}
<1>1. n \in Nat
  OBVIOUS
<1>2. 0 \in P
  BY <1>1, NoAccountsType, LedgersOfEquation DEF Funded, NoAccounts
<1>3. ASSUME NEW i \in 1..n, i - 1 \in P
      PROVE  i \in P
  <2>1. c[i+1] \in Block /\ BlockApplies(c[i+1], LedgersOf(c)[i-1])
    BY DEF ValidChain, validate_next_block
  <2>2. LedgersOf(c)[i] = apply_block(LedgersOf(c)[i-1], c[i+1])
    BY LedgersOfEquation
  <2>3. LedgersOf(c)[i-1] \in Funded
    BY <1>3
  <2>4. QED
    BY <2>1, <2>2, <2>3, ApplyBlockFunded
<1>4. P = 0..n
  <2> HIDE DEF P
  <2>1. P \in SUBSET (0..n)
    BY DEF P
  <2>2. QED
    BY <1>1, <1>2, <1>3, <2>1, Induction
<1>5. QED
  BY <1>4

-----------------------------------------------------------------------------
(* Mining *)

\* The block a node assembles at a difficulty it can mine is the next block
\* of its chain as soon as its transactions apply.
LEMMA NewBlockValid ==
    ASSUME NEW c \in Seq(Block), c # <<>>, NEW d \in 1..HASH_DIGITS,
           NEW pool \in Seq(Tx), NEW miner \in Accounts, NEW now \in Int,
           NEW state, BlockApplies(new_block(c, d, pool, miner, now), state)
    PROVE  validate_next_block(new_block(c, d, pool, miner, now),
                               get_latest_block(c), state, d)
<1> DEFINE b == new_block(c, d, pool, miner, now)
<1>1. b \in Block
  BY NewBlockType
<1>2. /\ b.height = get_latest_block(c).height + 1
      /\ b.prev = block_hash(get_latest_block(c))
      /\ b.difficulty = d
      /\ b.sealed
      /\ \E x, y : b.txs = pool \o <<x, y>>
  BY DEF new_block
<1>3. b.txs # <<>>
  <2>1. PICK x, y : b.txs = pool \o <<x, y>>
    BY <1>2
  <2>2. Len(<<x, y>>) = 2 /\ Len(pool) \in Nat
    OBVIOUS
  <2>3. Len(pool \o <<x, y>>) = Len(pool) + 2
    OBVIOUS
  <2>4. QED
    BY <2>1, <2>2, <2>3
<1> HIDE DEF b
<1>4. QED
  BY <1>1, <1>2, <1>3 DEF validate_next_block, b

-----------------------------------------------------------------------------
(* The mempool *)

\* The beginnings of a pool.
LEMMA Prefix ==
    ASSUME NEW S, NEW s \in Seq(S), NEW i \in 1..Len(s)
    PROVE  /\ SubSeq(s, 1, i - 1) \in Seq(S) /\ s[i] \in S
           /\ Len(SubSeq(s, 1, i - 1)) = i - 1
           /\ SubSeq(s, 1, i) = Append(SubSeq(s, 1, i - 1), s[i])
OBVIOUS

LEMMA PrefixOfAppend ==
    ASSUME NEW S, NEW s \in Seq(S), NEW x \in S
    PROVE  /\ \A i \in 1..Len(s) :
                  /\ Append(s, x)[i] = s[i]
                  /\ SubSeq(Append(s, x), 1, i - 1) = SubSeq(s, 1, i - 1)
           /\ Len(Append(s, x)) = Len(s) + 1
           /\ Append(s, x)[Len(s) + 1] = x
           /\ SubSeq(Append(s, x), 1, Len(s)) = s
OBVIOUS

\* Each transaction of a pool is admitted after those before it.
PoolOK(pool, c, state) ==
    \A i \in 1..Len(pool) :
        Admissible(pool[i], SubSeq(pool, 1, i - 1), c, state)

LEMMA AdmittedOK ==
    ASSUME NEW pool \in Seq(Tx), NEW tx \in Tx, NEW c, NEW state,
           PoolOK(pool, c, state), Admissible(tx, pool, c, state)
    PROVE  PoolOK(Append(pool, tx), c, state)
<1> DEFINE longer == Append(pool, tx)
<1>1. Len(pool) \in Nat
  OBVIOUS
<1>2. /\ \A i \in 1..Len(pool) :
            /\ longer[i] = pool[i]
            /\ SubSeq(longer, 1, i - 1) = SubSeq(pool, 1, i - 1)
      /\ Len(longer) = Len(pool) + 1
      /\ longer[Len(pool) + 1] = tx
      /\ SubSeq(longer, 1, Len(pool)) = pool
  BY PrefixOfAppend
<1> HIDE DEF longer
<1>3. ASSUME NEW i \in 1..Len(longer)
      PROVE  Admissible(longer[i], SubSeq(longer, 1, i - 1), c, state)
  <2>1. CASE i \in 1..Len(pool)
    BY <1>2, <2>1 DEF PoolOK
  <2>2. CASE i = Len(pool) + 1
    <3>1. i - 1 = Len(pool)
      BY <1>1, <2>2
    <3>2. QED
      BY <1>2, <2>2, <3>1
  <2>3. QED
    BY <1>1, <1>2, <2>1, <2>2
<1>4. QED
  BY <1>3 DEF PoolOK, longer

LEMMA RevalidatedOK ==
    ASSUME NEW pending \in Seq(Tx), NEW c, NEW state
    PROVE  PoolOK(revalidate_pending_transactions(pending, c, state), c, state)
<1> DEFINE n == Len(pending)
           turn == [i \in 1..n |-> [pool \in Seq(Tx) |->
                       IF Admissible(pending[i], pool, c, state)
                       THEN Append(pool, pending[i]) ELSE pool]]
           I == {pool \in Seq(Tx) : PoolOK(pool, c, state)}
<1>1. n \in Nat /\ <<>> \in Seq(Tx) /\ \A i \in 1..n : pending[i] \in Tx
  OBVIOUS
<1>2. turn \in [1..n -> [Seq(Tx) -> Seq(Tx)]]
  BY <1>1
<1>3. I \in SUBSET Seq(Tx) /\ <<>> \in I
  BY DEF PoolOK
<1>4. ASSUME NEW i \in 1..n, NEW pool \in I
      PROVE  turn[i][pool] \in I
  <2>1. CASE ~ Admissible(pending[i], pool, c, state)
    <3>1. turn[i][pool] = pool
      BY <2>1
    <3>2. QED
      BY <3>1
  <2>2. CASE Admissible(pending[i], pool, c, state)
    <3>1. turn[i][pool] = Append(pool, pending[i])
      BY <2>2
    <3>2. Append(pool, pending[i]) \in Seq(Tx)
      BY <1>1
    <3>3. PoolOK(Append(pool, pending[i]), c, state)
      BY <1>1, <2>2, AdmittedOK
    <3>4. QED
      BY <3>1, <3>2, <3>3
  <2>3. QED
    BY <2>1, <2>2
<1>5. revalidate_pending_transactions(pending, c, state)
        = Iterate(turn, <<>>, n)[n]
  BY DEF revalidate_pending_transactions
<1> HIDE DEF turn, n, I
<1>6. \A i \in 0..n : Iterate(turn, <<>>, n)[i] \in I
  BY <1>1, <1>2, <1>3, <1>4, IterateInvariant, Zenon
<1>7. Iterate(turn, <<>>, n)[n] \in I
  BY <1>1, <1>6
<1>8. QED
  BY <1>5, <1>7 DEF I

-----------------------------------------------------------------------------

\* What a sender has pending after one transaction more.
LEMMA PendingAppend ==
    ASSUME NEW pool \in Seq(Tx), NEW tx \in Tx, NEW u
    PROVE  /\ Cardinality(pending_for_sender(Append(pool, tx), u))
                = Cardinality(pending_for_sender(pool, u))
                    + (IF tx.sender = u THEN 1 ELSE 0)
           /\ reserved(Append(pool, tx), u)
                = reserved(pool, u)
                    + (IF tx.sender = u THEN tx.amount + tx.fee ELSE 0)
           /\ Cardinality(pending_for_sender(pool, u)) \in Nat
           /\ reserved(pool, u) \in Int
<1> DEFINE n == Len(pool)
           longer == Append(pool, tx)
           cost(t) == IF t.sender = u THEN t.amount + t.fee ELSE 0
<1>1. /\ n \in Nat /\ Len(longer) = n + 1 /\ longer[n+1] = tx
      /\ \A i \in 1..n : longer[i] = pool[i] /\ pool[i] \in Tx
  OBVIOUS
<1> HIDE DEF n, longer
<1>2. IsFiniteSet(pending_for_sender(pool, u))
  <2>1. pending_for_sender(pool, u) \subseteq 1..n
    BY DEF pending_for_sender, n
  <2>2. QED
    BY <1>1, <2>1, FS_Interval, FS_Subset
<1>3. pending_for_sender(longer, u)
        = pending_for_sender(pool, u)
            \cup (IF tx.sender = u THEN {n + 1} ELSE {})
  <2>1. 1..(n + 1) = (1..n) \cup {n + 1}
    BY <1>1
  <2>2. ASSUME NEW i
        PROVE  i \in pending_for_sender(longer, u)
                 <=> i \in pending_for_sender(pool, u)
                       \/ (tx.sender = u /\ i = n + 1)
    BY <1>1, <2>1 DEF pending_for_sender, n
  <2>3. QED
    BY <2>2
<1>4. n + 1 \notin pending_for_sender(pool, u)
  BY <1>1 DEF pending_for_sender, n
<1>5. Cardinality(pending_for_sender(pool, u)) \in Nat
  BY <1>2, FS_CardinalityType
<1>6. Cardinality(pending_for_sender(longer, u))
        = Cardinality(pending_for_sender(pool, u))
            + (IF tx.sender = u THEN 1 ELSE 0)
  <2>1. CASE tx.sender = u
    BY <1>2, <1>3, <1>4, <2>1, FS_AddElement
  <2>2. CASE tx.sender # u
    BY <1>3, <1>5, <2>2
  <2>3. QED
    BY <2>1, <2>2
<1>7. \A t \in Tx : cost(t) \in Int
  BY DEF Tx
<1> DEFINE costs == [i \in 1..n |-> cost(pool[i])]
           more == [i \in 1..n+1 |-> cost(longer[i])]
<1>8. /\ costs \in [1..n -> Int] /\ more \in [1..n+1 -> Int]
      /\ \A i \in 1..n : more[i] = costs[i]
      /\ more[n+1] = cost(tx)
  <2>1. \A i \in 1..n+1 : longer[i] \in Tx
    BY <1>1
  <2> HIDE DEF cost
  <2>2. QED
    BY <1>1, <1>7, <2>1
<1>9. reserved(pool, u) = SumSeq(costs) /\ reserved(longer, u) = SumSeq(more)
  BY <1>1 DEF reserved, n
<1> HIDE DEF costs, more
<1>10. SumSeq(more) = SumSeq(costs) + more[n+1] /\ SumSeq(costs) \in Int
  BY <1>1, <1>8, SumSeqAppend, SumSeqType
<1>11. QED
  BY <1>5, <1>6, <1>8, <1>9, <1>10 DEF longer

LEMMA AccountType ==
    ASSUME NEW s \in AddrState, NEW u \in Accounts
    PROVE  s[u].balance \in Int /\ s[u].nonce \in Nat
BY DEF AddrState, AccState

\* What a transaction of a user does to an account.
LEMMA ApplyTxOther ==
    ASSUME NEW s \in AddrState, NEW tx \in Tx, tx.amount >= 0,
           tx.sender # BC_NAME, NEW u \in Accounts
    PROVE  /\ apply_tx(s, tx)[u].nonce
                = s[u].nonce + (IF tx.sender = u THEN 1 ELSE 0)
           /\ apply_tx(s, tx)[u].balance
                >= s[u].balance
                     - (IF tx.sender = u THEN tx.amount + tx.fee ELSE 0)
<1>1. /\ tx.amount \in Int /\ tx.fee \in Int
      /\ tx.sender \in Accounts /\ tx.recipient \in Accounts
  BY DEF Tx
<1>2. s[u].balance \in Int /\ s[u].nonce \in Nat
  BY DEF AddrState, AccState
<1>3. apply_tx(s, tx)[u].nonce
        = s[u].nonce + (IF tx.sender = u THEN 1 ELSE 0)
  BY <1>1, <1>2 DEF apply_tx, AddrState, AccState
<1>4. apply_tx(s, tx)[u].balance
        = s[u].balance - (IF tx.sender = u THEN tx.amount + tx.fee ELSE 0)
            + (IF tx.recipient = u THEN tx.amount ELSE 0)
  BY <1>1, <1>2 DEF apply_tx, AddrState, AccState
<1>5. QED
  BY <1>1, <1>2, <1>3, <1>4

LEMMA AdmissibleFacts ==
    ASSUME NEW tx \in Tx, NEW pool, NEW c, NEW state, Admissible(tx, pool, c, state)
    PROVE  /\ tx.amount >= 0 /\ tx.fee >= 0 /\ tx.nonce >= 0
           /\ tx.sender # BC_NAME /\ verify_tx_sig(tx)
           /\ tx.nonce = state[tx.sender].nonce
                           + Cardinality(pending_for_sender(pool, tx.sender)) + 1
           /\ tx.amount + tx.fee
                <= state[tx.sender].balance - reserved(pool, tx.sender)
<1>1. tx.nonce \in Int /\ tx.nonce >= 1
  BY DEF Tx, Admissible
<1>2. QED
  BY <1>1 DEF Admissible

\* The account state after the first transactions of a pool: a sender has
\* counted its own, and paid for them at most what is reserved for them.
LEMMA PoolLedger ==
    ASSUME NEW c, NEW state \in AddrState, NEW pool \in Seq(Tx),
           PoolOK(pool, c, state),
           NEW txs \in Seq(Tx), Len(pool) <= Len(txs),
           \A i \in 1..Len(pool) : txs[i] = pool[i]
    PROVE  \A i \in 0..Len(pool) : \A u \in Accounts :
             /\ StatesAlong(state, txs)[i][u].nonce
                  = state[u].nonce
                      + Cardinality(pending_for_sender(SubSeq(pool, 1, i), u))
             /\ StatesAlong(state, txs)[i][u].balance
                  >= state[u].balance - reserved(SubSeq(pool, 1, i), u)
<1> DEFINE n == Len(pool)
           along == StatesAlong(state, txs)
           Counted(i, u) ==
             /\ along[i][u].nonce
                  = state[u].nonce
                      + Cardinality(pending_for_sender(SubSeq(pool, 1, i), u))
             /\ along[i][u].balance
                  >= state[u].balance - reserved(SubSeq(pool, 1, i), u)
           P == {i \in 0..n : \A u \in Accounts : Counted(i, u)}
<1>1. n \in Nat
  OBVIOUS
<1>2. /\ along[0] = state
      /\ \A i \in 1..n : /\ along[i-1] \in AddrState
                         /\ along[i] = apply_tx(along[i-1], pool[i])
  <2>1. /\ along \in [0..Len(txs) -> AddrState] /\ along[0] = state
        /\ \A i \in 1..Len(txs) : along[i] = apply_tx(along[i-1], txs[i])
    BY StatesAlongEquation
  <2> HIDE DEF along
  <2>2. \A i \in 1..n : i \in 1..Len(txs) /\ i - 1 \in 0..Len(txs)
    BY <1>1
  <2>3. QED
    BY <2>1, <2>2
<1> HIDE DEF along
<1>3. \A u \in Accounts : state[u].balance \in Int /\ state[u].nonce \in Nat
  BY AccountType
<1>4. 0 \in P
  <2>1. SubSeq(pool, 1, 0) = <<>>
    OBVIOUS
  <2>2. ASSUME NEW u \in Accounts
        PROVE  Counted(0, u)
    <3>1. pending_for_sender(<<>>, u) = {}
      BY DEF pending_for_sender
    <3>2. Cardinality(pending_for_sender(<<>>, u)) = 0
      BY <3>1, FS_EmptySet
    <3>3. reserved(<<>>, u) \in Nat
      <4>1. reserved(<<>>, u)
              = SumSeq([i \in 1..0 |-> IF <<>>[i].sender = u
                                       THEN <<>>[i].amount + <<>>[i].fee ELSE 0])
        BY DEF reserved
      <4>2. \A i \in 1..0 : FALSE
        OBVIOUS
      <4>3. [i \in 1..0 |-> IF <<>>[i].sender = u
                           THEN <<>>[i].amount + <<>>[i].fee ELSE 0]
              \in [1..0 -> Nat]
        BY <4>2, Zenon
      <4>4. QED
        BY <4>1, <4>3, SumSeqNat
    <3>4. /\ state[u].nonce = state[u].nonce + 0
          /\ state[u].balance >= state[u].balance - reserved(<<>>, u)
      BY <1>3, <3>3
    <3>5. QED
      BY <1>2, <2>1, <3>2, <3>4
  <2>3. QED
    BY <1>1, <2>2
<1>5. ASSUME NEW i \in 1..n, i - 1 \in P
      PROVE  i \in P
  <2> DEFINE before == SubSeq(pool, 1, i - 1)
             tx == pool[i]
             s == along[i-1]
  <2>1. before \in Seq(Tx) /\ tx \in Tx /\ SubSeq(pool, 1, i) = Append(before, tx)
    BY Prefix
  <2>2. tx.amount >= 0 /\ tx.sender # BC_NAME
    <3>1. Admissible(tx, before, c, state)
      BY DEF PoolOK
    <3> HIDE DEF before, tx
    <3>2. QED
      BY <2>1, <3>1, AdmissibleFacts
  <2>3. s \in AddrState /\ along[i] = apply_tx(s, tx)
    BY <1>2
  <2>4. \A u \in Accounts : Counted(i - 1, u)
    BY <1>5
  <2>5. ASSUME NEW u \in Accounts
        PROVE  Counted(i, u)
    <3>1. /\ s[u].nonce = state[u].nonce + Cardinality(pending_for_sender(before, u))
          /\ s[u].balance >= state[u].balance - reserved(before, u)
      BY <2>4
    <3> HIDE DEF before, tx, s
    <3>2. /\ Cardinality(pending_for_sender(Append(before, tx), u))
               = Cardinality(pending_for_sender(before, u))
                   + (IF tx.sender = u THEN 1 ELSE 0)
          /\ reserved(Append(before, tx), u)
               = reserved(before, u)
                   + (IF tx.sender = u THEN tx.amount + tx.fee ELSE 0)
          /\ Cardinality(pending_for_sender(before, u)) \in Nat
          /\ reserved(before, u) \in Int
      BY <2>1, PendingAppend
    <3>3. /\ apply_tx(s, tx)[u].nonce
               = s[u].nonce + (IF tx.sender = u THEN 1 ELSE 0)
          /\ apply_tx(s, tx)[u].balance
               >= s[u].balance
                    - (IF tx.sender = u THEN tx.amount + tx.fee ELSE 0)
      BY <2>1, <2>2, <2>3, ApplyTxOther
    <3>4. /\ s[u].balance \in Int /\ s[u].nonce \in Int
          /\ apply_tx(s, tx)[u].balance \in Int
      <4>1. apply_tx(s, tx) \in AddrState
        BY <2>1, <2>3, ApplyTxType
      <4>2. s[u].balance \in Int /\ s[u].nonce \in Nat
        BY <2>3, AccountType
      <4>3. apply_tx(s, tx)[u].balance \in Int
        BY <4>1, AccountType
      <4>4. QED
        BY <4>2, <4>3
    <3> DEFINE one == IF tx.sender = u THEN 1 ELSE 0
               cost == IF tx.sender = u THEN tx.amount + tx.fee ELSE 0
    <3>5. one \in Int /\ cost \in Int
      BY <2>1 DEF Tx
    <3>6. /\ apply_tx(s, tx)[u].nonce
               = state[u].nonce
                   + Cardinality(pending_for_sender(Append(before, tx), u))
          /\ apply_tx(s, tx)[u].balance
               >= state[u].balance - reserved(Append(before, tx), u)
      <4>1. /\ apply_tx(s, tx)[u].nonce = s[u].nonce + one
            /\ apply_tx(s, tx)[u].balance >= s[u].balance - cost
            /\ Cardinality(pending_for_sender(Append(before, tx), u))
                 = Cardinality(pending_for_sender(before, u)) + one
            /\ reserved(Append(before, tx), u) = reserved(before, u) + cost
        BY <3>2, <3>3
      <4> HIDE DEF one, cost
      <4>2. \A a, b, d, r \in Int :
               a >= b - r /\ d >= a - cost => d >= b - (r + cost)
        BY <3>5
      <4>7. \A o, a, k \in Int : (o + a) + k = o + (a + k)
        OBVIOUS
      <4>3. state[u].balance \in Int /\ state[u].nonce \in Int
        BY <1>3
      <4>4. apply_tx(s, tx)[u].nonce
              = state[u].nonce
                  + Cardinality(pending_for_sender(Append(before, tx), u))
        <5>1. Cardinality(pending_for_sender(before, u)) \in Int
          BY <3>2
        <5>2. apply_tx(s, tx)[u].nonce
                = (state[u].nonce + Cardinality(pending_for_sender(before, u)))
                    + one
          BY <3>1, <4>1
        <5>3. QED
          BY <3>5, <4>1, <4>3, <4>7, <5>1, <5>2
      <4>5. apply_tx(s, tx)[u].balance
              >= state[u].balance - (reserved(before, u) + cost)
        BY <3>1, <3>2, <3>4, <4>1, <4>2, <4>3
      <4>6. QED
        BY <4>1, <4>4, <4>5
    <3>7. QED
      BY <2>1, <2>3, <3>6 DEF before, tx, s
  <2>6. QED
    BY <2>5
<1>6. P = 0..n
  <2> HIDE DEF P
  <2>1. P \in SUBSET (0..n)
    BY DEF P
  <2>2. QED
    BY <1>1, <1>4, <1>5, <2>1, Induction
<1>7. QED
  BY <1>6 DEF along

\* Where the transactions of a new block stand.
LEMMA NewBlockTxs ==
    ASSUME NEW c \in Seq(Block), c # <<>>, NEW d \in Int, NEW pool \in Seq(Tx),
           NEW miner \in Accounts, NEW now \in Int
    PROVE  LET b == new_block(c, d, pool, miner, now)
               n == Len(pool)
               fees == SumSeq([i \in 1..n |-> pool[i].fee])
           IN  /\ b.txs \in Seq(Tx) /\ Len(b.txs) = n + 2 /\ n \in Nat
               /\ \A i \in 1..n : b.txs[i] = pool[i] /\ pool[i] \in Tx
               /\ b.txs[n+1] = SystemTx(BLOCK_REWARD, miner, now)
               /\ b.txs[n+2] = SystemTx(fees, VANITY_ADDR, now)
<1> DEFINE b == new_block(c, d, pool, miner, now)
           n == Len(pool)
           fees == SumSeq([i \in 1..n |-> pool[i].fee])
           x == SystemTx(BLOCK_REWARD, miner, now)
           y == SystemTx(fees, VANITY_ADDR, now)
<1>1. b.txs = pool \o <<x, y>>
  BY DEF new_block
<1>2. b.txs \in Seq(Tx)
  BY NewBlockType DEF Block
<1> HIDE DEF b, x, y
<1>3. /\ Len(<<x, y>>) = 2 /\ n \in Nat
      /\ Len(pool \o <<x, y>>) = n + 2
      /\ \A i \in 1..n : (pool \o <<x, y>>)[i] = pool[i] /\ pool[i] \in Tx
      /\ (pool \o <<x, y>>)[n+1] = x
      /\ (pool \o <<x, y>>)[n+2] = y
  OBVIOUS
<1>4. QED
  BY <1>1, <1>2, <1>3 DEF b, x, y

LEMMA NewBlockHolds ==
    ASSUME NEW c \in Seq(Block), c # <<>>, NEW d \in Int, NEW pool \in Seq(Tx),
           NEW miner \in Accounts, NEW now \in Int, NEW k \in 1..Len(pool)
    PROVE  /\ k \in 1..Len(new_block(c, d, pool, miner, now).txs)
           /\ new_block(c, d, pool, miner, now).txs[k] = pool[k]
<1> DEFINE b == new_block(c, d, pool, miner, now)
           n == Len(pool)
           fees == SumSeq([i \in 1..n |-> pool[i].fee])
<1>1. /\ b.txs \in Seq(Tx) /\ Len(b.txs) = n + 2 /\ n \in Nat
      /\ \A i \in 1..n : b.txs[i] = pool[i] /\ pool[i] \in Tx
      /\ b.txs[n+1] = SystemTx(BLOCK_REWARD, miner, now)
      /\ b.txs[n+2] = SystemTx(fees, VANITY_ADDR, now)
  BY NewBlockTxs
<1> HIDE DEF b
<1>2. k \in 1..Len(b.txs) /\ b.txs[k] = pool[k]
  BY <1>1
<1>3. QED
  BY <1>2 DEF b

\* A new block pays out the fees of its transactions and the reward.
LEMMA NewBlockPayout ==
    ASSUME NEW c \in Seq(Block), c # <<>>, NEW d \in Int, NEW pool \in Seq(Tx),
           NEW miner \in Accounts, NEW now \in Int,
           \A i \in 1..Len(pool) : pool[i].sender # BC_NAME
    PROVE  validate_system_transactions(new_block(c, d, pool, miner, now))
<1> DEFINE b == new_block(c, d, pool, miner, now)
           n == Len(pool)
           fees == SumSeq([i \in 1..n |-> pool[i].fee])
<1>1. /\ b.txs \in Seq(Tx) /\ Len(b.txs) = n + 2 /\ n \in Nat
      /\ \A i \in 1..n : b.txs[i] = pool[i] /\ pool[i] \in Tx
      /\ b.txs[n+1] = SystemTx(BLOCK_REWARD, miner, now)
      /\ b.txs[n+2] = SystemTx(fees, VANITY_ADDR, now)
  BY NewBlockTxs
<1> HIDE DEF b
<1>2. /\ Len(b.txs) >= 2
      /\ Len(b.txs) - 2 = n /\ Len(b.txs) - 1 = n + 1
  BY <1>1
<1>3. \A i \in 1..n : b.txs[i].sender # BC_NAME
  BY <1>1
<1>4. [i \in 1..n |-> b.txs[i].fee] = [i \in 1..n |-> pool[i].fee]
  BY <1>1
<1>5. /\ b.txs[n+1] = SystemTx(BLOCK_REWARD, b.txs[n+1].recipient,
                               b.txs[n+1].timestamp)
      /\ b.txs[n+2] = SystemTx(fees, VANITY_ADDR, b.txs[n+2].timestamp)
  BY <1>1 DEF SystemTx
<1> HIDE DEF n
<1>6. QED
  BY <1>1, <1>2, <1>3, <1>4, <1>5 DEF validate_system_transactions, b, n

\* A block made of a pool, each transaction of which is admissible after
\* those before it, applies to the state the pool was admitted on.
LEMMA PoolApplies ==
    ASSUME NEW c \in Seq(Block), c # <<>>, NEW d \in Int, NEW pool \in Seq(Tx),
           NEW miner \in Accounts, NEW now \in Int, NEW state \in AddrState,
           PoolOK(pool, c, state)
    PROVE  BlockApplies(new_block(c, d, pool, miner, now), state)
<1> DEFINE b == new_block(c, d, pool, miner, now)
           n == Len(pool)
           fees == SumSeq([i \in 1..n |-> pool[i].fee])
           along == StatesAlong(state, b.txs)
<1>1. /\ b.txs \in Seq(Tx) /\ Len(b.txs) = n + 2 /\ n \in Nat
      /\ \A i \in 1..n : b.txs[i] = pool[i] /\ pool[i] \in Tx
      /\ b.txs[n+1] = SystemTx(BLOCK_REWARD, miner, now)
      /\ b.txs[n+2] = SystemTx(fees, VANITY_ADDR, now)
  BY NewBlockTxs
<1>2. \A i \in 1..n :
        LET tx == pool[i]
            before == SubSeq(pool, 1, i - 1)
        IN  /\ tx.amount >= 0 /\ tx.fee >= 0 /\ tx.nonce >= 0
            /\ tx.sender # BC_NAME /\ verify_tx_sig(tx)
            /\ tx.nonce = state[tx.sender].nonce
                            + Cardinality(pending_for_sender(before, tx.sender))
                            + 1
            /\ tx.amount + tx.fee
                 <= state[tx.sender].balance - reserved(before, tx.sender)
  <2> TAKE i \in 1..n
  <2>1. pool[i] \in Tx /\ Admissible(pool[i], SubSeq(pool, 1, i - 1), c, state)
    BY <1>1 DEF PoolOK
  <2>2. QED
    BY <2>1, AdmissibleFacts
<1>3. fees \in Nat
  <2>1. \A i \in 1..n : pool[i].fee \in Nat
    <3> TAKE i \in 1..n
    <3>1. pool[i].fee \in Int /\ pool[i].fee >= 0
      BY <1>1, <1>2 DEF Tx
    <3>2. QED
      BY <3>1
  <2>2. [i \in 1..n |-> pool[i].fee] \in [1..n -> Nat]
    BY <2>1
  <2>3. QED
    BY <1>1, <2>2, SumSeqNat
<1>4. validate_system_transactions(b)
  BY <1>2, NewBlockPayout
<1>5. \A i \in 0..n : \A u \in Accounts :
        /\ along[i][u].nonce
             = state[u].nonce
                 + Cardinality(pending_for_sender(SubSeq(pool, 1, i), u))
        /\ along[i][u].balance
             >= state[u].balance - reserved(SubSeq(pool, 1, i), u)
  <2> HIDE DEF b
  <2>1. n <= Len(b.txs)
    BY <1>1
  <2>2. QED
    BY <1>1, <2>1, PoolLedger
<1>6. \A i \in 0..n : along[i] \in AddrState
  <2> HIDE DEF b
  <2>1. along \in [0..Len(b.txs) -> AddrState]
    BY <1>1, StatesAlongEquation
  <2> HIDE DEF along
  <2>2. QED
    BY <1>1, <2>1
<1> HIDE DEF b, along, fees
<1>7. ASSUME NEW i \in 1..n
      PROVE  /\ verify_tx_sig(pool[i])
             /\ pool[i].amount >= 0 /\ pool[i].fee >= 0 /\ pool[i].nonce >= 0
             /\ pool[i].nonce = along[i-1][pool[i].sender].nonce + 1
             /\ along[i-1][pool[i].sender].balance
                  >= pool[i].amount + pool[i].fee
  <2> DEFINE tx == pool[i]
             u == tx.sender
             s == along[i-1]
             r == reserved(SubSeq(pool, 1, i - 1), u)
  <2>1. tx \in Tx /\ u \in Accounts /\ i - 1 \in 0..n
    <3>1. tx \in Tx
      BY <1>1
    <3>2. \A t \in Tx : t.sender \in Accounts
      BY DEF Tx
    <3>3. n \in Nat /\ i \in 1..n
      BY <1>1
    <3> HIDE DEF tx, n
    <3>4. QED
      BY <3>1, <3>2, <3>3
  <2>2. /\ s[u].nonce
             = state[u].nonce
                 + Cardinality(pending_for_sender(SubSeq(pool, 1, i - 1), u))
        /\ s[u].balance >= state[u].balance - r
    BY <1>5, <2>1
  <2>3. s \in AddrState
    BY <1>6, <2>1
  <2>4. s[u].balance \in Int /\ state[u].balance \in Int
    BY <2>1, <2>3, AccountType
  <2>5. r \in Int
    <3>1. SubSeq(pool, 1, i - 1) \in Seq(Tx)
      BY Prefix
    <3>2. QED
      BY <2>1, <3>1, PendingAppend
  <2>6. tx.amount + tx.fee \in Int
    BY <2>1 DEF Tx
  <2>7. /\ tx.amount >= 0 /\ tx.fee >= 0 /\ tx.nonce >= 0 /\ verify_tx_sig(tx)
        /\ tx.nonce = state[u].nonce
              + Cardinality(pending_for_sender(SubSeq(pool, 1, i - 1), u)) + 1
        /\ tx.amount + tx.fee <= state[u].balance - r
    BY <1>2
  <2> HIDE DEF tx, u, s, r
  <2>8. tx.nonce = s[u].nonce + 1
    BY <2>2, <2>7
  <2>9. s[u].balance >= tx.amount + tx.fee
    BY <2>2, <2>4, <2>5, <2>6, <2>7
  <2>10. QED
    BY <2>7, <2>8, <2>9 DEF tx, u, s
<1>8. ASSUME NEW i \in 1..Len(b.txs)
      PROVE  /\ verify_tx_sig(b.txs[i])
             /\ b.txs[i].amount >= 0 /\ b.txs[i].fee >= 0 /\ b.txs[i].nonce >= 0
             /\ b.txs[i].sender # BC_NAME =>
                  /\ b.txs[i].nonce = along[i-1][b.txs[i].sender].nonce + 1
                  /\ along[i-1][b.txs[i].sender].balance
                       >= b.txs[i].amount + b.txs[i].fee
  <2>1. i \in 1..n \/ i = n + 1 \/ i = n + 2
    BY <1>1
  <2>2. CASE i \in 1..n
    BY <1>1, <1>7, <2>2
  <2>3. CASE i \in {n + 1, n + 2}
    <3>1. PICK amount \in Nat :
              \E recipient : b.txs[i] = SystemTx(amount, recipient, now)
      BY <1>1, <1>3, <2>3, NumberAssumption
    <3>2. QED
      BY <3>1 DEF SystemTx, verify_tx_sig
  <2>4. QED
    BY <2>1, <2>2, <2>3
<1>9. QED
  BY <1>4, <1>8 DEF BlockApplies, b, along

-----------------------------------------------------------------------------
(* Confirmed transactions *)

\* The positions ConfirmedCount counts.
Upto(c, u, h, i) ==
    {q \in ConfirmedBy(c, u) : q[1] < h \/ (q[1] = h /\ q[2] <= i)}

LEMMA UptoPosition ==
    ASSUME NEW c \in Seq(Block), NEW u, NEW h \in Int, NEW i \in Int, NEW q
    PROVE  q \in Upto(c, u, h, i) <=>
             \E g \in 1..Len(c) : \E j \in 1..Len(c[g].txs) :
                 /\ q = <<g, j>> /\ c[g].txs[j].sender = u
                 /\ g < h \/ (g = h /\ j <= i)
<1>1. q \in ConfirmedBy(c, u) <=>
        \E g \in 1..Len(c) : \E j \in 1..Len(c[g].txs) :
            q = <<g, j>> /\ c[g].txs[j].sender = u
  BY DEF ConfirmedBy
<1>2. \A g, j : q = <<g, j>> => q[1] = g /\ q[2] = j
  OBVIOUS
<1>3. QED
  BY <1>1, <1>2 DEF Upto

\* One transaction further, one block further, and at the start.
LEMMA UptoTx ==
    ASSUME NEW c \in Seq(Block), NEW u, NEW h \in 1..Len(c),
           NEW i \in 1..Len(c[h].txs)
    PROVE  /\ Upto(c, u, h, i)
                = Upto(c, u, h, i - 1)
                    \cup (IF c[h].txs[i].sender = u THEN {<<h, i>>} ELSE {})
           /\ <<h, i>> \notin Upto(c, u, h, i - 1)
<1>1. h \in Int /\ i \in Int /\ i - 1 \in Int
  OBVIOUS
<1>2. ASSUME NEW q
      PROVE  q \in Upto(c, u, h, i) <=>
               \/ q \in Upto(c, u, h, i - 1)
               \/ q = <<h, i>> /\ c[h].txs[i].sender = u
  <2>1. \A j \in Int : j <= i <=> j <= i - 1 \/ j = i
    BY <1>1
  <2>2. \A g : \A j \in 1..Len(c[g].txs) : j \in Int
    OBVIOUS
  <2>3. QED
    BY <1>1, <2>1, <2>2, UptoPosition
<1>3. <<h, i>> \notin Upto(c, u, h, i - 1)
  <2>1. ASSUME <<h, i>> \in Upto(c, u, h, i - 1)
        PROVE  FALSE
    <3>1. <<h, i>>[1] = h /\ <<h, i>>[2] = i
      OBVIOUS
    <3>2. QED
      BY <1>1, <2>1, <3>1 DEF Upto
  <2>2. QED
    BY <2>1
<1>4. QED
  BY <1>2, <1>3

LEMMA UptoBlock ==
    ASSUME NEW c \in Seq(Block), NEW u, NEW h \in 1..Len(c)-1
    PROVE  Upto(c, u, h + 1, 0) = Upto(c, u, h, Len(c[h].txs))
<1>1. h \in 1..Len(c) /\ h \in Int /\ h + 1 \in Int /\ Len(c) \in Nat
  OBVIOUS
<1>2. Len(c[h].txs) \in Nat
  <2>1. c[h] \in Block
    BY <1>1
  <2>2. c[h].txs \in Seq(Tx)
    BY <2>1 DEF Block
  <2>3. QED
    BY <2>2
<1>3. ASSUME NEW g \in 1..Len(c), NEW j \in 1..Len(c[g].txs)
      PROVE  (g < h + 1 \/ (g = h + 1 /\ j <= 0))
               <=> (g < h \/ (g = h /\ j <= Len(c[h].txs)))
  BY <1>1, <1>2
<1>4. ASSUME NEW q
      PROVE  q \in Upto(c, u, h + 1, 0) <=> q \in Upto(c, u, h, Len(c[h].txs))
  <2>1. q \in Upto(c, u, h + 1, 0) <=>
          \E g \in 1..Len(c) : \E j \in 1..Len(c[g].txs) :
              /\ q = <<g, j>> /\ c[g].txs[j].sender = u
              /\ g < h + 1 \/ (g = h + 1 /\ j <= 0)
    BY <1>1, UptoPosition
  <2>2. q \in Upto(c, u, h, Len(c[h].txs)) <=>
          \E g \in 1..Len(c) : \E j \in 1..Len(c[g].txs) :
              /\ q = <<g, j>> /\ c[g].txs[j].sender = u
              /\ g < h \/ (g = h /\ j <= Len(c[h].txs))
    BY <1>1, <1>2, UptoPosition
  <2>3. QED
    BY <1>3, <2>1, <2>2, Zenon
<1>5. QED
  BY <1>4

LEMMA UptoStart ==
    ASSUME NEW c \in Seq(Block), NEW u
    PROVE  Upto(c, u, 1, 0) = {}
<1>1. ASSUME NEW q, q \in Upto(c, u, 1, 0)
      PROVE  FALSE
  <2>1. PICK g \in 1..Len(c) : \E j \in 1..Len(c[g].txs) :
            g < 1 \/ (g = 1 /\ j <= 0)
    BY <1>1, UptoPosition
  <2>2. QED
    BY <2>1
<1>2. QED
  BY <1>1

LEMMA ApplyTxNonce ==
    ASSUME NEW s \in AddrState, NEW tx \in Tx, NEW u \in Accounts
    PROVE  apply_tx(s, tx)[u].nonce
             = s[u].nonce + (IF tx.sender = u THEN 1 ELSE 0)
<1>1. /\ tx.amount \in Int /\ tx.fee \in Int
      /\ tx.sender \in Accounts /\ tx.recipient \in Accounts
  BY DEF Tx
<1>2. s[u].balance \in Int /\ s[u].nonce \in Nat
  BY AccountType
<1>3. QED
  BY <1>1, <1>2 DEF apply_tx, AddrState, AccState

\* Nonces count the transactions of an account: within a block, if they do
\* so before it, and along a chain whose first block is the genesis block.
CountedUpto(c, u, h, i, nonce) ==
    /\ IsFiniteSet(Upto(c, u, h, i))
    /\ Cardinality(Upto(c, u, h, i)) = nonce

LEMMA CountInBlock ==
    ASSUME NEW c \in Seq(Block), NEW u \in Accounts, NEW h \in 1..Len(c),
           NEW s \in AddrState, CountedUpto(c, u, h, 0, s[u].nonce)
    PROVE  \A i \in 0..Len(c[h].txs) :
             CountedUpto(c, u, h, i, StatesAlong(s, c[h].txs)[i][u].nonce)
<1> DEFINE txs == c[h].txs
           n == Len(txs)
           along == StatesAlong(s, txs)
           P == {i \in 0..n : CountedUpto(c, u, h, i, along[i][u].nonce)}
<1>1. txs \in Seq(Tx) /\ n \in Nat
  <2>1. c[h] \in Block
    OBVIOUS
  <2>2. txs \in Seq(Tx)
    BY <2>1 DEF Block
  <2>3. QED
    BY <2>2
<1>2. /\ along \in [0..n -> AddrState] /\ along[0] = s
      /\ \A i \in 1..n : along[i] = apply_tx(along[i-1], txs[i])
  BY <1>1, StatesAlongEquation
<1> HIDE DEF along
<1>3. 0 \in P
  BY <1>1, <1>2
<1>4. ASSUME NEW i \in 1..n, i - 1 \in P
      PROVE  i \in P
  <2> DEFINE before == Upto(c, u, h, i - 1)
  <2>1. /\ IsFiniteSet(before)
        /\ Cardinality(before) = along[i-1][u].nonce
    BY <1>4 DEF CountedUpto
  <2>2. /\ Upto(c, u, h, i)
             = before \cup (IF txs[i].sender = u THEN {<<h, i>>} ELSE {})
        /\ <<h, i>> \notin before
    BY UptoTx
  <2>3. along[i-1] \in AddrState /\ txs[i] \in Tx
    BY <1>1, <1>2
  <2>4. along[i][u].nonce
          = along[i-1][u].nonce + (IF txs[i].sender = u THEN 1 ELSE 0)
    BY <1>2, <2>3, ApplyTxNonce
  <2>5. along[i-1][u].nonce \in Nat
    BY <2>3, AccountType
  <2> HIDE DEF before, txs
  <2>6. CountedUpto(c, u, h, i, along[i][u].nonce)
    <3>1. CASE txs[i].sender = u
      <4>1. /\ IsFiniteSet(before \cup {<<h, i>>})
            /\ Cardinality(before \cup {<<h, i>>}) = Cardinality(before) + 1
        BY <2>1, <2>2, FS_AddElement
      <4>2. QED
        BY <2>1, <2>2, <2>4, <3>1, <4>1 DEF CountedUpto
    <3>2. CASE txs[i].sender # u
      BY <2>1, <2>2, <2>4, <2>5, <3>2 DEF CountedUpto
    <3>3. QED
      BY <3>1, <3>2
  <2>7. QED
    BY <1>1, <2>6
<1>5. P = 0..n
  <2> HIDE DEF P
  <2>1. P \in SUBSET (0..n)
    BY DEF P
  <2>2. QED
    BY <1>1, <1>3, <1>4, <2>1, Induction
<1>6. QED
  BY <1>5 DEF along

LEMMA CountOnChain ==
    ASSUME NEW c \in Seq(Block), c # <<>>, c[1].txs = <<>>, NEW u \in Accounts
    PROVE  \A k \in 0..Len(c)-1 :
             CountedUpto(c, u, k + 1, Len(c[k+1].txs), LedgersOf(c)[k][u].nonce)
<1> DEFINE n == Len(c) - 1
           P == {k \in 0..n : CountedUpto(c, u, k + 1, Len(c[k+1].txs),
                                          LedgersOf(c)[k][u].nonce)}
<1>1. n \in Nat /\ Len(c) \in Nat
  OBVIOUS
<1>2. /\ LedgersOf(c) \in [0..n -> AddrState]
      /\ LedgersOf(c)[0] = NoAccounts
      /\ \A k \in 1..n : LedgersOf(c)[k] = apply_block(LedgersOf(c)[k-1], c[k+1])
  BY LedgersOfEquation
<1>3. 0 \in P
  <2>1. Len(c[0+1].txs) = 0
    OBVIOUS
  <2>2. Upto(c, u, 0 + 1, 0) = {}
    BY UptoStart
  <2>3. NoAccounts[u].nonce = 0
    BY DEF NoAccounts
  <2>4. IsFiniteSet({}) /\ Cardinality({}) = 0
    BY FS_EmptySet
  <2>5. CountedUpto(c, u, 0 + 1, Len(c[0+1].txs), LedgersOf(c)[0][u].nonce)
    BY <1>2, <2>1, <2>2, <2>3, <2>4 DEF CountedUpto
  <2>6. QED
    BY <1>1, <2>5
<1>4. ASSUME NEW k \in 1..n, k - 1 \in P
      PROVE  k \in P
  <2> DEFINE s == LedgersOf(c)[k-1]
             txs == c[k+1].txs
  <2>1. /\ k \in 1..Len(c)-1 /\ k + 1 \in 1..Len(c) /\ (k - 1) + 1 = k
    BY <1>1
  <2>2. CountedUpto(c, u, k, Len(c[k].txs), s[u].nonce)
    BY <1>4, <2>1
  <2>3. CountedUpto(c, u, k + 1, 0, s[u].nonce)
    BY <2>1, <2>2, UptoBlock DEF CountedUpto
  <2>4. s \in AddrState
    BY <1>1, <1>2
  <2>5. txs \in Seq(Tx) /\ Len(txs) \in 0..Len(txs)
    <3>1. c[k+1] \in Block
      BY <2>1
    <3>2. txs \in Seq(Tx)
      BY <3>1 DEF Block
    <3>3. QED
      BY <3>2
  <2>6. LedgersOf(c)[k] = StatesAlong(s, txs)[Len(txs)]
    BY <1>2 DEF apply_block
  <2> HIDE DEF s
  <2>7. CountedUpto(c, u, k + 1, Len(txs), StatesAlong(s, txs)[Len(txs)][u].nonce)
    BY <2>1, <2>3, <2>4, <2>5, CountInBlock
  <2>8. QED
    BY <2>6, <2>7
<1>5. P = 0..n
  <2> HIDE DEF P
  <2>1. P \in SUBSET (0..n)
    BY DEF P
  <2>2. QED
    BY <1>1, <1>3, <1>4, <2>1, Induction
<1>6. QED
  BY <1>5

\* A valid chain confirms the transactions of a user with the nonces 1, 2, ...
LEMMA ValidChainNonces ==
    ASSUME NEW c \in Seq(Block), c # <<>>, c[1].txs = <<>>, ValidChain(c),
           NEW u \in Users, NEW p \in ConfirmedBy(c, u)
    PROVE  c[p[1]].txs[p[2]].nonce = ConfirmedCount(c, u, p[1], p[2])
<1>0. PICK h \in 1..Len(c) : \E i \in 1..Len(c[h].txs) :
          p = <<h, i>> /\ c[h].txs[i].sender = u
  BY DEF ConfirmedBy
<1>1. PICK i \in 1..Len(c[h].txs) : p = <<h, i>> /\ c[h].txs[i].sender = u
  BY <1>0
<1>2. p[1] = h /\ p[2] = i
  BY <1>1
<1>3. h # 1
  BY <1>1
<1> DEFINE b == c[h]
           s == LedgersOf(c)[h-2]
           along == StatesAlong(s, b.txs)
           before == Upto(c, u, h, i - 1)
<1>4. /\ h - 1 \in 1..Len(c)-1 /\ (h - 1) + 1 = h /\ (h - 1) - 1 = h - 2
      /\ (h - 2) + 1 = h - 1 /\ h - 2 \in 0..Len(c)-1 /\ Len(c) \in Nat
  BY <1>3
<1>5. b \in Block /\ BlockApplies(b, s)
  <2>1. validate_next_block(c[(h-1)+1], c[h-1], LedgersOf(c)[(h-1)-1],
                            DifficultiesOf(c)[(h-1)-1])
    BY <1>4 DEF ValidChain
  <2>2. QED
    BY <1>4, <2>1 DEF validate_next_block
<1>6. s \in AddrState
  BY <1>4, LedgersOfEquation
<1>7. u \in Accounts /\ u # BC_NAME
  BY AddressAssumption DEF Accounts
<1>8. CountedUpto(c, u, h, 0, s[u].nonce)
  <2>1. CountedUpto(c, u, (h-2) + 1, Len(c[(h-2)+1].txs),
                    LedgersOf(c)[h-2][u].nonce)
    BY <1>4, <1>7, CountOnChain
  <2>2. Upto(c, u, (h-1) + 1, 0) = Upto(c, u, h - 1, Len(c[h-1].txs))
    BY <1>4, UptoBlock
  <2>3. QED
    BY <1>4, <2>1, <2>2 DEF CountedUpto
<1>9. b.txs \in Seq(Tx)
  BY <1>5 DEF Block
<1>10. i - 1 \in 0..Len(b.txs) /\ i \in 1..Len(b.txs)
  BY <1>1, <1>9
<1>11. CountedUpto(c, u, h, i - 1, along[i-1][u].nonce)
  <2> HIDE DEF s
  <2>1. QED
    BY <1>6, <1>7, <1>8, <1>10, CountInBlock
<1>12. b.txs[i].nonce = along[i-1][u].nonce + 1
  BY <1>1, <1>5, <1>7, <1>10 DEF BlockApplies
<1>13. /\ Upto(c, u, h, i) = before \cup {<<h, i>>}
       /\ <<h, i>> \notin before
  <2>1. /\ Upto(c, u, h, i)
             = before \cup (IF c[h].txs[i].sender = u THEN {<<h, i>>} ELSE {})
        /\ <<h, i>> \notin before
    BY UptoTx
  <2> HIDE DEF before
  <2>2. QED
    BY <1>1, <2>1
<1>14. /\ IsFiniteSet(before)
       /\ Cardinality(before) = along[i-1][u].nonce
  BY <1>11 DEF CountedUpto
<1> HIDE DEF before, along
<1>15. Cardinality(Upto(c, u, h, i)) = along[i-1][u].nonce + 1
  BY <1>13, <1>14, FS_AddElement
<1>16. ConfirmedCount(c, u, h, i) = Cardinality(Upto(c, u, h, i))
  BY DEF ConfirmedCount, Upto
<1>17. QED
  BY <1>2, <1>12, <1>15, <1>16

-----------------------------------------------------------------------------
(* The pool after the chain changed *)

\* The pools after each transaction of pending is offered to an empty one.
PoolsAlong(pending, c, state) ==
    Iterate([i \in 1..Len(pending) |-> [pool \in Seq(Tx) |->
                IF Admissible(pending[i], pool, c, state)
                THEN Append(pool, pending[i]) ELSE pool]],
            <<>>, Len(pending))

LEMMA PoolsAlongEquation ==
    ASSUME NEW pending \in Seq(Tx), NEW c, NEW state
    PROVE  LET pools == PoolsAlong(pending, c, state)
               n == Len(pending)
           IN  /\ pools \in [0..n -> Seq(Tx)] /\ pools[0] = <<>>
               /\ \A i \in 1..n :
                    pools[i] = IF Admissible(pending[i], pools[i-1], c, state)
                               THEN Append(pools[i-1], pending[i])
                               ELSE pools[i-1]
               /\ revalidate_pending_transactions(pending, c, state) = pools[n]
<1> DEFINE n == Len(pending)
           turn == [i \in 1..n |-> [pool \in Seq(Tx) |->
                       IF Admissible(pending[i], pool, c, state)
                       THEN Append(pool, pending[i]) ELSE pool]]
           pools == Iterate(turn, <<>>, n)
<1>1. n \in Nat /\ <<>> \in Seq(Tx) /\ \A i \in 1..n : pending[i] \in Tx
  OBVIOUS
<1>2. turn \in [1..n -> [Seq(Tx) -> Seq(Tx)]]
  BY <1>1
<1>3. \A i \in 1..n, pool \in Seq(Tx) :
        turn[i][pool] = IF Admissible(pending[i], pool, c, state)
                        THEN Append(pool, pending[i]) ELSE pool
  OBVIOUS
<1>4. PoolsAlong(pending, c, state) = pools
  BY DEF PoolsAlong
<1>5. revalidate_pending_transactions(pending, c, state) = pools[n]
  BY DEF revalidate_pending_transactions
<1> HIDE DEF turn, n
<1>6. pools \in [0..n -> Seq(Tx)] /\ Turns(pools, turn, <<>>, n)
  BY <1>1, <1>2, IterateEquation, Zenon
<1> HIDE DEF pools
<1>7. \A i \in 1..n : pools[i-1] \in Seq(Tx)
  BY <1>1, <1>6
<1>8. QED
  BY <1>3, <1>4, <1>5, <1>6, <1>7 DEF n, Turns

\* The pending nonces of a sender.
PendingNonces(pool, u) == {pool[i].nonce : i \in pending_for_sender(pool, u)}

LEMMA PendingNoncesAppend ==
    ASSUME NEW pool \in Seq(Tx), NEW tx \in Tx, NEW u
    PROVE  PendingNonces(Append(pool, tx), u)
             = PendingNonces(pool, u)
                 \cup (IF tx.sender = u THEN {tx.nonce} ELSE {})
<1> DEFINE n == Len(pool)
           longer == Append(pool, tx)
<1>1. /\ n \in Nat /\ Len(longer) = n + 1 /\ longer[n+1] = tx
      /\ \A i \in 1..n : longer[i] = pool[i]
      /\ 1..(n + 1) = (1..n) \cup {n + 1}
  OBVIOUS
<1> HIDE DEF longer
<1>2. ASSUME NEW x
      PROVE  x \in PendingNonces(longer, u) <=>
               \/ x \in PendingNonces(pool, u)
               \/ tx.sender = u /\ x = tx.nonce
  <2>1. x \in PendingNonces(longer, u) <=>
          \E i \in 1..(n + 1) : longer[i].sender = u /\ x = longer[i].nonce
    BY <1>1 DEF PendingNonces, pending_for_sender
  <2>2. x \in PendingNonces(pool, u) <=>
          \E i \in 1..n : pool[i].sender = u /\ x = pool[i].nonce
    BY DEF PendingNonces, pending_for_sender
  <2> HIDE DEF n
  <2>3. QED
    BY <1>1, <2>1, <2>2, Zenon
<1>3. QED
  BY <1>2 DEF longer

\* In an admissible pool the nonces of one sender grow.
LEMMA PoolOrder ==
    ASSUME NEW c, NEW state \in AddrState, NEW pool \in Seq(Tx),
           PoolOK(pool, c, state),
           NEW j \in 1..Len(pool), NEW k \in 1..Len(pool), k < j,
           pool[k].sender = pool[j].sender
    PROVE  pool[k].nonce < pool[j].nonce
<1> DEFINE u == pool[k].sender
           Before(i) == SubSeq(pool, 1, i)
           Count(i) == Cardinality(pending_for_sender(Before(i), u))
<1>1. ASSUME NEW i \in 1..Len(pool), pool[i].sender = u
      PROVE  pool[i].nonce = state[u].nonce + Count(i - 1) + 1
  <2>1. pool[i] \in Tx /\ Admissible(pool[i], Before(i - 1), c, state)
    BY DEF PoolOK
  <2>2. QED
    BY <1>1, <2>1, AdmissibleFacts
<1>2. Count(k) = Count(k - 1) + 1 /\ Count(k - 1) \in Nat
  <2>1. /\ Before(k - 1) \in Seq(Tx) /\ pool[k] \in Tx
        /\ Before(k) = Append(Before(k - 1), pool[k])
    BY Prefix
  <2> HIDE DEF Before
  <2>2. QED
    BY <2>1, PendingAppend
<1>3. Count(k) <= Count(j - 1) /\ Count(j - 1) \in Nat
  <2>1. \A i \in 0..Len(pool) :
          pending_for_sender(Before(i), u) = {m \in 1..i : pool[m].sender = u}
    <3> TAKE i \in 0..Len(pool)
    <3>1. Len(Before(i)) = i /\ \A m \in 1..i : Before(i)[m] = pool[m]
      OBVIOUS
    <3> HIDE DEF Before
    <3>2. QED
      BY <3>1 DEF pending_for_sender
  <2>2. /\ k \in 0..Len(pool) /\ j - 1 \in 0..Len(pool)
        /\ \A m \in 1..k : m \in 1..(j - 1)
        /\ 1 \in Int /\ j - 1 \in Int
    OBVIOUS
  <2> HIDE DEF Before, u
  <2>3. pending_for_sender(Before(k), u)
          \subseteq pending_for_sender(Before(j - 1), u)
    BY <2>1, <2>2
  <2>4. IsFiniteSet(pending_for_sender(Before(j - 1), u))
    <3>1. pending_for_sender(Before(j - 1), u) \subseteq 1..(j - 1)
      BY <2>1, <2>2
    <3>2. QED
      BY <2>2, <3>1, FS_Interval, FS_Subset
  <2>5. QED
    BY <2>3, <2>4, FS_Subset, FS_CardinalityType
<1>4. pool[k].nonce = state[u].nonce + Count(k - 1) + 1
  BY <1>1
<1>5. pool[j].nonce = state[u].nonce + Count(j - 1) + 1
  BY <1>1
<1>6. state[u].nonce \in Nat
  <2>1. pool[k] \in Tx
    OBVIOUS
  <2>2. u \in Accounts
    BY <2>1 DEF Tx
  <2>3. QED
    BY <2>2, AccountType
<1> HIDE DEF Count, u
<1>7. QED
  BY <1>2, <1>3, <1>4, <1>5, <1>6

\* What admitting tx to a pool does to what a sender has pending in it.
LEMMA AdmittedOwn ==
    ASSUME NEW c, NEW state \in AddrState, NEW pool \in Seq(Tx), NEW tx \in Tx,
           Admissible(tx, pool, c, state)
    PROVE  /\ tx.nonce = state[tx.sender].nonce
                          + Cardinality(pending_for_sender(pool, tx.sender)) + 1
           /\ Cardinality(pending_for_sender(Append(pool, tx), tx.sender))
                = Cardinality(pending_for_sender(pool, tx.sender)) + 1
           /\ Cardinality(pending_for_sender(pool, tx.sender)) \in Nat
           /\ reserved(Append(pool, tx), tx.sender) >= reserved(pool, tx.sender)
           /\ reserved(Append(pool, tx), tx.sender) \in Int
           /\ reserved(pool, tx.sender) \in Int
<1> DEFINE u == tx.sender
<1>1. /\ Cardinality(pending_for_sender(Append(pool, tx), u))
           = Cardinality(pending_for_sender(pool, u)) + 1
      /\ reserved(Append(pool, tx), u) = reserved(pool, u) + (tx.amount + tx.fee)
      /\ Cardinality(pending_for_sender(pool, u)) \in Nat
      /\ reserved(pool, u) \in Int
  BY PendingAppend
<1>2. /\ tx.amount >= 0 /\ tx.fee >= 0
      /\ tx.nonce = state[u].nonce + Cardinality(pending_for_sender(pool, u)) + 1
  BY AdmissibleFacts
<1>3. tx.amount \in Int /\ tx.fee \in Int
  BY DEF Tx
<1>4. /\ reserved(Append(pool, tx), u) >= reserved(pool, u)
      /\ reserved(Append(pool, tx), u) \in Int
  BY <1>1, <1>2, <1>3
<1>5. QED
  BY <1>1, <1>2, <1>4

LEMMA AdmittedOther ==
    ASSUME NEW pool \in Seq(Tx), NEW tx \in Tx, NEW u, tx.sender # u
    PROVE  /\ Cardinality(pending_for_sender(Append(pool, tx), u))
                = Cardinality(pending_for_sender(pool, u))
           /\ Cardinality(pending_for_sender(pool, u)) \in Nat
           /\ PendingNonces(Append(pool, tx), u) = PendingNonces(pool, u)
           /\ reserved(Append(pool, tx), u) = reserved(pool, u)
           /\ reserved(pool, u) \in Int
<1>1. /\ Cardinality(pending_for_sender(Append(pool, tx), u))
           = Cardinality(pending_for_sender(pool, u)) + 0
      /\ reserved(Append(pool, tx), u) = reserved(pool, u) + 0
      /\ Cardinality(pending_for_sender(pool, u)) \in Nat
      /\ reserved(pool, u) \in Int
  BY PendingAppend
<1>2. PendingNonces(Append(pool, tx), u) = PendingNonces(pool, u)
  <2>1. PendingNonces(Append(pool, tx), u)
          = PendingNonces(pool, u)
              \cup (IF tx.sender = u THEN {tx.nonce} ELSE {})
    BY PendingNoncesAppend
  <2>2. QED
    BY <2>1
<1>3. QED
  BY <1>1, <1>2

\* The nonces of a sender in a pool that is offered again count on from the
\* confirmed one.
LEMMA OfferedNonces ==
    ASSUME NEW pending \in Seq(Tx), NEW c, NEW state \in AddrState,
           NEW u \in Accounts
    PROVE  \A i \in 0..Len(pending) :
             LET pool == PoolsAlong(pending, c, state)[i]
                 last == state[u].nonce + Cardinality(pending_for_sender(pool, u))
             IN  PendingNonces(pool, u) = state[u].nonce + 1 .. last
<1> DEFINE n == Len(pending)
           pools == PoolsAlong(pending, c, state)
           Consecutive(pool) ==
             PendingNonces(pool, u)
               = state[u].nonce + 1 ..
                   state[u].nonce + Cardinality(pending_for_sender(pool, u))
           P == {i \in 0..n : Consecutive(pools[i])}
<1>1. n \in Nat /\ \A i \in 1..n : pending[i] \in Tx
  OBVIOUS
<1>2. /\ pools \in [0..n -> Seq(Tx)] /\ pools[0] = <<>>
      /\ \A i \in 1..n :
           pools[i] = IF Admissible(pending[i], pools[i-1], c, state)
                      THEN Append(pools[i-1], pending[i]) ELSE pools[i-1]
  BY PoolsAlongEquation
<1>3. state[u].nonce \in Nat
  BY AccountType
<1> HIDE DEF pools
<1>4. 0 \in P
  <2>1. pending_for_sender(<<>>, u) = {}
    BY DEF pending_for_sender
  <2>2. PendingNonces(<<>>, u) = {}
    BY <2>1 DEF PendingNonces
  <2>3. Cardinality(pending_for_sender(<<>>, u)) = 0
    BY <2>1, FS_EmptySet
  <2>4. state[u].nonce + 1 .. state[u].nonce + 0 = {}
    BY <1>3
  <2>5. Consecutive(<<>>)
    BY <2>2, <2>3, <2>4
  <2> HIDE DEF Consecutive
  <2>6. QED
    BY <1>1, <1>2, <2>5
<1>5. ASSUME NEW i \in 1..n, i - 1 \in P
      PROVE  i \in P
  <2> DEFINE before == pools[i-1]
             tx == pending[i]
             count == Cardinality(pending_for_sender(before, u))
  <2>1. before \in Seq(Tx) /\ tx \in Tx
    BY <1>1, <1>2
  <2>2. Consecutive(before)
    BY <1>5
  <2>3. pools[i] = IF Admissible(tx, before, c, state)
                   THEN Append(before, tx) ELSE before
    BY <1>2
  <2> HIDE DEF before, tx
  <2>4. ASSUME Admissible(tx, before, c, state), tx.sender = u
        PROVE  Consecutive(pools[i])
    <3>1. /\ tx.nonce = state[u].nonce + count + 1 /\ count \in Nat
          /\ Cardinality(pending_for_sender(Append(before, tx), u)) = count + 1
          /\ PendingNonces(Append(before, tx), u)
               = PendingNonces(before, u) \cup {tx.nonce}
      <4>1. /\ tx.nonce = state[tx.sender].nonce
              + Cardinality(pending_for_sender(before, tx.sender)) + 1
            /\ Cardinality(pending_for_sender(Append(before, tx), tx.sender))
                 = Cardinality(pending_for_sender(before, tx.sender)) + 1
            /\ Cardinality(pending_for_sender(before, tx.sender)) \in Nat
        BY <2>1, <2>4, AdmittedOwn
      <4>2. PendingNonces(Append(before, tx), tx.sender)
              = PendingNonces(before, tx.sender) \cup {tx.nonce}
        <5>1. PendingNonces(Append(before, tx), tx.sender)
                = PendingNonces(before, tx.sender)
                    \cup (IF tx.sender = tx.sender THEN {tx.nonce} ELSE {})
          BY <2>1, PendingNoncesAppend
        <5>2. QED
          BY <5>1
      <4>3. QED
        BY <2>4, <4>1, <4>2
    <3>2. PendingNonces(before, u)
            = state[u].nonce + 1 .. state[u].nonce + count
      BY <2>2
    <3> HIDE DEF count
    <3>3. \A s, k \in Nat : (s + 1 .. s + k) \cup {s + k + 1}
                             = s + 1 .. s + (k + 1)
      OBVIOUS
    <3>4. (state[u].nonce + 1 .. state[u].nonce + count)
            \cup {state[u].nonce + count + 1}
            = state[u].nonce + 1 .. state[u].nonce + (count + 1)
      BY <1>3, <3>1, <3>3
    <3>5. QED
      BY <2>3, <2>4, <3>1, <3>2, <3>4
  <2>5. ASSUME Admissible(tx, before, c, state), tx.sender # u
        PROVE  Consecutive(pools[i])
    BY <2>1, <2>2, <2>3, <2>5, AdmittedOther
  <2>6. ASSUME ~ Admissible(tx, before, c, state)
        PROVE  Consecutive(pools[i])
    BY <2>2, <2>3, <2>6
  <2>7. Consecutive(pools[i])
    BY <2>4, <2>5, <2>6
  <2> HIDE DEF Consecutive
  <2>8. QED
    BY <1>1, <2>7
<1>6. P = 0..n
  <2> HIDE DEF P
  <2>1. P \in SUBSET (0..n)
    BY DEF P
  <2>2. QED
    BY <1>1, <1>4, <1>5, <2>1, Induction
<1>7. QED
  BY <1>6 DEF pools

\* No transaction of an admissible pool is refused when the pool is offered
\* again to an empty one and could yet be admitted in the end: the ones
\* admitted after it only add to what is pending, and none of its sender's
\* comes after it with a nonce as low as its own.
LEMMA NoneDropped ==
    ASSUME NEW pending \in Seq(Tx), NEW c0, NEW state0 \in AddrState,
           PoolOK(pending, c0, state0),
           NEW c, NEW state \in AddrState, NEW k \in 1..Len(pending)
    PROVE  ~ Admissible(pending[k],
                        revalidate_pending_transactions(pending, c, state),
                        c, state)
<1> DEFINE n == Len(pending)
           pools == PoolsAlong(pending, c, state)
           tx == pending[k]
           u == tx.sender
           Count(pool) == Cardinality(pending_for_sender(pool, u))
<1>1. n \in Nat /\ k \in 1..n /\ \A i \in 1..n : pending[i] \in Tx
  OBVIOUS
<1>2. /\ pools \in [0..n -> Seq(Tx)] /\ pools[0] = <<>>
      /\ \A i \in 1..n :
           pools[i] = IF Admissible(pending[i], pools[i-1], c, state)
                      THEN Append(pools[i-1], pending[i]) ELSE pools[i-1]
      /\ revalidate_pending_transactions(pending, c, state) = pools[n]
  BY PoolsAlongEquation
<1>3. u \in Accounts /\ tx \in Tx
  <2>1. tx \in Tx
    BY <1>1
  <2> HIDE DEF tx
  <2>2. QED
    BY <2>1 DEF Tx
<1>4. state[u].nonce \in Nat /\ state[u].balance \in Int
  BY <1>3, AccountType
<1>5. PendingNonces(pools[k-1], u)
        = state[u].nonce + 1 .. state[u].nonce + Count(pools[k-1])
  <2>1. k - 1 \in 0..n
    BY <1>1
  <2>2. QED
    BY <1>3, <2>1, OfferedNonces
<1> HIDE DEF pools
<1>6. ASSUME NEW i \in 1..n
      PROVE  /\ pools[i-1] \in Seq(Tx) /\ pending[i] \in Tx
             /\ PendingIds(pools[i-1]) \subseteq PendingIds(pools[i])
  <2>1. pools[i-1] \in Seq(Tx) /\ pending[i] \in Tx
    BY <1>1, <1>2
  <2>2. PendingIds(Append(pools[i-1], pending[i]))
          = PendingIds(pools[i-1]) \cup {tx_id(pending[i])}
    BY <2>1, PendingIdsAppend
  <2>3. QED
    BY <1>2, <2>1, <2>2
<1>7. CASE Admissible(tx, pools[k-1], c, state)
  <2> DEFINE P == {i \in 0..n : i >= k => tx_id(tx) \in PendingIds(pools[i])}
  <2>1. 0 \in P
    BY <1>1
  <2>2. ASSUME NEW i \in 1..n, i - 1 \in P
        PROVE  i \in P
    <3>1. CASE i < k
      BY <1>1, <3>1
    <3>2. CASE i = k
      <4>1. pools[k] = Append(pools[k-1], tx)
        BY <1>1, <1>2, <1>7
      <4>2. PendingIds(pools[k]) = PendingIds(pools[k-1]) \cup {tx_id(tx)}
        BY <1>1, <1>3, <1>6, <4>1, PendingIdsAppend
      <4>3. QED
        BY <1>1, <3>2, <4>2
    <3>3. CASE i > k
      <4>1. tx_id(tx) \in PendingIds(pools[i-1])
        BY <1>1, <2>2, <3>3
      <4>2. tx_id(tx) \in PendingIds(pools[i])
        BY <1>6, <4>1
      <4>3. QED
        BY <1>1, <4>2
    <3>4. QED
      BY <1>1, <3>1, <3>2, <3>3
  <2>3. P = 0..n
    <3> HIDE DEF P
    <3>1. P \in SUBSET (0..n)
      BY DEF P
    <3>2. QED
      BY <1>1, <2>1, <2>2, <3>1, Induction
  <2>4. tx_id(tx) \in PendingIds(pools[n])
    <3>1. n \in P /\ n >= k
      BY <1>1, <2>3
    <3>2. QED
      BY <3>1
  <2>5. QED
    BY <1>2, <2>4 DEF Admissible
<1>8. CASE ~ Admissible(tx, pools[k-1], c, state)
  <2> DEFINE q == pools[k-1]
             Grown(pool) ==
               /\ PendingIds(q) \subseteq PendingIds(pool)
               /\ reserved(q, u) <= reserved(pool, u)
               /\ reserved(pool, u) \in Int
               /\ Count(pool) \in Nat /\ Count(q) <= Count(pool)
               /\ \/ Count(pool) = Count(q)
                  \/ tx.nonce < state[u].nonce + Count(q) + 1
             P == {i \in 0..n : i >= k => Grown(pools[i])}
  <2>1. q \in Seq(Tx) /\ Count(q) \in Nat /\ reserved(q, u) \in Int
    <3>1. q \in Seq(Tx)
      BY <1>1, <1>2
    <3> HIDE DEF q
    <3>2. QED
      BY <1>3, <3>1, PendingAppend
  <2>2. Grown(q)
    BY <2>1
  <2>3. ASSUME NEW i \in 1..n, i > k, Grown(pools[i-1])
        PROVE  Grown(pools[i])
    <3> DEFINE before == pools[i-1]
               t == pending[i]
    <3>1. /\ before \in Seq(Tx) /\ t \in Tx
          /\ PendingIds(before) \subseteq PendingIds(pools[i])
          /\ pools[i] = IF Admissible(t, before, c, state)
                        THEN Append(before, t) ELSE before
      BY <1>2, <1>6
    <3>2. t.sender = u => tx.nonce < t.nonce
      BY <1>1, <2>3, PoolOrder
    <3>3. /\ PendingIds(q) \subseteq PendingIds(before)
          /\ reserved(q, u) <= reserved(before, u)
          /\ reserved(before, u) \in Int
          /\ Count(before) \in Nat /\ Count(q) <= Count(before)
          /\ \/ Count(before) = Count(q)
             \/ tx.nonce < state[u].nonce + Count(q) + 1
      BY <2>3
    <3> HIDE DEF before, t, q, tx, u
    <3>4. ASSUME Admissible(t, before, c, state), t.sender = u
          PROVE  Grown(Append(before, t))
      <4>1. /\ t.nonce = state[t.sender].nonce
                          + Cardinality(pending_for_sender(before, t.sender)) + 1
            /\ Cardinality(pending_for_sender(Append(before, t), t.sender))
                 = Cardinality(pending_for_sender(before, t.sender)) + 1
            /\ reserved(Append(before, t), t.sender) >= reserved(before, t.sender)
            /\ reserved(Append(before, t), t.sender) \in Int
        BY <3>1, <3>4, AdmittedOwn
      <4>2. /\ t.nonce = state[u].nonce + Count(before) + 1
            /\ Count(Append(before, t)) = Count(before) + 1
            /\ reserved(Append(before, t), u) >= reserved(before, u)
            /\ reserved(Append(before, t), u) \in Int
        BY <3>4, <4>1
      <4>3. PendingIds(q) \subseteq PendingIds(Append(before, t))
        BY <3>1, <3>3, <3>4
      <4> HIDE DEF Count
      <4>4. tx.nonce < state[u].nonce + Count(q) + 1
        BY <3>2, <3>3, <3>4, <4>2
      <4>5. /\ reserved(q, u) <= reserved(Append(before, t), u)
            /\ Count(Append(before, t)) \in Nat
            /\ Count(q) <= Count(Append(before, t))
        BY <2>1, <3>3, <4>2
      <4>6. QED
        BY <4>2, <4>3, <4>4, <4>5
    <3>5. ASSUME Admissible(t, before, c, state), t.sender # u
          PROVE  Grown(Append(before, t))
      <4>1. /\ Count(Append(before, t)) = Count(before)
            /\ reserved(Append(before, t), u) = reserved(before, u)
        BY <3>1, <3>5, AdmittedOther
      <4>2. PendingIds(q) \subseteq PendingIds(Append(before, t))
        BY <3>1, <3>3, <3>5
      <4>3. QED
        BY <3>3, <4>1, <4>2
    <3>6. ASSUME ~ Admissible(t, before, c, state)
          PROVE  Grown(before)
      BY <3>3
    <3> HIDE DEF Grown
    <3>7. QED
      BY <3>1, <3>4, <3>5, <3>6
  <2> HIDE DEF Grown
  <2>4. 0 \in P
    BY <1>1
  <2>5. ASSUME NEW i \in 1..n, i - 1 \in P
        PROVE  i \in P
    <3>1. CASE i < k
      BY <1>1, <3>1
    <3>2. CASE i = k
      BY <1>1, <1>2, <1>8, <2>2, <3>2
    <3>3. CASE i > k
      <4>1. i - 1 >= k
        BY <1>1, <3>3
      <4>2. Grown(pools[i-1])
        BY <2>5, <4>1
      <4>3. QED
        BY <1>1, <2>3, <3>3, <4>2
    <3>4. QED
      BY <1>1, <3>1, <3>2, <3>3
  <2>6. P = 0..n
    <3> HIDE DEF P
    <3>1. P \in SUBSET (0..n)
      BY DEF P
    <3>2. QED
      BY <1>1, <2>4, <2>5, <3>1, Induction
  <2>7. Grown(pools[n])
    <3>1. n \in P /\ n >= k
      BY <1>1, <2>6
    <3>2. QED
      BY <3>1
  <2>8. ASSUME Admissible(tx, pools[n], c, state)
        PROVE  FALSE
    <3> DEFINE last == pools[n]
    <3>1. /\ PendingIds(q) \subseteq PendingIds(last)
          /\ reserved(q, u) <= reserved(last, u)
          /\ reserved(last, u) \in Int
          /\ Count(last) \in Nat /\ Count(q) <= Count(last)
          /\ \/ Count(last) = Count(q)
             \/ tx.nonce < state[u].nonce + Count(q) + 1
      BY <2>7 DEF Grown
    <3>2. /\ tx.amount >= 0 /\ tx.fee >= 0 /\ tx.nonce >= 1
          /\ tx.sender # BC_NAME
          /\ tx_id(tx) \notin PendingIds(last)
          /\ tx_id(tx) \notin ConfirmedIds(c)
          /\ tx.fee >= calculate_dynamic_fee(c)
          /\ verify_tx_sig(tx)
          /\ tx.nonce = state[u].nonce + Count(last) + 1
          /\ tx.amount + tx.fee <= state[u].balance - reserved(last, u)
      BY <2>8 DEF Admissible
    <3>3. tx.amount + tx.fee \in Int
      <4> HIDE DEF tx
      <4>1. QED
        BY <1>3 DEF Tx
    <3>4. PendingNonces(q, u) = state[u].nonce + 1 .. state[u].nonce + Count(q)
      BY <1>5
    <3>5. ~ Admissible(tx, q, c, state)
      BY <1>8
    <3> HIDE DEF last, q, tx
    <3>6. tx.nonce = state[u].nonce + Count(q) + 1
      <4> HIDE DEF Count, u
      <4>1. QED
        BY <1>4, <2>1, <3>1, <3>2
    <3>7. tx.amount + tx.fee <= state[u].balance - reserved(q, u)
      <4> HIDE DEF u
      <4>1. QED
        BY <1>4, <2>1, <3>1, <3>2, <3>3
    <3>8. Admissible(tx, q, c, state)
      BY <3>1, <3>2, <3>4, <3>6, <3>7 DEF Admissible, PendingNonces
    <3>9. QED
      BY <3>5, <3>8
  <2>9. QED
    BY <1>2, <2>8
<1>9. QED
  BY <1>7, <1>8

-----------------------------------------------------------------------------
(* The sum of the balances of a set of accounts *)

Pick(T) == CHOOSE x \in T : TRUE

\* The balances that the accounts of each set hold together.
Sums(state) ==
    LET iter[T \in SUBSET Accounts] ==
            IF T = {} THEN 0
            ELSE LET x == CHOOSE x \in T : TRUE
                 IN  state[x].balance + iter[T \ {x}]
    IN  iter

Supply(state) == Sums(state)[Accounts]

LEMMA FiniteAccounts == IsFiniteSet(Accounts)
<1>1. IsFiniteSet({} \cup {BC_NAME})
  BY FS_EmptySet, FS_AddElement
<1>2. IsFiniteSet(({} \cup {BC_NAME}) \cup {VANITY_ADDR})
  BY <1>1, FS_AddElement
<1>3. IsFiniteSet(Users \cup (({} \cup {BC_NAME}) \cup {VANITY_ADDR}))
  BY <1>2, AddressAssumption, FS_Union
<1>4. Accounts = Users \cup (({} \cup {BC_NAME}) \cup {VANITY_ADDR})
  BY DEF Accounts
<1>5. QED
  BY <1>3, <1>4

LEMMA PickFacts ==
    ASSUME NEW T \in SUBSET Accounts, T # {}
    PROVE  /\ Pick(T) \in T /\ Pick(T) \in Accounts
           /\ T \ {Pick(T)} \in SUBSET Accounts
           /\ Cardinality(T \ {Pick(T)}) = Cardinality(T) - 1
           /\ Cardinality(T) \in Nat \ {0}
<1>1. Pick(T) \in T
  BY DEF Pick
<1>2. IsFiniteSet(Accounts)
  BY FiniteAccounts
<1>3. IsFiniteSet(T)
  BY <1>2, FS_Subset
<1>4. Cardinality(T \ {Pick(T)}) = Cardinality(T) - 1 /\ Cardinality(T) \in Nat
  BY <1>1, <1>3, FS_RemoveElement, FS_CardinalityType
<1>5. Cardinality(T) # 0
  BY <1>3, FS_EmptySet
<1>6. QED
  BY <1>1, <1>4, <1>5

LEMMA SubsetSize ==
    /\ Cardinality(Accounts) \in Nat
    /\ \A T \in SUBSET Accounts : /\ Cardinality(T) \in Nat
                                  /\ Cardinality(T) <= Cardinality(Accounts)
                                  /\ Cardinality(T) = 0 => T = {}
    /\ Cardinality({}) = 0
<1>1. IsFiniteSet(Accounts)
  BY FiniteAccounts
<1>2. \A T \in SUBSET Accounts :
         /\ IsFiniteSet(T) /\ Cardinality(T) <= Cardinality(Accounts)
  BY <1>1, FS_Subset
<1>3. \A T \in SUBSET Accounts : Cardinality(T) \in Nat
  BY <1>2, FS_CardinalityType
<1>4. \A T \in SUBSET Accounts : Cardinality(T) = 0 => T = {}
  BY <1>2, FS_EmptySet
<1>5. QED
  BY <1>1, <1>2, <1>3, <1>4, FS_EmptySet, FS_CardinalityType

\* The function iter of Sums is the one its definition asks for.
LEMMA SumsEquation ==
    ASSUME NEW state \in AddrState
    PROVE  /\ Sums(state) \in [SUBSET Accounts -> Int]
           /\ Sums(state)[{}] = 0
           /\ \A T \in SUBSET Accounts : T # {} =>
                 Sums(state)[T] = state[Pick(T)].balance
                                    + Sums(state)[T \ {Pick(T)}]
<1> DEFINE N == Cardinality(Accounts)
           Level(k) == {T \in SUBSET Accounts : Cardinality(T) <= k}
           Eq(g, D) == g = [T \in D |-> IF T = {} THEN 0
                                        ELSE state[Pick(T)].balance
                                               + g[T \ {Pick(T)}]]
           Some(k) == \E g \in [Level(k) -> Int] : Eq(g, Level(k))
           P == {k \in 0..N : Some(k)}
<1>0. /\ N \in Nat /\ 0 \in 0..N /\ Level(N) = SUBSET Accounts
      /\ Level(0) = {{}}
      /\ \A T \in SUBSET Accounts : Cardinality(T) \in Nat
  BY SubsetSize
<1>1. 0 \in P
  <2>1. Level(0) = {{}}
    BY <1>0
  <2> DEFINE g == [T \in {{}} |-> 0]
  <2>2. g \in [{{}} -> Int]
    OBVIOUS
  <2>3. g = [T \in {{}} |-> IF T = {} THEN 0
                            ELSE state[Pick(T)].balance + g[T \ {Pick(T)}]]
    OBVIOUS
  <2>4. g \in [Level(0) -> Int] /\ Eq(g, Level(0))
    BY <2>1, <2>2, <2>3
  <2>5. Some(0)
    BY <2>4
  <2> HIDE DEF Some, N
  <2>6. QED
    BY <1>0, <2>5
<1>2. ASSUME NEW k \in 1..N, k - 1 \in P
      PROVE  k \in P
  <2>1. PICK g \in [Level(k-1) -> Int] : Eq(g, Level(k-1))
    BY <1>2
  <2> DEFINE h == [T \in Level(k) |-> IF T = {} THEN 0
                                      ELSE state[Pick(T)].balance
                                             + g[T \ {Pick(T)}]]
  <2>2. ASSUME NEW T \in Level(k), T # {}
        PROVE  /\ T \ {Pick(T)} \in Level(k-1)
               /\ state[Pick(T)].balance \in Int
    <3>1. T \in SUBSET Accounts /\ Cardinality(T) \in Nat /\ Cardinality(T) <= k
      BY <1>0
    <3>2. QED
      BY <2>2, <3>1, PickFacts DEF AddrState, AccState
  <2>3. \A T \in Level(k-1) : T \in Level(k)
    <3>1. k - 1 <= k /\ k \in Int
      OBVIOUS
    <3>2. ASSUME NEW T \in Level(k-1)
          PROVE  Cardinality(T) <= k
      BY <1>0, <3>1
    <3>3. QED
      BY <3>2
  <2>4. h \in [Level(k) -> Int]
    <3>1. ASSUME NEW T \in Level(k)
          PROVE  (IF T = {} THEN 0 ELSE state[Pick(T)].balance
                                          + g[T \ {Pick(T)}]) \in Int
      BY <2>2
    <3>2. QED
      BY <3>1
  <2>5. \A T \in Level(k-1) : h[T] = g[T]
    <3>1. \A T \in Level(k-1) :
              g[T] = IF T = {} THEN 0 ELSE state[Pick(T)].balance
                                             + g[T \ {Pick(T)}]
      BY <2>1
    <3>2. QED
      BY <2>3, <3>1
  <2>6. ASSUME NEW T \in Level(k)
        PROVE  h[T] = IF T = {} THEN 0 ELSE state[Pick(T)].balance
                                               + h[T \ {Pick(T)}]
    BY <2>2, <2>5
  <2>7. Eq(h, Level(k))
    <3> HIDE DEF Level
    <3>1. h = [T \in Level(k) |-> h[T]]
      BY <2>4
    <3> HIDE DEF h
    <3>2. QED
      BY <2>6, <3>1
  <2> HIDE DEF h, Level, Eq
  <2>8. Some(k)
    BY <2>4, <2>7
  <2> HIDE DEF Some, N
  <2>9. k \in 0..N
    BY <1>0
  <2>10. QED
    BY <2>8, <2>9
<1>3. P = 0..N
  <2> HIDE DEF P
  <2>1. P \in SUBSET (0..N)
    BY DEF P
  <2>2. QED
    BY <1>0, <1>1, <1>2, <2>1, Induction
<1>4. PICK g \in [SUBSET Accounts -> Int] : Eq(g, SUBSET Accounts)
  <2>1. N \in P
    <3> HIDE DEF P
    <3>1. N \in 0..N
      BY <1>0
    <3>2. QED
      BY <1>3, <3>1
  <2>2. \E g \in [Level(N) -> Int] : Eq(g, Level(N))
    BY <2>1
  <2> HIDE DEF Level, Eq
  <2>3. QED
    BY <1>0, <2>2
<1>5. Sums(state) = CHOOSE f : Eq(f, SUBSET Accounts)
  BY Zenon DEF Sums, Pick
<1>6. Eq(Sums(state), SUBSET Accounts)
  <2> HIDE DEF Eq
  <2>1. Eq(CHOOSE f : Eq(f, SUBSET Accounts), SUBSET Accounts)
    BY <1>4, Zenon
  <2>2. QED
    BY <1>5, <2>1, Zenon
<1>7. PICK f : f = Sums(state)
  OBVIOUS
<1>8. f = [T \in SUBSET Accounts |-> IF T = {} THEN 0
                                     ELSE state[Pick(T)].balance
                                            + f[T \ {Pick(T)}]]
  BY <1>6, <1>7
<1>9. /\ f[{}] = 0
      /\ \A T \in SUBSET Accounts : T # {} =>
            f[T] = state[Pick(T)].balance + f[T \ {Pick(T)}]
  BY <1>8
<1> DEFINE Typed(k) == \A T \in Level(k) : f[T] \in Int
           Q == {k \in 0..N : Typed(k)}
<1>10. 0 \in Q
  <2> HIDE DEF Level
  <2>1. \A T \in Level(0) : T = {}
    BY <1>0
  <2>2. f[{}] \in Int
    BY <1>9
  <2>3. Typed(0)
    BY <2>1, <2>2, Zenon
  <2> HIDE DEF Typed, N
  <2>4. QED
    BY <1>0, <2>3
<1>11. ASSUME NEW k \in 1..N, k - 1 \in Q
       PROVE  k \in Q
  <2>1. ASSUME NEW T \in Level(k)
        PROVE  f[T] \in Int
    <3>1. CASE T = {}
      BY <1>9, <3>1
    <3>2. CASE T # {}
      <4>1. T \in SUBSET Accounts /\ Cardinality(T) \in Nat /\ Cardinality(T) <= k
        BY <1>0
      <4>2. /\ T \ {Pick(T)} \in Level(k-1)
            /\ state[Pick(T)].balance \in Int
        BY <3>2, <4>1, PickFacts DEF AddrState, AccState
      <4>3. f[T \ {Pick(T)}] \in Int
        BY <1>11, <4>2
      <4>4. QED
        BY <1>9, <3>2, <4>1, <4>2, <4>3
    <3>3. QED
      BY <3>1, <3>2
  <2>2. QED
    BY <2>1
<1>12. Q = 0..N
  <2> HIDE DEF Q
  <2>1. Q \in SUBSET (0..N)
    BY DEF Q
  <2>2. QED
    BY <1>0, <1>10, <1>11, <2>1, Induction
<1>13. \A T \in SUBSET Accounts : f[T] \in Int
  <2>1. N \in Q
    <3> HIDE DEF Q
    <3>1. N \in 0..N
      BY <1>0
    <3>2. QED
      BY <1>12, <3>1
  <2>2. QED
    BY <1>0, <2>1
<1>14. f \in [SUBSET Accounts -> Int]
  BY <1>8, <1>13
<1>15. QED
  BY <1>7, <1>9, <1>14

\* When one balance changes, the supply changes by as much.
LEMMA SupplyUpdate ==
    ASSUME NEW s \in AddrState, NEW t \in AddrState, NEW a \in Accounts,
           \A x \in Accounts : x # a => t[x].balance = s[x].balance
    PROVE  /\ Supply(s) \in Int /\ Supply(t) \in Int
           /\ Supply(t) = Supply(s) + (t[a].balance - s[a].balance)
<1> DEFINE N == Cardinality(Accounts)
           d == t[a].balance - s[a].balance
           Moved(T) == Sums(t)[T] = Sums(s)[T] + (IF a \in T THEN d ELSE 0)
           All(k) == \A T \in SUBSET Accounts : Cardinality(T) <= k => Moved(T)
           P == {k \in 0..N : All(k)}
<1>0. /\ N \in Nat /\ 0 \in 0..N
      /\ \A T \in SUBSET Accounts : /\ Cardinality(T) \in Nat
                                    /\ Cardinality(T) <= N
                                    /\ Cardinality(T) = 0 => T = {}
  BY SubsetSize
<1>1. /\ \A T \in SUBSET Accounts : Sums(t)[T] \in Int /\ Sums(s)[T] \in Int
      /\ \A x \in Accounts : t[x].balance \in Int /\ s[x].balance \in Int
      /\ Sums(t)[{}] = 0 /\ Sums(s)[{}] = 0
  BY SumsEquation DEF AddrState, AccState
<1>2. Moved({})
  BY <1>1
<1>3. 0 \in P
  <2>1. ASSUME NEW T \in SUBSET Accounts, Cardinality(T) <= 0
        PROVE  T = {}
    BY <1>0, <2>1
  <2> HIDE DEF Moved
  <2>2. All(0)
    BY <1>2, <2>1
  <2> HIDE DEF All, N
  <2>3. QED
    BY <1>0, <2>2
<1>4. ASSUME NEW k \in 1..N, k - 1 \in P
      PROVE  k \in P
  <2>1. ASSUME NEW T \in SUBSET Accounts, Cardinality(T) <= k, T # {}
        PROVE  Moved(T)
    <3>1. PICK x \in T : x = Pick(T)
      BY <2>1, PickFacts
    <3>2. PICK R \in SUBSET Accounts : R = T \ {x}
      OBVIOUS
    <3>3. Cardinality(R) <= k - 1
      BY <1>0, <2>1, <3>1, <3>2, PickFacts
    <3>4. Moved(R)
      BY <1>4, <3>3
    <3>5. /\ Sums(t)[T] = t[x].balance + Sums(t)[R]
          /\ Sums(s)[T] = s[x].balance + Sums(s)[R]
      BY <2>1, <3>1, <3>2, SumsEquation
    <3>6. CASE x = a
      <4>1. a \in T /\ a \notin R
        BY <3>1, <3>2, <3>6
      <4>2. QED
        BY <1>1, <3>4, <3>5, <3>6, <4>1
    <3>7. CASE x # a
      <4>1. (a \in T <=> a \in R) /\ t[x].balance = s[x].balance
        BY <3>1, <3>2, <3>7
      <4>2. QED
        BY <1>1, <3>4, <3>5, <4>1
    <3>8. QED
      BY <3>6, <3>7
  <2> HIDE DEF Moved
  <2>2. QED
    BY <1>2, <2>1
<1>5. P = 0..N
  <2> HIDE DEF P
  <2>1. P \in SUBSET (0..N)
    BY DEF P
  <2>2. QED
    BY <1>0, <1>3, <1>4, <2>1, Induction
<1>6. Moved(Accounts)
  <2> HIDE DEF Moved
  <2>1. N \in P
    <3> HIDE DEF P
    <3>1. N \in 0..N
      BY <1>0
    <3>2. QED
      BY <1>5, <3>1
  <2>2. QED
    BY <1>0, <2>1
<1>7. QED
  BY <1>1, <1>6 DEF Supply

LEMMA NoSupply == Supply(NoAccounts) = 0
<1> DEFINE N == Cardinality(Accounts)
           P == {k \in 0..N : \A T \in SUBSET Accounts :
                                Cardinality(T) <= k => Sums(NoAccounts)[T] = 0}
<1>0. /\ N \in Nat
      /\ \A T \in SUBSET Accounts : /\ Cardinality(T) \in Nat
                                    /\ Cardinality(T) <= N
                                    /\ Cardinality(T) = 0 => T = {}
  BY SubsetSize
<1>1. Sums(NoAccounts)[{}] = 0
  BY NoAccountsType, SumsEquation
<1>2. 0 \in P
  <2>1. ASSUME NEW T \in SUBSET Accounts, Cardinality(T) <= 0
        PROVE  T = {}
    BY <1>0, <2>1
  <2>2. QED
    BY <1>0, <1>1, <2>1
<1>3. ASSUME NEW k \in 1..N, k - 1 \in P
      PROVE  k \in P
  <2>1. ASSUME NEW T \in SUBSET Accounts, Cardinality(T) <= k, T # {}
        PROVE  Sums(NoAccounts)[T] = 0
    <3>1. PICK x \in T : x = Pick(T)
      BY <2>1, PickFacts
    <3>2. PICK R \in SUBSET Accounts : R = T \ {x}
      OBVIOUS
    <3>3. Cardinality(R) <= k - 1
      BY <1>0, <2>1, <3>1, <3>2, PickFacts
    <3>4. Sums(NoAccounts)[R] = 0
      BY <1>3, <3>3
    <3>5. Sums(NoAccounts)[T] = NoAccounts[x].balance + Sums(NoAccounts)[R]
      BY <2>1, <3>1, <3>2, NoAccountsType, SumsEquation
    <3>6. NoAccounts[x].balance = 0
      BY DEF NoAccounts
    <3>7. QED
      BY <3>4, <3>5, <3>6
  <2>2. QED
    BY <1>1, <2>1
<1>4. P = 0..N
  <2> HIDE DEF P
  <2>1. P \in SUBSET (0..N)
    BY DEF P
  <2>2. QED
    BY <1>0, <1>2, <1>3, <2>1, Induction
<1>5. N \in P
  <2> HIDE DEF P
  <2>1. N \in 0..N
    BY <1>0
  <2>2. QED
    BY <1>4, <2>1
<1>6. QED
  BY <1>0, <1>5 DEF Supply

-----------------------------------------------------------------------------
(* What a block does to the supply *)

\* What a transaction adds to the supply: a system transaction its amount, and
\* any other takes its fee.
Minted(tx) == IF tx.sender = BC_NAME THEN tx.amount ELSE 0 - tx.fee

LEMMA ApplyTxSupply ==
    ASSUME NEW s \in AddrState, NEW tx \in Tx
    PROVE  Supply(apply_tx(s, tx)) = Supply(s) + Minted(tx)
<1> DEFINE a == tx.sender
           r == tx.recipient
           counted == [s EXCEPT ![a].nonce = @ + 1]
           paid == IF a = BC_NAME THEN counted
                   ELSE [counted EXCEPT ![a].balance = @ - (tx.amount + tx.fee)]
           received == [paid EXCEPT ![r].balance = @ + tx.amount]
<1>1. /\ a \in Accounts /\ r \in Accounts
      /\ tx.amount \in Int /\ tx.fee \in Int
  BY DEF Tx
<1>2. /\ counted \in AddrState
      /\ \A x \in Accounts : counted[x].balance = s[x].balance
  BY <1>1 DEF AddrState, AccState
<1>3. /\ paid \in AddrState
      /\ \A x \in Accounts : x # a => paid[x].balance = s[x].balance
      /\ paid[a].balance = s[a].balance
             - (IF a = BC_NAME THEN 0 ELSE tx.amount + tx.fee)
  <2> HIDE DEF counted
  <2>1. s[a].balance \in Int
    BY <1>1 DEF AddrState, AccState
  <2>2. QED
    BY <1>1, <1>2, <2>1 DEF AddrState, AccState
<1>4. /\ received \in AddrState
      /\ \A x \in Accounts : x # r => received[x].balance = paid[x].balance
      /\ received[r].balance = paid[r].balance + tx.amount
  <2> HIDE DEF paid
  <2>1. QED
    BY <1>1, <1>3 DEF AddrState, AccState
<1>5. apply_tx(s, tx) = received
  BY DEF apply_tx
<1> HIDE DEF received, paid, counted
<1>6. /\ Supply(s) \in Int /\ Supply(paid) \in Int
      /\ Supply(paid) = Supply(s) + (paid[a].balance - s[a].balance)
  BY <1>1, <1>3, SupplyUpdate
<1>7. /\ Supply(received) \in Int
      /\ Supply(received) = Supply(paid)
                              + (received[r].balance - paid[r].balance)
  BY <1>1, <1>3, <1>4, SupplyUpdate
<1>8. /\ s[a].balance \in Int /\ paid[r].balance \in Int
      /\ paid[a].balance \in Int
  BY <1>1, <1>3 DEF AddrState, AccState
<1>9. QED
  BY <1>1, <1>3, <1>4, <1>5, <1>6, <1>7, <1>8 DEF Minted

\* The fees of the first transactions of a list.
FeesUpto(txs, n) == SumSeq([i \in 1..n |-> txs[i].fee])

LEMMA FeesUptoEquation ==
    ASSUME NEW txs \in Seq(Tx)
    PROVE  /\ FeesUpto(txs, 0) = 0
           /\ \A n \in 0..Len(txs) : FeesUpto(txs, n) \in Int
           /\ \A n \in 1..Len(txs) :
                 FeesUpto(txs, n) = FeesUpto(txs, n - 1) + txs[n].fee
<1>1. PICK f : f = [i \in 1..Len(txs) |-> txs[i].fee]
  OBVIOUS
<1>2. f \in [1..Len(txs) -> Int] /\ Len(txs) \in Nat
  <2>1. \A i \in 1..Len(txs) : txs[i] \in Tx
    OBVIOUS
  <2>2. QED
    BY <1>1, <2>1 DEF Tx
<1>3. ASSUME NEW n \in 0..Len(txs)
      PROVE  FeesUpto(txs, n) = SumSeq([i \in 1..n |-> f[i]])
  <2>1. [i \in 1..n |-> txs[i].fee] = [i \in 1..n |-> f[i]]
    BY <1>1
  <2>2. QED
    BY <2>1 DEF FeesUpto
<1>4. /\ \A n \in 1..Len(txs) : n \in 0..Len(txs) /\ n - 1 \in 0..Len(txs)
      /\ 0 \in 0..Len(txs)
  BY <1>2
<1>5. \A n \in 1..Len(txs) : f[n] = txs[n].fee
  BY <1>1
<1>6. QED
  BY <1>2, <1>3, <1>4, <1>5, SumPrefixes

\* A block that passes validation adds the block reward: its fee transaction
\* pays out what its other transactions lose.
LEMMA ApplyBlockSupply ==
    ASSUME NEW s \in AddrState, NEW b \in Block, b.height # 0,
           validate_system_transactions(b)
    PROVE  Supply(apply_block(s, b)) = Supply(s) + BLOCK_REWARD
<1> DEFINE n == Len(b.txs)
           After(i) == Supply(StatesAlong(s, b.txs)[i])
           Paid(i) == After(i) = Supply(s) - FeesUpto(b.txs, i)
           P == {i \in 0..n-2 : Paid(i)}
<1>1. /\ b.txs \in Seq(Tx) /\ n \in Nat
      /\ StatesAlong(s, b.txs) \in [0..n -> AddrState]
      /\ StatesAlong(s, b.txs)[0] = s
      /\ \A i \in 1..n : b.txs[i] \in Tx
      /\ \A i \in 1..n : StatesAlong(s, b.txs)[i]
                = apply_tx(StatesAlong(s, b.txs)[i-1], b.txs[i])
  <2>1. b.txs \in Seq(Tx)
    BY DEF Block
  <2>2. QED
    BY <2>1, StatesAlongEquation
<1>2. ASSUME NEW i \in 1..n
      PROVE  After(i) = After(i-1) + Minted(b.txs[i])
  <2>1. PICK along : along = StatesAlong(s, b.txs)
    OBVIOUS
  <2>2. i - 1 \in 0..n
    BY <1>1
  <2>3. along[i-1] \in AddrState
    <3>1. along \in [0..n -> AddrState]
      BY <1>1, <2>1
    <3> HIDE DEF n
    <3>2. QED
      BY <2>2, <3>1
  <2>4. along[i] = apply_tx(along[i-1], b.txs[i]) /\ b.txs[i] \in Tx
    BY <1>1, <2>1
  <2>5. Supply(along[i]) = Supply(along[i-1]) + Minted(b.txs[i])
    BY <2>3, <2>4, ApplyTxSupply
  <2>6. QED
    BY <2>1, <2>5
<1>3. /\ n >= 2
      /\ \A i \in 1..n-2 : b.txs[i].sender # BC_NAME
      /\ b.txs[n-1].sender = BC_NAME /\ b.txs[n-1].amount = BLOCK_REWARD
      /\ b.txs[n].sender = BC_NAME
      /\ b.txs[n].amount = FeesUpto(b.txs, n - 2)
  <2>1. /\ n >= 2
        /\ \A i \in 1..n-2 : b.txs[i].sender # BC_NAME
        /\ b.txs[n-1] = SystemTx(BLOCK_REWARD, b.txs[n-1].recipient,
                                 b.txs[n-1].timestamp)
        /\ b.txs[n] = SystemTx(FeesUpto(b.txs, n - 2), VANITY_ADDR,
                               b.txs[n].timestamp)
    BY Zenon DEF validate_system_transactions, FeesUpto
  <2>2. \A amount, recipient, timestamp :
            LET tx == SystemTx(amount, recipient, timestamp)
            IN  tx.sender = BC_NAME /\ tx.amount = amount
    BY DEF SystemTx
  <2>3. QED
    BY <2>1, <2>2
<1>4. /\ Supply(s) \in Int
      /\ FeesUpto(b.txs, 0) = 0
      /\ \A i \in 0..n : FeesUpto(b.txs, i) \in Int
      /\ \A i \in 1..n : /\ b.txs[i].fee \in Int
                          /\ FeesUpto(b.txs, i)
                                = FeesUpto(b.txs, i - 1) + b.txs[i].fee
      /\ BLOCK_REWARD \in Int
  <2>1. BC_NAME \in Accounts /\ BLOCK_REWARD \in Int
    BY NumberAssumption DEF Accounts
  <2>2. Supply(s) \in Int
    BY <2>1, SupplyUpdate
  <2>3. \A i \in 1..n : b.txs[i].fee \in Int
    BY <1>1 DEF Tx
  <2>4. QED
    BY <1>1, <2>1, <2>2, <2>3, FeesUptoEquation
<1> HIDE DEF n, After
<1>5. 0 \in P
  <2>1. Paid(0)
    BY <1>1, <1>4 DEF After
  <2> HIDE DEF Paid
  <2>2. 0 \in 0..n-2
    BY <1>1, <1>3
  <2>3. QED
    BY <2>1, <2>2
<1>6. ASSUME NEW i \in 1..n-2, i - 1 \in P
      PROVE  i \in P
  <2>1. i \in 1..n /\ i - 1 \in 0..n /\ i \in 0..n-2
    BY <1>1
  <2>2. Paid(i - 1)
    BY <1>6
  <2>3. After(i) = After(i-1) - b.txs[i].fee
    <3>1. Minted(b.txs[i]) = 0 - b.txs[i].fee
      BY <1>3 DEF Minted
    <3>2. After(i-1) \in Int /\ b.txs[i].fee \in Int
      BY <1>4, <2>1, <2>2
    <3>3. QED
      BY <1>2, <2>1, <3>1, <3>2
  <2>4. Paid(i)
    BY <1>4, <2>1, <2>2, <2>3
  <2> HIDE DEF Paid
  <2>5. QED
    BY <2>1, <2>4
<1>7. n - 2 \in P
  <2>1. n - 2 \in Nat /\ n - 2 \in 0..n-2
    BY <1>1, <1>3
  <2>2. P \in SUBSET (0..n-2)
    OBVIOUS
  <2> HIDE DEF P
  <2>3. P = 0..n-2
    BY <1>5, <1>6, <2>1, <2>2, Induction
  <2>4. QED
    BY <2>1, <2>3
<1>8. After(n) = Supply(s) + BLOCK_REWARD
  <2>1. /\ n - 1 \in 1..n /\ n \in 1..n /\ (n - 1) - 1 = n - 2
        /\ n - 2 \in 0..n
    BY <1>1, <1>3
  <2>2. After(n-1) = After(n-2) + BLOCK_REWARD
    BY <1>2, <1>3, <2>1 DEF Minted
  <2>3. After(n) = After(n-1) + FeesUpto(b.txs, n - 2)
    BY <1>2, <1>3, <2>1 DEF Minted
  <2>4. After(n-2) = Supply(s) - FeesUpto(b.txs, n - 2)
    BY <1>7
  <2>5. QED
    BY <1>4, <2>1, <2>2, <2>3, <2>4
<1>9. QED
  BY <1>8 DEF apply_block, After, n

\* The heights of a chain that was validated count from zero.
LEMMA ValidChainHeights ==
    ASSUME NEW c \in Seq(Block), c # <<>>, c[1].height = 0, ValidChain(c)
    PROVE  \A i \in 0..Len(c)-1 : c[i+1].height = i
<1> DEFINE n == Len(c) - 1
           P == {i \in 0..n : c[i+1].height = i}
<1>1. n \in Nat
  OBVIOUS
<1>2. 0 \in P
  BY <1>1
<1>3. ASSUME NEW i \in 1..n, i - 1 \in P
      PROVE  i \in P
  <2>1. c[i+1].height = c[i].height + 1
    BY DEF ValidChain, validate_next_block
  <2>2. c[(i-1)+1].height = i - 1 /\ (i - 1) + 1 = i
    BY <1>3
  <2>3. QED
    BY <2>1, <2>2
<1>4. P = 0..n
  <2> HIDE DEF P
  <2>1. P \in SUBSET (0..n)
    BY DEF P
  <2>2. QED
    BY <1>1, <1>2, <1>3, <2>1, Induction
<1>5. QED
  BY <1>4

\* Every block of a valid chain adds its reward to the supply.
LEMMA ValidChainSupply ==
    ASSUME NEW c \in Seq(Block), c # <<>>, c[1].height = 0, ValidChain(c)
    PROVE  Supply(LedgersOf(c)[Len(c)-1]) = BLOCK_REWARD * (Len(c) - 1)
<1> DEFINE n == Len(c) - 1
           P == {i \in 0..n : Supply(LedgersOf(c)[i]) = BLOCK_REWARD * i}
<1>1. n \in Nat /\ BLOCK_REWARD \in Int
  BY NumberAssumption
<1>2. 0 \in P
  <2>1. Supply(LedgersOf(c)[0]) = 0
    BY LedgersOfEquation, NoSupply
  <2>2. BLOCK_REWARD * 0 = 0
    BY <1>1
  <2>3. QED
    BY <1>1, <2>1, <2>2
<1>3. ASSUME NEW i \in 1..n, i - 1 \in P
      PROVE  i \in P
  <2>1. c[i+1] \in Block /\ validate_system_transactions(c[i+1])
    BY DEF ValidChain, validate_next_block, BlockApplies
  <2>2. c[i+1].height # 0
    <3>1. c[i+1].height = i
      BY ValidChainHeights
    <3>2. QED
      BY <3>1
  <2>3. /\ LedgersOf(c)[i] = apply_block(LedgersOf(c)[i-1], c[i+1])
        /\ LedgersOf(c)[i-1] \in AddrState
    BY LedgersOfEquation
  <2>4. Supply(LedgersOf(c)[i]) = Supply(LedgersOf(c)[i-1]) + BLOCK_REWARD
    BY <2>1, <2>2, <2>3, ApplyBlockSupply
  <2>5. Supply(LedgersOf(c)[i-1]) = BLOCK_REWARD * (i - 1)
    BY <1>3
  <2>6. BLOCK_REWARD * (i - 1) + BLOCK_REWARD = BLOCK_REWARD * i
    BY <1>1
  <2>7. QED
    BY <2>4, <2>5, <2>6
<1>4. P = 0..n
  <2> HIDE DEF P
  <2>1. P \in SUBSET (0..n)
    BY DEF P
  <2>2. QED
    BY <1>1, <1>2, <1>3, <2>1, Induction
<1>5. n \in P
  <2> HIDE DEF P
  <2>1. n \in 0..n
    BY <1>1
  <2>2. QED
    BY <1>4, <2>1
<1>6. QED
  BY <1>5

-----------------------------------------------------------------------------
(* The index of transactions by address *)

\* How often a transaction mentions an account, which its sender and its
\* recipient are; and how often the transactions of blocks do.
Ways(tx, a) == Cardinality({role \in {"sender", "recipient"} : tx[role] = a})

WaysUpto(txs, a, n) == SumSeq([i \in 1..n |-> Ways(txs[i], a)])

Mentions(c, a, h) == WaysUpto(c[h].txs, a, Len(c[h].txs))

MentionsUpto(c, a, n) == SumSeq([h \in 1..n |-> Mentions(c, a, h)])

\* An entry leads to a transaction of the account in the first n blocks.
Resolves(c, a, ref, n) ==
    /\ ref.block_height + 1 \in 1..n
    /\ \E i \in 1..Len(c[ref.block_height + 1].txs) :
         LET tx == c[ref.block_height + 1].txs[i]
         IN  /\ tx_id(tx) = ref.tx_id
             /\ a = IF ref.role = "sent" THEN tx.sender ELSE tx.recipient

\* The i-th transaction of the h-th block is listed for an account where the
\* mentions before it end.
Ref(c, h, i, role) == [tx_id |-> tx_id(c[h].txs[i]), block_height |-> h - 1,
                       role |-> role]

SentPlace(c, a, h, i) ==
    MentionsUpto(c, a, h - 1) + WaysUpto(c[h].txs, a, i - 1) + 1
ReceivedPlace(c, a, h, i) ==
    MentionsUpto(c, a, h - 1) + WaysUpto(c[h].txs, a, i)

Listed(refs, c, a, h, i) ==
    /\ c[h].txs[i].sender = a =>
         /\ SentPlace(c, a, h, i) \in 1..Len(refs)
         /\ refs[SentPlace(c, a, h, i)] = Ref(c, h, i, "sent")
    /\ c[h].txs[i].recipient = a =>
         /\ ReceivedPlace(c, a, h, i) \in 1..Len(refs)
         /\ refs[ReceivedPlace(c, a, h, i)] = Ref(c, h, i, "received")

\* The entries of an account resolve in the first n blocks and are as many as
\* mentions, and every one of those is listed.
Indexed(index, c, a, n) ==
    /\ Len(index[a]) = MentionsUpto(c, a, n)
    /\ \A k \in 1..Len(index[a]) : Resolves(c, a, index[a][k], n)
    /\ \A h \in 1..n : \A i \in 1..Len(c[h].txs) :
         Listed(index[a], c, a, h, i)

LEMMA WaysCount ==
    ASSUME NEW tx \in Tx, NEW a
    PROVE  Ways(tx, a) = (IF tx.sender = a THEN 1 ELSE 0)
                           + (IF tx.recipient = a THEN 1 ELSE 0)
<1> DEFINE R == {role \in {"sender", "recipient"} : tx[role] = a}
<1>1. IsFiniteSet({}) /\ Cardinality({}) = 0
  BY FS_EmptySet
<1>2. ASSUME NEW x
      PROVE  IsFiniteSet({x}) /\ Cardinality({x}) = 1
  BY FS_Singleton
<1>3. Cardinality({"sender"} \cup {"recipient"}) = 2
  <2>1. "recipient" \notin {"sender"}
    OBVIOUS
  <2>2. Cardinality({"sender"} \cup {"recipient"}) = Cardinality({"sender"}) + 1
    BY <1>2, <2>1, FS_AddElement
  <2>3. QED
    BY <1>2, <2>2
<1>4. CASE tx.sender = a /\ tx.recipient = a
  <2>1. R = {"sender"} \cup {"recipient"}
    BY <1>4
  <2>2. QED
    BY <1>3, <1>4, <2>1 DEF Ways
<1>5. CASE tx.sender = a /\ tx.recipient # a
  <2>1. R = {"sender"}
    BY <1>5
  <2>2. Ways(tx, a) = 1
    BY <1>2, <2>1 DEF Ways
  <2>3. QED
    BY <1>5, <2>2
<1>6. CASE tx.sender # a /\ tx.recipient = a
  <2>1. R = {"recipient"}
    BY <1>6
  <2>2. Ways(tx, a) = 1
    BY <1>2, <2>1 DEF Ways
  <2>3. QED
    BY <1>6, <2>2
<1>7. CASE tx.sender # a /\ tx.recipient # a
  <2>1. R = {}
    BY <1>7
  <2>2. QED
    BY <1>1, <1>7, <2>1 DEF Ways
<1>8. QED
  BY <1>4, <1>5, <1>6, <1>7

LEMMA AppendedOrNot ==
    ASSUME NEW S, NEW s \in Seq(S), NEW x \in S, NEW more \in BOOLEAN,
           NEW t, t = IF more THEN Append(s, x) ELSE s
    PROVE  /\ t \in Seq(S)
           /\ Len(t) = Len(s) + (IF more THEN 1 ELSE 0)
           /\ \A k \in 1..Len(t) : \/ k \in 1..Len(s) /\ t[k] = s[k]
                                   \/ t[k] = x /\ more
           /\ \A k \in 1..Len(s) : k \in 1..Len(t) /\ t[k] = s[k]
           /\ more => t[Len(t)] = x
<1>1. CASE more
  <2>1. t = Append(s, x)
    BY <1>1
  <2>2. /\ t \in Seq(S) /\ Len(t) = Len(s) + 1 /\ Len(s) \in Nat
        /\ \A k \in 1..Len(s) : t[k] = s[k]
        /\ t[Len(s)+1] = x
    BY <2>1
  <2>3. QED
    BY <1>1, <2>2
<1>2. CASE ~ more
  BY <1>2
<1>3. QED
  BY <1>1, <1>2

\* What index_tx adds for an account at the end of its entries are entries that
\* lead to the transaction, one as sender and after it one as recipient.
LEMMA IndexTxAdds ==
    ASSUME NEW index \in AddrTxIndex, NEW tx \in Tx, NEW height \in Int,
           NEW a \in Accounts
    PROVE  LET old == index[a]
               new == index_tx(index, tx, height)[a]
           IN  /\ Len(new) = Len(old) + Ways(tx, a)
               /\ \A k \in 1..Len(new) :
                    \/ k \in 1..Len(old) /\ new[k] = old[k]
                    \/ /\ new[k].tx_id = tx_id(tx)
                       /\ new[k].block_height = height
                       /\ a = IF new[k].role = "sent" THEN tx.sender
                              ELSE tx.recipient
               /\ \A k \in 1..Len(old) : k \in 1..Len(new) /\ new[k] = old[k]
               /\ tx.sender = a =>
                    /\ Len(old) + 1 \in 1..Len(new)
                    /\ new[Len(old) + 1] = [tx_id |-> tx_id(tx),
                                            block_height |-> height,
                                            role |-> "sent"]
               /\ tx.recipient = a =>
                    /\ Len(new) \in 1..Len(new)
                    /\ new[Len(new)] = [tx_id |-> tx_id(tx),
                                        block_height |-> height,
                                        role |-> "received"]
<1> DEFINE ref(role) == [tx_id |-> tx_id(tx), block_height |-> height,
                         role |-> role]
           sent == [index EXCEPT ![tx.sender] = Append(@, ref("sent"))]
           new == [sent EXCEPT ![tx.recipient] = Append(@, ref("received"))]
<1>1. tx_id(tx) \in TxId /\ tx.sender \in Accounts /\ tx.recipient \in Accounts
  BY DEF tx_id, TxId, Tx
<1>2. PICK r1, r2 : r1 = ref("sent") /\ r2 = ref("received")
  OBVIOUS
<1>3. /\ r1 \in AddrTxRef /\ r2 \in AddrTxRef
      /\ r1 = [tx_id |-> tx_id(tx), block_height |-> height, role |-> "sent"]
      /\ r2 = [tx_id |-> tx_id(tx), block_height |-> height,
               role |-> "received"]
      /\ r1.tx_id = tx_id(tx) /\ r1.block_height = height /\ r1.role = "sent"
      /\ r2.tx_id = tx_id(tx) /\ r2.block_height = height
      /\ r2.role = "received"
  BY <1>1, <1>2 DEF AddrTxRef
<1>4. index_tx(index, tx, height) = new
  BY DEF index_tx
<1>5. /\ sent[a] = IF tx.sender = a THEN Append(index[a], r1) ELSE index[a]
      /\ new[a] = IF tx.recipient = a THEN Append(sent[a], r2) ELSE sent[a]
  BY <1>1, <1>2 DEF AddrTxIndex
<1>6. PICK old, mid, last : old = index[a] /\ mid = sent[a] /\ last = new[a]
  OBVIOUS
<1>7. old \in Seq(AddrTxRef)
  BY <1>6 DEF AddrTxIndex
<1> HIDE DEF new, sent, ref
<1>8. PICK p \in BOOLEAN, q \in BOOLEAN :
          p = (tx.sender = a) /\ q = (tx.recipient = a)
  OBVIOUS
<1>9. /\ mid \in Seq(AddrTxRef)
      /\ Len(mid) = Len(old) + (IF p THEN 1 ELSE 0)
      /\ \A k \in 1..Len(mid) : \/ k \in 1..Len(old) /\ mid[k] = old[k]
                                \/ mid[k] = r1 /\ p
      /\ \A k \in 1..Len(old) : k \in 1..Len(mid) /\ mid[k] = old[k]
      /\ p => mid[Len(mid)] = r1
  <2>1. mid = IF p THEN Append(old, r1) ELSE old
    BY <1>5, <1>6, <1>8
  <2>2. QED
    BY <1>3, <1>7, <2>1, AppendedOrNot
<1>10. /\ Len(last) = Len(mid) + (IF q THEN 1 ELSE 0)
       /\ \A k \in 1..Len(last) : \/ k \in 1..Len(mid) /\ last[k] = mid[k]
                                  \/ last[k] = r2 /\ q
       /\ \A k \in 1..Len(mid) : k \in 1..Len(last) /\ last[k] = mid[k]
       /\ q => last[Len(last)] = r2
  <2>1. last = IF q THEN Append(mid, r2) ELSE mid
    BY <1>5, <1>6, <1>8
  <2>2. mid \in Seq(AddrTxRef) /\ r2 \in AddrTxRef
    BY <1>3, <1>9
  <2>3. QED
    BY <2>1, <2>2, AppendedOrNot
<1>11. Len(last) = Len(old) + Ways(tx, a)
  <2>1. PICK x \in Int, y \in Int : /\ x = (IF p THEN 1 ELSE 0)
                                  /\ y = (IF q THEN 1 ELSE 0)
    OBVIOUS
  <2>2. Ways(tx, a) = x + y
    BY <1>8, <2>1, WaysCount
  <2>3. Len(old) \in Nat /\ Len(mid) = Len(old) + x /\ Len(last) = Len(mid) + y
    BY <1>7, <1>9, <1>10, <2>1
  <2>4. QED
    BY <2>2, <2>3
<1>12. \A k \in 1..Len(last) :
         \/ k \in 1..Len(old) /\ last[k] = old[k]
         \/ last[k] = r1 /\ tx.sender = a
         \/ last[k] = r2 /\ tx.recipient = a
  BY <1>8, <1>9, <1>10
<1>13. /\ \A k \in 1..Len(old) : k \in 1..Len(last) /\ last[k] = old[k]
       /\ p => Len(old) + 1 \in 1..Len(last) /\ last[Len(old) + 1] = r1
       /\ q => Len(last) \in 1..Len(last) /\ last[Len(last)] = r2
  <2>1. Len(old) \in Nat /\ Len(mid) \in Nat
    BY <1>7, <1>9
  <2>2. \A k \in 1..Len(old) : k \in 1..Len(last) /\ last[k] = old[k]
    BY <1>9, <1>10
  <2>3. ASSUME p
        PROVE  Len(old) + 1 \in 1..Len(last) /\ last[Len(old) + 1] = r1
    <3>1. Len(mid) = Len(old) + 1 /\ Len(mid) \in 1..Len(mid)
          /\ mid[Len(mid)] = r1
      BY <1>9, <2>1, <2>3
    <3>2. QED
      BY <1>10, <3>1
  <2>4. ASSUME q
        PROVE  Len(last) \in 1..Len(last) /\ last[Len(last)] = r2
    BY <1>10, <2>1, <2>4
  <2>5. QED
    BY <2>2, <2>3, <2>4
<1>14. QED
  BY <1>3, <1>4, <1>6, <1>8, <1>11, <1>12, <1>13

\* The counts of the first transactions, and of the first blocks.
LEMMA WaysUptoEquation ==
    ASSUME NEW txs \in Seq(Tx), NEW a
    PROVE  /\ WaysUpto(txs, a, 0) = 0
           /\ \A n \in 0..Len(txs) : WaysUpto(txs, a, n) \in Int
           /\ \A n \in 1..Len(txs) :
                WaysUpto(txs, a, n) = WaysUpto(txs, a, n - 1) + Ways(txs[n], a)
<1>1. PICK f : f = [i \in 1..Len(txs) |-> Ways(txs[i], a)]
  OBVIOUS
<1>2. f \in [1..Len(txs) -> Int] /\ Len(txs) \in Nat
  <2>1. \A i \in 1..Len(txs) : txs[i] \in Tx
    OBVIOUS
  <2>2. \A i \in 1..Len(txs) : Ways(txs[i], a) \in Int
    BY <2>1, WaysCount
  <2>3. QED
    BY <1>1, <2>2
<1>3. ASSUME NEW n \in 0..Len(txs)
      PROVE  WaysUpto(txs, a, n) = SumSeq([i \in 1..n |-> f[i]])
  <2>1. [i \in 1..n |-> Ways(txs[i], a)] = [i \in 1..n |-> f[i]]
    BY <1>1
  <2>2. QED
    BY <2>1 DEF WaysUpto
<1>4. /\ \A n \in 1..Len(txs) : n \in 0..Len(txs) /\ n - 1 \in 0..Len(txs)
      /\ 0 \in 0..Len(txs)
  BY <1>2
<1>5. \A n \in 1..Len(txs) : f[n] = Ways(txs[n], a)
  BY <1>1
<1>6. QED
  BY <1>2, <1>3, <1>4, <1>5, SumPrefixes

LEMMA MentionsUptoEquation ==
    ASSUME NEW c \in Seq(Block), NEW a
    PROVE  /\ MentionsUpto(c, a, 0) = 0
           /\ \A n \in 0..Len(c) : MentionsUpto(c, a, n) \in Int
           /\ \A n \in 1..Len(c) :
                MentionsUpto(c, a, n)
                  = MentionsUpto(c, a, n - 1) + Mentions(c, a, n)
<1>1. PICK f : f = [h \in 1..Len(c) |-> Mentions(c, a, h)]
  OBVIOUS
<1>2. f \in [1..Len(c) -> Int] /\ Len(c) \in Nat
  <2>1. ASSUME NEW h \in 1..Len(c)
        PROVE  Mentions(c, a, h) \in Int
    <3>1. c[h] \in Block
      OBVIOUS
    <3>2. c[h].txs \in Seq(Tx) /\ Len(c[h].txs) \in 0..Len(c[h].txs)
      BY <3>1 DEF Block
    <3>3. QED
      BY <3>2, WaysUptoEquation DEF Mentions
  <2>2. QED
    BY <1>1, <2>1
<1>3. ASSUME NEW n \in 0..Len(c)
      PROVE  MentionsUpto(c, a, n) = SumSeq([h \in 1..n |-> f[h]])
  <2>1. [h \in 1..n |-> Mentions(c, a, h)] = [h \in 1..n |-> f[h]]
    BY <1>1
  <2>2. QED
    BY <2>1 DEF MentionsUpto
<1>4. /\ \A n \in 1..Len(c) : n \in 0..Len(c) /\ n - 1 \in 0..Len(c)
      /\ 0 \in 0..Len(c)
  BY <1>2
<1>5. \A n \in 1..Len(c) : f[n] = Mentions(c, a, n)
  BY <1>1
<1>6. QED
  BY <1>2, <1>3, <1>4, <1>5, SumPrefixes

\* Indexing a block whose height is its place extends a correct index.
LEMMA IndexBlockIndexes ==
    ASSUME NEW c \in Seq(Block), NEW h \in 1..Len(c), c[h].height = h - 1,
           NEW index \in AddrTxIndex, NEW a \in Accounts,
           Indexed(index, c, a, h - 1)
    PROVE  Indexed(index_block(index, c[h]), c, a, h)
<1> DEFINE txs == c[h].txs
           n == Len(txs)
           turn == [i \in 1..n |-> [x \in AddrTxIndex |->
                                       index_tx(x, txs[i], c[h].height)]]
           it == Iterate(turn, index, n)
           size == MentionsUpto(c, a, h - 1)
           Good(i) ==
               /\ Len(it[i][a]) = size + WaysUpto(txs, a, i)
               /\ \A k \in 1..Len(it[i][a]) : Resolves(c, a, it[i][a][k], h)
               /\ \A g \in 1..h-1 : \A j \in 1..Len(c[g].txs) :
                      Listed(it[i][a], c, a, g, j)
               /\ \A j \in 1..i : Listed(it[i][a], c, a, h, j)
           P == {i \in 0..n : Good(i)}
<1>1. /\ txs \in Seq(Tx) /\ n \in Nat /\ c[h].height \in Int /\ h \in Int
      /\ \A i \in 1..n : txs[i] \in Tx
      /\ size \in Int /\ MentionsUpto(c, a, h) = size + WaysUpto(txs, a, n)
  <2>1. c[h] \in Block
    OBVIOUS
  <2>2. txs \in Seq(Tx)
    BY <2>1 DEF Block
  <2>3. h - 1 \in 0..Len(c)
    OBVIOUS
  <2>4. size \in Int /\ MentionsUpto(c, a, h) = size + Mentions(c, a, h)
    BY <2>3, MentionsUptoEquation
  <2>5. QED
    BY <2>2, <2>4 DEF Mentions
<1>2. turn \in [1..n -> [AddrTxIndex -> AddrTxIndex]]
  BY <1>1, IndexTxType
<1>3. \A i \in 1..n : \A x \in AddrTxIndex :
          turn[i][x] = index_tx(x, txs[i], c[h].height)
  OBVIOUS
<1>4. index_block(index, c[h]) = it[n]
  BY DEF index_block
<1> HIDE DEF turn
<1>5. it \in [0..n -> AddrTxIndex] /\ Turns(it, turn, index, n)
  <2> HIDE DEF n
  <2>1. QED
    BY <1>1, <1>2, IterateEquation, Zenon
<1>6. /\ it[0] = index
      /\ \A i \in 1..n : it[i] = turn[i][it[i-1]]
  BY <1>5 DEF Turns
<1> HIDE DEF it
<1> HIDE DEF size
<1>7. Good(0)
  <2>1. WaysUpto(txs, a, 0) = 0
    BY <1>1, WaysUptoEquation
  <2>2. \A k \in 1..Len(index[a]) : Resolves(c, a, index[a][k], h)
    <3>1. \A ref : Resolves(c, a, ref, h - 1) => Resolves(c, a, ref, h)
      BY <1>1 DEF Resolves
    <3>2. QED
      BY <3>1 DEF Indexed
  <2>3. Len(index[a]) = size
    BY DEF Indexed, size
  <2>4. /\ \A g \in 1..h-1 : \A j \in 1..Len(c[g].txs) :
              Listed(index[a], c, a, g, j)
        /\ \A j \in 1..0 : Listed(index[a], c, a, h, j)
    BY DEF Indexed
  <2>5. QED
    BY <1>1, <1>6, <2>1, <2>2, <2>3, <2>4
<1>8. ASSUME NEW i \in 1..n, Good(i - 1)
      PROVE  Good(i)
  <2>1. i - 1 \in 0..n /\ txs[i] \in Tx
    BY <1>1
  <2>2. PICK x, y : /\ x = it[i-1] /\ y = it[i]
    OBVIOUS
  <2>3. x \in AddrTxIndex
    <3> HIDE DEF n
    <3>1. QED
      BY <1>5, <2>1, <2>2
  <2>4. y = index_tx(x, txs[i], c[h].height)
    BY <1>3, <1>6, <2>2, <2>3
  <2>5. /\ Len(y[a]) = Len(x[a]) + Ways(txs[i], a)
        /\ \A k \in 1..Len(y[a]) :
             \/ k \in 1..Len(x[a]) /\ y[a][k] = x[a][k]
             \/ /\ y[a][k].tx_id = tx_id(txs[i])
                /\ y[a][k].block_height = c[h].height
                /\ a = IF y[a][k].role = "sent" THEN txs[i].sender
                       ELSE txs[i].recipient
        /\ \A k \in 1..Len(x[a]) : k \in 1..Len(y[a]) /\ y[a][k] = x[a][k]
        /\ txs[i].sender = a =>
             /\ Len(x[a]) + 1 \in 1..Len(y[a])
             /\ y[a][Len(x[a]) + 1] = Ref(c, h, i, "sent")
        /\ txs[i].recipient = a =>
             /\ Len(y[a]) \in 1..Len(y[a])
             /\ y[a][Len(y[a])] = Ref(c, h, i, "received")
    <3>1. PICK tx : tx = txs[i] /\ tx \in Tx
      BY <2>1
    <3>2. PICK height \in Int : height = c[h].height /\ height = h - 1
      BY <1>1
    <3>3. y = index_tx(x, tx, height)
      BY <2>4, <3>1, <3>2
    <3>4. /\ Len(y[a]) = Len(x[a]) + Ways(tx, a)
          /\ \A k \in 1..Len(y[a]) :
               \/ k \in 1..Len(x[a]) /\ y[a][k] = x[a][k]
               \/ /\ y[a][k].tx_id = tx_id(tx)
                  /\ y[a][k].block_height = height
                  /\ a = IF y[a][k].role = "sent" THEN tx.sender
                         ELSE tx.recipient
          /\ \A k \in 1..Len(x[a]) : k \in 1..Len(y[a]) /\ y[a][k] = x[a][k]
          /\ tx.sender = a =>
               /\ Len(x[a]) + 1 \in 1..Len(y[a])
               /\ y[a][Len(x[a]) + 1] = [tx_id |-> tx_id(tx),
                                        block_height |-> height,
                                        role |-> "sent"]
          /\ tx.recipient = a =>
               /\ Len(y[a]) \in 1..Len(y[a])
               /\ y[a][Len(y[a])] = [tx_id |-> tx_id(tx),
                                    block_height |-> height,
                                    role |-> "received"]
      <4> HIDE DEF txs, n, Good, P
      <4>1. QED
        BY <2>3, <3>1, <3>2, <3>3, IndexTxAdds
    <3>5. /\ Ref(c, h, i, "sent") = [tx_id |-> tx_id(tx),
                                     block_height |-> height, role |-> "sent"]
          /\ Ref(c, h, i, "received") = [tx_id |-> tx_id(tx),
                                         block_height |-> height,
                                         role |-> "received"]
      BY <3>1, <3>2 DEF Ref
    <3>6. QED
      BY <3>1, <3>2, <3>4, <3>5
  <2>6. /\ \A k \in 1..Len(x[a]) : Resolves(c, a, x[a][k], h)
        /\ Len(x[a]) = size + WaysUpto(txs, a, i - 1)
    BY <1>8, <2>2
  <2>7. /\ Len(y[a]) = size + WaysUpto(txs, a, i)
        /\ Len(x[a]) + 1 = size + WaysUpto(txs, a, i - 1) + 1
    <3>1. /\ WaysUpto(txs, a, i) = WaysUpto(txs, a, i - 1) + Ways(txs[i], a)
          /\ WaysUpto(txs, a, i - 1) \in Int /\ Ways(txs[i], a) \in Int
      <4>1. /\ WaysUpto(txs, a, i) = WaysUpto(txs, a, i - 1) + Ways(txs[i], a)
            /\ WaysUpto(txs, a, i - 1) \in Int
        <5>1. PICK list \in Seq(Tx) : list = txs /\ Len(list) = n
          BY <1>1
        <5>2. QED
          BY <2>1, <5>1, WaysUptoEquation
      <4>2. Ways(txs[i], a) \in Int
        BY <2>1, WaysCount
      <4>3. QED
        BY <4>1, <4>2
    <3>2. Len(y[a]) = Len(x[a]) + Ways(txs[i], a)
      BY <2>5
    <3>3. Len(x[a]) = size + WaysUpto(txs, a, i - 1)
      BY <2>6
    <3>4. size \in Int
      BY <1>1
    <3>5. QED
      BY <3>1, <3>2, <3>3, <3>4
  <2>8. ASSUME NEW k \in 1..Len(y[a])
        PROVE  Resolves(c, a, y[a][k], h)
    <3>1. CASE k \in 1..Len(x[a]) /\ y[a][k] = x[a][k]
      BY <2>6, <3>1
    <3>2. CASE /\ y[a][k].tx_id = tx_id(txs[i])
               /\ y[a][k].block_height = c[h].height
               /\ a = IF y[a][k].role = "sent" THEN txs[i].sender
                      ELSE txs[i].recipient
      <4>1. y[a][k].block_height + 1 = h /\ h \in 1..h
        BY <1>1, <3>2
      <4>2. QED
        BY <3>2, <4>1 DEF Resolves
    <3>3. QED
      BY <2>5, <3>1, <3>2
  <2>9. ASSUME NEW g \in 1..h, NEW j, Listed(x[a], c, a, g, j)
        PROVE  Listed(y[a], c, a, g, j)
    BY <2>5, <2>9 DEF Listed
  <2>10. Listed(y[a], c, a, h, i)
    <3>1. /\ SentPlace(c, a, h, i) = Len(x[a]) + 1
          /\ ReceivedPlace(c, a, h, i) = Len(y[a])
      BY <2>7 DEF SentPlace, ReceivedPlace, size
    <3>2. QED
      BY <2>5, <3>1 DEF Listed
  <2>11. \A g \in 1..h-1 : \A j \in 1..Len(c[g].txs) :
            Listed(y[a], c, a, g, j)
    <3>1. \A g \in 1..h-1 : g \in 1..h
      BY <1>1
    <3>2. QED
      BY <1>8, <2>2, <2>9, <3>1
  <2>12. \A j \in 1..i : Listed(y[a], c, a, h, j)
    <3>1. /\ \A j \in 1..i : j \in 1..i-1 \/ j = i
          /\ h \in 1..h
      BY <1>1
    <3>2. \A j \in 1..i-1 : Listed(y[a], c, a, h, j)
      BY <1>8, <2>2, <2>9, <3>1
    <3>3. QED
      BY <2>10, <3>1, <3>2
  <2>13. QED
    BY <2>2, <2>7, <2>8, <2>11, <2>12
<1>9. n \in P
  <2>1. 0 \in 0..n /\ n \in 0..n /\ 1..n \in SUBSET (0..n)
    BY <1>1
  <2> HIDE DEF Good, n
  <2>2. 0 \in P /\ \A i \in 1..n : i - 1 \in P => i \in P
    BY <1>7, <1>8, <2>1
  <2>3. P \in SUBSET (0..n)
    OBVIOUS
  <2> HIDE DEF P
  <2>4. P = 0..n
    BY <1>1, <2>2, <2>3, Induction
  <2>5. QED
    BY <2>1, <2>4
<1>10. QED
  <2>1. Good(n)
    BY <1>9
  <2>2. \A g \in 1..h : g \in 1..h-1 \/ g = h
    BY <1>1
  <2>3. \A g \in 1..h : \A j \in 1..Len(c[g].txs) :
           Listed(it[n][a], c, a, g, j)
    BY <2>1, <2>2
  <2>4. QED
    BY <1>1, <1>4, <2>1, <2>3 DEF Indexed

\* The index made anew from a chain whose heights count from zero is correct.
LEMMA RebuiltIndexed ==
    ASSUME NEW c \in Seq(Block), \A i \in 0..Len(c)-1 : c[i+1].height = i,
           NEW a \in Accounts
    PROVE  Indexed(rebuild_index(c), c, a, Len(c))
<1> DEFINE n == Len(c)
           turn == [h \in 1..n |-> [x \in AddrTxIndex |-> index_block(x, c[h])]]
           it == Iterate(turn, NoEntries, n)
           Good(h) == Indexed(it[h], c, a, h)
           P == {h \in 0..n : Good(h)}
<1>1. n \in Nat /\ \A h \in 1..n : c[h] \in Block /\ c[h].height = h - 1
  <2>1. ASSUME NEW h \in 1..n
        PROVE  c[h].height = h - 1
    <3>1. h - 1 \in 0..Len(c)-1 /\ (h - 1) + 1 = h
      OBVIOUS
    <3>2. QED
      BY <3>1
  <2>2. QED
    BY <2>1
<1>2. turn \in [1..n -> [AddrTxIndex -> AddrTxIndex]]
  BY <1>1, IndexBlockType
<1>3. \A h \in 1..n : \A x \in AddrTxIndex : turn[h][x] = index_block(x, c[h])
  OBVIOUS
<1>4. rebuild_index(c) = it[n]
  BY DEF rebuild_index
<1>5. NoEntries \in AddrTxIndex /\ NoEntries[a] = << >>
  BY DEF NoEntries, AddrTxIndex
<1> HIDE DEF turn
<1>6. it \in [0..n -> AddrTxIndex] /\ Turns(it, turn, NoEntries, n)
  <2> HIDE DEF n
  <2>1. QED
    BY <1>1, <1>2, <1>5, IterateEquation, Zenon
<1>7. /\ it[0] = NoEntries
      /\ \A h \in 1..n : it[h] = turn[h][it[h-1]]
  BY <1>6 DEF Turns
<1> HIDE DEF it
<1>8. Good(0)
  <2>1. MentionsUpto(c, a, 0) = 0
    BY MentionsUptoEquation
  <2>2. QED
    BY <1>5, <1>7, <2>1 DEF Indexed
<1>9. ASSUME NEW h \in 1..n, Good(h - 1)
      PROVE  Good(h)
  <2>1. h - 1 \in 0..n
    BY <1>1
  <2>2. it[h-1] \in AddrTxIndex
    <3> HIDE DEF n
    <3>1. QED
      BY <1>6, <2>1
  <2>3. it[h] = index_block(it[h-1], c[h])
    BY <1>3, <1>7, <2>2
  <2>4. QED
    BY <1>1, <1>9, <2>2, <2>3, IndexBlockIndexes
<1>10. n \in P
  <2>1. 0 \in 0..n /\ n \in 0..n /\ 1..n \in SUBSET (0..n)
    BY <1>1
  <2> HIDE DEF Good, n
  <2>2. 0 \in P /\ \A h \in 1..n : h - 1 \in P => h \in P
    BY <1>8, <1>9, <2>1
  <2>3. P \in SUBSET (0..n)
    OBVIOUS
  <2> HIDE DEF P
  <2>4. P = 0..n
    BY <1>1, <2>2, <2>3, Induction
  <2>5. QED
    BY <2>1, <2>4
<1>11. QED
  BY <1>4, <1>10

\* Indexing a block appended is making the index anew.
LEMMA RebuildIndexAppend ==
    ASSUME NEW c \in Seq(Block), NEW b \in Block
    PROVE  rebuild_index(Append(c, b)) = index_block(rebuild_index(c), b)
<1> DEFINE n == Len(c)
           m == Len(Append(c, b))
           turn1 == [i \in 1..m |-> [x \in AddrTxIndex |->
                                        index_block(x, Append(c, b)[i])]]
           turn2 == [i \in 1..n |-> [x \in AddrTxIndex |-> index_block(x, c[i])]]
<1>1. /\ n \in Nat /\ m \in Nat /\ m = n + 1 /\ n <= m
      /\ \A i \in 1..n : c[i] \in Block /\ Append(c, b)[i] = c[i]
      /\ Append(c, b)[m] = b
      /\ \A i \in 1..m : Append(c, b)[i] \in Block
      /\ NoEntries \in AddrTxIndex
  BY DEF NoEntries, AddrTxIndex
<1>2. /\ turn1 \in [1..m -> [AddrTxIndex -> AddrTxIndex]]
      /\ turn2 \in [1..n -> [AddrTxIndex -> AddrTxIndex]]
  BY <1>1, IndexBlockType
<1>3. SameOn(turn1, turn2, 1..n)
  BY <1>1 DEF SameOn
<1>4. \A x \in AddrTxIndex : turn1[m][x] = index_block(x, b)
  BY <1>1
<1>5. /\ rebuild_index(Append(c, b)) = Iterate(turn1, NoEntries, m)[m]
      /\ rebuild_index(c) = Iterate(turn2, NoEntries, n)[n]
  BY DEF rebuild_index
<1> HIDE DEF turn1, turn2, m, n
<1>6. SameOn(Iterate(turn1, NoEntries, m), Iterate(turn2, NoEntries, n), 0..n)
  BY <1>1, <1>2, <1>3, IterateAgree, Zenon
<1>7. /\ Iterate(turn2, NoEntries, n) \in [0..n -> AddrTxIndex]
      /\ Turns(Iterate(turn1, NoEntries, m), turn1, NoEntries, m)
  BY <1>1, <1>2, IterateEquation, Zenon
<1>8. /\ n \in 0..n /\ m \in 1..m /\ m - 1 = n
  BY <1>1
<1>9. Iterate(turn1, NoEntries, m)[m]
        = turn1[m][Iterate(turn1, NoEntries, m)[m - 1]]
  BY <1>7, <1>8 DEF Turns
<1>10. /\ Iterate(turn1, NoEntries, m)[n] = Iterate(turn2, NoEntries, n)[n]
       /\ Iterate(turn2, NoEntries, n)[n] \in AddrTxIndex
  BY <1>6, <1>7, <1>8 DEF SameOn
<1>11. QED
  BY <1>4, <1>5, <1>8, <1>9, <1>10

\* The genesis block holds no transaction to index.
LEMMA GenesisIndex == rebuild_index(<<genesis_block>>) = NoEntries
<1>1. genesis_block \in Block /\ genesis_block.txs = << >>
  BY GenesisType DEF genesis_block
<1>2. ASSUME NEW start \in AddrTxIndex,
             NEW turn \in [1..0 -> [AddrTxIndex -> AddrTxIndex]]
      PROVE  Iterate(turn, start, 0)[0] = start
  <2>1. PICK z \in Nat : z = 0
    OBVIOUS
  <2>2. turn \in [1..z -> [AddrTxIndex -> AddrTxIndex]]
    BY <2>1
  <2>3. Turns(Iterate(turn, start, z), turn, start, z)
    BY <2>2, IterateEquation
  <2>4. QED
    BY <2>1, <2>3 DEF Turns
<1>3. NoEntries \in AddrTxIndex
  BY DEF NoEntries, AddrTxIndex
<1>4. rebuild_index(<<>>) = NoEntries
  <2> DEFINE none == << >>
             turn == [i \in 1..Len(none) |-> [x \in AddrTxIndex |->
                                                 index_block(x, none[i])]]
  <2>1. Len(none) = 0 /\ turn \in [1..0 -> [AddrTxIndex -> AddrTxIndex]]
    OBVIOUS
  <2>2. rebuild_index(none) = Iterate(turn, NoEntries, 0)[0]
    BY <2>1 DEF rebuild_index
  <2> HIDE DEF turn
  <2>3. QED
    BY <1>2, <1>3, <2>1, <2>2
<1>5. index_block(NoEntries, genesis_block) = NoEntries
  <2> DEFINE turn == [i \in 1..Len(genesis_block.txs) |-> [x \in AddrTxIndex |->
                        index_tx(x, genesis_block.txs[i], genesis_block.height)]]
  <2>1. /\ Len(genesis_block.txs) = 0
        /\ turn \in [1..0 -> [AddrTxIndex -> AddrTxIndex]]
    BY <1>1
  <2>2. index_block(NoEntries, genesis_block) = Iterate(turn, NoEntries, 0)[0]
    BY <2>1 DEF index_block
  <2> HIDE DEF turn
  <2>3. QED
    BY <1>2, <1>3, <2>1, <2>2
<1>6. <<genesis_block>> = Append(<<>>, genesis_block) /\ <<>> \in Seq(Block)
  OBVIOUS
<1>7. QED
  BY <1>1, <1>4, <1>5, <1>6, RebuildIndexAppend

=============================================================================
