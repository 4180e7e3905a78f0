# ByteChain Testnet Alpha: a TLA+ verification

This directory holds TLA+ specifications of the ByteChain node, TLC
configurations that check them on small instances, and proofs that the TLA+
proof system checks for every value of the constants. The reference is the code
under `src/` of the repository; paths such as `blockchain.ts:434` are relative
to `src/src/core`, `src/src/network` or `src/src/utils`, where the file is.

Contents: [1 the system](#1-the-system), [2 the modules](#2-the-modules),
[3 what is abstracted](#3-what-is-abstracted), [4 the runs](#4-the-runs),
[5 what the runs disagree with](#5-where-the-code-and-its-words-disagree),
[6 the proofs](#6-the-proofs), [7 the gaps](#7-what-is-not-modelled),
[8 the plan](#8-plan).

## 1. The system

A node is one Node.js process: one JavaScript thread, a libp2p host, an HTTP
server, a mining timer and a directory `data/`. Between two `await`s nothing
interrupts it, so a synchronous method is one atomic step, and an `async`
function is a process that may be interleaved with anything at each `await`.

| component | state | operations | called by |
|---|---|---|---|
| BlockChain (`blockchain.ts`) | `chain`, `tx_pool`, `addr_state` (balance and nonce), `difficulty`, `addr_tx_index` | `add_new_tx`, `mine_block`, `append_single_block`, `replace_chain_from`, the constructor | HTTP API, mining timer, block and transaction gossip, chain sync, process start |
| Transaction, Block (`transaction.ts`, `block.ts`) | none of their own | what is hashed and signed; assembly of a block | BlockChain |
| Storage (`storage.ts`) | `data/chain.json`, `data/chain.json.tmp` | `save_state`, `load_state` | the last call of every method of BlockChain that commits; the constructor |
| P2P (`p2p.ts`) | `bytechain_peers`, `sync_queue`, `syncing_peers`, `is_syncing`, `syncing_mempool_peers`; per sync its position, ancestor and received blocks | chain sync (client and server), block and transaction gossip, mempool sync, 30 s timer | libp2p events, Node |
| Node (`node.ts`, `main.ts`) | none of its own | `POST /tx/send`, `pub_block` every `BLOCK_TIME`, read-only queries | clients, timer |
| Merkle root, proof of work, serialization, keys | none | pure functions (`merkleroot.ts`, `pow.ts`, `serialization.ts`, `crypto.ts`) | Block, Transaction, P2P |
| ByteVM (`vm.ts`, `opcodes.ts`) | operand stack, call frames, exception handlers, globals, `ip` | an interpreter of bytecode | nothing yet: the node does not import it |

How they interact. The API and gossip offer transactions to the pool; the timer
mines the whole pool into a block and publishes it; a peer's block is appended
if it fits on the tip, otherwise the node syncs with the publisher. A sync asks
the peer for its height, searches the last common block by bisection, downloads
what follows and hands it to `replace_chain_from`; `is_syncing` keeps mining and
block gossip out meanwhile. Every commit ends with `save_state`. A restart
keeps the saved chain alone and derives everything else from it.

What makes it hard:

* **Two ways to compute one thing.** Balances, nonces, difficulty and index are
  maintained incrementally when a block is appended, from genesis when a branch
  is adopted or a peer validates the chain, and by a third, unchecked loop
  (`rebuild_account_state`) on a restart. A difference forks the network or
  changes balances at a restart.
* **Derived state that outlives its reason.** Pending transactions were admitted
  against one chain and are mined against another; `mine_block` takes the whole
  pool, so that one transaction that no longer applies stops mining for good.
* **Awaits.** A sync reads the local height, awaits up to dozens of answers from
  a peer whose chain moves as well, and then cuts the chain at the ancestor it
  found. Disconnects clear part of its state in the middle.
* **Order.** A transaction is admitted only when its nonce is the next one, but
  gossip delivers in any order and nothing is sent twice; what a node refused
  comes back, if at all, in an answer about another node's mempool.
* **Failure.** `save_state` throws after everything is committed in memory; the
  process may be killed between two file operations; messages are lost or
  dropped, exchanges time out.
* **One stack.** The virtual machine keeps the frames of all calls on one
  stack, and its handlers on one list; a throw unwinds neither.

What makes each part correct is stated with the properties in section 4. The
list of hazards, each with its line and its properties, is in `PROJECT.json`.

## 2. The modules

| module | models | kind |
|---|---|---|
| `Ledger` | the pure rules: validation, application and replay of blocks, difficulty, fees, pool admission and revalidation, index | operators |
| `BlockChain` | the BlockChain object: state machine over `Ledger` | VARIABLES, one action per method and caller |
| `ChainSelection` | what a node promises: one chain, one durable copy, only longer valid chains | abstract specification |
| `ChainFile` | the steps inside one `save_state`, kills and throws between them, the constructor's choice | state machine, refines `ChainSelection` |
| `ChainSync` | several nodes: connections, block gossip, chain sync at the granularity of awaits | state machine |
| `SyncHistory` | `ChainSync` with the chain of the peer each answer was read from | history variables |
| `MempoolGossip` | several nodes: the wire format, gossip of transactions and blocks, `request_mempool` at the granularity of awaits | state machine over `Ledger` |
| `MerkleRoot`, `BlockBody` | `calc_merkleroot`; whether a block hash determines the block | operators; a property of `BlockChain` |
| `RoundedBalance` | one payer's pool and its mining with numbers that round | state machine |
| `ByteVM` | the interpreter, one instruction a step | state machine, refines `CallFrames` |
| `CallFrames` | what calls promise the functions of a program | abstract specification |
| `Loops` | loops over lists, as functions of the number of turns | operators |
| `LoopProofs`, `LedgerProofs`, `ValidChainProofs`, `BlockChainProofs`, `ChainFileProofs`, `ChainSyncProofs`, `MempoolGossipProofs`, `ByteVMProofs` | | theorems and proofs |
| `MCBlockChain`, `MCChainSync`, `MCSyncHistory`, `MCSyncClaim`, `MCChainFile`, `MCMempoolGossip`, `MCByteVM` | | instances for TLC |

`ChainSelection` is the joint. `BlockChain` shows that a node that validates
against cached state implements it, with a save taken as one step. `ChainFile`
shows that a save may be taken as one step. `ChainSync` and `MempoolGossip` use of
a node what these two show: a chain that changes in one step, to a valid one, and
caches that are a function of it.

**BlockChain.** The variables are the fields of the class; `disk` is the chain
`data/chain.json` holds, `reply` what the caller of the last method was told.
`add_new_tx`, `mine_block`, `append_single_block`, `replace_chain_from` are the
methods with all their guards; `SubmitTx`, `MineBlock`, `ReceiveBlock`,
`SyncBranch` are their callers with every input of a small set, and `Restart` is
a stop followed by the constructor. `saved` is the outcome of `save_state`. A
throw is a branch of the action that leaves the state as the code leaves it: a
`save_state` that throws comes after the commit, so the branch commits.

**Ledger.** A loop over a list is an `Iterate` of `Loops` (a recursive
function), about which the proofs have an induction lemma.
`apply_tx`/`apply_block` are `apply_transactions_to_state` for blocks already
found to apply (`BlockApplies`), `replay_tx`/`replay_block` the unchecked loop
of a restart; that both agree on valid chains is a property, not an assumption.

**ChainFile.** `pc` is how far `save_state` is: before the temporary file is
opened (`open`), opened and truncated (`write`), filled (`rename`). `Throw` and
`Crash` are possible at each point; a throw in the constructor ends the program,
a throw in a method is caught with the chain committed. `Init` is any file an
earlier run, another version or a damage left. A chain on another first block is
one the constructor must refuse (`Foreign`), also a lone first block that has
transactions or another height (`OtherFirst`, `blockchain.ts:46-50`); the empty
genesis block of an older version alone (`OldGenesis`), and a file that does not
parse, it overwrites.

**ChainSync.** `sync[n]` is the position of the running
`perform_sync_remote_chain` of a node: which request it awaits and its local
variables. `StartSync` is its beginning up to the first await; `Serve` is the
peer's handler (it answers from the chain it has at that moment); `Receive` is
one resumption, up to the next await; `FinishSync` is the end of the `finally`
block. `sync_queue` is the chain of promises of `sync_remote_chain`.
`LoseStream` and `Timeout` are the throws of an exchange. `pub_block`,
`receive_block`, `PeriodicSync`, `Identify`, `Disconnect` are the handlers of
those events. **SyncHistory** adds what no node knows: the chain the peer had
when it gave the latest answer (`source`), and whether that chain continues those
of all answers of the round before (`steady`).

**MempoolGossip.** Each node is a chain and a pool of real blocks and
transactions, with the rules of `Ledger`. `serialize_tx`, `serialize_block`,
`deserialize_tx` and `deserialize_block` are what JSON keeps of an object and
what is built from it: a transaction is put together anew from seven fields, so
that whatever else was sent is dropped, and a missing field throws
(`DeserializableTx`, `Deserializable`). `ForeignMessage` and `ForeignAnswer` are
what other versions of the program publish on either topic and answer about
their mempool: no blocks of this version, and transactions with fields missing
or added. `Accepted` is the way of one transaction from the wire into the pool.
`SendTx` is `POST /tx/send` (pool, then publication), `receive_tx`,
`MineBlock` and `receive_block` the other handlers, each with its publication
to any set of nodes. `request[r]` is a running `request_mempool`: it dials
(`request_mempool`), the peer answers from the pool it has at that moment
(`ServeMempool`), the answer is offered transaction by transaction
(`ReadMempool`), and the `finally` block takes the peer off
`syncing_mempool_peers` (`FinishRequest`), which a disconnect may have done
before.

**BlockBody** adds no state: it asks of every block on the chain of `BlockChain`
whether another list of transactions could stand under the same header; the lists
are its parameter (`OtherBodies`), every list there is for the proof. `MerkleRoot`
builds the levels as the code does, with the last node of an odd
level paired with itself.

**RoundedBalance.** `add_new_tx` and `mine_block` again, reduced to one payer and
to the order in which amounts are added and subtracted, each result rounded to
the nearest representable number, the even one of two (`Round`).

**ByteVM.** The variables are the fields of the class, `outcome` is the promise
`run` returns. One turn of the loop is one step: `Refuse` is every check that
throws before an instruction has an effect, `Operate` the instructions that only
work on the top of the stack (`StackResults` to `ObjectResults` say with what
result), and every other instruction is an action. `Raise` is the `catch` of the
loop. Two history variables have no counterpart: `misused` says that a function
took values below its own frame, for which nothing is promised, and `thrown`
where the last step threw.

## 3. What is abstracted

* A hash is collision free: the hash of a block is the contents of all blocks up
  to it. `sealed` says that Merkle root, block hash and proof of work are those
  the contents call for. A signature is valid, invalid or absent.
* Amounts are integers. The unit is such that the dynamic fee is whole.
  `tx_id` covers what the constructor hashes, which does not include the nonce.
* Time is the timestamp of blocks; a new block comes any of `TimeSteps` after
  the last, so that the difficulty goes up and down.
* In `ChainSync` all nodes are honest and a block is the sequence of the miners
  of all blocks up to it. Malformed and invalid answers end a sync the way
  `Refused` and timeouts do.
* In `MempoolGossip` a chain sync is one step, since its awaits are the subject
  of `ChainSync`; balances and difficulty are those of the chain, which
  `BlockChain` shows of the cached ones. A publication reaches any set of nodes,
  each at most once, and messages arrive in any order or never. The fields that
  another version shares with this one have the types of this one.
* In `RoundedBalance` a number has `PRECISION` significant bits in place of 53.
* In `MerkleRoot` a hash is the term that was hashed.
* In `ByteVM` a value is its kind, as far as the control flow tells kinds apart;
  what an operator makes of two numbers, or what an array or a field holds, is
  any value of the kinds it can be. Text that is printed or read is left out.
* In `ChainFile` a rename is atomic and a killed write leaves a file that does
  not parse; the loss of power after a rename that was not synced is outside.

## 4. The runs

All passing runs finish without error. Deadlock is checked in all of them but
`vm`, where programs end and the model stops at a full stack.

**`node_safety`** (`MCBlockChain.cfg`): one node, two users, four transactions
(two payments of one account that fit only one after the other, a repetition, a
payment back), peers' blocks that are honest, unfunded, unsigned or wrong in one
field, branches from every height that are longer, equal or bad, up to four
blocks after genesis, saves that fail, restarts anywhere. 50,830 states. The
bounds suffice for what can go wrong: the fee and difficulty windows (two and
three blocks) are passed by the longest chain, the difficulty reaches both its
bounds and exceeds what can be mined, a reorganisation drops up to four blocks.

| property | says |
|---|---|
| `TypeOK` | types, and the clamp of the difficulty |
| `NoOverdraft` | no account below zero, by any way a chain gets adopted or restored |
| `SupplyConserved` | all balances together are the rewards: fees are neither lost nor made |
| `PoolMineable` | the block `mine_block` would make of the pool always applies |
| `PoolStillAdmissible` | what is pending after a change of chain would be admitted again, in order |
| `ConfirmedNotPending` | blocks and branches clear their transactions from the pool |
| `LedgerIsReplay`, `DifficultyIsReplay` | the incremental state is the one a restart or a peer derives |
| `IndexResolves` | the index kept block by block is the one a restart rebuilds, and that of an account has, in the order of the chain, one entry for each time a transaction names it as sender or recipient, and no other |
| `NoncesCountUp` | a user's confirmed nonces are 1, 2, 3, ...: nothing is confirmed twice or skipped |
| `NoPendingDropped` | a change of chain drops no pending transaction the pool could keep |
| `RootCoversBlock` | no other block has the hash of a block on the chain: a list of transactions that has the same Merkle root and passes `validate_system_transactions` is the block's own |
| `SelectionSpec` | the node implements `ChainSelection` |

For `RootCoversBlock` the lists tried are all that begin as the block does and
go on with up to three of its transactions, in which all that the padding of any
odd level adds (`merkleroot.ts:14`; abcde, abcdee, abcdeee and abcdeeee share a
root) is included for blocks of up to eight transactions.

**`node_liveness`** (`MCBlockChainLive.cfg`): `PendingIsConfirmed`, under weak
fairness of `MineBlock` on a node that stays up and adopts no branch
(`SteadySpec`). A pending transaction of the highest fee does get confirmed,
unless a cheaper one with an earlier nonce of its sender was pending before it,
or another transaction with its nonce or an earlier one is confirmed instead.
Both exceptions are the code's: when a block raises the fee floor, the cheap
nonce 2 is dropped (`blockchain.ts:244`), and the dear nonce 3 behind it is
refused for the gap (`blockchain.ts:260`), however much it pays. The instance
has both: one account pays with the nonces 1, 2 and 3, the second time cheap or
dear, and a peer's block confirms the first one, the first two, or a rival with
the first nonce. 1,876 states. The fairness is the mining timer, `setInterval`
in `main.ts:19`. A reorganisation may confirm something else in its place and is
excluded; the peer leaves the node the last place below the bound of the chain,
since in the code there is always a next block.

**`sync_line`** (`MCSyncLine.cfg`, `SyncHistory`): three nodes in a line with
chains of 2, 3 and 5 blocks, batches of one block; while the first fetches the
chain of the second, the second mines, or replaces its chain by that of the
third, between any two answers. 1,017,203 states.
`AnswersComplete`: a peer whose chain is replaced still answers every request it
promised to. `FollowsPeer`: what a node adopts is never put together from two
chains its peer had, and if the peer only appended blocks during a round, the
bisection finds where the chains part, no batch is refused, and the round ends
with all that the peer had promised.

**`sync_live`** (`MCSyncLive.cfg`): two nodes on a fork, gossip that reaches the
other or does not, one connection lost or one exchange timed out at any point.
67,344 states. `SyncingFlag`: the flag is up exactly while a sync runs, although
a disconnect clears `syncing_peers` in the middle. `BasisHolds`: what a sync read
about its own chain before an await is true after it, so that the branch
`p2p.ts:406` is never taken. `SyncEnds`: every sync ends. `HeightsConverge`: once
mining stops, linked nodes come to the same height. Fair
are discovery and identification (mDNS repeats every 20 s), the 30 s timer
(`p2p.ts:210`), the queue of promises, answers of connected peers, the reading
of an answer, the failure of a read on a lost stream and the closing of a
stream; timeouts, losses, gossip and mining are not fair. Equal heights with
different tips are kept (`p2p.ts:352`), so nothing more than the heights can
converge. Answers of connected peers being fair, a sync with a peer that stays
connected and never answers is not in this run: what ends it is the 15 s timeout
of the exchange, which the model has at every point, but not as something that
must happen. With two nodes, the blocks that a syncing node drops are those of
the peer it syncs with; three nodes with a queue that has room for both peers
are too many states for a liveness check.

**`file_safety`** (`MCChainFile.cfg`): chains of up to three blocks over two
blocks and three first blocks, every file an earlier run may have left. 387
states. `FileReadable`: while the program runs, `chain.json` is complete at every
instant. `ForeignKept`: the chain of another network is never overwritten; a
file that does not parse and a lone empty genesis block of an older version
are, in the code as in the model. `SavesAtomic`: a save is one step of
`ChainSelection`.

**`gossip`** (`MCMempoolGossip.cfg`): two nodes, one that clients post to and one
that mines; three payments of one account, whose fees suffice or not as the
chain grows; two requests at a time; a lost connection, a timeout, a restart or
a message or answer of another version at any point. 357,539 states.
`TypeOK`: pools and chains hold transactions with the fields of this version and
no others, although a transaction with a field more arrives by gossip and in an
answer, and one with a field less beside it.
`FlagHasRequest`: a peer is marked as being asked only while a request to it
runs, so that none is barred for good. `GossipedBlockFits`: a block that reaches
a node whose tip is its parent can be appended there, after serialization and
whatever is pending; one block is mined in this run, so no order among blocks is
exercised, which the proof covers. `MempoolHealsGaps`: a transaction that was
refused because it overtook another comes back with the answer of a peer on the
same chain, in order: if all that is pending at the reader is in the answer,
then all that is in the answer is pending after it. Three payments against
answers of two make the case where an answer is cut off. The property compares
whole transactions: ids leave the nonce out (section 5), so that a reader with
the same id under another nonce holds another transaction.

**`vm`** (`MCByteVM.cfg`): every list of three instructions of a vocabulary with
jumps into the middle of others, every operator on operands of six kinds, every
function of three instructions called with none, two or four arguments on a
stack of three, every list of three instructions that lead forward, in front of
a function that throws, and programs as a compiler would make them, with nested
calls, nested try blocks, exceptions in called functions, and a function that
calls itself in a try block and returns from a catch. 67,972 states.
`FramesNested`: frames lie one above the other. `FramesKeptApart`: the stack
implements `CallFrames`, so a function changes no caller's values.
`Aligned`: in a compiled program no operand is ever taken for an opcode.
`TryProtects`: in a structured program what is thrown in a try block is caught
by the innermost one around it, although a caught exception leaves a stale
handler behind. Around it means by its address, which is all that
`findExceptionHandler` knows: what a function throws outside of its own blocks
is not caught by those of its caller, and ends the program. `Compiled` and
`Structured` are what a compiler would give the interpreter, stated as
assumptions of `ByteVM`: jumps and handlers lead to instructions; blocks extend
from a TRY_BEGIN to a TRY_END, no jump crosses their ends, a catch lies outside
of its block, functions begin outside of all. For programs that are not
structured `TryProtects` is false: one that jumps into a block finds no
handler.
`ForwardProgramsEnd`: a compiled program that only leads forward ends, under weak
fairness of the loop itself. To lead forward (`LeadsForward`) is more than to
jump and call forward only: a catch has to lie behind the end of its block as
well. A block whose end lies behind its own catch covers it, and what the catch
throws is caught by it for ever (`vm.ts:112`). Nor is the program counter what
decreases: an exception leaves the calls it interrupts under way, and a later
RET returns into them (`vm.ts:260`), with the handlers of the first time still
on the list.

Bounds with no counterpart in the code: `MaxChain`, `MaxHeight` and `MaxLen` cap
the length of chains, `MaxQueue` the queued syncs (an event that would queue one
more waits), `MaxFaults` losses, timeouts and the like, `Slots` the mempool
requests at a time, `MaxPool` a pool, `MaxStack`, `MaxCalls` and `MaxHandlers` the
stacks of the virtual machine. `SYNC_BATCH_SIZE` (32), `MAX_ROUNDS` (16) and
`MEMPOOL_LIMIT` (1000) are constants of the code, made small so that a download
needs several batches, a sync may use up its rounds, and an answer may be cut.

Every property of a passing run has a mutant in `PROJECT.json`: a plausible bug
in one operator, defined beside it, under which TLC finds the property violated.

## 5. Where the code and its words disagree

Each of these runs checks one statement of a document or a message, and TLC
shows an execution of the modelled code that contradicts it.

| run | statement | what the code does |
|---|---|---|
| `claim_balance` | `README.md:18`: the sender's balance is immediately reduced | only mining changes balances; the pool reserves |
| `claim_duplicate` | `blockchain.ts:237`: refused because already in the mempool | `tx_id` is computed before the nonce is assigned (`transaction.ts:32`), so a second equal payment with the next nonce is taken for the first |
| `claim_forgotten` | `README.md:14`: held until included | a reorganisation forgets the transactions of the blocks it drops |
| `claim_recheck` | `p2p.ts:258`: the sync loop will re-check the peer height | a block published after the last answer of the peer is dropped and the sync ends without asking again; the next block or timer repairs it |

| `claim_mining` | `README.md:81`: nodes continuously mine the valid transactions of their pool | with rounding numbers the pool admits payments that no block can hold together, see below |

`claim_mining` (`RoundedBalance`, `MCMiningClaim.cfg`) is about
`blockchain.ts:261`. The pool compares a payment with the balance minus the sum
of what is pending, `apply_transactions_to_state` subtracts payment by payment,
and doubles round the two differently. TLC finds a counterexample with numbers
of three significant bits; in doubles, a balance of 32.0 and payments of 4.0,
6.9, 0.1 and 20.6 with a fee of 0.1 each are all admitted, after which
`mine_block` throws at every turn of the timer, because it takes the whole pool.
With exact amounts this cannot happen, which is what `PoolMineable` says and
section 6 proves.

## 6. The proofs

`tlapm` proves the following for every set of users and transactions, every
reward, window, difficulty bound, and every offer of peers.

**One node** (`BlockChainProofs`): `TypeCorrect`, `NeverOverdrawn`,
`CachedLedgerCorrect`, `CachedDifficultyCorrect`, `NeverPendingTwice`,
`NoncesAlwaysCountUp`, `PoolStaysAdmissible`, `PoolAlwaysMineable`,
`PendingNeverDropped`, `SupplyIsConserved`, `IndexAlwaysResolves`,
`HashCoversBlock` and `ImplementsSelection` (`Spec => SelectionSpec`). They rest
on one inductive invariant, `Inv`: the chain in memory and the chain on disk are
valid from the genesis block, and balances, difficulty and address index are
those the chain determines. None of the theorems is inductive alone: that no
balance is negative follows from the ledger being the ledger of a valid chain;
that an appended block makes a valid chain follows because it was validated on
that ledger and that difficulty; that a restart keeps all this needs the chain
on disk to be valid, too. The lemmas: `ValidChainAppend` (a block that passes
`validate_next_block` on the ledger of a valid chain extends it),
`LedgersOfAppend` and `DifficultiesOfAppend` (incremental equals from genesis),
`RebuildIsLastLedger` (the unchecked replay equals the checked application on
valid chains), `NewBlockValid` (a mined block passes the validation of peers),
`ValidChainNonces` (on a valid chain the nonce of an account is the number of
its transactions so far). `LoopProofs` has the lemmas on `Iterate`: that it is
the function its definition asks for, an induction over the turns, and the sums
a loop adds up.

`SupplyIsConserved` follows the sum of all balances through a block. A payment
moves its amount and takes the fee from the sum, the reward adds
`BLOCK_REWARD`, and the fee transaction, which `validate_system_transactions`
compares with the fees of the block (`blockchain.ts:308`), gives the fees back;
within the block the sum is the supply less the fees taken so far.
`IndexAlwaysResolves` has the index of an account be the list of the places that
name it (sender before recipient, in the order of the chain), so that an entry
missing and another double cannot make up for each other. It needs that the
index kept block by block is the one `rebuild_index` makes of the chain, which
`Inv` says, and an induction over the blocks and their transactions.

The theorems on the pool need two more inductive facts (`PoolStep`, `FileStep`):
the pool is admissible in its own order, and the file never holds a longer chain
than the memory, so that a restart is no growth. `PoolLedger` then follows the
balances while the block is applied: after the first i transactions of the pool
an account has counted its own among them and paid at most what was reserved for
them, so the next one applies. `NoneDropped` is why revalidation loses nothing:
a transaction refused in its turn could be admitted in the end only if another
of its sender with the nonce it lacks had been taken after it, and in an
admissible pool the nonces of one sender grow (`PoolOrder`).

`HashCoversBlock` is about the Merkle root, and every list of transactions
(`OtherBodies` is any operator). Two lists share a root only if one begins with
the other: as long as the lists have different lengths, the levels above them
agree wherever both have nodes (`TowersAgree`), so that the shorter list is the
beginning of the longer one (`SameRoot`). And `validate_system_transactions` takes
no two such lists: the shorter one ends with the reward and the fee transaction,
which the longer one has in among the ordinary transactions, where the sender
`BC_NAME` is refused (`NoLongerBody`).

**The chain file** (`ChainFileProofs`): `AlwaysReadable`,
`ForeignNeverOverwritten`, `SavesAreAtomic`, `TypeCorrect`. The invariant adds
that the temporary file is complete when it is renamed, that the constructor
saves what it read and did not refuse, and that a method saves a longer chain.

**The network** (`ChainSyncProofs`), for every network, restored chains, batch
size, number of rounds and number of faults: `TypeCorrect`, `FlagCorrect`
(`SyncingFlag`), `BasisAlwaysHolds` (`BasisHolds`), `SyncFollowsPeer`
(`FollowsPeer`), `AnswersAreComplete` (`AnswersComplete`). The invariant says
per node how its sync, the flag, the peer in `syncing_peers`, the answer under
way and its own chain fit together (`NodeInv`): the flag is right because
`syncing_peers` never holds another peer than that of the running sync, and the
basis of a sync holds because nothing but the sync changes the chain while the
flag is up. A step touches one node, so `OneNode` reduces every action to that
node. The answers need a second invariant (`PeerInv`) across two nodes: what a
peer has promised stays true because its chain only grows, which is what every
step of the first invariant says (`ChainStep`).

`SyncFollowsPeer` needs a third (`SourceInv`), about what a running sync knows
of the chain its latest answer was read from: that the answer under way tells
the truth about it (`Tells`), and, as long as the answers continue each other,
that it shares the ancestor found so far and that the blocks received are the
part of it above the ancestor (`Fits`). Two linked chains that have the same
block at a height agree below it (`LinkedAgree`), so that the bisection never
misjudges a half. The other part of the property takes no such steadiness: a
candidate that passes the check of links is, by its last block, the beginning of
the chain that block was read from (`CandidateJoined`), whatever chains the
earlier batches were read from.

**Gossip** (`MempoolGossipProofs`), for every network, set of clients, miners
and transactions: `TypeCorrect`, `NoPeerBarred` (`FlagHasRequest`), `BlocksFit`
(`GossipedBlockFits`), `GapsAreHealed` (`MempoolHealsGaps`). `TypeCorrect` says
that what `deserialize_tx` returns is a transaction of this version, whatever
fields the messages and answers of others have. A block on its way
was valid on some valid chain, and its `prev_hash` determines that chain: a node
whose tip has this hash holds the same chain, hence the same balances and
difficulty, and finds the block as valid. That one request's end leaves
another's mark alone, or removes it with a request still running, is a matter of
which requests a node has with a peer.

`GapsAreHealed` needs two more inductive facts: every pool is admissible in its
own order on its chain (`PoolsOK`), and an answer under way was admissible on
the chain it was given on (`AnswersOK`), however the limit of an answer cut it,
since the beginning of an admissible list is one (`PrefixOK`). The reader offers
the transactions of the answer one by one. Those it holds already are refused as
duplicates; the next one it does not hold (`NextTaken`) has the next nonce of
its sender, since the nonces of a sender in an admissible list are consecutive
(`ConsecutiveNonces`) and what the reader holds is part of the list, and the
sender can pay for it, since what is reserved for the sender are transactions of
the list with smaller nonces (`CostByNonce`), in whatever order they arrived.

**The virtual machine** (`ByteVMProofs`), for every set of programs:
`TypeCorrect`, `FramesAreNested` and `FramesStayApart` (`FramesKeptApart`) for
programs well formed or not, `AlwaysAligned` (`Aligned`) for all compiled and
`TriesProtect` (`TryProtects`) for all structured ones. Nesting is inductive
together with the types and the fact that no frame begins below the stack: a
frame pointer below zero, with which a return fails half way (`ReturnFails`), is
the fault of a program that took values from outside of its frame.
`FramesStayApart` maps each instruction to a step of `CallFrames`: one that
works above the frame pointer changes the last frame alone (`WorkStep`), a call
splits it in two (`CallStep`), a return joins the caller's frame and the result
(`ReturnStep`); `SliceOfSlice` and `Monotone` say which part of the stack a
frame is. Alignment is inductive together with the addresses the program may
come back to: return addresses and the catches of handlers (`AlignInv`).

For `TriesProtect` the invariant relates the addresses of all calls under way to
the list of handlers (`TryInv`). A call that is under way at an address is in
the blocks around that address; these *active* blocks, ordered by call and then
by address, have handlers on the list at increasing places, with stale ones
between and behind them (`OnList`). TRY_BEGIN adds the last active block at the
end of the list (`OnListLonger`). TRY_END removes the last handler, whosever it
is, and the last active block, so that at most the place of that one is lost
(`OnListShorter`): if what is removed is a stale handler, the block's own stays
behind as another one, and harms nobody. Returns and exceptions remove active
blocks and no handlers (`OnListSmaller`). So every block around the address of
an exception has a handler, and the one that `findExceptionHandler` takes, which
starts last, is that of the innermost block (`CaughtByInnermost`). The invariant
by program counter alone, without the calls, is not inductive: the blocks of a
caller would be lost to the TRY_ENDs of the functions it calls.

Assumptions are the named ASSUMEs of the modules (addresses are distinct,
windows positive, bounds in order, no block of another version deserializable,
the seven fields of another version's transactions of their types, restored
chains valid, compiled and structured programs what their names say). TLC
evaluates each of them in a passing run.

Only model-checked is liveness (`PendingIsConfirmed`, `SyncEnds`,
`HeightsConverge`, `ForwardProgramsEnd`): it needs fairness and ENABLED, which
are out of the prover's reach. Every invariant and every action property of a
passing run is stated by a theorem.

## 7. What is not modelled

* `stop()` and the handler of SIGINT: they end the process, as `Restart` and
  `Crash` do at every point.
* The search of `proof_of_work`, keys and signatures, the text of JSON: pure
  functions, reduced to flags and fields.
* `sync_chain`, `calc_difficulty`, `ensure_account`, `update_nonce`,
  `credit_addr`, `debit_addr`, `is_valid_tx`: no caller in the repository.
* Amounts that are not exact: `SupplyConserved`, `PoolMineable` and what they rest
  on are about integers. What rounding does to the pool is `RoundedBalance`; what
  it does to the supply is not modelled.
* A sync with a peer that stays connected and never answers ends by the timeout
  of its exchange; that it must is not shown (see `sync_live`). Nor is
  convergence with blocks of a third node dropped during a sync.
* The growth of `sync_queue` without bound behind a slow peer (`p2p.ts:210`).
* A chain that reached `MAX_DIFFICULTY` (100): a hash has 64 digits
  (`constants.ts:11`), so a node there mines nothing. `mine_block` is rejected
  in the model as well, and nothing says it should not be.
* The growth of the stacks of the virtual machine when a loop catches exceptions
  (`vm.ts:563`), which the bounds hide, and the line reader that INPUT leaves open
  when a run is rejected.
* Expected behaviour of proof of work and adjusted difficulty over time.

## 8. Plan

1. A composition of `ChainSync` and `ChainFile`: a node that restarts from an
   older chain during a sync of its peer.
2. The safety half of the liveness properties as theorems: what decreases with
   every step of a sync, and with every step of a forward program, where the
   addresses the calls under way return to count besides that of the program
   counter.
3. `RoundedBalance` for every precision: amounts that are multiples of one unit
   and sum up to less than the precision never round, so that its pool is always
   mineable.
