--------------------------- MODULE RoundedBalance --------------------------
(***************************************************************************)
(* Balances and amounts are JavaScript numbers.  add_new_tx subtracts what *)
(* a sender has reserved from the balance at once, the block applies the   *)
(* same payments one by one (src/src/core/blockchain.ts), and floating     *)
(* point rounds the two differently.  One sender pays into its node's      *)
(* pool, and the node mines.  Everything but the arithmetic is the subject *)
(* of BlockChain, where amounts are integers.                              *)
(*                                                                         *)
(* A number is an integer multiple of the smallest unit with at most       *)
(* PRECISION significant bits (a double has 53).                           *)
(***************************************************************************)
EXTENDS Integers, Sequences

CONSTANTS
    PRECISION,
    Amounts, Fees,    \* of the transactions clients submit
    Balance,          \* what the sender has at first
    MaxPool           \* bound on the length of the pool

VARIABLES balance, tx_pool

vars == <<balance, tx_pool>>

-----------------------------------------------------------------------------

\* The bits of m beyond the significand.
Excess(m) ==
    CHOOSE e \in 0..m : /\ m < 2^(PRECISION + e)
                        /\ e > 0 => m >= 2^(PRECISION + e - 1)

\* The representable number nearest to x, the even one of two.
Round(x) ==
    LET m == IF x < 0 THEN -x ELSE x
        unit == 2^Excess(m)
        down == m \div unit
        rest == 2 * (m % unit)
        up == rest > unit \/ (rest = unit /\ down % 2 = 1)
        nearest == (IF up THEN down + 1 ELSE down) * unit
    IN  IF x < 0 THEN -nearest ELSE nearest

cost(tx) == Round(tx.amount + tx.fee)

\* The sum of the loop of add_new_tx over the first i pending transactions.
reserved[i \in 0..Len(tx_pool)] ==
    IF i = 0 THEN 0 ELSE Round(reserved[i-1] + cost(tx_pool[i]))

\* The sender's balance after the first i transactions of the block.
paid[i \in 0..Len(tx_pool)] ==
    IF i = 0 THEN balance ELSE Round(paid[i-1] - cost(tx_pool[i]))

\* apply_transactions_to_state does not throw.
PoolApplies == \A i \in 1..Len(tx_pool) : paid[i-1] >= cost(tx_pool[i])

-----------------------------------------------------------------------------

Init ==
    /\ balance = Balance
    /\ tx_pool = <<>>

add_new_tx ==
    \E amount \in Amounts, fee \in Fees :
        LET tx == [amount |-> amount, fee |-> fee]
        IN  /\ Len(tx_pool) < MaxPool
            /\ cost(tx) <= Round(balance - reserved[Len(tx_pool)])
            /\ tx_pool' = Append(tx_pool, tx)
            /\ UNCHANGED balance

mine_block ==
    /\ PoolApplies
    /\ balance' = paid[Len(tx_pool)]
    /\ tx_pool' = <<>>

Next == add_new_tx \/ mine_block

Spec == Init /\ [][Next]_vars

-----------------------------------------------------------------------------

\* README.md:81: nodes continuously mine blocks of the transactions in their
\* pool.  mine_block, which takes the whole pool, never throws for what
\* add_new_tx (blockchain.ts:261) let in.
PoolIsMined == PoolApplies

=============================================================================
