----------------------------- MODULE MerkleRoot ----------------------------
(***************************************************************************)
(* The root a block header carries for its transactions                    *)
(* (src/src/core/merkleroot.ts).  A hash is the term that was hashed.      *)
(***************************************************************************)
EXTENDS Integers, Sequences

EmptyRoot == <<"empty">>

\* A level with an odd number of nodes counts its last one twice.
Paired(level) ==
    IF Len(level) % 2 = 0 THEN level ELSE Append(level, level[Len(level)])

NextLevel(level) ==
    LET nodes == Paired(level)
    IN  [i \in 1..Len(nodes) \div 2 |-> <<nodes[2 * i - 1], nodes[2 * i]>>]

Shrunk(level) == IF Len(level) > 1 THEN NextLevel(level) ELSE level

\* Levels(data_arr)[k] is what k turns of the loop leave of the leaves; every
\* level but the last is shorter than the one below it.
Levels(data_arr) ==
    LET n == Len(data_arr)
        level[k \in 0..n] ==
            IF k = 0 THEN [i \in 1..n |-> <<data_arr[i]>>]
            ELSE Shrunk(level[k-1])
    IN  level

calc_merkleroot(data_arr) ==
    LET n == Len(data_arr)
    IN  IF n = 0 THEN EmptyRoot ELSE Levels(data_arr)[n][1]

=============================================================================
