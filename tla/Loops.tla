-------------------------------- MODULE Loops --------------------------------
(***************************************************************************)
(* What a loop over a list makes of a value, as a function of the number   *)
(* of turns, rather than a fold of the community modules: the proofs can   *)
(* reason about what holds after each turn.                                *)
(***************************************************************************)
EXTENDS Integers, Sequences

\* Iterate(turn, start, n)[i] is what a loop, whose i-th turn is the function
\* turn[i], has made of start after i turns.
Iterate(turn, start, n) ==
    LET after[i \in 0..n] == IF i = 0 THEN start ELSE turn[i][after[i-1]]
    IN  after

SumSeq(s) ==
    Iterate([i \in 1..Len(s) |-> [sum \in Int |-> sum + s[i]]],
            0, Len(s))[Len(s)]

=============================================================================
