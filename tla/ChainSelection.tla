--------------------------- MODULE ChainSelection ---------------------------
(***************************************************************************)
(* What a node promises about its chain, whatever it caches: it holds one  *)
(* chain and one durable copy; it adopts only a strictly longer chain that *)
(* is valid from the genesis block on, and the durable copy becomes that   *)
(* chain or stays (the write failed); a restart goes back to the durable   *)
(* copy, which is never lost.                                              *)
(***************************************************************************)
EXTENDS Sequences, Integers

CONSTANTS
    Genesis,   \* the block every chain starts with
    Valid(_)   \* the chains that keep the rules

VARIABLES chain, durable

vars == <<chain, durable>>

Init ==
    /\ chain = <<Genesis>>
    /\ durable = chain

Adopt ==
    /\ Len(chain') > Len(chain)
    /\ chain'[1] = Genesis
    /\ Valid(chain')
    /\ durable' \in {durable, chain'}

Recover ==
    /\ chain' = durable
    /\ UNCHANGED durable

Next == Adopt \/ Recover

Spec == Init /\ [][Next]_vars

=============================================================================
