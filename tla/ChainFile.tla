------------------------------ MODULE ChainFile -----------------------------
(***************************************************************************)
(* How a node keeps its chain on disk (src/src/utils/storage.ts) and what  *)
(* the BlockChain constructor makes of it.  save_state writes a temporary  *)
(* file and renames it over chain.json; the process may stop, and a call   *)
(* may throw, between any two effects on the file system.  BlockChain      *)
(* takes a save as one step; the refinement of ChainSelection shows why it *)
(* may.                                                                    *)
(*                                                                         *)
(* A chain is a sequence of blocks (model values).  The file system is     *)
(* external: a write may be torn by the end of the process, a rename is    *)
(* atomic.                                                                 *)
(***************************************************************************)
EXTENDS Integers, Sequences

CONSTANTS
    Genesis,       \* the canonical genesis block
    OldGenesis,    \* the empty block at height 0 of an older version
    OtherFirst,    \* a first block with transactions or another height
    Blocks,        \* blocks that can be mined or adopted
    MaxLen         \* bound on the length of a chain

Firsts == {Genesis, OldGenesis, OtherFirst}

ASSUME ChainFileAssumption ==
    /\ Genesis \notin {OldGenesis, OtherFirst} /\ OldGenesis # OtherFirst
    /\ Firsts \cap Blocks = {}
    /\ MaxLen \in Nat \ {0}

VARIABLES
    chain_file, chain_tmp_file,
    chain,      \* this.chain, while the process is up
    before,     \* this.chain before the method that is saving changed it
    booting,    \* the constructor is running
    pc          \* how far save_state is, or "up" or "down"

vars == <<chain_file, chain_tmp_file, chain, before, booting, pc>>

Absent == [kind |-> "absent"]
Torn   == [kind |-> "torn"]       \* JSON.parse throws
State(c) == [kind |-> "state", chain |-> c]

Chain == {c \in Seq(Blocks \cup Firsts) : c # <<>>}
IsChain(c) == c \in Chain
File  == {Absent, Torn} \cup [kind: {"state"}, chain: Chain]

-----------------------------------------------------------------------------

\* No process runs.  The file is what an earlier run, or another version of
\* the program, left, or damaged.
Init ==
    /\ chain_file \in {Absent, Torn} \cup
          {State(c) : c \in UNION {{<<g>>} \cup {<<g, b>> : b \in Blocks} :
                                      g \in Firsts}}
    /\ chain_tmp_file \in {Absent, Torn}
    /\ chain = <<Genesis>>
    /\ before = <<Genesis>>
    /\ booting = FALSE
    /\ pc = "down"

\* Mutant of Restored: an empty chain is restored like any other.
Restored_empty(file) ==
    IF file.kind = "state" /\ file.chain[1] = Genesis THEN file.chain
    ELSE IF file.kind = "state" THEN <<Genesis>> ELSE <<>>

\* load_state, and the chain the constructor takes: the one of the file, or a
\* fresh one if the file has none, or no more than an older genesis block.
Restored(file) ==
    IF file.kind = "state" /\ file.chain[1] = Genesis THEN file.chain
    ELSE <<Genesis>>

\* A chain on another first block, unless it is an old genesis block alone.
Foreign(file) ==
    /\ file.kind = "state"
    /\ file.chain[1] # Genesis
    /\ file.chain # <<OldGenesis>>

\* Mutant of Boot: a foreign chain is replaced like a damaged file.
Boot_fresh ==
    /\ pc = "down"
    /\ chain' = Restored(chain_file)
    /\ before' = chain'
    /\ booting' = TRUE
    /\ pc' = "open"
    /\ UNCHANGED <<chain_file, chain_tmp_file>>

\* The constructor restores the chain and saves it, or throws if it is
\* foreign: then the program ends at once.
Boot ==
    /\ pc = "down"
    /\ IF Foreign(chain_file)
       THEN UNCHANGED <<chain, before, booting, pc>>
       ELSE /\ chain' = Restored(chain_file)
            /\ before' = chain'
            /\ booting' = TRUE
            /\ pc' = "open"
    /\ UNCHANGED <<chain_file, chain_tmp_file>>

\* A method replaces the chain by c, which is longer, and calls save_state.
Commit(c) ==
    /\ pc = "up"
    /\ Len(c) > Len(chain)
    /\ chain' = c
    /\ before' = chain
    /\ pc' = "open"
    /\ UNCHANGED <<chain_file, chain_tmp_file, booting>>

-----------------------------------------------------------------------------
(* save_state *)

\* Mutant of Open: chain.json is written in place.
Open_in_place ==
    /\ pc = "open"
    /\ chain_file' = Torn
    /\ pc' = "write"
    /\ UNCHANGED <<chain_tmp_file, chain, before, booting>>

\* writeFileSync truncates the temporary file ...
Open ==
    /\ pc = "open"
    /\ chain_tmp_file' = Torn
    /\ pc' = "write"
    /\ UNCHANGED <<chain_file, chain, before, booting>>

\* Mutant of Write: the old file is removed to make room for the new one.
Write_unlinks ==
    /\ pc = "write"
    /\ chain_tmp_file' = State(chain)
    /\ chain_file' = Absent
    /\ pc' = "rename"
    /\ UNCHANGED <<chain, before, booting>>

\* ... and fills it.
Write ==
    /\ pc = "write"
    /\ chain_tmp_file' = State(chain)
    /\ pc' = "rename"
    /\ UNCHANGED <<chain_file, chain, before, booting>>

\* renameSync, and the method or the constructor returns.
Rename ==
    /\ pc = "rename"
    /\ chain_file' = chain_tmp_file
    /\ chain_tmp_file' = Absent
    /\ booting' = FALSE
    /\ pc' = "up"
    /\ UNCHANGED <<chain, before>>

Saving == pc \in {"open", "write", "rename"}

\* A call of save_state throws.  A method catches it with the chain committed
\* in memory; nothing catches it in the constructor, and the program ends.
Throw ==
    /\ Saving
    /\ pc' = IF booting THEN "down" ELSE "up"
    /\ booting' = FALSE
    /\ UNCHANGED <<chain_file, chain_tmp_file, chain, before>>

\* The process is killed.
Crash ==
    /\ pc # "down"
    /\ pc' = "down"
    /\ booting' = FALSE
    /\ UNCHANGED <<chain_file, chain_tmp_file, chain, before>>

Next ==
    \/ Boot
    \/ \E c \in {<<Genesis>> \o s :
                    s \in UNION {[1..n -> Blocks] : n \in 1..MaxLen-1}} :
          Commit(c)
    \/ Open \/ Write \/ Rename
    \/ Throw
    \/ Crash

Spec == Init /\ [][Next]_vars

-----------------------------------------------------------------------------
(* Properties *)

\* Every variable has its type; no chain is empty.
TypeOK ==
    /\ chain_file \in File
    /\ chain_tmp_file \in File
    /\ chain \in Chain /\ chain[1] = Genesis
    /\ before \in Chain /\ before[1] = Genesis
    /\ booting \in BOOLEAN
    /\ pc \in {"down", "up", "open", "write", "rename"}
    /\ booting => Saving

\* The constructor has returned, and the process still runs.
Running == pc = "up" \/ (Saving /\ ~ booting)

\* Once the constructor has returned, chain.json is at every instant the
\* complete chain of some save on the canonical genesis block, so that no
\* crash makes load_state start fresh (storage.ts:68).
FileReadable ==
    Running =>
        chain_file.kind = "state" /\ chain_file.chain[1] = Genesis

\* The chain of another network is left as it is, as the message of the
\* constructor asks the operator to migrate it (blockchain.ts:54).  An empty
\* old genesis block alone is replaced on purpose (blockchain.ts:51).
ForeignKept == [][Foreign(chain_file) => chain_file' = chain_file]_vars

\* What a restart would find.
Durable == Restored(chain_file)

\* What the node holds, a method that is saving not being over yet.
Held == IF pc = "up" THEN chain ELSE IF Running THEN before ELSE Durable

\* A save is one step of ChainSelection: what the node holds and what a
\* restart would find change together, or only the first does, and a crash at
\* any point of a save goes back to the second.
Selection == INSTANCE ChainSelection
                 WITH chain <- Held, durable <- Durable, Valid <- IsChain
SavesAtomic == [][Selection!Next]_(Selection!vars)

=============================================================================
