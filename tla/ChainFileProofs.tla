--------------------------- MODULE ChainFileProofs --------------------------
(***************************************************************************)
(* Proofs about ChainFile: a save that is killed or throws at any point    *)
(* behaves as one step of ChainSelection.                                  *)
(***************************************************************************)
EXTENDS ChainFile, TLAPS

\* What the steps of save_state rely on: a rename finds the file complete, the
\* constructor saves what it has read and has not refused, and a method saves a longer chain.
SaveInv ==
    /\ pc = "rename" => chain_tmp_file = State(chain)
    /\ booting => chain = Durable /\ ~ Foreign(chain_file)
    /\ Saving /\ ~ booting => Len(chain) > Len(before)

Inv == TypeOK /\ FileReadable /\ SaveInv

-----------------------------------------------------------------------------

\* The chain a file restores is one on the canonical genesis block.
LEMMA RestoredChain ==
    ASSUME NEW file \in File
    PROVE  Restored(file) \in Chain /\ Restored(file)[1] = Genesis
BY DEF Restored, File, Chain, Absent, Torn, Firsts

\* The chains Commit takes are chains on the canonical genesis block.
LEMMA CommittedChain ==
    ASSUME NEW n \in 1..MaxLen-1, NEW s \in [1..n -> Blocks]
    PROVE  <<Genesis>> \o s \in Chain /\ (<<Genesis>> \o s)[1] = Genesis
<1>1. n \in Nat /\ s \in Seq(Blocks) BY ChainFileAssumption
<1>2. <<Genesis>> \in Seq(Blocks \cup Firsts) BY DEF Firsts
<1>3. s \in Seq(Blocks \cup Firsts) BY <1>1
<1>. QED  BY <1>2, <1>3 DEF Chain

\* The invariant holds before the first start.
LEMMA InitInv == Init => Inv
<1>. SUFFICES ASSUME Init PROVE Inv
  OBVIOUS
<1>1. ASSUME NEW g \in Firsts
      PROVE  <<g>> \in Chain /\ \A b \in Blocks : <<g, b>> \in Chain
  BY DEF Chain
<1>2. Absent \in File /\ Torn \in File
  BY Zenon DEF File
<1>3. \A c \in Chain : State(c) \in File
  BY DEF File, State
<1>4. chain_file \in File
  <2>1. ASSUME NEW g \in Firsts,
               NEW c \in {<<g>>} \cup {<<g, b>> : b \in Blocks}
        PROVE  c \in Chain
    BY <1>1, Zenon
  <2>2. CASE chain_file \in {Absent, Torn}
    BY <1>2, <2>2, Zenon
  <2>3. CASE chain_file \notin {Absent, Torn}
    <3>1. PICK c \in UNION {{<<g>>} \cup {<<g, b>> : b \in Blocks} :
                               g \in Firsts} :
               chain_file = State(c)
      BY <2>3, Zenon DEF Init
    <3>2. c \in Chain
      BY <2>1, Zenon
    <3>. QED  BY <1>3, <3>1, <3>2, Zenon
  <2>. QED  BY <2>2, <2>3
<1>5. ~ Running /\ ~ Saving /\ pc # "rename" /\ ~ booting
  BY DEF Init, Running, Saving
<1>6. <<Genesis>> \in Chain
  BY <1>1 DEF Firsts
<1>7. TypeOK
  BY <1>2, <1>4, <1>5, <1>6 DEF Init, TypeOK
<1>. QED  BY <1>5, <1>7 DEF Inv, FileReadable, SaveInv

\* What a step does to a state that satisfies the invariant: it keeps the
\* invariant and a foreign file, and is a step of ChainSelection or stutters.
StepOK ==
    /\ Inv'
    /\ Foreign(chain_file) => chain_file' = chain_file
    /\ Selection!Next \/ UNCHANGED Selection!vars

\* Every step of the node or its file system is such a step.
LEMMA Step == Inv /\ [Next]_vars => StepOK
<1>. SUFFICES ASSUME Inv, [Next]_vars PROVE StepOK
  OBVIOUS
<1>. USE DEF Inv, TypeOK, FileReadable, SaveInv, Saving, Running
<1>0. Durable \in Chain /\ Durable[1] = Genesis
  BY RestoredChain DEF Durable
<1>1. CASE Boot
  <2>1. Held' = Held /\ Durable' = Durable
    BY <1>1 DEF Boot, Held, Durable
  <2>2. Inv'
    BY <1>0, <1>1 DEF Boot, Durable, Foreign
  <2>. QED  BY <1>1, <2>1, <2>2 DEF Boot, StepOK, Selection!vars
<1>2. ASSUME NEW n \in 1..MaxLen-1, NEW s \in [1..n -> Blocks],
             Commit(<<Genesis>> \o s)
      PROVE  StepOK
  <2>1. Held' = Held /\ Durable' = Durable
    BY <1>2 DEF Commit, Held, Durable
  <2>2. chain' \in Chain /\ chain'[1] = Genesis
    BY <1>2, CommittedChain DEF Commit
  <2>3. Inv'
    BY <1>2, <2>2 DEF Commit, Foreign
  <2>. QED  BY <2>1, <2>3, <1>2 DEF Commit, StepOK, Selection!vars
<1>3. CASE Open
  <2>1. Held' = Held /\ Durable' = Durable
    BY <1>3 DEF Open, Held, Durable
  <2>. QED  BY <2>1, <1>3 DEF Open, StepOK, Selection!vars, File
<1>4. CASE Write
  <2>1. Held' = Held /\ Durable' = Durable
    BY <1>4 DEF Write, Held, Durable
  <2>. QED  BY <2>1, <1>4 DEF Write, StepOK, Selection!vars, File, State
<1>5. CASE Rename
  <2>0. chain_file' = State(chain)
    BY <1>5 DEF Rename
  <2>1. Durable' = chain /\ Held' = chain
    <3>1. Restored(State(chain)) = chain
      BY DEF Restored, State
    <3>2. Durable' = Restored(chain_file')
      BY DEF Durable
    <3>. QED  BY <1>5, <2>0, <3>1, <3>2 DEF Rename, Held
  <2>2. Inv'
    <3>1. State(chain).kind = "state" /\ State(chain).chain = chain
      BY DEF State
    <3>2. State(chain) \in File /\ Absent \in File
      BY DEF File, State
    <3>3. /\ chain' = chain /\ before' = before /\ chain_tmp_file' = Absent
          /\ pc' = "up" /\ booting' = FALSE
      BY <1>5 DEF Rename
    <3>4. TypeOK'
      BY <2>0, <3>2, <3>3
    <3>5. FileReadable' /\ SaveInv'
      BY <2>0, <3>1, <3>3 DEF Foreign
    <3>. QED  BY <3>4, <3>5
  <2>3. ~ Foreign(chain_file)
    BY <1>5 DEF Rename, Foreign
  <2>4. CASE booting
    BY <1>5, <2>1, <2>2, <2>3, <2>4
       DEF Rename, StepOK, Selection!vars, Held
  <2>5. CASE ~ booting
    <3>1. Held = before
      BY <1>5, <2>5 DEF Rename, Held
    <3>2. Selection!Adopt
      BY <1>5, <2>1, <2>5, <3>1 DEF Rename, Selection!Adopt, IsChain
    <3>. QED  BY <3>2, <2>2, <2>3 DEF StepOK, Selection!Next
  <2>. QED  BY <2>4, <2>5
<1>6. CASE Throw
  <2>1. Inv' /\ chain_file' = chain_file /\ Durable' = Durable
    BY <1>6 DEF Throw, Durable
  <2>2. CASE booting
    BY <1>6, <2>1, <2>2 DEF Throw, StepOK, Selection!vars, Held
  <2>3. CASE ~ booting
    <3>1. Held = before /\ Held' = chain
      BY <1>6, <2>3 DEF Throw, Held
    <3>2. Selection!Adopt
      BY <1>6, <2>1, <2>3, <3>1 DEF Throw, Selection!Adopt, IsChain
    <3>. QED  BY <3>2, <2>1 DEF StepOK, Selection!Next
  <2>. QED  BY <2>2, <2>3
<1>7. CASE Crash
  <2>1. Inv' /\ chain_file' = chain_file /\ Durable' = Durable
    BY <1>7 DEF Crash, Durable
  <2>2. Held' = Durable
    BY <1>7, <2>1 DEF Crash, Held
  <2>3. Selection!Recover
    BY <2>1, <2>2 DEF Selection!Recover
  <2>. QED  BY <2>1, <2>3 DEF StepOK, Selection!Next
<1>8. CASE UNCHANGED vars
  BY <1>8 DEF vars, StepOK, Selection!vars, Held, Durable
<1>. QED  BY <1>1, <1>2, <1>3, <1>4, <1>5, <1>6, <1>7, <1>8 DEF Next

-----------------------------------------------------------------------------

\* storage.ts, constructor: the invariant holds in every reachable state.
THEOREM Invariant == Spec => []Inv
<1>1. Inv /\ [Next]_vars => Inv'
  BY Step DEF StepOK
<1>. QED  BY InitInv, <1>1, PTL DEF Spec

\* Every variable keeps its type: no file holds anything but nothing, a part or
\* a complete chain, and no chain is empty.
THEOREM TypeCorrect == Spec => []TypeOK
<1>1. Inv => TypeOK BY DEF Inv
<1>. QED  BY Invariant, <1>1, PTL

\* While the program runs, chain.json is complete and on the canonical genesis
\* block, at every point of every save.
THEOREM AlwaysReadable == Spec => []FileReadable
<1>1. Inv => FileReadable BY DEF Inv
<1>. QED  BY Invariant, <1>1, PTL

\* A chain on another genesis block is never overwritten.
THEOREM ForeignNeverOverwritten == Spec => ForeignKept
<1>1. Inv /\ [Next]_vars =>
        [Foreign(chain_file) => chain_file' = chain_file]_vars
  BY Step DEF StepOK
<1>. QED  BY Invariant, <1>1, PTL DEF Spec, ForeignKept

\* Killed or failing at any point, save_state is one step of ChainSelection.
THEOREM SavesAreAtomic == Spec => SavesAtomic
<1>1. Inv /\ [Next]_vars => [Selection!Next]_(Selection!vars)
  BY Step DEF StepOK
<1>. QED  BY Invariant, <1>1, PTL DEF Spec, SavesAtomic

=============================================================================
