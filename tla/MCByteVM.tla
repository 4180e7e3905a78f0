------------------------------ MODULE MCByteVM -----------------------------
(***************************************************************************)
(* Programs for ByteVM: every list of three instructions of a vocabulary   *)
(* with jumps into the middle of others, every operator on operands of the *)
(* kinds it distinguishes, lists that only lead forward, and programs as a *)
(* compiler would make them.                                               *)
(***************************************************************************)
EXTENDS ByteVM

ByteOf(name) == (CHOOSE i \in 1..Len(OpCode) : OpCode[i] = name) - 1

\* An instruction is its name and the bytes of its operands.
Encode(instruction) ==
    <<ByteOf(instruction[1])>> \o
        [i \in 1..Len(instruction) - 1 |-> instruction[i + 1]]

Assemble(instructions) ==
    LET bytes[n \in 0..Len(instructions)] ==
            IF n = 0 THEN <<>> ELSE bytes[n-1] \o Encode(instructions[n])
    IN  bytes[Len(instructions)]

Load(bytecode, constants) ==
    [bytecode |-> bytecode, constantPool |-> constants,
     exceptionHandlers |-> <<>>]

Vocabulary ==
    {<<"PUSH_INT", 0>>, <<"PUSH_INT", 7>>, <<"DIV">>,
     <<"JMP", 0, 1>>, <<"JNZ", 0, 0>>, <<"CALL", 0, 2, 1>>,
     <<"CALL", 0, 7, 0>>, <<"CALL", 0, 4, 2>>, <<"RET">>, <<"FUN">>, <<"EXIT">>,
     <<"LOAD_LOCAL", 0>>, <<"STORE_LOCAL", 0>>,
     <<"LOAD_GLOBAL", 0>>, <<"STORE_GLOBAL", 0>>,
     <<"TRY_BEGIN", 0, 9, 0, 8, 0, 0>>, <<"TRY_END">>, <<"THROW">>, <<"CALL">>}

Arbitrary ==
    {Load(Assemble(list), <<>>) : list \in [1..3 -> Vocabulary]}

\* Two operands of any of these kinds under a number, and an operator.
Kinds == {"zero", "number", "text", "array", "object", "null"}

OnOperands ==
    {Load(Assemble(<<<<"PUSH_CONST", 0>>, <<"PUSH_CONST", 1>>,
                     <<"PUSH_INT", 1>>, <<o>>>>), <<a, b>>) :
         a \in Kinds, b \in Kinds,
         o \in Operators \ {"PUSH_CONST", "PUSH_INT", "PUSH_FLOAT"}}

\* A function of any three of these instructions at address 9, called with
\* three values on the stack and so many arguments.
BodyVocabulary ==
    {<<"PUSH_INT", 0>>, <<"POP">>, <<"DUP">>, <<"SWAP">>, <<"RET">>,
     <<"LOAD_LOCAL", 0>>, <<"STORE_LOCAL", 0>>, <<"STORE_LOCAL", 1>>,
     <<"THROW">>, <<"CALL", 0, 9, 1>>, <<"TRY_BEGIN", 0, 30, 0, 8, 0, 0>>}

Functions ==
    {Load(Assemble(<<<<"PUSH_INT", 1>>, <<"PUSH_NULL">>, <<"DUP">>,
                     <<"CALL", 0, 9, numArgs>>, <<"EXIT">>>> \o body), <<>>) :
         numArgs \in {0, 2, 4}, body \in [1..3 -> BodyVocabulary]}

-----------------------------------------------------------------------------
(* Compiled programs.  The comments give the addresses. *)

\* f(x) = { local = x + 1; return local }, f(f(3)).
NestedCalls ==
    <<<<"PUSH_INT", 9>>,          \*  0
      <<"PUSH_INT", 3>>,          \*  2
      <<"CALL", 0, 13, 1>>,       \*  4
      <<"CALL", 0, 13, 1>>,       \*  8
      <<"EXIT">>,                 \* 12
      <<"LOAD_LOCAL", 0>>,        \* 13
      <<"PUSH_INT", 1>>,          \* 15
      <<"ADD">>,                  \* 17
      <<"DUP">>,                  \* 18
      <<"STORE_LOCAL", 0>>,       \* 19
      <<"RET">>>>                 \* 21

\* try { try { throw 1 } catch { } ; try { } catch { } ; g() } catch { }, where
\* the last statement throws in g, outside of the block, or in the block.
NestedTries(last) ==
    <<<<"TRY_BEGIN", 0, 42, 0, 46, 0, 0>>,    \*  0
      <<"TRY_BEGIN", 0, 17, 0, 21, 0, 0>>,    \*  7
      <<"PUSH_INT", 1>>,                      \* 14
      <<"THROW">>,                            \* 16
      <<"TRY_END">>,                          \* 17
      <<"JMP", 0, 23>>,                       \* 18
      <<"CATCH">>,                            \* 21
      <<"POP">>,                              \* 22
      <<"TRY_BEGIN", 0, 31, 0, 35, 0, 0>>,    \* 23
      <<"PUSH_NULL">>,                        \* 30
      <<"TRY_END">>,                          \* 31
      <<"JMP", 0, 37>>,                       \* 32
      <<"CATCH">>,                            \* 35
      <<"POP">>,                              \* 36
      <<"PUSH_INT", 1>>,                      \* 37
      <<"PUSH_INT", 0>>>>                     \* 39
    \o last                                   \* 41
    \o <<<<"TRY_END">>,                       \* 42
         <<"JMP", 0, 48>>,                    \* 43
         <<"CATCH">>,                         \* 46
         <<"POP">>,                           \* 47
         <<"EXIT">>>>                         \* 48

\* A call inside of a try block, of a function that throws what it cannot
\* divide, and one that catches that itself.
CallInTry(address) ==
    <<<<"PUSH_INT", 5>>,                      \*  0
      <<"TRY_BEGIN", 0, 15, 0, 19, 0, 0>>,    \*  2
      <<"PUSH_INT", 0>>,                      \*  9
      <<"CALL", 0, address, 1>>,              \* 11
      <<"TRY_END">>,                          \* 15
      <<"JMP", 0, 21>>,                       \* 16
      <<"CATCH">>,                            \* 19
      <<"POP">>,                              \* 20
      <<"EXIT">>,                             \* 21
      <<"LOAD_LOCAL", 0>>,                    \* 22
      <<"DUP">>,                              \* 24
      <<"DIV">>,                              \* 25
      <<"RET">>,                              \* 26
      <<"TRY_BEGIN", 0, 39, 0, 41, 0, 0>>,    \* 27
      <<"PUSH_INT", 1>>,                      \* 34
      <<"LOAD_LOCAL", 0>>,                    \* 36
      <<"DIV">>,                              \* 38
      <<"TRY_END">>,                          \* 39
      <<"RET">>,                              \* 40
      <<"CATCH">>,                            \* 41
      <<"RET">>>>                             \* 42

\* while (x) try { x = 1 / 0 } catch (e) { x = input }
Retry ==
    <<<<"PUSH_INT", 1>>,                      \*  0
      <<"LOAD_LOCAL", 0>>,                    \*  2
      <<"JZ", 0, 29>>,                        \*  4
      <<"TRY_BEGIN", 0, 19, 0, 23, 0, 0>>,    \*  7
      <<"PUSH_INT", 1>>,                      \* 14
      <<"PUSH_INT", 0>>,                      \* 16
      <<"DIV">>,                              \* 18
      <<"TRY_END">>,                          \* 19
      <<"JMP", 0, 2>>,                        \* 20
      <<"CATCH">>,                            \* 23
      <<"POP">>,                              \* 24
      <<"INPUT">>,                            \* 25
      <<"JNZ", 0, 2>>,                        \* 26
      <<"EXIT">>>>                            \* 29

\* f(x) = try { try { if (x) throw f(0) } catch { } ; throw 2 }
\*        catch (e) { return e }, f(1).
Recursion ==
    <<<<"PUSH_INT", 1>>,                      \*  0
      <<"CALL", 0, 7, 1>>,                    \*  2
      <<"EXIT">>,                             \*  6
      <<"TRY_BEGIN", 0, 42, 0, 43, 0, 0>>,    \*  7
      <<"TRY_BEGIN", 0, 33, 0, 37, 0, 0>>,    \* 14
      <<"LOAD_LOCAL", 0>>,                    \* 21
      <<"JZ", 0, 33>>,                        \* 23
      <<"PUSH_INT", 0>>,                      \* 26
      <<"CALL", 0, 7, 1>>,                    \* 28
      <<"THROW">>,                            \* 32
      <<"TRY_END">>,                          \* 33
      <<"JMP", 0, 39>>,                       \* 34
      <<"CATCH">>,                            \* 37
      <<"POP">>,                              \* 38
      <<"PUSH_INT", 2>>,                      \* 39
      <<"THROW">>,                            \* 41
      <<"TRY_END">>,                          \* 42
      <<"CATCH">>,                            \* 43
      <<"RET">>>>                             \* 44

StructuredLists ==
    {NestedCalls, NestedTries(<<<<"DIV">>>>), NestedTries(<<<<"ADD">>>>),
     NestedTries(<<<<"THROW">>>>), CallInTry(22), CallInTry(27),
     Retry, Recursion}

\* Handlers may come with the bytecode: here the division of CallInTry is
\* covered, and its error is caught in the middle of the call.
Covered ==
    [Load(Assemble(CallInTry(22)), <<>>) EXCEPT !.exceptionHandlers =
        <<[tryStart |-> 22, tryEnd |-> 26, catchStart |-> 19]>>]

-----------------------------------------------------------------------------

\* Every list of three of these in front of a function at 22, which throws,
\* and of what lies behind the blocks at 26: the calls an exception left under
\* way return after all.
LeadingVocabulary ==
    {<<"PUSH_INT", 0>>, <<"DIV">>, <<"THROW">>, <<"TRY_END">>, <<"RET">>,
     <<"JMP", 0, 26>>, <<"JZ", 0, 26>>, <<"CALL", 0, 22, 0>>,
     <<"CALL", 0, 26, 1>>, <<"TRY_BEGIN", 0, 25, 0, 26, 0, 0>>,
     <<"TRY_BEGIN", 0, 21, 0, 22, 0, 0>>}

Leading ==
    {LET code == Assemble(list)
     IN  Load(code \o [i \in 1..22 - Len(code) |-> ByteOf("CATCH")] \o
              Assemble(<<<<"PUSH_INT", 0>>,    \* 22
                         <<"THROW">>,          \* 24
                         <<"TRY_END">>,        \* 25
                         <<"CATCH">>,          \* 26
                         <<"RET">>>>), <<>>) : \* 27
         list \in [1..3 -> LeadingVocabulary]}

StructuredPrograms == {Load(Assemble(list), <<>>) : list \in StructuredLists}
AllPrograms ==
    Arbitrary \cup OnOperands \cup Functions \cup Leading
      \cup StructuredPrograms \cup {Covered}
CompiledPrograms == {p \in AllPrograms : LeadsToInstructions(p)}

MCStructured == StructuredPrograms
MCCompiled   == CompiledPrograms
MCPrograms   == AllPrograms

=============================================================================
