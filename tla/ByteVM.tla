------------------------------- MODULE ByteVM ------------------------------
(***************************************************************************)
(* The interpreter of src/src/vm/vm.ts: one stack for the operands and the *)
(* locals of all calls, a stack of call frames, and a list of exception    *)
(* handlers that are looked up by the address of the instruction that      *)
(* throws.  One turn of the loop of run is one step.                       *)
(*                                                                         *)
(* A value is its kind: what the control flow of the interpreter can tell  *)
(* apart.  What an operator makes of two numbers, or an array holds, is    *)
(* any value of the kinds it can have.  Bytecode is bytes, and addresses   *)
(* count from zero, so a jump may land in the middle of an instruction.    *)
(***************************************************************************)
EXTENDS Loops

CONSTANTS
    Programs,        \* what the constructor may be given
    Compiled,        \* those of them whose jumps, calls and handlers lead to
                     \* instructions
    Structured,      \* those of Compiled whose try blocks are entered and left
                     \* by their begin and end or an exception
    MaxStack, MaxCalls, MaxHandlers    \* bounds on the three stacks

Numbers  == {"zero", "number", "nan"}
Strings  == {"empty", "text"}
Booleans == {"true", "false"}
\* "object" has a className and a Map of fields, "record" has neither.
Objects  == {"array", "object", "record", "error"}
Value    == Numbers \cup Strings \cup Booleans \cup Objects
              \cup {"null", "undefined"}
Falsy    == {"zero", "nan", "empty", "false", "null", "undefined"}

\* finallyStart is stored and never read.
Handler == [tryStart: Nat, tryEnd: Nat, catchStart: Nat]
Program == [bytecode: Seq(0..255), constantPool: Seq(Value),
            exceptionHandlers: Seq(Handler)]

ASSUME VMAssumption ==
    /\ Programs \subseteq Program
    /\ Structured \subseteq Compiled /\ Compiled \subseteq Programs
    /\ MaxStack \in Nat /\ MaxCalls \in Nat /\ MaxHandlers \in Nat

VARIABLES
    program,                    \* bytecode and constantPool
    stack, ip, running,
    globals,                    \* a function from the indices that are set
    callStack, framePointer,
    exceptionHandlers, currentException,
    outcome,                    \* of the promise run returns
    misused,                    \* history: an instruction took values that
                                \* are not in the frame of its function
    thrown                      \* history: ip when the last step threw, or
                                \* Nowhere

vars == <<program, stack, ip, running, globals, callStack, framePointer,
          exceptionHandlers, currentException, outcome, misused, thrown>>

Nowhere == -1

Init ==
    /\ program \in Programs
    /\ stack = <<>> /\ ip = 0 /\ running = TRUE
    /\ globals = <<>>
    /\ callStack = <<>> /\ framePointer = 0
    /\ exceptionHandlers = program.exceptionHandlers
    /\ currentException = "null"
    /\ outcome = "pending"
    /\ misused = FALSE
    /\ thrown = Nowhere

-----------------------------------------------------------------------------
(* Reading instructions *)

OpCode ==
    <<"PUSH_CONST", "PUSH_INT", "PUSH_FLOAT", "PUSH_TRUE", "PUSH_FALSE",
      "PUSH_NULL", "POP", "DUP", "SWAP",
      "ADD", "SUB", "MUL", "DIV", "NEG", "MOD",
      "EQ", "NEQ", "GT", "LT", "GTE", "LTE", "NOT",
      "JMP", "JZ", "JNZ", "CALL", "RET", "FUN", "AND", "OR",
      "LOAD_GLOBAL", "STORE_GLOBAL", "LOAD_LOCAL", "STORE_LOCAL", "LOAD_ARGS",
      "PRINT_LN", "INPUT",
      "ARRAY_CREATE", "ARRAY_GET", "ARRAY_SET",
      "STRING_CONCAT", "STRING_LENGTH", "STRING_SUBSTR", "STRING_CHAR_AT",
      "STRING_INDEX_OF", "STRING_TO_INT", "INT_TO_STRING", "STRING_COMPARE",
      "CLASS_DEF", "OBJECT_NEW", "FIELD_GET", "FIELD_SET", "METHOD_CALL",
      "INSTANCEOF",
      "TRY_BEGIN", "TRY_END", "CATCH", "THROW", "FINALLY", "EXIT">>

\* Opcodes without a case in the switch.
Unimplemented == {"FUN", "AND", "OR", "FINALLY", "unknown"}

Size == Len(program.bytecode)

\* The opcode at an address of a bytecode.
OpIn(code, at) == LET byte == code[at + 1]
                  IN  IF byte < Len(OpCode) THEN OpCode[byte + 1] ELSE "unknown"

op == OpIn(program.bytecode, ip)

\* How far ip is behind the instruction's address after reading the opcode, and
\* after each operand: a byte, or a short of two.
Offsets(o) ==
    CASE o \in {"PUSH_CONST", "PUSH_INT", "PUSH_FLOAT", "LOAD_GLOBAL",
                "STORE_GLOBAL", "LOAD_LOCAL", "STORE_LOCAL"} -> <<1, 2>>
      [] o \in {"JMP", "JZ", "JNZ"} -> <<1, 3>>
      [] o = "CALL"                 -> <<1, 3, 4>>
      [] o = "TRY_BEGIN"            -> <<1, 3, 5, 7>>
      [] OTHER                      -> <<1>>

Width(o) == Offsets(o)[Len(Offsets(o))]

next_ip == ip + Width(op)

ShortIn(code, at) == 256 * code[at + 1] + code[at + 2]

readByte(at)  == program.bytecode[at + 1]
readShort(at) == ShortIn(program.bytecode, at)

\* The addresses of the instructions of a bytecode, and of what follows the
\* last.
Instructions(code) ==
    LET behind == [at \in Nat |-> IF at < Len(code)
                                  THEN at + Width(OpIn(code, at)) ELSE at]
        address == Iterate([k \in 1..Len(code) |-> behind], 0, Len(code))
    IN  {address[k] : k \in 0..Len(code)}

\* Where an instruction leads other than behind itself, at once or by an
\* exception.
Targets(code, at) ==
    CASE OpIn(code, at) \in {"JMP", "JZ", "JNZ", "CALL"} -> {ShortIn(code, at + 1)}
      [] OpIn(code, at) = "TRY_BEGIN" -> {ShortIn(code, at + 3)}
      [] OTHER -> {}

LeadsToInstructions(p) ==
    LET instructions == Instructions(p.bytecode)
    IN  /\ instructions \subseteq 0..Len(p.bytecode)
        /\ \A at \in instructions \ {Len(p.bytecode)} :
               Targets(p.bytecode, at) \subseteq instructions
        /\ \A i \in 1..Len(p.exceptionHandlers) :
               p.exceptionHandlers[i].catchStart \in instructions

ASSUME CompiledAssumption == \A p \in Compiled : LeadsToInstructions(p)

\* Jumps and calls lead to what lies behind them, and an exception to what
\* lies behind all that its handler covers.
LeadsForward(p) ==
    LET code == p.bytecode
    IN  /\ \A at \in Instructions(code) \ {Len(code)} :
               IF OpIn(code, at) = "TRY_BEGIN"
               THEN ShortIn(code, at + 3) > ShortIn(code, at + 1)
               ELSE \A target \in Targets(code, at) : target > at
        /\ \A i \in 1..Len(p.exceptionHandlers) :
               p.exceptionHandlers[i].catchStart > p.exceptionHandlers[i].tryEnd

\* The try blocks, each the address of its TRY_BEGIN, that are to catch what is
\* thrown with this.ip = at, and the innermost of them, if there are any.
Around(code, at) ==
    {block \in Instructions(code) :
        /\ block < Len(code) /\ OpIn(code, block) = "TRY_BEGIN"
        /\ block < at /\ at <= ShortIn(code, block + 1)}

Innermost(blocks) == {at \in blocks : \A other \in blocks : other <= at}

\* An instruction leads into the innermost block or out of it only as the
\* block's TRY_BEGIN or TRY_END, and a catch lies outside of its block alone.
StaysInBlocks(code, at) ==
    LET o == OpIn(code, at)
        here == Around(code, at)
        behind == Around(code, at + Width(o))
        target == Around(code, ShortIn(code, at + 1))
    IN  /\ o = "TRY_BEGIN" => behind = here \cup {at}
        /\ o = "TRY_END" =>
             \E block \in Innermost(here) : behind = here \ {block}
        /\ o \notin {"TRY_BEGIN", "TRY_END"} => behind = here
        /\ o \in {"JMP", "JZ", "JNZ"} => target = here
        /\ o = "CALL" => target = {}

CatchesOutside(code, at) ==
    \A block \in Innermost(Around(code, at)) :
        Around(code, ShortIn(code, block + 3)) = Around(code, at) \ {block}

\* What a language with try statements and functions is compiled to.
ASSUME StructuredAssumption ==
    \A p \in Structured :
        /\ p.exceptionHandlers = <<>>
        /\ \A at \in Instructions(p.bytecode) : CatchesOutside(p.bytecode, at)
        /\ \A at \in Instructions(p.bytecode) \ {Len(p.bytecode)} :
               StaysInBlocks(p.bytecode, at)

\* The loop of run goes on; the model stops at a full stack.
Going == /\ outcome = "pending" /\ running /\ ip < Size
         /\ Len(stack) < MaxStack

\* The next instruction is one of these, and its operands are all there.  All
\* instructions read their operands before anything else.
Executes(ops) == Going /\ op \in ops /\ next_ip <= Size

-----------------------------------------------------------------------------
(* Errors *)

\* Mutant of findExceptionHandler: the end of the block is not compared.
findExceptionHandler_open(at) ==
    LET Start(i) == exceptionHandlers[i].tryStart
        covering == {i \in 1..Len(exceptionHandlers) : at >= Start(i)}
    IN  {i \in covering :
            \A j \in covering : Start(j) <= Start(i)
                                /\ (Start(j) = Start(i) => i <= j)}

\* The index of the handler: of those that cover the address, the first of
\* those that start last.  At most one.
findExceptionHandler(at) ==
    LET Start(i) == exceptionHandlers[i].tryStart
        covering == {i \in 1..Len(exceptionHandlers) :
                        at \in Start(i)..exceptionHandlers[i].tryEnd}
    IN  {i \in covering :
            \A j \in covering : Start(j) <= Start(i)
                                /\ (Start(j) = Start(i) => i <= j)}

\* The catch of run, for an error thrown with this.ip = at and this stack.
\* Neither the calls nor the operands under way are unwound.
Raise(at, left) ==
    /\ thrown' = at
    /\ \/ /\ findExceptionHandler(at) = {}
          /\ outcome' = "rejected"
          /\ ip' = at
          /\ stack' = left
          /\ UNCHANGED currentException
       \/ \E h \in findExceptionHandler(at) :
          /\ ip' = exceptionHandlers[h].catchStart
          /\ stack' = Append(left, "error")
          /\ currentException' = "error"
          /\ UNCHANGED outcome

-----------------------------------------------------------------------------
(* Instructions that work on the operands alone *)

StackOps  == {"PUSH_CONST", "PUSH_INT", "PUSH_FLOAT", "PUSH_TRUE", "PUSH_FALSE",
              "PUSH_NULL", "POP", "DUP", "SWAP"}
Compare   == {"EQ", "NEQ", "GT", "GTE", "LT", "LTE"}
NumberOps == {"ADD", "SUB", "MUL", "DIV", "MOD", "NEG", "NOT"} \cup Compare
InOutOps  == {"LOAD_ARGS", "PRINT_LN", "INPUT"}
ArrayOps  == {"ARRAY_CREATE", "ARRAY_GET", "ARRAY_SET"}
StringOps == {"STRING_CONCAT", "STRING_LENGTH", "STRING_SUBSTR",
              "STRING_CHAR_AT", "STRING_INDEX_OF", "STRING_TO_INT",
              "INT_TO_STRING", "STRING_COMPARE"}
ObjectOps == {"CLASS_DEF", "OBJECT_NEW", "FIELD_GET", "FIELD_SET",
              "METHOD_CALL", "INSTANCEOF"}
Operators == StackOps \cup NumberOps \cup InOutOps \cup ArrayOps
               \cup StringOps \cup ObjectOps

\* How many values an operator pops.
Takes(o) ==
    CASE o \in {"PUSH_CONST", "PUSH_INT", "PUSH_FLOAT", "PUSH_TRUE",
                "PUSH_FALSE", "PUSH_NULL", "LOAD_ARGS", "INPUT",
                "CLASS_DEF"} -> 0
      [] o \in {"POP", "DUP", "NEG", "NOT", "PRINT_LN", "ARRAY_CREATE",
                "STRING_LENGTH", "STRING_TO_INT", "INT_TO_STRING"} -> 1
      [] o \in {"ARRAY_SET", "STRING_SUBSTR", "FIELD_SET"} -> 3
      [] OTHER -> 2

\* What an operator may push for the operands a, the one on top last, or
\* Fails if it throws instead.
Fails == <<"fails">>
One(kinds) == {<<kind>> : kind \in kinds}
Only(condition, results) == IF condition THEN results ELSE {Fails}

StackResults(o, a) ==
    CASE o = "PUSH_CONST" ->
           LET k == readByte(ip + 1) + 1
           IN  IF k <= Len(program.constantPool)
               THEN {<<program.constantPool[k]>>} ELSE {<<"undefined">>}
      [] o \in {"PUSH_INT", "PUSH_FLOAT"} ->
           {<<IF readByte(ip + 1) = 0 THEN "zero" ELSE "number">>}
      [] o = "PUSH_TRUE"  -> {<<"true">>}
      [] o = "PUSH_FALSE" -> {<<"false">>}
      [] o = "PUSH_NULL"  -> {<<"null">>}
      [] o = "POP"        -> {<<>>}
      [] o = "DUP"        -> {<<a[1], a[1]>>}
      [] OTHER            -> {<<a[2], a[1]>>}

\* ADD concatenates if an operand is a string or becomes one.
NumberResults(o, a) ==
    CASE o = "ADD" /\ {a[1], a[2]} \cap (Strings \cup Objects) # {} ->
           One(Strings)
      [] o = "DIV"     -> Only(a[2] # "zero", One(Numbers))
      [] o = "NOT"     -> {<<IF a[1] \in Falsy THEN "true" ELSE "false">>}
      [] o \in Compare -> One(Booleans)
      [] OTHER         -> One(Numbers)

InOutResults(o) ==
    CASE o = "LOAD_ARGS" -> {<<"array">>}
      [] o = "PRINT_LN"  -> {<<"null">>}
      [] OTHER           -> One(Strings)

\* A size may be negative or no integer, and an array has an index "length".
ArrayResults(o, a) ==
    CASE o = "ARRAY_CREATE" ->
           Only(a[1] \in {"zero", "number"}, {<<"array">>})
             \cup (IF a[1] = "number" THEN {Fails} ELSE {})
      [] o = "ARRAY_GET" -> Only(a[1] = "array", One(Value))
      [] OTHER ->
           Only(a[1] = "array", {<<>>})
             \cup (IF a[2] = "text" THEN {Fails} ELSE {})

StringResults(o, a) ==
    CASE o = "STRING_CONCAT" -> One(Strings)
      [] o = "STRING_LENGTH" ->
           Only(a[1] \in Strings,
                {<<IF a[1] = "empty" THEN "zero" ELSE "number">>})
      [] o \in {"STRING_SUBSTR", "STRING_CHAR_AT"} ->
           Only(a[1] \in Strings, One(Strings))
      [] o = "STRING_TO_INT" ->
           Only(a[1] \in Strings, One({"zero", "number"}))
      [] o = "INT_TO_STRING" -> Only(a[1] \in Numbers, {<<"text">>})
      [] OTHER ->
           Only({a[1], a[2]} \subseteq Strings, One({"zero", "number"}))

\* OBJECT_NEW falls through to FIELD_GET, and METHOD_CALL to INSTANCEOF, which
\* gives back what is falsy.
ObjectResults(o, a) ==
    CASE o = "CLASS_DEF" -> {<<>>}
      [] o \in {"OBJECT_NEW", "FIELD_GET"} ->
           Only(a[1] = "object", One(Value))
      [] o = "FIELD_SET" -> Only(a[1] = "object", {<<>>})
      [] OTHER ->
           IF a[1] \in Falsy THEN {<<a[1]>>}
           ELSE IF a[1] = "object" THEN One(Booleans) ELSE {<<"false">>}

Results(o, a) ==
    CASE o \in StackOps  -> StackResults(o, a)
      [] o \in NumberOps -> NumberResults(o, a)
      [] o \in InOutOps  -> InOutResults(o)
      [] o \in ArrayOps  -> ArrayResults(o, a)
      [] o \in StringOps -> StringResults(o, a)
      [] OTHER           -> ObjectResults(o, a)

\* The stack without its last k values, and those.
Left(k) == SubSeq(stack, 1, Len(stack) - k)
Taken(k) == SubSeq(stack, Len(stack) - k + 1, Len(stack))

\* A step takes k values off the stack.
Taking(k) == misused' = (misused \/ Len(stack) - k < framePointer)

control == <<program, running, callStack, framePointer, exceptionHandlers>>

\* The instruction is done, and the loop goes on behind it.
Continues ==
    /\ ip' = next_ip
    /\ thrown' = Nowhere
    /\ UNCHANGED <<currentException, outcome>>

\* The opcode is unknown, an operand is missing, or the stack has too few
\* values: what is thrown before the stack is touched.
Refuse ==
    /\ Going
    /\ \/ /\ next_ip > Size
          /\ \E i \in 1..Len(Offsets(op)) - 1 :
                /\ ip + Offsets(op)[i] <= Size
                /\ ip + Offsets(op)[i + 1] > Size
                /\ Raise(ip + Offsets(op)[i], stack)
       \/ Executes(Unimplemented) /\ Raise(next_ip, stack)
       \/ Executes(Operators) /\ Len(stack) < Takes(op) /\ Raise(next_ip, stack)
       \/ /\ Executes({"JZ", "JNZ", "RET", "THROW", "STORE_GLOBAL"})
          /\ stack = <<>>
          /\ Raise(next_ip, stack)
    /\ UNCHANGED <<control, globals, misused>>

Operate ==
    /\ Executes(Operators)
    /\ Len(stack) >= Takes(op)
    /\ LET k == Takes(op)
       IN  /\ Taking(k)
           /\ \E result \in Results(op, Taken(k)) :
                IF result = Fails THEN Raise(next_ip, Left(k))
                ELSE Continues /\ stack' = Left(k) \o result
    /\ UNCHANGED <<control, globals>>

-----------------------------------------------------------------------------
(* Jumps and calls *)

\* Mutant of Jump: the address counts back from the instruction.
Jump_back ==
    /\ Executes({"JMP"})
    /\ ip' = ip - readShort(ip + 1)
    /\ thrown' = Nowhere
    /\ UNCHANGED <<control, stack, globals, currentException, outcome, misused>>

Jump ==
    /\ Executes({"JMP"})
    /\ ip' = readShort(ip + 1)
    /\ thrown' = Nowhere
    /\ UNCHANGED <<control, stack, globals, currentException, outcome, misused>>

Branch ==
    /\ Executes({"JZ", "JNZ"})
    /\ stack # <<>>
    /\ Taking(1)
    /\ stack' = Left(1)
    /\ ip' = IF (op = "JZ") = (Taken(1)[1] \in Falsy) THEN readShort(ip + 1)
             ELSE next_ip
    /\ thrown' = Nowhere
    /\ UNCHANGED <<control, globals, currentException, outcome>>

\* Mutants of Call: the return address is taken before the last operand is
\* read; it is the address of the call; the return address counts as an
\* argument.
Frame(returnIp) == [returnIp |-> returnIp, framePointer |-> framePointer]

CallWith(frame, pointer) ==
    /\ Executes({"CALL"})
    /\ Len(callStack) < MaxCalls
    /\ Taking(readByte(ip + 3))
    /\ callStack' = Append(callStack, frame)
    /\ framePointer' = pointer
    /\ ip' = readShort(ip + 1)
    /\ thrown' = Nowhere
    /\ UNCHANGED <<program, stack, running, globals, exceptionHandlers,
                   currentException, outcome>>

Call_early_return == CallWith(Frame(ip + 3), Len(stack) - readByte(ip + 3))
Call_returns_to_call == CallWith(Frame(ip), Len(stack) - readByte(ip + 3))
Call_one_below ==
    CallWith(Frame(next_ip), Len(stack) - readByte(ip + 3) - 1)

\* The frame pointer is negative if there are fewer values than arguments.
Call == CallWith(Frame(next_ip), Len(stack) - readByte(ip + 3))

TopFrame == callStack[Len(callStack)]

\* Mutant of Return: the caller's frame pointer is not restored.
Return_keeps_pointer ==
    /\ Executes({"RET"})
    /\ stack # <<>> /\ callStack # <<>> /\ framePointer >= 0
    /\ Taking(1)
    /\ stack' = SubSeq(stack, 1, framePointer) \o Taken(1)
    /\ ip' = TopFrame.returnIp
    /\ callStack' = SubSeq(callStack, 1, Len(callStack) - 1)
    /\ thrown' = Nowhere
    /\ UNCHANGED <<program, running, globals, framePointer, exceptionHandlers,
                   currentException, outcome>>

\* The callee's arguments, locals and operands go, its result stays.
Return ==
    /\ Executes({"RET"})
    /\ stack # <<>> /\ callStack # <<>> /\ framePointer >= 0
    /\ Taking(1)
    /\ LET kept == IF framePointer < Len(stack) THEN framePointer
                   ELSE Len(stack) - 1
       IN  stack' = SubSeq(stack, 1, kept) \o Taken(1)
    /\ ip' = TopFrame.returnIp
    /\ callStack' = SubSeq(callStack, 1, Len(callStack) - 1)
    /\ framePointer' = TopFrame.framePointer
    /\ thrown' = Nowhere
    /\ UNCHANGED <<program, running, globals, exceptionHandlers,
                   currentException, outcome>>

\* With a negative frame pointer the loop that drops the callee's values runs
\* out of them and throws: the call is gone, its frame pointer stays.
ReturnFails ==
    /\ Executes({"RET"})
    /\ stack # <<>> /\ callStack # <<>> /\ framePointer < 0
    /\ Raise(TopFrame.returnIp, <<>>)
    /\ callStack' = SubSeq(callStack, 1, Len(callStack) - 1)
    /\ UNCHANGED <<program, running, globals, framePointer, exceptionHandlers,
                   misused>>

\* A return outside of calls ends the program with its value on the stack.
ReturnFromMain ==
    /\ Executes({"RET"})
    /\ stack # <<>> /\ callStack = <<>>
    /\ Taking(1)
    /\ running' = FALSE
    /\ Continues
    /\ UNCHANGED <<program, stack, globals, callStack, framePointer,
                   exceptionHandlers>>

-----------------------------------------------------------------------------
(* Variables *)

\* The position on the stack, from zero, of the local of this instruction.
local == framePointer + readByte(ip + 1)

OutOfBounds ==
    /\ Executes({"LOAD_LOCAL", "STORE_LOCAL"})
    /\ local \notin 0..Len(stack) - 1
    /\ Raise(next_ip, stack)
    /\ UNCHANGED <<control, globals, misused>>

LoadLocal ==
    /\ Executes({"LOAD_LOCAL"})
    /\ local \in 0..Len(stack) - 1
    /\ stack' = Append(stack, stack[local + 1])
    /\ Continues
    /\ UNCHANGED <<control, globals, misused>>

\* The target of the assignment is fixed before the value is popped: stored
\* to its own place, the value stays where it is.
StoreLocal ==
    /\ Executes({"STORE_LOCAL"})
    /\ local \in 0..Len(stack) - 1
    /\ Taking(1)
    /\ stack' = IF local = Len(stack) - 1 THEN stack
                ELSE [Left(1) EXCEPT ![local + 1] = Taken(1)[1]]
    /\ Continues
    /\ UNCHANGED <<control, globals>>

StoreGlobal ==
    /\ Executes({"STORE_GLOBAL"})
    /\ stack # <<>>
    /\ Taking(1)
    /\ stack' = Left(1)
    /\ LET index == readByte(ip + 1)
       IN  globals' = [i \in DOMAIN globals \cup {index} |->
                          IF i = index THEN Taken(1)[1] ELSE globals[i]]
    /\ Continues
    /\ UNCHANGED control

\* A global that was set to undefined counts as not set.
LoadGlobal ==
    /\ Executes({"LOAD_GLOBAL"})
    /\ LET index == readByte(ip + 1)
       IN  IF index \in DOMAIN globals /\ globals[index] # "undefined"
           THEN Continues /\ stack' = Append(stack, globals[index])
           ELSE Raise(next_ip, stack)
    /\ UNCHANGED <<control, globals, misused>>

-----------------------------------------------------------------------------
(* Exceptions *)

TryBegin ==
    /\ Executes({"TRY_BEGIN"})
    /\ Len(exceptionHandlers) < MaxHandlers
    /\ exceptionHandlers' =
           Append(exceptionHandlers, [tryStart   |-> ip + 1,
                                      tryEnd     |-> readShort(ip + 1),
                                      catchStart |-> readShort(ip + 3)])
    /\ Continues
    /\ UNCHANGED <<program, stack, running, globals, callStack, framePointer,
                   misused>>

\* Mutant of TryEnd: the oldest handler goes.
TryEnd_oldest ==
    /\ Executes({"TRY_END"})
    /\ exceptionHandlers' = IF exceptionHandlers = <<>> THEN <<>>
                            ELSE Tail(exceptionHandlers)
    /\ Continues
    /\ UNCHANGED <<program, stack, running, globals, callStack, framePointer,
                   misused>>

TryEnd ==
    /\ Executes({"TRY_END"})
    /\ exceptionHandlers' =
           SubSeq(exceptionHandlers, 1, Len(exceptionHandlers) - 1)
    /\ Continues
    /\ UNCHANGED <<program, stack, running, globals, callStack, framePointer,
                   misused>>

\* A caught exception is pushed as it is; an uncaught one is wrapped in an
\* error, for which run finds no handler either.
Throw ==
    /\ Executes({"THROW"})
    /\ stack # <<>>
    /\ Taking(1)
    /\ currentException' = Taken(1)[1]
    /\ thrown' = next_ip
    /\ \/ /\ findExceptionHandler(next_ip) = {}
          /\ outcome' = "rejected"
          /\ ip' = next_ip
          /\ stack' = Left(1)
       \/ \E h \in findExceptionHandler(next_ip) :
          /\ ip' = exceptionHandlers[h].catchStart
          /\ UNCHANGED <<stack, outcome>>
    /\ UNCHANGED <<control, globals>>

Catch ==
    /\ Executes({"CATCH"})
    /\ currentException' = "null"
    /\ ip' = next_ip
    /\ thrown' = Nowhere
    /\ UNCHANGED <<control, stack, globals, outcome, misused>>

Exit ==
    /\ Executes({"EXIT"})
    /\ running' = FALSE
    /\ Continues
    /\ UNCHANGED <<program, stack, globals, callStack, framePointer,
                   exceptionHandlers, misused>>

\* The promise resolves to the value on top, if there is one.
Finish ==
    /\ outcome = "pending"
    /\ ~ running \/ ip >= Size
    /\ outcome' = "returned"
    /\ IF stack = <<>> THEN UNCHANGED <<stack, misused>>
       ELSE stack' = Left(1) /\ Taking(1)
    /\ thrown' = Nowhere
    /\ UNCHANGED <<control, ip, globals, currentException>>

-----------------------------------------------------------------------------

Next ==
    \/ Refuse \/ Operate
    \/ Jump \/ Branch \/ Call \/ Return \/ ReturnFails \/ ReturnFromMain
    \/ OutOfBounds \/ LoadLocal \/ StoreLocal \/ StoreGlobal \/ LoadGlobal
    \/ TryBegin \/ TryEnd \/ Throw \/ Catch \/ Exit
    \/ Finish

Spec == Init /\ [][Next]_vars

\* The loop of run is never left waiting: INPUT gets its line.
FairSpec == Spec /\ WF_vars(Next)

-----------------------------------------------------------------------------
(* Properties *)

\* Every variable has its type, for any bytecode at all.
TypeOK ==
    /\ program \in Program
    /\ stack \in Seq(Value)
    /\ ip \in Nat
    /\ running \in BOOLEAN
    /\ DOMAIN globals \subseteq 0..255
    /\ \A i \in DOMAIN globals : globals[i] \in Value
    /\ callStack \in Seq([returnIp: Nat, framePointer: Int])
    /\ framePointer \in Int
    /\ exceptionHandlers \in Seq(Handler)
    /\ currentException \in Value
    /\ outcome \in {"pending", "returned", "rejected"}
    /\ misused \in BOOLEAN
    /\ thrown \in Nat \cup {Nowhere}

\* Where the frame of the k-th running function begins on the stack.
base(k) ==
    IF k <= Len(callStack) THEN callStack[k].framePointer
    ELSE IF k = Len(callStack) + 1 THEN framePointer ELSE Len(stack)

\* The frames lie on the stack one above the other, whatever was called,
\* returned, stored or thrown, as long as no function takes more than is its
\* own.  A return (vm.ts:262) cuts the stack where this says.
FramesNested ==
    misused \/ \A k \in 1..Len(callStack) + 1 : base(k) <= base(k + 1)

frames ==
    [k \in 1..Len(callStack) + 1 |-> SubSeq(stack, base(k) + 1, base(k + 1))]

\* The one stack implements a frame for each call: a function cannot change
\* what belongs to its callers, and gives back one value, also after an
\* exception, which unwinds no call (vm.ts:558).
Calls == INSTANCE CallFrames
             WITH frames <- IF misused THEN <<>> ELSE frames
FramesKeptApart == Calls!Spec

\* In a program whose jumps lead to instructions, calls, returns and exceptions
\* do so as well: no operand is ever taken for an opcode.
Aligned == program \in Compiled => ip \in Instructions(program.bytecode)

\* In a structured program, what throws in a try block is caught by its catch,
\* that of the innermost block if several surround it, although an exception
\* leaves its handler on the list, where a later TRY_END (vm.ts:527), of the same
\* function or of one that called it, removes it in place of its own.
TryProtects ==
    program \in Structured /\ thrown # Nowhere =>
        \A block \in Innermost(Around(program.bytecode, thrown)) :
            outcome = "pending" /\ ip = readShort(block + 3)

\* A program without backward jumps whose catches lie behind their blocks ends:
\* returns, which do lead back, also from the calls an exception left under way
\* (vm.ts:558), make no loop.
ForwardProgramsEnd ==
    program \in Compiled /\ LeadsForward(program) => <>(outcome # "pending")

=============================================================================
