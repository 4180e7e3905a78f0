---------------------------- MODULE ByteVMProofs ----------------------------
(***************************************************************************)
(* Theorems about ByteVM for every set of programs, well formed or not,    *)
(* and stacks of any height up to the bounds.                              *)
(*                                                                         *)
(* That the frames lie one above the other is inductive together with the  *)
(* types and the fact that no frame begins below the stack: only then is a *)
(* frame pointer below zero, with which a return fails in its middle, the  *)
(* fault of a program that took values from outside of its frame.  From it *)
(* follows, action by action, that the one stack implements a frame for    *)
(* each call.  That a compiled program stays on its instructions is        *)
(* inductive together with what it may come back to: the return addresses  *)
(* of its calls and the addresses of its handlers.  That a try block of a  *)
(* structured program catches what is thrown in it is so because the list  *)
(* has a handler for every block under way, in the order they began.       *)
(***************************************************************************)
EXTENDS ByteVM, LoopProofs, SequenceTheorems

NestInv ==
    misused \/ \A k \in 1..Len(callStack) + 1 : /\ 0 <= base(k)
                                                /\ base(k) <= base(k + 1)

Inv == TypeOK /\ NestInv

-----------------------------------------------------------------------------
(* Sequences and values *)

LEMMA ShorterSeq ==
    ASSUME NEW S, NEW s \in Seq(S), NEW k \in 0..Len(s)
    PROVE  /\ SubSeq(s, 1, k) \in Seq(S)
           /\ Len(SubSeq(s, 1, k)) = k
           /\ \A i \in 1..k : SubSeq(s, 1, k)[i] = s[i]
OBVIOUS

LEMMA Elements ==
    ASSUME NEW S, NEW s \in Seq(S), NEW i \in 1..Len(s)
    PROVE  s[i] \in S
OBVIOUS

LEMMA ReplacedSeq ==
    ASSUME NEW S, NEW s \in Seq(S), NEW i \in 1..Len(s), NEW v \in S
    PROVE  [s EXCEPT ![i] = v] \in Seq(S) /\ Len([s EXCEPT ![i] = v]) = Len(s)
OBVIOUS

LEMMA ConcatSeq ==
    ASSUME NEW S, NEW s \in Seq(S), NEW t \in Seq(S)
    PROVE  s \o t \in Seq(S) /\ Len(s \o t) = Len(s) + Len(t)
OBVIOUS

LEMMA ShortType ==
    ASSUME NEW hi \in 0..255, NEW lo \in 0..255
    PROVE  256 * hi + lo \in Nat
OBVIOUS

LEMMA LeftFacts ==
    ASSUME TypeOK, NEW k \in 0..Len(stack)
    PROVE  Left(k) \in Seq(Value) /\ Len(Left(k)) = Len(stack) - k
<1>1. stack \in Seq(Value) /\ Len(stack) - k \in 0..Len(stack)
  BY DEF TypeOK
<1>2. QED
  BY <1>1, ShorterSeq DEF Left

LEMMA TakenFacts ==
    ASSUME TypeOK, NEW k \in 0..Len(stack)
    PROVE  /\ Taken(k) \in Seq(Value) /\ Len(Taken(k)) = k
           /\ \A i \in 1..k : Taken(k)[i] \in Value
<1>1. stack \in Seq(Value) /\ Len(stack) \in Nat
  BY DEF TypeOK
<1>2. /\ SubSeq(stack, Len(stack) - k + 1, Len(stack)) \in Seq(Value)
      /\ Len(SubSeq(stack, Len(stack) - k + 1, Len(stack))) = k
  BY <1>1
<1>3. QED
  BY <1>2 DEF Taken

LEMMA ErrorIsValue ==
    /\ "error" \in Value /\ "null" \in Value /\ "undefined" \in Value
BY DEF Value, Objects

-----------------------------------------------------------------------------
(* Bytecode *)

LEMMA Bytes ==
    ASSUME TypeOK, NEW at \in Nat
    PROVE  /\ Size \in Nat
           /\ at < Size => readByte(at) \in 0..255
           /\ at + 1 < Size => readShort(at) \in Nat
<1>1. PICK bytes \in Seq(0..255) : bytes = program.bytecode
  BY DEF TypeOK, Program
<1>2. Size = Len(bytes) /\ Size \in Nat
  BY <1>1 DEF Size
<1>3. \A i \in 1..Len(bytes) : bytes[i] \in 0..255
  BY Elements
<1>4. ASSUME at < Size
      PROVE  readByte(at) \in 0..255
  <2>1. at + 1 \in 1..Len(bytes)
    BY <1>2, <1>4
  <2>2. QED
    BY <1>1, <1>3, <2>1 DEF readByte
<1>5. ASSUME at + 1 < Size
      PROVE  readShort(at) \in Nat
  <2>1. at + 1 \in 1..Len(bytes) /\ at + 2 \in 1..Len(bytes)
    BY <1>2, <1>5
  <2>2. bytes[at + 1] \in 0..255 /\ bytes[at + 2] \in 0..255
    BY <1>3, <2>1
  <2>3. PICK hi \in 0..255, lo \in 0..255 :
            hi = bytes[at + 1] /\ lo = bytes[at + 2]
    BY <2>2
  <2>4. readShort(at) = 256 * hi + lo
    BY <1>1, <2>3 DEF readShort, ShortIn
  <2>5. QED
    BY <2>4, ShortType
<1>6. QED
  BY <1>2, <1>4, <1>5

LEMMA OffsetsType ==
    ASSUME NEW o
    PROVE  /\ \A i \in 1..Len(Offsets(o)) : Offsets(o)[i] \in Nat \ {0}
           /\ Width(o) \in Nat \ {0}
<1>1. Offsets(o) \in {<< 1 >>, <<1, 2>>, <<1, 3>>, <<1, 3, 4>>, <<1, 3, 5, 7>>}
  BY DEF Offsets
<1>2. ASSUME NEW s \in {<< 1 >>, <<1, 2>>, <<1, 3>>, <<1, 3, 4>>, <<1, 3, 5, 7>>}
      PROVE  /\ Len(s) \in 1..Len(s)
             /\ \A i \in 1..Len(s) : s[i] \in Nat \ {0}
  OBVIOUS
<1>3. PICK s \in {<< 1 >>, <<1, 2>>, <<1, 3>>, <<1, 3, 4>>, <<1, 3, 5, 7>>} :
          s = Offsets(o)
  BY <1>1
<1>4. Width(o) = s[Len(s)]
  BY <1>3 DEF Width
<1>5. QED
  BY <1>2, <1>3, <1>4

LEMMA Widths ==
    /\ Width("CALL") = 4 /\ Width("JMP") = 3 /\ Width("JZ") = 3
    /\ Width("JNZ") = 3 /\ Width("TRY_BEGIN") = 7
    /\ Width("PUSH_CONST") = 2
    /\ Width("LOAD_LOCAL") = 2 /\ Width("STORE_LOCAL") = 2
    /\ Width("LOAD_GLOBAL") = 2 /\ Width("STORE_GLOBAL") = 2
BY DEF Width, Offsets

LEMMA NextIp ==
    ASSUME TypeOK
    PROVE  ip \in Nat /\ next_ip \in Nat /\ Size \in Nat
<1>1. ip \in Nat
  BY DEF TypeOK
<1>2. Width(op) \in Nat
  BY OffsetsType
<1>3. QED
  BY <1>1, <1>2, Bytes DEF next_ip

-----------------------------------------------------------------------------
(* What operators push *)

ResultType == Seq(Value) \cup {Fails}

LEMMA OneValue ==
    ASSUME NEW v \in Value
    PROVE  <<v>> \in ResultType
BY DEF ResultType

LEMMA OneType ==
    ASSUME NEW kinds \in SUBSET Value
    PROVE  One(kinds) \subseteq ResultType
BY OneValue DEF One

LEMMA OnlyType ==
    ASSUME NEW condition, NEW results, results \subseteq ResultType
    PROVE  Only(condition, results) \subseteq ResultType
BY DEF Only, ResultType

LEMMA KindsAreValues ==
    /\ Numbers \subseteq Value /\ Strings \subseteq Value
    /\ Booleans \subseteq Value /\ Objects \subseteq Value
    /\ {"zero", "number"} \subseteq Value
    /\ {"zero", "number", "text", "array", "null", "true", "false",
        "undefined"} \subseteq Value
    /\ Value \subseteq Value
BY DEF Value, Numbers, Strings, Booleans, Objects

LEMMA StackType ==
    ASSUME TypeOK, NEW o \in StackOps, NEW a \in Seq(Value), Len(a) = Takes(o),
           o = "PUSH_CONST" => ip + 1 < Size
    PROVE  StackResults(o, a) \subseteq ResultType
<1>1. CASE o = "PUSH_CONST"
  <2>1. ip + 1 \in Nat
    BY DEF TypeOK
  <2>2. readByte(ip + 1) \in 0..255
    BY <1>1, <2>1, Bytes
  <2>3. PICK pool \in Seq(Value) : pool = program.constantPool
    BY DEF TypeOK, Program
  <2>4. PICK k \in Nat \ {0} : k = readByte(ip + 1) + 1
    <3>1. PICK byte \in 0..255 : byte = readByte(ip + 1)
      BY <2>2
    <3>2. byte + 1 \in Nat \ {0}
      OBVIOUS
    <3>3. QED
      BY <3>1, <3>2
  <2>5. k <= Len(pool) => pool[k] \in Value
    BY <2>3, <2>4
  <2>6. StackResults(o, a) \subseteq One(Value)
    BY <1>1, <2>3, <2>4, <2>5, ErrorIsValue DEF StackResults, One
  <2>7. QED
    BY <2>6, OneType
<1>2. CASE o \in {"PUSH_INT", "PUSH_FLOAT", "PUSH_TRUE", "PUSH_FALSE",
                  "PUSH_NULL"}
  <2>1. StackResults(o, a) \subseteq One(Value)
    BY <1>2, KindsAreValues DEF StackResults, One
  <2>2. QED
    BY <2>1, OneType
<1>3. CASE o = "POP"
  <2>1. StackResults(o, a) = {<<>>}
    BY <1>3 DEF StackResults
  <2>2. QED
    BY <2>1 DEF ResultType
<1>4. CASE o = "DUP" \/ o = "SWAP"
  <2>1. Len(a) \in {1, 2} /\ (o = "SWAP" => Len(a) = 2)
    BY <1>4 DEF Takes
  <2>2. a[1] \in Value /\ (o = "SWAP" => a[2] \in Value)
    BY <2>1
  <2>3. StackResults(o, a)
          = {IF o = "DUP" THEN <<a[1], a[1]>> ELSE <<a[2], a[1]>>}
    BY <1>4 DEF StackResults
  <2>4. \A u, v \in Value : <<u, v>> \in Seq(Value)
    OBVIOUS
  <2>5. QED
    BY <1>4, <2>2, <2>3, <2>4 DEF ResultType
<1>5. QED
  BY <1>1, <1>2, <1>3, <1>4 DEF StackOps

LEMMA NumberType ==
    ASSUME NEW o \in NumberOps, NEW a
    PROVE  NumberResults(o, a) \subseteq ResultType
<1>1. CASE o = "NOT"
  <2>1. NumberResults(o, a) \subseteq One(Booleans)
    BY <1>1 DEF NumberResults, One, Booleans, Compare
  <2>2. QED
    BY <2>1, OneType, KindsAreValues
<1>2. CASE o # "NOT"
  <2>1. NumberResults(o, a) \in {One(Strings), One(Numbers), One(Booleans),
                                 Only(a[2] # "zero", One(Numbers))}
    BY <1>2, Zenon DEF NumberResults
  <2>2. QED
    BY <2>1, OneType, OnlyType, KindsAreValues
<1>3. QED
  BY <1>1, <1>2

LEMMA InOutType ==
    ASSUME NEW o
    PROVE  InOutResults(o) \subseteq ResultType
<1>1. InOutResults(o) \in {One({"array"}), One({"null"}), One(Strings)}
  BY DEF InOutResults, One
<1>2. QED
  BY <1>1, OneType, KindsAreValues

LEMMA ArrayType ==
    ASSUME NEW o, NEW a
    PROVE  ArrayResults(o, a) \subseteq ResultType
<1>1. ArrayResults(o, a)
        \subseteq {<<>>, <<"array">>, Fails} \cup One(Value)
  BY DEF ArrayResults, Only
<1>2. {<<>>, <<"array">>, Fails} \subseteq ResultType
  BY OneValue, KindsAreValues DEF ResultType
<1>3. QED
  BY <1>1, <1>2, OneType

LEMMA StringType ==
    ASSUME NEW o, NEW a
    PROVE  StringResults(o, a) \subseteq ResultType
<1>1. ASSUME NEW v \in StringResults(o, a)
      PROVE  v \in One(Value) \/ v = Fails
  BY <1>1, KindsAreValues DEF StringResults, Only, One
<1>2. QED
  BY <1>1, OneType DEF ResultType

LEMMA ObjectType ==
    ASSUME NEW o, NEW a
    PROVE  ObjectResults(o, a) \subseteq ResultType
<1>1. ASSUME NEW v \in ObjectResults(o, a)
      PROVE  v \in One(Value) \/ v = Fails \/ v = <<>>
  <2>1. Falsy \subseteq Value
    BY DEF Falsy, Value, Numbers, Strings, Booleans, Objects
  <2>2. QED
    BY <1>1, <2>1, KindsAreValues DEF ObjectResults, Only, One
<1>2. <<>> \in Seq(Value)
  OBVIOUS
<1>3. One(Value) \subseteq ResultType
  BY OneType
<1>4. QED
  BY <1>1, <1>2, <1>3 DEF ResultType

LEMMA ResultsType ==
    ASSUME TypeOK, NEW o \in Operators, NEW a \in Seq(Value), Len(a) = Takes(o),
           o = "PUSH_CONST" => ip + 1 < Size
    PROVE  Results(o, a) \subseteq ResultType
BY StackType, NumberType, InOutType, ArrayType, StringType, ObjectType, Zenon
   DEF Results

LEMMA TakesType ==
    ASSUME NEW o
    PROVE  Takes(o) \in 0..3
BY DEF Takes

-----------------------------------------------------------------------------
(* Parts of the steps *)

LEMMA SameFrames ==
    ASSUME TypeOK, NestInv, UNCHANGED <<callStack, framePointer>>,
           misused => misused', NEW n \in Nat, n = Len(stack'),
           misused' \/ framePointer <= n
    PROVE  NestInv'
<1>1. CASE misused'
  BY <1>1 DEF NestInv
<1>2. CASE ~ misused'
  <2>1. PICK m \in Nat : m = Len(callStack)
    BY DEF TypeOK
  <2>2. \A k \in 1..m + 1 : 0 <= base(k) /\ base(k) <= base(k + 1)
    BY <1>2, <2>1 DEF NestInv
  <2>3. framePointer \in Int
    BY DEF TypeOK
  <2>4. \A k \in 1..m + 1 : base(k)' = base(k)
    BY <2>1 DEF base
  <2>5. base(m + 2)' = n
    BY <2>1 DEF base
  <2>6. base(m + 1) = framePointer
    BY <2>1 DEF base
  <2>7. ASSUME NEW k \in 1..m + 1
        PROVE  base(k)' <= base(k + 1)'
    <3>1. CASE k = m + 1
      BY <1>2, <2>4, <2>5, <2>6, <3>1
    <3>2. CASE k # m + 1
      <4>1. k + 1 \in 1..m + 1
        BY <3>2
      <4>2. QED
        BY <2>2, <2>4, <4>1
    <3>3. QED
      BY <3>1, <3>2
  <2>8. QED
    BY <2>1, <2>2, <2>4, <2>7 DEF NestInv
<1>3. QED
  BY <1>1, <1>2

\* No function takes more than its own: its frame is below what it leaves.
LEMMA FrameBelow ==
    ASSUME TypeOK, NestInv
    PROVE  misused \/ (0 <= framePointer /\ framePointer <= Len(stack))
<1>1. Len(callStack) \in Nat
  BY DEF TypeOK
<1>2. /\ base(Len(callStack) + 1) = framePointer
      /\ base(Len(callStack) + 1 + 1) = Len(stack)
  BY <1>1 DEF base
<1>3. Len(callStack) + 1 \in 1..Len(callStack) + 1
  BY <1>1
<1>4. QED
  BY <1>2, <1>3 DEF NestInv

LEMMA HandlerFacts ==
    ASSUME TypeOK, NEW at, NEW h \in findExceptionHandler(at)
    PROVE  exceptionHandlers[h].catchStart \in Nat
<1>1. h \in 1..Len(exceptionHandlers)
  BY DEF findExceptionHandler
<1>2. PICK handlers \in Seq(Handler) : handlers = exceptionHandlers
  BY DEF TypeOK
<1>3. handlers[h] \in Handler
  BY <1>1, <1>2, Elements
<1>4. QED
  BY <1>2, <1>3 DEF Handler

LEMMA RaiseType ==
    ASSUME TypeOK, NEW at \in Nat, NEW left \in Seq(Value), Raise(at, left)
    PROVE  /\ stack' \in Seq(Value) /\ ip' \in Nat
           /\ currentException' \in Value
           /\ outcome' \in {"pending", "returned", "rejected"}
           /\ thrown' \in Nat
           /\ Len(stack') \in Nat /\ Len(left) <= Len(stack')
<1>1. /\ currentException \in Value
      /\ outcome \in {"pending", "returned", "rejected"}
      /\ thrown' = at
  BY DEF TypeOK, Raise
<1>2. CASE outcome' = "rejected" /\ ip' = at /\ stack' = left
             /\ UNCHANGED currentException
  BY <1>1, <1>2
<1>3. CASE \E h \in findExceptionHandler(at) :
             /\ ip' = exceptionHandlers[h].catchStart
             /\ stack' = Append(left, "error")
             /\ currentException' = "error"
             /\ UNCHANGED outcome
  <2>1. ip' \in Nat
    BY <1>3, HandlerFacts
  <2>2. Append(left, "error") \in Seq(Value)
        /\ Len(Append(left, "error")) = Len(left) + 1
    BY ErrorIsValue
  <2>3. QED
    BY <1>1, <1>3, <2>1, <2>2, ErrorIsValue
<1>4. QED
  BY <1>2, <1>3 DEF Raise

\* An instruction is read in full before it is executed.
LEMMA Operand ==
    ASSUME TypeOK, NEW ops, Executes(ops)
    PROVE  /\ op \in ops /\ next_ip \in Nat
           /\ Width(op) >= 2 => readByte(ip + 1) \in 0..255
           /\ Width(op) >= 3 => readShort(ip + 1) \in Nat
           /\ Width(op) >= 4 => readByte(ip + 3) \in 0..255
           /\ Width(op) >= 5 => readShort(ip + 3) \in Nat
<1>1. ip \in Nat /\ next_ip \in Nat /\ Size \in Nat
  BY NextIp
<1>2. PICK w \in Nat : w = Width(op)
  BY OffsetsType
<1>3. op \in ops /\ ip + w <= Size
  BY <1>2 DEF Executes, next_ip
<1>4. ip + 1 \in Nat /\ ip + 3 \in Nat
  BY <1>1
<1>5. /\ w >= 2 => ip + 1 < Size
      /\ w >= 3 => ip + 1 + 1 < Size
      /\ w >= 4 => ip + 3 < Size
      /\ w >= 5 => ip + 3 + 1 < Size
  BY <1>1, <1>3
<1>6. QED
  BY <1>1, <1>2, <1>3, <1>4, <1>5, Bytes

LEMMA Types ==
    ASSUME TypeOK
    PROVE  /\ stack \in Seq(Value) /\ Len(stack) \in Nat
           /\ ip \in Nat /\ next_ip \in Nat
           /\ framePointer \in Int /\ misused \in BOOLEAN
           /\ currentException \in Value
           /\ outcome \in {"pending", "returned", "rejected"}
<1>1. /\ stack \in Seq(Value) /\ ip \in Nat
      /\ framePointer \in Int /\ misused \in BOOLEAN
      /\ currentException \in Value
      /\ outcome \in {"pending", "returned", "rejected"}
  BY DEF TypeOK
<1>2. next_ip \in Nat
  BY NextIp
<1>3. QED
  BY <1>1, <1>2

LEMMA TakingFacts ==
    ASSUME TypeOK, NEW k \in Nat, Taking(k)
    PROVE  /\ misused' \in BOOLEAN /\ (misused => misused')
           /\ misused' \/ framePointer <= Len(stack) - k
<1>1. framePointer \in Int /\ Len(stack) \in Nat
  BY Types
<1>2. misused \in BOOLEAN
  BY Types
<1>3. misused' = (misused \/ Len(stack) - k < framePointer)
  BY Zenon DEF Taking
<1>4. Len(stack) - k < framePointer \/ framePointer <= Len(stack) - k
  BY <1>1
<1>5. misused' \in BOOLEAN
  BY <1>2, <1>3, Zenon
<1>6. (misused => misused') /\ (misused' \/ framePointer <= Len(stack) - k)
  BY <1>3, <1>4, Zenon
<1>7. QED
  BY <1>5, <1>6

\* A step that leaves the calls alone.
LEMMA Within ==
    ASSUME Inv, UNCHANGED control, UNCHANGED globals,
           stack' \in Seq(Value), ip' \in Nat, currentException' \in Value,
           outcome' \in {"pending", "returned", "rejected"},
           thrown' \in Nat \cup {Nowhere},
           misused' \in BOOLEAN, misused => misused',
           misused' \/ framePointer <= Len(stack')
    PROVE  Inv'
<1>1. TypeOK'
  BY DEF Inv, TypeOK, control
<1>2. Len(stack') \in Nat
  OBVIOUS
<1>3. NestInv'
  BY <1>2, SameFrames DEF Inv, control
<1>4. QED
  BY <1>1, <1>3 DEF Inv

-----------------------------------------------------------------------------
(* One lemma for each action *)

LEMMA Refuses ==
    ASSUME Inv, Refuse
    PROVE  Inv'
<1>0. TypeOK /\ NestInv /\ UNCHANGED <<control, globals, misused>>
  BY DEF Refuse, Inv
<1>1. /\ stack \in Seq(Value) /\ Len(stack) \in Nat
      /\ misused \in BOOLEAN /\ framePointer \in Int
      /\ ip \in Nat /\ next_ip \in Nat
  BY <1>0, Types
<1>2. PICK at \in Nat : Raise(at, stack)
  <2>1. ASSUME NEW i \in 1..Len(Offsets(op)) - 1,
               Raise(ip + Offsets(op)[i], stack)
        PROVE  \E at \in Nat : Raise(at, stack)
    <3>1. PICK n \in Nat : n = Offsets(op)[i]
      <4>1. i \in 1..Len(Offsets(op))
        BY DEF Offsets
      <4>2. QED
        BY <4>1, OffsetsType
    <3>2. ip + n \in Nat
      BY <1>1
    <3>3. QED
      BY <2>1, <3>1, <3>2
  <2>2. QED
    BY <1>1, <2>1 DEF Refuse
<1>3. /\ stack' \in Seq(Value) /\ ip' \in Nat /\ currentException' \in Value
      /\ outcome' \in {"pending", "returned", "rejected"}
      /\ thrown' \in Nat
      /\ Len(stack') \in Nat /\ Len(stack) <= Len(stack')
  BY <1>0, <1>1, <1>2, RaiseType
<1>4. misused' \/ framePointer <= Len(stack')
  BY <1>0, <1>1, <1>3, FrameBelow
<1>5. QED
  BY <1>0, <1>1, <1>3, <1>4, Within

LEMMA Operates ==
    ASSUME Inv, Operate
    PROVE  Inv'
<1>0. TypeOK
  BY DEF Inv
<1>1. PICK k \in 0..3 : k = Takes(op)
  BY TakesType
<1>2. /\ UNCHANGED <<control, globals>>
      /\ Executes(Operators) /\ op \in Operators
      /\ Len(stack) >= k /\ Taking(k)
  BY <1>1, Zenon DEF Operate, Executes
<1>3. /\ stack \in Seq(Value) /\ Len(stack) \in Nat
      /\ next_ip \in Nat /\ framePointer \in Int
      /\ currentException \in Value
      /\ outcome \in {"pending", "returned", "rejected"}
  BY <1>0, Types
<1>4. k \in 0..Len(stack) /\ k \in Nat
  BY <1>2, <1>3
<1>5. /\ misused' \in BOOLEAN /\ (misused => misused')
      /\ misused' \/ framePointer <= Len(stack) - k
  BY <1>0, <1>2, <1>4, TakingFacts
<1>6. PICK left \in Seq(Value) : left = Left(k) /\ Len(left) = Len(stack) - k
  BY <1>0, <1>4, LeftFacts
<1>7. PICK result \in Results(op, Taken(k)) :
          IF result = Fails THEN Raise(next_ip, left)
          ELSE Continues /\ stack' = left \o result
  BY <1>1, <1>6 DEF Operate
<1>8. result \in ResultType
  <2>1. Taken(k) \in Seq(Value) /\ Len(Taken(k)) = Takes(op)
    BY <1>0, <1>1, <1>4, TakenFacts
  <2>2. op = "PUSH_CONST" => ip + 1 < Size
    <3>1. ip + Width(op) <= Size
      BY <1>2 DEF Executes, next_ip
    <3>2. QED
      BY <1>0, <3>1, Widths, NextIp
  <2>3. QED
    BY <1>0, <1>2, <1>7, <2>1, <2>2, ResultsType
<1>9. CASE result = Fails
  <2>1. Raise(next_ip, left)
    BY <1>7, <1>9
  <2>2. /\ stack' \in Seq(Value) /\ ip' \in Nat
        /\ currentException' \in Value
        /\ outcome' \in {"pending", "returned", "rejected"}
        /\ thrown' \in Nat
        /\ Len(stack') \in Nat /\ Len(left) <= Len(stack')
    BY <1>0, <1>3, <2>1, RaiseType
  <2>3. misused' \/ framePointer <= Len(stack')
    BY <1>3, <1>4, <1>5, <1>6, <2>2
  <2>4. QED
    BY <1>2, <1>5, <2>2, <2>3, Within
<1>10. CASE result # Fails
  <2>1. Continues /\ stack' = left \o result
    BY <1>7, <1>10
  <2>2. result \in Seq(Value)
    BY <1>8, <1>10 DEF ResultType
  <2>3. /\ left \o result \in Seq(Value)
        /\ Len(left \o result) \in Nat
        /\ Len(left) <= Len(left \o result)
    BY <2>2
  <2>4. /\ ip' \in Nat /\ currentException' \in Value
        /\ outcome' \in {"pending", "returned", "rejected"}
        /\ thrown' \in Nat \cup {Nowhere}
    BY <1>3, <2>1 DEF Continues
  <2>5. misused' \/ framePointer <= Len(stack')
    BY <1>3, <1>4, <1>5, <1>6, <2>1, <2>3
  <2>6. QED
    BY <1>2, <1>5, <2>1, <2>3, <2>4, <2>5, Within
<1>11. QED
  BY <1>9, <1>10

LEMMA Jumps ==
    ASSUME Inv, Jump \/ Branch
    PROVE  Inv'
<1>0. TypeOK /\ NestInv
  BY DEF Inv
<1>1. /\ stack \in Seq(Value) /\ Len(stack) \in Nat
      /\ framePointer \in Int /\ misused \in BOOLEAN
      /\ currentException \in Value /\ next_ip \in Nat
      /\ outcome \in {"pending", "returned", "rejected"}
  BY <1>0, Types
<1>2. PICK ops \in {{"JMP"}, {"JZ", "JNZ"}} : Executes(ops)
  BY DEF Jump, Branch
<1>3. readShort(ip + 1) \in Nat /\ next_ip \in Nat
  <2>1. op \in {"JMP", "JZ", "JNZ"}
    BY <1>2 DEF Executes
  <2>2. Width(op) = 3
    BY <2>1, Widths
  <2>3. QED
    BY <1>0, <1>1, <1>2, <2>2, Operand
<1>4. CASE Jump
  <2>1. /\ ip' = readShort(ip + 1) /\ thrown' = Nowhere
        /\ UNCHANGED <<control, stack, globals, currentException, outcome,
                       misused>>
    BY <1>4 DEF Jump
  <2>2. misused' \/ framePointer <= Len(stack')
    BY <1>0, <1>1, <2>1, FrameBelow
  <2>3. QED
    BY <1>1, <1>3, <2>1, <2>2, Within
<1>5. CASE Branch
  <2>1. /\ stack # <<>> /\ Taking(1) /\ stack' = Left(1)
        /\ ip' \in {readShort(ip + 1), next_ip} /\ thrown' = Nowhere
        /\ UNCHANGED <<control, globals, currentException, outcome>>
    BY <1>5 DEF Branch
  <2>2. 1 \in 0..Len(stack)
    BY <1>1, <2>1
  <2>3. stack' \in Seq(Value) /\ Len(stack') = Len(stack) - 1
    BY <1>0, <2>1, <2>2, LeftFacts
  <2>4. /\ misused' \in BOOLEAN /\ (misused => misused')
        /\ misused' \/ framePointer <= Len(stack')
    BY <1>0, <2>1, <2>3, TakingFacts
  <2>5. QED
    BY <1>1, <1>3, <2>1, <2>3, <2>4, Within
<1>6. QED
  BY <1>4, <1>5

LEMMA FrameType ==
    ASSUME NEW a \in Nat, NEW b \in Int
    PROVE  \E frame \in [returnIp: Nat, framePointer: Int] :
               /\ frame = [returnIp |-> a, framePointer |-> b]
               /\ frame.framePointer = b
<1>1. PICK frame : frame = [returnIp |-> a, framePointer |-> b]
  OBVIOUS
<1>2. /\ frame \in [returnIp: Nat, framePointer: Int]
      /\ frame.framePointer = b
  BY <1>1
<1>3. QED
  BY <1>1, <1>2

LEMMA Calling ==
    ASSUME Inv, Call
    PROVE  Inv'
<1>0. TypeOK /\ NestInv
  BY DEF Inv
<1>1. /\ Executes({"CALL"})
      /\ Taking(readByte(ip + 3))
      /\ callStack' = Append(callStack, Frame(next_ip))
      /\ framePointer' = Len(stack) - readByte(ip + 3)
      /\ ip' = readShort(ip + 1)
      /\ thrown' = Nowhere
      /\ UNCHANGED <<program, stack, running, globals, exceptionHandlers,
                     currentException, outcome>>
  BY DEF Call, CallWith
<1>2. /\ stack \in Seq(Value) /\ Len(stack) \in Nat
      /\ framePointer \in Int /\ next_ip \in Nat
  BY <1>0, Types
<1>3. readShort(ip + 1) \in Nat /\ readByte(ip + 3) \in 0..255
  <2>1. op = "CALL"
    BY <1>1 DEF Executes
  <2>2. Width(op) = 4
    BY <2>1, Widths
  <2>3. QED
    BY <1>0, <1>1, <2>2, Operand
<1>4. PICK n \in Nat : n = readByte(ip + 3)
  BY <1>3
<1>5. /\ misused' \in BOOLEAN /\ (misused => misused')
      /\ misused' \/ framePointer <= Len(stack) - n
  BY <1>0, <1>1, <1>4, TakingFacts
<1>6. PICK calls \in Seq([returnIp: Nat, framePointer: Int]) : calls = callStack
  BY <1>0 DEF TypeOK
<1>7. PICK frame \in [returnIp: Nat, framePointer: Int] :
          frame = Frame(next_ip) /\ frame.framePointer = framePointer
  BY <1>2, FrameType DEF Frame
<1>8. PICK m \in Nat : m = Len(calls)
  OBVIOUS
<1>9. /\ Append(calls, frame) \in Seq([returnIp: Nat, framePointer: Int])
      /\ Len(Append(calls, frame)) = m + 1
      /\ \A k \in 1..m : Append(calls, frame)[k] = calls[k]
      /\ Append(calls, frame)[m + 1] = frame
  BY <1>8
<1>10. TypeOK'
  <2>1. callStack' \in Seq([returnIp: Nat, framePointer: Int])
    BY <1>1, <1>6, <1>7, <1>9
  <2>2. framePointer' \in Int
    BY <1>1, <1>2, <1>4
  <2>3. QED
    BY <1>0, <1>1, <1>3, <1>5, <2>1, <2>2 DEF TypeOK
<1>11. CASE misused'
  BY <1>10, <1>11 DEF Inv, NestInv
<1>12. CASE ~ misused'
  <2>1. \A k \in 1..m + 1 : 0 <= base(k) /\ base(k) <= base(k + 1)
    BY <1>0, <1>5, <1>6, <1>8, <1>12 DEF NestInv
  <2>2. \A k \in 1..m : base(k)' = base(k)
    BY <1>1, <1>6, <1>7, <1>8, <1>9 DEF base
  <2>3. base(m + 1)' = framePointer /\ base(m + 1) = framePointer
    BY <1>1, <1>6, <1>7, <1>8, <1>9 DEF base
  <2>4. base(m + 2)' = Len(stack) - n /\ base(m + 3)' = Len(stack)
    BY <1>1, <1>4, <1>6, <1>7, <1>8, <1>9 DEF base
  <2>5. 0 <= framePointer /\ framePointer <= Len(stack) - n
    <3>1. m + 1 \in 1..m + 1
      OBVIOUS
    <3>2. QED
      BY <1>5, <1>12, <2>1, <2>3, <3>1
  <2>6. \A k \in 1..m + 1 : base(k)' = base(k)
    <3>1. ASSUME NEW k \in 1..m + 1
          PROVE  k \in 1..m \/ k = m + 1
      OBVIOUS
    <3>2. QED
      BY <2>2, <2>3, <3>1
  <2>7. ASSUME NEW k \in 1..m + 2
        PROVE  0 <= base(k)' /\ base(k)' <= base(k + 1)'
    <3>1. CASE k \in 1..m
      <4>1. k \in 1..m + 1 /\ k + 1 \in 1..m + 1
        BY <3>1
      <4>2. QED
        BY <2>1, <2>6, <4>1
    <3>2. CASE k = m + 1
      BY <1>2, <2>3, <2>4, <2>5, <3>2
    <3>3. CASE k = m + 2
      BY <1>2, <2>4, <2>5, <3>3
    <3>4. QED
      BY <3>1, <3>2, <3>3
  <2>8. Len(callStack') + 1 = m + 2
    BY <1>1, <1>6, <1>7, <1>9
  <2>9. QED
    BY <1>10, <2>7, <2>8 DEF Inv, NestInv
<1>13. QED
  BY <1>11, <1>12

\* What remains of the calls when the running one is gone.
LEMMA CallersFacts ==
    ASSUME TypeOK, NestInv, callStack # <<>>,
           callStack' = SubSeq(callStack, 1, Len(callStack) - 1)
    PROVE  /\ callStack' \in Seq([returnIp: Nat, framePointer: Int])
           /\ TopFrame.returnIp \in Nat /\ TopFrame.framePointer \in Int
           /\ Len(callStack') = Len(callStack) - 1 /\ Len(callStack') \in Nat
           /\ \A k \in 1..Len(callStack') : callStack'[k] = callStack[k]
<1>1. PICK calls \in Seq([returnIp: Nat, framePointer: Int]) : calls = callStack
  BY DEF TypeOK
<1>2. Len(calls) \in Nat \ {0}
  BY <1>1
<1>3. Len(calls) - 1 \in 0..Len(calls) /\ Len(calls) \in 1..Len(calls)
  BY <1>2
<1>4. calls[Len(calls)] \in [returnIp: Nat, framePointer: Int]
  BY <1>3, Elements
<1>5. /\ SubSeq(calls, 1, Len(calls) - 1)
            \in Seq([returnIp: Nat, framePointer: Int])
      /\ Len(SubSeq(calls, 1, Len(calls) - 1)) = Len(calls) - 1
      /\ \A k \in 1..Len(calls) - 1 :
            SubSeq(calls, 1, Len(calls) - 1)[k] = calls[k]
  BY <1>3, ShorterSeq
<1>6. QED
  BY <1>1, <1>2, <1>3, <1>4, <1>5 DEF TopFrame

\* How much of a stack of n values a return leaves in place.
LEMMA KeptFacts ==
    ASSUME NEW n \in Nat \ {0}, NEW p \in Int, 0 <= p
    PROVE  \E kept \in 0..n - 1 :
               /\ kept = IF p < n THEN p ELSE n - 1
               /\ p <= n - 1 => kept = p
<1>1. CASE p < n
  BY <1>1
<1>2. CASE ~ (p < n)
  <2>1. n - 1 \in 0..n - 1 /\ ~ (p <= n - 1)
    BY <1>2
  <2>2. QED
    BY <1>2, <2>1
<1>3. QED
  BY <1>1, <1>2

LEMMA Returning ==
    ASSUME Inv, Return
    PROVE  Inv'
<1>0. TypeOK /\ NestInv
  BY DEF Inv
<1>1. /\ stack # <<>> /\ callStack # <<>> /\ framePointer >= 0
      /\ Taking(1)
      /\ stack' = SubSeq(stack, 1, IF framePointer < Len(stack)
                                   THEN framePointer ELSE Len(stack) - 1)
                    \o Taken(1)
      /\ ip' = TopFrame.returnIp
      /\ callStack' = SubSeq(callStack, 1, Len(callStack) - 1)
      /\ framePointer' = TopFrame.framePointer
      /\ thrown' = Nowhere
      /\ UNCHANGED <<program, running, globals, exceptionHandlers,
                     currentException, outcome>>
  BY DEF Return
<1>2. PICK values \in Seq(Value) : values = stack
  BY <1>0, Types
<1>3. Len(values) \in Nat \ {0} /\ framePointer \in Int
  BY <1>0, <1>1, <1>2, Types
<1>4. /\ misused' \in BOOLEAN /\ (misused => misused')
      /\ misused' \/ framePointer <= Len(values) - 1
  BY <1>0, <1>1, <1>2, TakingFacts
<1>5. PICK kept \in 0..Len(values) - 1 :
          /\ kept = IF framePointer < Len(values) THEN framePointer
                    ELSE Len(values) - 1
          /\ framePointer <= Len(values) - 1 => kept = framePointer
  <2>1. 0 <= framePointer
    BY <1>1, <1>3
  <2>2. QED
    BY <1>3, <2>1, KeptFacts
<1>6. PICK below \in Seq(Value) :
          below = SubSeq(values, 1, kept) /\ Len(below) = kept
  <2>1. kept \in 0..Len(values)
    BY <1>3
  <2>2. QED
    BY <2>1, ShorterSeq
<1>7. PICK result \in Seq(Value) : result = Taken(1) /\ Len(result) = 1
  <2>1. 1 \in 0..Len(stack)
    BY <1>2, <1>3
  <2>2. QED
    BY <1>0, <2>1, TakenFacts
<1>8. /\ stack' = below \o result
      /\ below \o result \in Seq(Value)
      /\ Len(below \o result) = kept + 1
  <2>1. stack' = below \o result
    BY <1>1, <1>2, <1>5, <1>6, <1>7
  <2>2. /\ below \o result \in Seq(Value)
        /\ Len(below \o result) = Len(below) + Len(result)
    BY ConcatSeq
  <2>3. QED
    BY <1>6, <1>7, <2>1, <2>2
<1>9. PICK m \in Nat : m = Len(callStack) - 1 /\ m = Len(callStack')
  BY <1>0, <1>1, CallersFacts
<1>10. TypeOK'
  <2>1. /\ callStack' \in Seq([returnIp: Nat, framePointer: Int])
        /\ ip' \in Nat /\ framePointer' \in Int
    BY <1>0, <1>1, CallersFacts
  <2>2. stack' \in Seq(Value)
    BY <1>8
  <2>3. QED
    BY <1>0, <1>1, <1>4, <2>1, <2>2 DEF TypeOK
<1>11. CASE misused'
  BY <1>10, <1>11 DEF Inv, NestInv
<1>12. CASE ~ misused'
  <2>1. Len(callStack) = m + 1
    BY <1>0, <1>9 DEF TypeOK
  <2>2. \A k \in 1..m + 2 : 0 <= base(k) /\ base(k) <= base(k + 1)
    BY <1>0, <1>4, <1>12, <2>1 DEF NestInv
  <2>3. \A k \in 1..m : base(k)' = base(k)
    <3>1. \A k \in 1..m : callStack'[k] = callStack[k]
      BY <1>0, <1>1, <1>9, CallersFacts
    <3>2. QED
      BY <1>9, <2>1, <3>1 DEF base
  <2>4. base(m + 1)' = base(m + 1)
    <3>1. framePointer' = callStack[m + 1].framePointer
      BY <1>1, <2>1 DEF TopFrame
    <3>2. QED
      BY <1>9, <2>1, <3>1 DEF base
  <2>5. base(m + 2)' = framePointer + 1 /\ base(m + 2) = framePointer
    <3>1. Len(stack') = framePointer + 1
      BY <1>4, <1>5, <1>8, <1>12
    <3>2. QED
      BY <1>9, <2>1, <3>1 DEF base
  <2>6. \A k \in 1..m + 1 : base(k)' = base(k)
    <3>1. ASSUME NEW k \in 1..m + 1
          PROVE  k \in 1..m \/ k = m + 1
      OBVIOUS
    <3>2. QED
      BY <2>3, <2>4, <3>1
  <2>7. ASSUME NEW k \in 1..m + 1
        PROVE  0 <= base(k)' /\ base(k)' <= base(k + 1)'
    <3>1. k \in 1..m + 2
      OBVIOUS
    <3>2. 0 <= base(k) /\ base(k) <= base(k + 1)
      BY <2>2, <3>1
    <3>3. CASE k \in 1..m
      <4>1. k + 1 \in 1..m + 1
        BY <3>3
      <4>2. QED
        BY <2>6, <3>2, <4>1
    <3>4. CASE k = m + 1
      <4>1. base(k)' = base(k) /\ base(k) <= framePointer
        BY <2>4, <2>5, <3>2, <3>4
      <4>2. base(k + 1)' = framePointer + 1
        BY <2>5, <3>4
      <4>3. base(k) \in Int
        <5>1. PICK calls \in Seq([returnIp: Nat, framePointer: Int]) :
                  calls = callStack
          BY <1>0 DEF TypeOK
        <5>2. m + 1 \in 1..Len(calls)
          BY <2>1, <5>1
        <5>3. calls[m + 1] \in [returnIp: Nat, framePointer: Int]
          BY <5>2, Elements
        <5>4. QED
          BY <2>1, <3>4, <5>1, <5>3 DEF base
      <4>4. QED
        BY <1>3, <3>2, <4>1, <4>2, <4>3
    <3>5. QED
      BY <3>3, <3>4
  <2>8. QED
    BY <1>9, <1>10, <2>7 DEF Inv, NestInv
<1>13. QED
  BY <1>11, <1>12

LEMMA ReturnsFail ==
    ASSUME Inv, ReturnFails
    PROVE  Inv'
<1>0. TypeOK /\ NestInv
  BY DEF Inv
<1>1. /\ callStack # <<>> /\ framePointer < 0
      /\ Raise(TopFrame.returnIp, <<>>)
      /\ callStack' = SubSeq(callStack, 1, Len(callStack) - 1)
      /\ UNCHANGED <<program, running, globals, framePointer,
                     exceptionHandlers, misused>>
  BY DEF ReturnFails
<1>2. /\ callStack' \in Seq([returnIp: Nat, framePointer: Int])
      /\ TopFrame.returnIp \in Nat
  BY <1>0, <1>1, CallersFacts
<1>3. <<>> \in Seq(Value)
  OBVIOUS
<1>4. /\ stack' \in Seq(Value) /\ ip' \in Nat
      /\ currentException' \in Value
      /\ outcome' \in {"pending", "returned", "rejected"}
      /\ thrown' \in Nat
  BY <1>0, <1>1, <1>2, <1>3, RaiseType
<1>5. TypeOK'
  BY <1>0, <1>1, <1>2, <1>4 DEF TypeOK
<1>6. framePointer \in Int
  BY <1>0, Types
<1>7. ~ (0 <= framePointer)
  BY <1>1, <1>6
<1>8. misused
  BY <1>0, <1>7, FrameBelow
<1>9. QED
  BY <1>1, <1>5, <1>8 DEF Inv, NestInv

LEMMA MainReturns ==
    ASSUME Inv, ReturnFromMain
    PROVE  Inv'
<1>0. TypeOK /\ NestInv
  BY DEF Inv
<1>1. /\ Taking(1) /\ stack # <<>> /\ running' = FALSE /\ ip' = next_ip
      /\ thrown' = Nowhere
      /\ UNCHANGED <<program, stack, globals, callStack, framePointer,
                     exceptionHandlers, currentException, outcome>>
  BY DEF ReturnFromMain, Continues
<1>2. /\ stack \in Seq(Value) /\ Len(stack) \in Nat
      /\ framePointer \in Int /\ next_ip \in Nat
  BY <1>0, Types
<1>3. /\ misused' \in BOOLEAN /\ (misused => misused')
      /\ misused' \/ framePointer <= Len(stack) - 1
  BY <1>0, <1>1, TakingFacts
<1>4. misused' \/ framePointer <= Len(stack)
  BY <1>2, <1>3
<1>5. TypeOK'
  BY <1>0, <1>1, <1>2, <1>3 DEF TypeOK
<1>6. NestInv'
  BY <1>0, <1>1, <1>2, <1>3, <1>4, SameFrames
<1>7. QED
  BY <1>5, <1>6 DEF Inv

LEMMA Variables ==
    ASSUME Inv, OutOfBounds \/ LoadLocal \/ StoreLocal \/ LoadGlobal
    PROVE  Inv'
<1>0. TypeOK /\ NestInv
  BY DEF Inv
<1>1. /\ stack \in Seq(Value) /\ Len(stack) \in Nat
      /\ framePointer \in Int /\ misused \in BOOLEAN /\ next_ip \in Nat
      /\ currentException \in Value
      /\ outcome \in {"pending", "returned", "rejected"}
  BY <1>0, Types
<1>2. misused \/ framePointer <= Len(stack)
  BY <1>0, FrameBelow
<1>3. ASSUME Raise(next_ip, stack), UNCHANGED <<control, globals, misused>>
      PROVE  Inv'
  <2>1. /\ stack' \in Seq(Value) /\ ip' \in Nat
        /\ currentException' \in Value
        /\ outcome' \in {"pending", "returned", "rejected"}
        /\ thrown' \in Nat
        /\ Len(stack') \in Nat /\ Len(stack) <= Len(stack')
    BY <1>0, <1>1, <1>3, RaiseType
  <2>2. misused' \/ framePointer <= Len(stack')
    BY <1>1, <1>2, <1>3, <2>1
  <2>3. QED
    BY <1>1, <1>3, <2>1, <2>2, Within
<1>4. ASSUME NEW v \in Value, Continues, stack' = Append(stack, v),
             UNCHANGED <<control, globals, misused>>
      PROVE  Inv'
  <2>1. Append(stack, v) \in Seq(Value) /\ Len(Append(stack, v)) = Len(stack) + 1
    BY <1>1
  <2>2. /\ ip' \in Nat /\ thrown' \in Nat \cup {Nowhere}
        /\ currentException' \in Value
        /\ outcome' \in {"pending", "returned", "rejected"}
    BY <1>1, <1>4 DEF Continues
  <2>3. misused' \/ framePointer <= Len(stack')
    BY <1>1, <1>2, <1>4, <2>1
  <2>4. QED
    BY <1>1, <1>4, <2>1, <2>2, <2>3, Within
<1>5. CASE OutOfBounds
  BY <1>3, <1>5 DEF OutOfBounds
<1>6. CASE LoadLocal
  <2>1. local + 1 \in 1..Len(stack)
    <3>1. local \in 0..Len(stack) - 1
      BY <1>6 DEF LoadLocal
    <3>2. QED
      BY <1>1, <3>1
  <2>2. stack[local + 1] \in Value
    BY <1>1, <2>1, Elements
  <2>3. QED
    BY <1>4, <1>6, <2>2 DEF LoadLocal
<1>7. CASE StoreLocal
  <2>1. /\ local \in 0..Len(stack) - 1 /\ Taking(1) /\ Continues
        /\ UNCHANGED <<control, globals>>
        /\ stack' = IF local = Len(stack) - 1 THEN stack
                    ELSE [Left(1) EXCEPT ![local + 1] = Taken(1)[1]]
    BY <1>7 DEF StoreLocal
  <2>2. 1 \in 0..Len(stack)
    BY <1>1, <2>1
  <2>3. PICK left \in Seq(Value) : left = Left(1) /\ Len(left) = Len(stack) - 1
    BY <1>0, <2>2, LeftFacts
  <2>4. PICK v \in Value : v = Taken(1)[1]
    <3>1. 1 \in 1..1
      OBVIOUS
    <3>2. QED
      BY <1>0, <2>2, <3>1, TakenFacts
  <2>5. local # Len(stack) - 1 =>
            /\ [left EXCEPT ![local + 1] = v] \in Seq(Value)
            /\ Len([left EXCEPT ![local + 1] = v]) = Len(left)
    <3>1. local # Len(stack) - 1 => local + 1 \in 1..Len(left)
      BY <1>1, <2>1, <2>3
    <3>2. QED
      BY <3>1, ReplacedSeq
  <2>6. /\ stack' \in Seq(Value)
        /\ Len(stack') = Len(stack) - 1 \/ Len(stack') = Len(stack)
    BY <1>1, <2>1, <2>3, <2>4, <2>5
  <2>7. /\ misused' \in BOOLEAN /\ (misused => misused')
        /\ misused' \/ framePointer <= Len(stack) - 1
    BY <1>0, <2>1, TakingFacts
  <2>8. misused' \/ framePointer <= Len(stack')
    BY <1>1, <2>6, <2>7
  <2>9. /\ ip' \in Nat /\ thrown' \in Nat \cup {Nowhere}
        /\ currentException' \in Value
        /\ outcome' \in {"pending", "returned", "rejected"}
    BY <1>1, <2>1 DEF Continues
  <2>10. QED
    BY <2>1, <2>6, <2>7, <2>8, <2>9, Within
<1>8. CASE LoadGlobal
  <2>1. \/ Raise(next_ip, stack)
        \/ \E index \in DOMAIN globals :
              Continues /\ stack' = Append(stack, globals[index])
    BY <1>8 DEF LoadGlobal
  <2>2. UNCHANGED <<control, globals, misused>>
    BY <1>8 DEF LoadGlobal
  <2>3. \A index \in DOMAIN globals : globals[index] \in Value
    BY <1>0 DEF TypeOK
  <2>4. QED
    BY <1>3, <1>4, <2>1, <2>2, <2>3
<1>9. QED
  BY <1>5, <1>6, <1>7, <1>8

LEMMA StoresGlobal ==
    ASSUME Inv, StoreGlobal
    PROVE  Inv'
<1>0. TypeOK /\ NestInv
  BY DEF Inv
<1>1. /\ stack \in Seq(Value) /\ Len(stack) \in Nat
      /\ framePointer \in Int /\ misused \in BOOLEAN /\ next_ip \in Nat
  BY <1>0, Types
<1>2. /\ Executes({"STORE_GLOBAL"}) /\ stack # <<>> /\ Taking(1)
      /\ stack' = Left(1)
      /\ Continues /\ UNCHANGED control
      /\ LET index == readByte(ip + 1)
         IN  globals' = [i \in DOMAIN globals \cup {index} |->
                            IF i = index THEN Taken(1)[1] ELSE globals[i]]
  BY DEF StoreGlobal
<1>3. readByte(ip + 1) \in 0..255
  <2>1. op = "STORE_GLOBAL"
    BY <1>2 DEF Executes
  <2>2. Width(op) = 2
    BY <2>1, Widths
  <2>3. QED
    BY <1>0, <1>2, <2>2, Operand
<1>4. 1 \in 0..Len(stack)
  BY <1>1, <1>2
<1>5. stack' \in Seq(Value) /\ Len(stack') = Len(stack) - 1
  BY <1>0, <1>2, <1>4, LeftFacts
<1>6. Taken(1)[1] \in Value
  <2>1. 1 \in 1..1
    OBVIOUS
  <2>2. QED
    BY <1>0, <1>4, <2>1, TakenFacts
<1>7. /\ misused' \in BOOLEAN /\ (misused => misused')
      /\ misused' \/ framePointer <= Len(stack')
  BY <1>0, <1>2, <1>5, TakingFacts
<1>8. /\ DOMAIN globals' \subseteq 0..255
      /\ \A i \in DOMAIN globals' : globals'[i] \in Value
  BY <1>0, <1>2, <1>3, <1>6 DEF TypeOK
<1>9. TypeOK'
  BY <1>0, <1>1, <1>2, <1>5, <1>7, <1>8 DEF TypeOK, control, Continues
<1>10. NestInv'
  <2>1. Len(stack') \in Nat /\ UNCHANGED <<callStack, framePointer>>
    BY <1>2, <1>5 DEF control
  <2>2. QED
    BY <1>0, <1>7, <2>1, SameFrames
<1>11. QED
  BY <1>9, <1>10 DEF Inv

LEMMA HandlerType ==
    ASSUME NEW a \in Nat, NEW b \in Nat, NEW c \in Nat
    PROVE  [tryStart |-> a, tryEnd |-> b, catchStart |-> c] \in Handler
BY DEF Handler

LEMMA Tries ==
    ASSUME Inv, TryBegin \/ TryEnd
    PROVE  Inv'
<1>0. TypeOK /\ NestInv
  BY DEF Inv
<1>1. /\ stack \in Seq(Value) /\ Len(stack) \in Nat /\ next_ip \in Nat
      /\ ip \in Nat
  BY <1>0, Types
<1>2. PICK handlers \in Seq(Handler) : handlers = exceptionHandlers
  BY <1>0 DEF TypeOK
<1>3. /\ Continues
      /\ UNCHANGED <<program, stack, running, globals, callStack, framePointer,
                     misused>>
  BY DEF TryBegin, TryEnd
<1>4. exceptionHandlers' \in Seq(Handler)
  <2>1. CASE TryBegin
    <3>1. Executes({"TRY_BEGIN"})
      BY <2>1 DEF TryBegin
    <3>2. readShort(ip + 1) \in Nat /\ readShort(ip + 3) \in Nat
      <4>1. Width(op) = 7
        BY <3>1, Widths DEF Executes
      <4>2. QED
        BY <1>0, <3>1, <4>1, Operand
    <3>3. PICK handler \in Handler :
              handler = [tryStart   |-> ip + 1,
                         tryEnd     |-> readShort(ip + 1),
                         catchStart |-> readShort(ip + 3)]
      <4>1. ip + 1 \in Nat
        BY <1>1
      <4>2. QED
        BY <3>2, <4>1, HandlerType
    <3>4. exceptionHandlers' = Append(handlers, handler)
      BY <1>2, <2>1, <3>3 DEF TryBegin
    <3>5. QED
      BY <3>4
  <2>2. CASE TryEnd
    <3>1. exceptionHandlers' = SubSeq(handlers, 1, Len(handlers) - 1)
      BY <1>2, <2>2 DEF TryEnd
    <3>2. CASE Len(handlers) = 0
      BY <3>1, <3>2
    <3>3. CASE Len(handlers) # 0
      <4>1. Len(handlers) - 1 \in 0..Len(handlers)
        BY <3>3
      <4>2. QED
        BY <3>1, <4>1, ShorterSeq
    <3>4. QED
      BY <3>2, <3>3
  <2>3. QED
    BY <2>1, <2>2
<1>5. TypeOK'
  BY <1>0, <1>1, <1>3, <1>4 DEF TypeOK, Continues
<1>6. NestInv'
  BY <1>0, <1>1, <1>3, FrameBelow, SameFrames
<1>7. QED
  BY <1>5, <1>6 DEF Inv

LEMMA Throws ==
    ASSUME Inv, Throw
    PROVE  Inv'
<1>0. TypeOK /\ NestInv
  BY DEF Inv
<1>1. /\ stack \in Seq(Value) /\ Len(stack) \in Nat
      /\ framePointer \in Int /\ next_ip \in Nat
      /\ outcome \in {"pending", "returned", "rejected"}
  BY <1>0, Types
<1>2. /\ stack # <<>> /\ Taking(1)
      /\ currentException' = Taken(1)[1]
      /\ thrown' = next_ip
      /\ UNCHANGED <<control, globals>>
      /\ \/ outcome' = "rejected" /\ ip' = next_ip /\ stack' = Left(1)
         \/ \E h \in findExceptionHandler(next_ip) :
               /\ ip' = exceptionHandlers[h].catchStart
               /\ UNCHANGED <<stack, outcome>>
  BY DEF Throw
<1>3. 1 \in 0..Len(stack)
  BY <1>1, <1>2
<1>4. Left(1) \in Seq(Value) /\ Len(Left(1)) = Len(stack) - 1
  BY <1>0, <1>3, LeftFacts
<1>5. currentException' \in Value
  <2>1. 1 \in 1..1
    OBVIOUS
  <2>2. QED
    BY <1>0, <1>2, <1>3, <2>1, TakenFacts
<1>6. /\ misused' \in BOOLEAN /\ (misused => misused')
      /\ misused' \/ framePointer <= Len(stack) - 1
  BY <1>0, <1>2, TakingFacts
<1>7. /\ stack' \in Seq(Value) /\ ip' \in Nat
      /\ outcome' \in {"pending", "returned", "rejected"}
      /\ Len(stack) - 1 <= Len(stack')
  BY <1>0, <1>1, <1>2, <1>4, HandlerFacts
<1>8. misused' \/ framePointer <= Len(stack')
  <2>1. Len(stack') \in Nat
    BY <1>7
  <2>2. QED
    BY <1>1, <1>6, <1>7, <2>1
<1>9. thrown' \in Nat \cup {Nowhere}
  BY <1>1, <1>2
<1>10. QED
  BY <1>2, <1>5, <1>6, <1>7, <1>8, <1>9, Within

LEMMA Ends ==
    ASSUME Inv, Catch \/ Exit \/ Finish
    PROVE  Inv'
<1>0. TypeOK /\ NestInv
  BY DEF Inv
<1>1. /\ stack \in Seq(Value) /\ Len(stack) \in Nat
      /\ framePointer \in Int /\ misused \in BOOLEAN /\ next_ip \in Nat
      /\ ip \in Nat /\ currentException \in Value
      /\ outcome \in {"pending", "returned", "rejected"}
  BY <1>0, Types
<1>2. misused \/ framePointer <= Len(stack)
  BY <1>0, FrameBelow
<1>3. CASE Catch
  <2>1. /\ currentException' = "null" /\ ip' = next_ip /\ thrown' = Nowhere
        /\ UNCHANGED <<control, stack, globals, outcome, misused>>
    BY <1>3 DEF Catch
  <2>2. QED
    BY <1>1, <1>2, <2>1, ErrorIsValue, Within
<1>4. CASE Exit
  <2>1. /\ running' = FALSE /\ ip' = next_ip /\ thrown' = Nowhere
        /\ UNCHANGED <<program, stack, globals, callStack, framePointer,
                       exceptionHandlers, currentException, outcome, misused>>
    BY <1>4 DEF Exit, Continues
  <2>2. TypeOK'
    BY <1>0, <1>1, <2>1 DEF TypeOK
  <2>3. NestInv'
    BY <1>0, <1>1, <1>2, <2>1, SameFrames
  <2>4. QED
    BY <2>2, <2>3 DEF Inv
<1>5. CASE Finish
  <2>1. /\ outcome' = "returned" /\ thrown' = Nowhere
        /\ UNCHANGED <<control, ip, globals, currentException>>
        /\ \/ UNCHANGED <<stack, misused>>
           \/ stack # <<>> /\ stack' = Left(1) /\ Taking(1)
    BY <1>5 DEF Finish
  <2>2. CASE UNCHANGED <<stack, misused>>
    BY <1>1, <1>2, <2>1, <2>2, Within
  <2>3. CASE stack # <<>> /\ stack' = Left(1) /\ Taking(1)
    <3>1. 1 \in 0..Len(stack)
      BY <1>1, <2>3
    <3>2. stack' \in Seq(Value) /\ Len(stack') = Len(stack) - 1
      BY <1>0, <2>3, <3>1, LeftFacts
    <3>3. /\ misused' \in BOOLEAN /\ (misused => misused')
          /\ misused' \/ framePointer <= Len(stack')
      BY <1>0, <2>3, <3>2, TakingFacts
    <3>4. QED
      BY <1>1, <2>1, <3>2, <3>3, Within
  <2>4. QED
    BY <2>1, <2>2, <2>3
<1>6. QED
  BY <1>3, <1>4, <1>5

-----------------------------------------------------------------------------
(* The invariant *)

LEMMA Initially ==
    ASSUME Init
    PROVE  Inv
<1>1. program \in Program
  BY VMAssumption DEF Init
<1>2. program.exceptionHandlers \in Seq(Handler)
  BY <1>1 DEF Program
<1>3. DOMAIN globals = {}
  BY DEF Init
<1>4. <<>> \in Seq(Value) /\ <<>> \in Seq([returnIp: Nat, framePointer: Int])
  OBVIOUS
<1>5. /\ stack \in Seq(Value) /\ ip \in Nat /\ running \in BOOLEAN
      /\ callStack \in Seq([returnIp: Nat, framePointer: Int])
      /\ framePointer \in Int
  BY <1>4 DEF Init
<1>6. /\ currentException \in Value /\ misused \in BOOLEAN
      /\ outcome \in {"pending", "returned", "rejected"}
      /\ thrown \in Nat \cup {Nowhere}
      /\ exceptionHandlers \in Seq(Handler)
  BY <1>2, ErrorIsValue DEF Init
<1>7. TypeOK
  BY <1>1, <1>3, <1>5, <1>6 DEF TypeOK
<1>8. NestInv
  BY DEF Init, NestInv, base
<1>9. QED
  BY <1>7, <1>8 DEF Inv

LEMMA Invariance ==
    ASSUME Inv, [Next]_vars
    PROVE  Inv'
<1>1. CASE UNCHANGED vars
  <2>1. TypeOK'
    BY <1>1 DEF Inv, TypeOK, vars
  <2>2. NestInv'
    BY <1>1 DEF Inv, NestInv, base, vars
  <2>3. QED
    BY <2>1, <2>2 DEF Inv
<1>2. CASE Next
  BY <1>2, Refuses, Operates, Jumps, Calling, Returning, ReturnsFail,
     MainReturns, Variables, StoresGlobal, Tries, Throws, Ends DEF Next
<1>3. QED
  BY <1>1, <1>2

\* Whatever bytes it is given as a program, every variable of the machine keeps
\* its type: ip is never an address below zero, and the stack holds values only.
THEOREM TypeCorrect == Spec => []TypeOK
<1>1. Init => Inv
  BY Initially
<1>2. Inv /\ [Next]_vars => Inv'
  BY Invariance
<1>3. Inv => TypeOK
  BY DEF Inv
<1>4. QED
  BY <1>1, <1>2, <1>3, PTL DEF Spec

\* As long as no function takes values that are not its own, the frames of the
\* calls lie on the stack one above the other, after exceptions as well, which
\* unwind neither (vm.ts:558).
THEOREM FramesAreNested == Spec => []FramesNested
<1>1. Init => Inv
  BY Initially
<1>2. Inv /\ [Next]_vars => Inv'
  BY Invariance
<1>3. Inv => FramesNested
  BY DEF Inv, NestInv, FramesNested
<1>4. QED
  BY <1>1, <1>2, <1>3, PTL DEF Spec

-----------------------------------------------------------------------------
(* The frames of the calls, and the stack they share *)

\* Two stacks that agree up to a position have the same slices below it.
LEMMA SameSlice ==
    ASSUME NEW s \in Seq(Value), NEW t \in Seq(Value), NEW p \in Nat, NEW q \in Nat,
           p <= q, q <= Len(s), q <= Len(t), \A i \in 1..q : t[i] = s[i]
    PROVE  SubSeq(t, p + 1, q) = SubSeq(s, p + 1, q)
<1>2. /\ SubSeq(s, p + 1, q) \in Seq(Value)
      /\ Len(SubSeq(s, p + 1, q)) = q - p
      /\ \A i \in 1 .. q - p : SubSeq(s, p + 1, q)[i] = s[p + i]
  OBVIOUS
<1>3. /\ SubSeq(t, p + 1, q) \in Seq(Value)
      /\ Len(SubSeq(t, p + 1, q)) = q - p
      /\ \A i \in 1 .. q - p : SubSeq(t, p + 1, q)[i] = t[p + i]
  OBVIOUS
<1>4. \A i \in 1 .. q - p : s[p + i] = t[p + i]
  <2>1. ASSUME NEW i \in 1 .. q - p
        PROVE  p + i \in 1..q
    OBVIOUS
  <2>2. QED
    BY <2>1
<1>5. QED
  BY <1>2, <1>3, <1>4, SeqEqual

\* A slice of a slice.
LEMMA SliceOfSlice ==
    ASSUME NEW s \in Seq(Value), NEW p \in Nat, NEW q \in Nat, NEW r \in Nat,
           p <= q, q <= r, r <= Len(s)
    PROVE  /\ Len(SubSeq(s, p + 1, r)) = r - p
           /\ SubSeq(SubSeq(s, p + 1, r), 1, q - p) = SubSeq(s, p + 1, q)
           /\ SubSeq(SubSeq(s, p + 1, r), q - p + 1, r - p) = SubSeq(s, q + 1, r)
<1>1. PICK u \in Seq(Value) : 
        /\ u = SubSeq(s, p + 1, r) /\ Len(u) = r - p
        /\ \A i \in 1 .. r - p : u[i] = s[p + i]
  <2>1. /\ SubSeq(s, p + 1, r) \in Seq(Value)
        /\ Len(SubSeq(s, p + 1, r)) = r - p
        /\ \A i \in 1 .. r - p : SubSeq(s, p + 1, r)[i] = s[p + i]
    OBVIOUS
  <2>2. QED
    BY <2>1
<1>2. /\ SubSeq(s, p + 1, q) \in Seq(Value)
      /\ Len(SubSeq(s, p + 1, q)) = q - p
      /\ \A i \in 1 .. q - p : SubSeq(s, p + 1, q)[i] = s[p + i]
  OBVIOUS
<1>3. /\ SubSeq(s, q + 1, r) \in Seq(Value)
      /\ Len(SubSeq(s, q + 1, r)) = r - q
      /\ \A i \in 1 .. r - q : SubSeq(s, q + 1, r)[i] = s[q + i]
  OBVIOUS
<1>4. /\ SubSeq(u, 1, q - p) \in Seq(Value)
      /\ Len(SubSeq(u, 1, q - p)) = q - p
      /\ \A i \in 1 .. q - p : SubSeq(u, 1, q - p)[i] = u[i]
  BY <1>1
<1>5. /\ SubSeq(u, q - p + 1, r - p) \in Seq(Value)
      /\ Len(SubSeq(u, q - p + 1, r - p)) = r - q
      /\ \A i \in 1 .. r - q : SubSeq(u, q - p + 1, r - p)[i] = u[q - p + i]
  BY <1>1
<1>6. SubSeq(u, 1, q - p) = SubSeq(s, p + 1, q)
  <2>1. \A i \in 1 .. q - p : i \in 1 .. r - p
    OBVIOUS
  <2>2. QED
    BY <1>1, <1>2, <1>4, <2>1, SeqEqual
<1>7. SubSeq(u, q - p + 1, r - p) = SubSeq(s, q + 1, r)
  <2>1. \A i \in 1 .. r - q : /\ q - p + i \in 1 .. r - p
                              /\ p + (q - p + i) = q + i
    OBVIOUS
  <2>2. QED
    BY <1>1, <1>3, <1>5, <2>1, SeqEqual
<1>8. QED
  BY <1>1, <1>6, <1>7
\* The frames of n running functions whose frames begin where b says.
Slices(s, b, n) == [k \in 1..n |-> SubSeq(s, b[k] + 1, b[k+1])]

\* Where the frames begin, up to the end of the stack.
Bases(b, s, n) ==
    /\ s \in Seq(Value) /\ n \in Nat
    /\ b \in [1..n+1 -> Nat]
    /\ \A j, k \in 1..n+1 : j <= k => b[j] <= b[k]
    /\ b[n+1] = Len(s)

LEMMA SlicesType ==
    ASSUME NEW s, NEW b, NEW n, Bases(b, s, n)
    PROVE  /\ Slices(s, b, n) \in Seq(Seq(Value))
           /\ Len(Slices(s, b, n)) = n
           /\ \A k \in 1..n : Slices(s, b, n)[k] = SubSeq(s, b[k] + 1, b[k+1])
           /\ \A k \in 1..n : Len(Slices(s, b, n)[k]) = b[k+1] - b[k]
<1>1. /\ s \in Seq(Value) /\ n \in Nat /\ Len(s) \in Nat
      /\ b \in [1..n+1 -> Nat]
      /\ \A j, k \in 1..n+1 : j <= k => b[j] <= b[k]
      /\ b[n+1] = Len(s)
  BY DEF Bases
<1>2. ASSUME NEW k \in 1..n
      PROVE  /\ SubSeq(s, b[k] + 1, b[k+1]) \in Seq(Value)
             /\ Len(SubSeq(s, b[k] + 1, b[k+1])) = b[k+1] - b[k]
  <2>1. k \in 1..n+1 /\ k + 1 \in 1..n+1 /\ n + 1 \in 1..n+1
    BY <1>1
  <2>2. PICK p \in Nat, q \in Nat : p = b[k] /\ q = b[k+1]
    BY <1>1, <2>1
  <2>3. p <= q /\ q <= Len(s)
    BY <1>1, <2>1, <2>2
  <2>4. SubSeq(s, p + 1, q) \in Seq(Value) /\ Len(SubSeq(s, p + 1, q)) = q - p
    BY <1>1, <2>3
  <2>5. QED
    BY <2>2, <2>4
<1>3. PICK f : f = Slices(s, b, n)
  OBVIOUS
<1>4. /\ f \in [1..n -> Seq(Value)]
      /\ \A k \in 1..n : f[k] = SubSeq(s, b[k] + 1, b[k+1])
  BY <1>2, <1>3, Zenon DEF Slices
<1>5. f \in Seq(Seq(Value)) /\ Len(f) = n
  BY <1>1, <1>4
<1>6. QED
  BY <1>2, <1>3, <1>4, <1>5

\* What is said of the stack below the frame of the running function is said of
\* the frames of its callers.
LEMMA CallersKept ==
    ASSUME NEW s, NEW t, NEW b, NEW c, NEW n, NEW m,
           NEW h \in Nat, NEW e, e = h + 1,
           Bases(b, s, n), Bases(c, t, m), e <= n, e <= m,
           \A k \in 1..e : c[k] = b[k],
           \A i \in 1..b[e] : t[i] = s[i]
    PROVE  \A k \in 1..h : Slices(t, c, m)[k] = Slices(s, b, n)[k]
<1>0. /\ h < n /\ h < m
      /\ \A k \in 1..h+1 : c[k] = b[k]
      /\ \A i \in 1..b[h+1] : t[i] = s[i]
  <2>1. n \in Nat /\ m \in Nat
    BY DEF Bases
  <2>2. QED
    BY <2>1
<1>1. /\ s \in Seq(Value) /\ n \in Nat /\ Len(s) \in Nat
      /\ b \in [1..n+1 -> Nat] /\ c \in [1..m+1 -> Nat]
      /\ t \in Seq(Value) /\ m \in Nat /\ Len(t) \in Nat
      /\ \A j, k \in 1..n+1 : j <= k => b[j] <= b[k]
      /\ \A j, k \in 1..m+1 : j <= k => c[j] <= c[k]
      /\ b[n+1] = Len(s) /\ c[m+1] = Len(t)
  BY DEF Bases
<1>2. ASSUME NEW k \in 1..h
      PROVE  SubSeq(t, c[k] + 1, c[k+1]) = SubSeq(s, b[k] + 1, b[k+1])
  <2>1. /\ k \in 1..n+1 /\ k + 1 \in 1..n+1 /\ n + 1 \in 1..n+1
        /\ k \in 1..m+1 /\ k + 1 \in 1..m+1 /\ m + 1 \in 1..m+1
        /\ k \in 1..h+1 /\ k + 1 \in 1..h+1 /\ h + 1 \in 1..n+1
    BY <1>0, <1>1
  <2>2. PICK p \in Nat, q \in Nat : p = b[k] /\ q = b[k+1]
    BY <1>1, <2>1
  <2>3. p <= q /\ q <= Len(s) /\ q <= b[h+1] /\ b[h+1] \in Nat
    BY <1>1, <2>1, <2>2
  <2>4. c[k] = p /\ c[k+1] = q
    BY <1>0, <2>1, <2>2
  <2>5. q <= Len(t)
    BY <1>1, <2>1, <2>4
  <2>6. \A i \in 1..q : t[i] = s[i]
    BY <1>0, <2>3
  <2>7. s \in Seq(Value) /\ t \in Seq(Value) /\ p <= q /\ q <= Len(s)
    BY <1>1, <2>3
  <2>8. SubSeq(t, p + 1, q) = SubSeq(s, p + 1, q)
    BY <2>5, <2>6, <2>7, SameSlice
  <2>9. QED
    BY <2>2, <2>4, <2>8
<1>3. ASSUME NEW k \in 1..h
      PROVE  Slices(t, c, m)[k] = Slices(s, b, n)[k]
  <2>1. k \in 1..n /\ k \in 1..m
    BY <1>0, <1>1
  <2>2. /\ Slices(s, b, n)[k] = SubSeq(s, b[k] + 1, b[k+1])
        /\ Slices(t, c, m)[k] = SubSeq(t, c[k] + 1, c[k+1])
    BY <2>1, SlicesType
  <2>3. QED
    BY <1>2, <2>2
<1>4. QED
  BY <1>3

LEMMA Monotone ==
    ASSUME NEW n \in Nat, NEW b \in [1..n+1 -> Int],
           \A k \in 1..n : b[k] <= b[k+1]
    PROVE  \A j, k \in 1..n+1 : j <= k => b[j] <= b[k]
<1> DEFINE P == {d \in 0..n : \A j \in 1..n+1-d : b[j] <= b[j+d]}
<1>1. 0 \in P
  <2>1. \A j \in 1..n+1 : b[j] \in Int
    OBVIOUS
  <2>2. QED
    BY <2>1
<1>2. ASSUME NEW d \in 1..n, d - 1 \in P
      PROVE  d \in P
  <2>1. ASSUME NEW j \in 1..n+1-d
        PROVE  b[j] <= b[j+d]
    <3>1. /\ j \in 1..n+1 /\ j + d \in 1..n+1
          /\ j \in 1..n+1-(d-1) /\ j + (d - 1) \in 1..n
          /\ j + (d - 1) + 1 = j + d
      OBVIOUS
    <3>2. b[j] \in Int /\ b[j + (d-1)] \in Int /\ b[j+d] \in Int
      BY <3>1
    <3>3. b[j] <= b[j + (d-1)] /\ b[j + (d-1)] <= b[j+d]
      BY <1>2, <3>1
    <3>4. QED
      BY <3>2, <3>3
  <2>2. QED
    BY <2>1
<1>3. P = 0..n
  <2> HIDE DEF P
  <2>1. P \in SUBSET (0..n)
    BY DEF P
  <2>2. QED
    BY <1>1, <1>2, <2>1, Induction
<1>4. ASSUME NEW j \in 1..n+1, NEW k \in 1..n+1, j <= k
      PROVE  b[j] <= b[k]
  <2>1. k - j \in P /\ j \in 1..n+1-(k-j) /\ j + (k - j) = k
    <3>1. k - j \in 0..n /\ j \in 1..n+1-(k-j) /\ j + (k - j) = k
      BY <1>4
    <3> HIDE DEF P
    <3>2. QED
      BY <1>3, <3>1
  <2>2. b[j] <= b[j + (k - j)]
    BY <2>1
  <2>3. QED
    BY <2>1, <2>2
<1>5. QED
  BY <1>4

CallFrame == [returnIp: Nat, framePointer: Int]

\* base as a function of the values of the variables.
Begin(calls, fp, s) ==
    [k \in 1..Len(calls)+2 |-> IF k <= Len(calls) THEN calls[k].framePointer
                               ELSE IF k = Len(calls) + 1 THEN fp ELSE Len(s)]

LEMMA BeginBases ==
    ASSUME NEW calls \in Seq(CallFrame), NEW fp \in Int, NEW s \in Seq(Value),
           \A k \in 1..Len(calls)+1 :
               /\ 0 <= Begin(calls, fp, s)[k]
               /\ Begin(calls, fp, s)[k] <= Begin(calls, fp, s)[k+1]
    PROVE  /\ Bases(Begin(calls, fp, s), s, Len(calls) + 1)
           /\ \A k \in 1..Len(calls) :
                  Begin(calls, fp, s)[k] = calls[k].framePointer
           /\ Begin(calls, fp, s)[Len(calls)+1] = fp
<1>1. PICK n \in Nat : n = Len(calls)
  OBVIOUS
<1>2. PICK b : b = Begin(calls, fp, s)
  OBVIOUS
<1>3. /\ b = [k \in 1..n+2 |-> IF k <= n THEN calls[k].framePointer
                               ELSE IF k = n + 1 THEN fp ELSE Len(s)]
      /\ Len(s) \in Nat
  BY <1>1, <1>2 DEF Begin
<1>4. \A k \in 1..n : calls[k].framePointer \in Int
  <2>1. \A k \in 1..n : calls[k] \in CallFrame
    BY <1>1, Elements
  <2>2. QED
    BY <2>1 DEF CallFrame
<1>5. \A k \in 1..n+2 : b[k] \in Int
  BY <1>3, <1>4
<1>6. /\ \A k \in 1..n : b[k] = calls[k].framePointer
      /\ b[n+1] = fp /\ b[n+2] = Len(s)
  BY <1>3
<1>7. PICK m \in Nat : m = n + 1
  OBVIOUS
<1>8. b \in [1..m+1 -> Int]
  BY <1>3, <1>5, <1>7
<1>9. \A k \in 1..m : 0 <= b[k] /\ b[k] <= b[k+1]
  BY <1>1, <1>2, <1>7
<1>10. \A j, k \in 1..m+1 : j <= k => b[j] <= b[k]
  BY <1>8, <1>9, Monotone
<1>11. b \in [1..m+1 -> Nat]
  <2>1. ASSUME NEW k \in 1..m+1
        PROVE  b[k] \in Nat
    <3>1. CASE k = n + 2
      BY <1>3, <1>6, <3>1
    <3>2. CASE k # n + 2
      <4>1. k \in 1..m /\ b[k] \in Int
        BY <1>7, <1>8, <3>2
      <4>2. QED
        BY <1>9, <4>1
    <3>3. QED
      BY <3>1, <3>2
  <2>2. QED
    BY <1>8, <2>1
<1>12. Bases(b, s, n + 1)
  BY <1>6, <1>7, <1>10, <1>11 DEF Bases
<1>13. QED
  BY <1>1, <1>2, <1>6, <1>12

\* The frames of the machine, and their number.
Here == Begin(callStack, framePointer, stack)

LEMMA FramesNow ==
    ASSUME Inv, ~ misused
    PROVE  /\ Bases(Here, stack, Len(callStack) + 1)
           /\ frames = Slices(stack, Here, Len(callStack) + 1)
           /\ \A k \in 1..Len(callStack) : Here[k] = callStack[k].framePointer
           /\ Here[Len(callStack) + 1] = framePointer
<1>1. /\ callStack \in Seq(CallFrame) /\ framePointer \in Int
      /\ stack \in Seq(Value) /\ Len(callStack) \in Nat
  BY DEF Inv, TypeOK, CallFrame
<1>2. \A k \in 1..Len(callStack) + 2 : Here[k] = base(k)
  BY <1>1 DEF Here, Begin, base
<1>3. \A k \in 1..Len(callStack) + 1 : 0 <= base(k) /\ base(k) <= base(k + 1)
  BY DEF Inv, NestInv
<1>4. \A k \in 1..Len(callStack) + 1 : k \in 1..Len(callStack) + 2
                                       /\ k + 1 \in 1..Len(callStack) + 2
  BY <1>1
<1>5. \A k \in 1..Len(callStack) + 1 : 0 <= Here[k] /\ Here[k] <= Here[k+1]
  BY <1>2, <1>3, <1>4
<1>6. frames = Slices(stack, Here, Len(callStack) + 1)
  BY <1>2, <1>4 DEF frames, Slices
<1>7. QED
  BY <1>1, <1>5, <1>6, BeginBases DEF Here

LEMMA FramesNext ==
    ASSUME Inv', ~ misused'
    PROVE  /\ Bases(Here', stack', Len(callStack') + 1)
           /\ frames' = Slices(stack', Here', Len(callStack') + 1)
           /\ \A k \in 1..Len(callStack') : Here'[k] = callStack'[k].framePointer
           /\ Here'[Len(callStack') + 1] = framePointer'
<1>1. /\ callStack' \in Seq(CallFrame) /\ framePointer' \in Int
      /\ stack' \in Seq(Value) /\ Len(callStack') \in Nat
  BY DEF Inv, TypeOK, CallFrame
<1>2. \A k \in 1..Len(callStack') + 2 : Here'[k] = base(k)'
  BY <1>1 DEF Here, Begin, base
<1>3. \A k \in 1..Len(callStack') + 1 : 0 <= base(k)' /\ base(k)' <= base(k + 1)'
  BY DEF Inv, NestInv
<1>4. \A k \in 1..Len(callStack') + 1 : k \in 1..Len(callStack') + 2
                                       /\ k + 1 \in 1..Len(callStack') + 2
  BY <1>1
<1>5. \A k \in 1..Len(callStack') + 1 : 0 <= Here'[k] /\ Here'[k] <= Here'[k+1]
  BY <1>2, <1>3, <1>4
<1>6. frames' = Slices(stack', Here', Len(callStack') + 1)
  BY <1>2, <1>4 DEF frames, Slices
<1>7. QED
  BY <1>1, <1>5, <1>6, BeginBases DEF Here

\* An instruction that neither calls nor returns.
LEMMA WorkStep ==
    ASSUME Inv, Inv', ~ misused, ~ misused',
           UNCHANGED <<callStack, framePointer>>,
           \A i \in 1..framePointer : stack'[i] = stack[i]
    PROVE  Calls!Work
<1>1. PICK h \in Nat : h = Len(callStack) /\ h = Len(callStack')
  BY DEF Inv, TypeOK
<1>2. PICK b, c : b = Here /\ c = Here'
  OBVIOUS
<1>3. /\ Bases(b, stack, h + 1) /\ frames = Slices(stack, b, h + 1)
      /\ \A k \in 1..h : b[k] = callStack[k].framePointer
      /\ b[h+1] = framePointer
  BY <1>1, <1>2, FramesNow
<1>4. /\ Bases(c, stack', h + 1) /\ frames' = Slices(stack', c, h + 1)
      /\ \A k \in 1..h : c[k] = callStack[k].framePointer
      /\ c[h+1] = framePointer
  BY <1>1, <1>2, FramesNext
<1>5. \A k \in 1..h+1 : c[k] = b[k]
  <2>1. \A k \in 1..h+1 : k \in 1..h \/ k = h + 1
    OBVIOUS
  <2>2. QED
    BY <1>3, <1>4, <2>1
<1>6. \A i \in 1..b[h+1] : stack'[i] = stack[i]
  BY <1>3
<1>8. \A k \in 1..h : frames'[k] = frames[k]
  <2>1. PICK s, t, e :
            /\ s = stack /\ t = stack' /\ e = h + 1
            /\ Bases(b, s, e) /\ Bases(c, t, e)
            /\ \A k \in 1..e : c[k] = b[k]
            /\ \A i \in 1..b[e] : t[i] = s[i]
    BY <1>3, <1>4, <1>5, <1>6
  <2>2. e <= e
    BY <2>1
  <2>3. \A k \in 1..h : Slices(t, c, e)[k] = Slices(s, b, e)[k]
    BY <2>1, <2>2, CallersKept
  <2>4. QED
    BY <1>3, <1>4, <2>1, <2>3
<1>9. /\ frames \in Seq(Seq(Value)) /\ Len(frames) = h + 1
      /\ frames' \in Seq(Seq(Value)) /\ Len(frames') = h + 1
  BY <1>3, <1>4, SlicesType
<1>10. PICK F \in Seq(Seq(Value)), G \in Seq(Seq(Value)) :
           F = frames /\ G = frames'
  BY <1>9
<1>11. /\ SubSeq(F, 1, h) \in Seq(Seq(Value)) /\ Len(SubSeq(F, 1, h)) = h
       /\ \A k \in 1..h : SubSeq(F, 1, h)[k] = F[k]
       /\ SubSeq(G, 1, h) \in Seq(Seq(Value)) /\ Len(SubSeq(G, 1, h)) = h
       /\ \A k \in 1..h : SubSeq(G, 1, h)[k] = G[k]
  <2>1. h \in 0..Len(F) /\ h \in 0..Len(G)
    BY <1>9, <1>10
  <2>2. QED
    BY <2>1, ShorterSeq
<1>12. SubSeq(G, 1, h) = SubSeq(F, 1, h)
  BY <1>8, <1>10, <1>11, SeqEqual
<1>13. G # <<>> /\ Len(G) = Len(F) /\ Len(F) - 1 = h
  BY <1>9, <1>10
<1>14. /\ (IF misused THEN <<>> ELSE frames) = F
       /\ (IF misused THEN <<>> ELSE frames)' = G
  BY <1>10
<1>15. QED
  BY <1>12, <1>13, <1>14
     DEF Calls!Work, Calls!Broken, Calls!Depth, Calls!Callers

\* The arguments leave the frame of the caller.
LEMMA CallStep ==
    ASSUME Inv, Inv', ~ misused, ~ misused', Call
    PROVE  Calls!Call
<1>0. TypeOK
  BY DEF Inv
<1>1. /\ Executes({"CALL"})
      /\ callStack' = Append(callStack, Frame(next_ip))
      /\ framePointer' = Len(stack) - readByte(ip + 3)
      /\ Taking(readByte(ip + 3))
      /\ UNCHANGED stack
  BY DEF Call, CallWith
<1>2. PICK n \in Nat : n = readByte(ip + 3)
  <2>1. op = "CALL"
    BY <1>1 DEF Executes
  <2>2. Width(op) = 4
    BY <2>1, Widths
  <2>3. readByte(ip + 3) \in 0..255
    BY <1>0, <1>1, <2>2, Operand
  <2>4. QED
    BY <2>3
<1>3. PICK h \in Nat : h = Len(callStack)
  BY <1>0 DEF TypeOK
<1>4. /\ Len(callStack') = h + 1
      /\ \A k \in 1..h : callStack'[k] = callStack[k]
      /\ callStack'[h+1].framePointer = framePointer
  BY <1>0, <1>1, <1>3 DEF TypeOK, Frame
<1>5. PICK b, c : b = Here /\ c = Here'
  OBVIOUS
<1>6. /\ Bases(b, stack, h + 1) /\ frames = Slices(stack, b, h + 1)
      /\ \A k \in 1..h : b[k] = callStack[k].framePointer
      /\ b[h+1] = framePointer
  BY <1>3, <1>5, FramesNow
<1>7. /\ Bases(c, stack', (h + 1) + 1) /\ frames' = Slices(stack', c, (h + 1) + 1)
      /\ \A k \in 1..h+1 : c[k] = callStack'[k].framePointer
      /\ c[(h+1)+1] = framePointer'
  BY <1>4, <1>5, FramesNext
<1>8. /\ Bases(c, stack, h + 2) /\ frames' = Slices(stack, c, h + 2)
      /\ \A k \in 1..h+1 : c[k] = b[k]
      /\ c[h+2] = Len(stack) - n
  <2>1. (h + 1) + 1 = h + 2
    OBVIOUS
  <2>2. \A k \in 1..h+1 : k \in 1..h \/ k = h + 1
    OBVIOUS
  <2>3. \A k \in 1..h+1 : c[k] = b[k]
    BY <1>4, <1>6, <1>7, <2>2
  <2>4. QED
    BY <1>1, <1>2, <1>7, <2>1, <2>3
<1>9. PICK p \in Nat, q \in Nat, r \in Nat :
          /\ p = framePointer /\ q = Len(stack) - n /\ r = Len(stack)
          /\ p <= q /\ q <= r
  <2>1. /\ b[h+1] \in Nat /\ c[h+2] \in Nat /\ Len(stack) \in Nat
        /\ c[h+1] <= c[h+2]
    <3>1. /\ h + 1 \in 1..(h+1)+1 /\ h + 1 \in 1..(h+2)+1 /\ h + 2 \in 1..(h+2)+1
          /\ h + 1 <= h + 2
      OBVIOUS
    <3>2. Len(stack) \in Nat
      BY <1>0, Types
    <3>3. QED
      BY <1>6, <1>8, <3>1, <3>2 DEF Bases
  <2>2. b[h+1] = framePointer /\ c[h+1] = framePointer
    <3>1. h + 1 \in 1..h+1
      OBVIOUS
    <3>2. QED
      BY <1>6, <1>8, <3>1
  <2>3. Len(stack) - n <= Len(stack)
    BY <2>1
  <2>4. QED
    BY <1>8, <2>1, <2>2, <2>3
<1>10. /\ frames \in Seq(Seq(Value)) /\ Len(frames) = h + 1
       /\ frames' \in Seq(Seq(Value)) /\ Len(frames') = h + 2
       /\ \A k \in 1..h : frames'[k] = frames[k]
  <2>1. PICK s, d, e :
            /\ s = stack /\ e = h + 1 /\ d = h + 2
            /\ Bases(b, s, e) /\ Bases(c, s, d)
            /\ \A k \in 1..e : c[k] = b[k]
    BY <1>6, <1>8
  <2>2. e <= e /\ e <= d
    BY <2>1
  <2>3. \A i \in 1..b[e] : s[i] = s[i]
    OBVIOUS
  <2>4. \A k \in 1..h : Slices(s, c, d)[k] = Slices(s, b, e)[k]
    BY <2>1, <2>2, <2>3, CallersKept
  <2>5. \A k \in 1..h : frames'[k] = frames[k]
    BY <1>6, <1>8, <2>1, <2>4
  <2>6. /\ Slices(s, b, e) \in Seq(Seq(Value)) /\ Len(Slices(s, b, e)) = e
        /\ Slices(s, c, d) \in Seq(Seq(Value)) /\ Len(Slices(s, c, d)) = d
    BY <2>1, SlicesType
  <2>7. QED
    BY <1>6, <1>8, <2>1, <2>5, <2>6
<1>11. PICK F \in Seq(Seq(Value)), G \in Seq(Seq(Value)) :
           F = frames /\ G = frames'
  BY <1>10
<1>12. /\ F[h+1] = SubSeq(stack, p + 1, r)
       /\ G[h+1] = SubSeq(stack, p + 1, q)
       /\ G[h+2] = SubSeq(stack, q + 1, r)
  <2>1. /\ h + 1 \in 1..h+1 /\ h + 1 \in 1..h+2 /\ h + 2 \in 1..h+2
        /\ (h + 1) + 1 = h + 2 /\ (h + 2) + 1 = h + 3
    OBVIOUS
  <2>2. b[h+1] = p /\ b[(h+1)+1] = r
    BY <1>6, <1>9 DEF Bases
  <2>3. c[h+1] = p /\ c[h+2] = q /\ c[(h+2)+1] = r
    <3>1. c[h+1] = b[h+1]
      BY <1>8, <2>1
    <3>2. QED
      BY <1>8, <1>9, <2>2, <3>1 DEF Bases
  <2>4. F[h+1] = SubSeq(stack, b[h+1] + 1, b[(h+1)+1])
    <3>1. \A k \in 1..h+1 :
              Slices(stack, b, h + 1)[k] = SubSeq(stack, b[k] + 1, b[k+1])
      BY <1>6, SlicesType
    <3>2. QED
      BY <1>6, <1>11, <2>1, <3>1
  <2>5. /\ G[h+1] = SubSeq(stack, c[h+1] + 1, c[(h+1)+1])
        /\ G[h+2] = SubSeq(stack, c[h+2] + 1, c[(h+2)+1])
    <3>1. \A k \in 1..h+2 :
              Slices(stack, c, h + 2)[k] = SubSeq(stack, c[k] + 1, c[k+1])
      BY <1>8, SlicesType
    <3>2. QED
      BY <1>8, <1>11, <2>1, <3>1
  <2>6. QED
    BY <2>1, <2>2, <2>3, <2>4, <2>5
<1>13. /\ Len(F[h+1]) = r - p
       /\ SubSeq(F[h+1], 1, q - p) = G[h+1]
       /\ SubSeq(F[h+1], q - p + 1, r - p) = G[h+2]
  <2>1. PICK s \in Seq(Value) : s = stack
    BY <1>0, Types
  <2>2. p <= q /\ q <= r /\ r <= Len(s)
    BY <1>9, <2>1
  <2>3. /\ Len(SubSeq(s, p + 1, r)) = r - p
        /\ SubSeq(SubSeq(s, p + 1, r), 1, q - p) = SubSeq(s, p + 1, q)
        /\ SubSeq(SubSeq(s, p + 1, r), q - p + 1, r - p) = SubSeq(s, q + 1, r)
    BY <2>2, SliceOfSlice
  <2>4. QED
    BY <1>12, <2>1, <2>3
<1>14. G = SubSeq(F, 1, h) \o <<G[h+1], G[h+2]>>
  <2>1. h \in 0..Len(F)
    BY <1>10, <1>11
  <2>2. PICK callers \in Seq(Seq(Value)) :
            /\ callers = SubSeq(F, 1, h) /\ Len(callers) = h
            /\ \A k \in 1..h : callers[k] = F[k]
    BY <2>1, ShorterSeq
  <2>3. G[h+1] \in Seq(Value) /\ G[h+2] \in Seq(Value)
    BY <1>10, <1>11
  <2>4. PICK last :
            /\ last = <<G[h+1], G[h+2]>>
            /\ last \in Seq(Seq(Value)) /\ Len(last) = 2
            /\ last[1] = G[h+1] /\ last[2] = G[h+2]
    <3>1. PICK x \in Seq(Value), y \in Seq(Value) : x = G[h+1] /\ y = G[h+2]
      BY <2>3
    <3>2. /\ <<x, y>> \in Seq(Seq(Value)) /\ Len(<<x, y>>) = 2
          /\ <<x, y>>[1] = x /\ <<x, y>>[2] = y
      OBVIOUS
    <3>3. QED
      BY <3>1, <3>2
  <2>5. PICK both :
            /\ both = callers \o last
            /\ both \in Seq(Seq(Value)) /\ Len(both) = h + 2
            /\ \A k \in 1..h : both[k] = callers[k]
            /\ both[h+1] = last[1] /\ both[h+2] = last[2]
    <3>1. callers \o last \in Seq(Seq(Value)) /\ Len(callers \o last) = h + 2
      BY <2>2, <2>4, ConcatSeq
    <3>2. \A i \in 1..Len(callers) + Len(last) :
              (callers \o last)[i] = IF i <= Len(callers) THEN callers[i]
                                     ELSE last[i - Len(callers)]
      BY <2>4, ConcatProperties
    <3>3. /\ \A k \in 1..h : (callers \o last)[k] = callers[k]
          /\ (callers \o last)[h+1] = last[1] /\ (callers \o last)[h+2] = last[2]
      BY <2>2, <2>4, <3>2
    <3>4. QED
      BY <3>1, <3>3
  <2>6. \A k \in 1..h+2 : k \in 1..h \/ k = h + 1 \/ k = h + 2
    OBVIOUS
  <2>7. \A k \in 1..Len(G) : G[k] = both[k]
    BY <1>10, <1>11, <2>2, <2>4, <2>5, <2>6
  <2>8. G = both
    BY <1>10, <1>11, <2>5, <2>7, SeqEqual
  <2>9. QED
    BY <2>2, <2>4, <2>5, <2>8
<1>15. /\ (IF misused THEN <<>> ELSE frames) = F
       /\ (IF misused THEN <<>> ELSE frames)' = G
  BY <1>11
<1>16. /\ n \in 0..Len(F[h+1]) /\ Len(F[h+1]) - n = q - p
       /\ Len(F) = h + 1 /\ Len(F) - 1 = h
  BY <1>9, <1>10, <1>11, <1>13
<1>17. G = SubSeq(F, 1, h) \o <<SubSeq(F[h+1], 1, Len(F[h+1]) - n),
                                 SubSeq(F[h+1], Len(F[h+1]) - n + 1, Len(F[h+1]))>>
  BY <1>13, <1>14, <1>16
<1>18. QED
  BY <1>15, <1>16, <1>17
     DEF Calls!Call, Calls!Running, Calls!Depth, Calls!Callers

LEMMA SliceFacts ==
    ASSUME NEW s \in Seq(Value), NEW p \in Nat, NEW q \in Nat,
           p <= q, q <= Len(s)
    PROVE  /\ SubSeq(s, p + 1, q) \in Seq(Value)
           /\ Len(SubSeq(s, p + 1, q)) = q - p
           /\ \A i \in 1 .. q - p : SubSeq(s, p + 1, q)[i] = s[p + i]
OBVIOUS

LEMMA OneLong ==
    ASSUME NEW v \in Value
    PROVE  \E e \in Seq(Value) : e = << v >> /\ Len(e) = 1 /\ e[1] = v
<1>1. << v >> \in Seq(Value) /\ Len(<< v >>) = 1 /\ << v >>[1] = v
  OBVIOUS
<1>2. QED
  BY <1>1

\* A slice of a stack that ends with one value more.
LEMMA SliceAppended ==
    ASSUME NEW s \in Seq(Value), NEW p \in Nat, NEW q \in Nat, NEW v \in Value,
           NEW t, t = SubSeq(s, 1, q) \o << v >>,
           p <= q, q <= Len(s)
    PROVE  /\ t \in Seq(Value) /\ Len(t) = q + 1
           /\ \A i \in 1..q : t[i] = s[i]
           /\ SubSeq(t, p + 1, q + 1) = Append(SubSeq(s, p + 1, q), v)
<1>1. PICK u \in Seq(Value) :
          u = SubSeq(s, 1, q) /\ Len(u) = q /\ \A i \in 1..q : u[i] = s[i]
  <2>1. q \in 0..Len(s)
    OBVIOUS
  <2>2. QED
    BY <2>1, ShorterSeq
<1>2. PICK e \in Seq(Value) : e = << v >> /\ Len(e) = 1 /\ e[1] = v
  BY OneLong
<1>3. /\ t = u \o e
      /\ t \in Seq(Value) /\ Len(t) = q + 1
  BY <1>1, <1>2, ConcatSeq
<1>4. \A i \in 1..q+1 : t[i] = IF i <= q THEN u[i] ELSE e[i - q]
  <2>1. \A i \in 1..Len(u) + Len(e) :
            (u \o e)[i] = IF i <= Len(u) THEN u[i] ELSE e[i - Len(u)]
    BY ConcatProperties
  <2>2. QED
    BY <1>1, <1>2, <1>3, <2>1
<1>5. (\A i \in 1..q : t[i] = s[i]) /\ t[q+1] = v
  <2>1. \A i \in 1..q : i \in 1..q+1 /\ i <= q
    OBVIOUS
  <2>2. \A i \in 1..q : t[i] = s[i]
    BY <1>1, <1>4, <2>1
  <2>3. q + 1 \in 1..q+1 /\ ~ (q + 1 <= q) /\ (q + 1) - q = 1
    OBVIOUS
  <2>4. t[q+1] = e[1]
    BY <1>4, <2>3
  <2>5. QED
    BY <1>2, <2>2, <2>4
<1>6. PICK w \in Seq(Value) :
          /\ w = SubSeq(s, p + 1, q) /\ Len(w) = q - p
          /\ \A i \in 1 .. q - p : w[i] = s[p + i]
  <2>1. /\ SubSeq(s, p + 1, q) \in Seq(Value)
        /\ Len(SubSeq(s, p + 1, q)) = q - p
        /\ \A i \in 1 .. q - p : SubSeq(s, p + 1, q)[i] = s[p + i]
    BY SliceFacts
  <2>2. QED
    BY <2>1
<1>7. /\ Append(w, v) \in Seq(Value) /\ Len(Append(w, v)) = q - p + 1
      /\ \A i \in 1 .. q - p : Append(w, v)[i] = w[i]
      /\ Append(w, v)[q - p + 1] = v
  BY <1>6
<1>8. PICK z \in Seq(Value) :
          /\ z = SubSeq(t, p + 1, q + 1) /\ Len(z) = q - p + 1
          /\ \A i \in 1 .. q - p + 1 : z[i] = t[p + i]
  <2>1. PICK T \in Seq(Value), r \in Nat : T = t /\ r = q + 1 /\ r = Len(T)
    <3>1. q + 1 \in Nat
      OBVIOUS
    <3>2. QED
      BY <1>3, <3>1, Zenon
  <2>2. p <= r
    BY <2>1
  <2>3. /\ SubSeq(T, p + 1, r) \in Seq(Value)
        /\ Len(SubSeq(T, p + 1, r)) = r - p
        /\ \A i \in 1 .. r - p : SubSeq(T, p + 1, r)[i] = T[p + i]
    BY <2>1, <2>2, SliceFacts
  <2>4. r - p = q - p + 1
    BY <2>1
  <2>5. QED
    BY <2>1, <2>3, <2>4
<1>9. \A i \in 1 .. q - p + 1 : z[i] = Append(w, v)[i]
  <2>1. ASSUME NEW i \in 1 .. q - p
        PROVE  z[i] = Append(w, v)[i]
    <3>1. p + i \in 1..q /\ i \in 1 .. q - p + 1
      OBVIOUS
    <3>2. z[i] = s[p + i]
      BY <1>5, <1>8, <3>1
    <3>3. QED
      BY <1>6, <1>7, <3>2
  <2>2. z[q - p + 1] = v
    <3>1. q - p + 1 \in 1 .. q - p + 1 /\ p + (q - p + 1) = q + 1
      OBVIOUS
    <3>2. QED
      BY <1>5, <1>8, <3>1
  <2>3. \A i \in 1 .. q - p + 1 : i \in 1 .. q - p \/ i = q - p + 1
    OBVIOUS
  <2>4. QED
    BY <1>7, <2>1, <2>2, <2>3
<1>10. z = Append(w, v)
  BY <1>7, <1>8, <1>9, SeqEqual
<1>11. QED
  BY <1>3, <1>5, <1>6, <1>8, <1>10

\* The value on top of the frame of the function is its result, and goes on top
\* of the frame of the caller.
LEMMA ReturnStep ==
    ASSUME Inv, Inv', ~ misused, ~ misused', Return
    PROVE  Calls!Return
<1>0. TypeOK /\ NestInv
  BY DEF Inv
<1>1. /\ stack # <<>> /\ callStack # <<>> /\ framePointer >= 0
      /\ Taking(1)
      /\ stack' = SubSeq(stack, 1, IF framePointer < Len(stack)
                                   THEN framePointer ELSE Len(stack) - 1)
                    \o Taken(1)
      /\ callStack' = SubSeq(callStack, 1, Len(callStack) - 1)
      /\ framePointer' = TopFrame.framePointer
  BY DEF Return
<1>2. PICK h \in Nat : Len(callStack) = h + 1 /\ Len(callStack') = h
  <2>1. Len(callStack') = Len(callStack) - 1 /\ Len(callStack') \in Nat
    BY <1>0, <1>1, CallersFacts
  <2>2. Len(callStack) \in Nat
    BY <1>0 DEF TypeOK
  <2>3. QED
    BY <2>1, <2>2
<1>3. /\ \A k \in 1..h : callStack'[k] = callStack[k]
      /\ framePointer' = callStack[h+1].framePointer
  BY <1>0, <1>1, <1>2, CallersFacts DEF TopFrame
<1>4. PICK b, c, d, e :
          /\ b = Here /\ c = Here' /\ e = h + 1 /\ d = h + 2
  OBVIOUS
<1>5. /\ Bases(b, stack, d) /\ frames = Slices(stack, b, d)
      /\ \A k \in 1..e : b[k] = callStack[k].framePointer
      /\ b[d] = framePointer
  <2>1. Len(callStack) = e /\ Len(callStack) + 1 = d
    BY <1>2, <1>4
  <2>2. QED
    BY <1>0, <1>4, <2>1, FramesNow
<1>6. /\ Bases(c, stack', e) /\ frames' = Slices(stack', c, e)
      /\ \A k \in 1..h : c[k] = callStack'[k].framePointer
      /\ c[e] = framePointer'
  <2>1. Len(callStack') = h /\ Len(callStack') + 1 = e
    BY <1>2, <1>4
  <2>2. QED
    BY <1>4, <2>1, FramesNext
<1>7. \A k \in 1..e : c[k] = b[k]
  <2>1. \A k \in 1..e : k \in 1..h \/ k = e
    BY <1>4
  <2>2. \A k \in 1..h : k \in 1..e
    BY <1>4
  <2>3. e \in 1..e
    BY <1>4
  <2>4. c[e] = b[e]
    BY <1>3, <1>4, <1>5, <1>6, <2>3
  <2>5. QED
    BY <1>3, <1>5, <1>6, <2>1, <2>2, <2>4
<1>8. PICK p \in Nat, q \in Nat, r \in Nat, s \in Seq(Value) :
          /\ s = stack /\ r = Len(s) /\ q = framePointer /\ p = b[e]
          /\ b[d] = q /\ b[d+1] = r
          /\ p <= q /\ q <= r - 1
  <2>1. /\ b \in [1..d+1 -> Nat] /\ b[d+1] = Len(stack)
        /\ \A j, k \in 1..d+1 : j <= k => b[j] <= b[k]
    BY <1>5 DEF Bases
  <2>2. e \in 1..d+1 /\ d \in 1..d+1 /\ e <= d
    BY <1>4
  <2>3. b[e] \in Nat /\ b[d] \in Nat /\ b[e] <= b[d]
    BY <2>1, <2>2
  <2>4. misused' \/ framePointer <= Len(stack) - 1
    BY <1>0, <1>1, TakingFacts
  <2>5. stack \in Seq(Value) /\ Len(stack) \in Nat
    BY <1>0, Types
  <2>6. QED
    BY <1>5, <2>1, <2>3, <2>4, <2>5
<1>9. PICK v \in Value : v = s[r] /\ Taken(1) = << v >>
  <2>1. r \in 1..Len(s) /\ r - 1 + 1 = r
    BY <1>8
  <2>2. s[r] \in Value
    BY <2>1, Elements
  <2>3. SubSeq(s, r, r) = << s[r] >>
    <3>1. r - 1 \in Nat /\ r - 1 <= r /\ r <= Len(s) /\ r - (r - 1) = 1
          /\ (r - 1) + 1 = r
      BY <1>8
    <3>2. PICK o \in Nat : o = r - 1
      BY <3>1
    <3>3. /\ SubSeq(s, o + 1, r) \in Seq(Value)
          /\ Len(SubSeq(s, o + 1, r)) = r - o
          /\ \A i \in 1 .. r - o : SubSeq(s, o + 1, r)[i] = s[o + i]
      BY <3>1, <3>2, SliceFacts
    <3>4. PICK w \in Seq(Value) : w = SubSeq(s, r, r) /\ Len(w) = 1 /\ w[1] = s[r]
      <4>1. o + 1 = r /\ r - o = 1 /\ 1 \in 1..1
        BY <3>1, <3>2
      <4>2. QED
        BY <3>3, <4>1
    <3>5. PICK y \in Seq(Value) : y = << s[r] >> /\ Len(y) = 1 /\ y[1] = s[r]
      BY <2>2, OneLong
    <3>6. w = y
      <4>1. \A i \in 1..1 : i = 1
        OBVIOUS
      <4>2. QED
        BY <3>4, <3>5, <4>1, SeqEqual
    <3>7. QED
      BY <3>4, <3>5, <3>6
  <2>4. Taken(1) = SubSeq(s, r, r)
    BY <1>8, <2>1 DEF Taken
  <2>5. QED
    BY <2>2, <2>3, <2>4
<1>10. stack' = SubSeq(s, 1, q) \o << v >>
  <2>1. framePointer < Len(stack)
    BY <1>8
  <2>2. QED
    BY <1>1, <1>8, <1>9, <2>1
<1>11. PICK t \in Seq(Value) :
           /\ t = stack' /\ Len(t) = q + 1
           /\ \A i \in 1..q : t[i] = s[i]
           /\ SubSeq(t, p + 1, q + 1) = Append(SubSeq(s, p + 1, q), v)
  <2>1. p <= q /\ q <= Len(s)
    BY <1>8
  <2>2. PICK t : t = stack' /\ t = SubSeq(s, 1, q) \o << v >>
    BY <1>10
  <2>3. /\ t \in Seq(Value) /\ Len(t) = q + 1
        /\ \A i \in 1..q : t[i] = s[i]
        /\ SubSeq(t, p + 1, q + 1) = Append(SubSeq(s, p + 1, q), v)
    BY <2>1, <2>2, SliceAppended
  <2>4. QED
    BY <2>2, <2>3
<1>12. /\ \A k \in 1..h : Slices(t, c, e)[k] = Slices(s, b, d)[k]
       /\ Slices(t, c, e) \in Seq(Seq(Value)) /\ Len(Slices(t, c, e)) = e
       /\ Slices(s, b, d) \in Seq(Seq(Value)) /\ Len(Slices(s, b, d)) = d
  <2>1. Bases(b, s, d) /\ Bases(c, t, e)
    BY <1>5, <1>6, <1>8, <1>11
  <2>2. \A i \in 1..b[e] : t[i] = s[i]
    BY <1>8, <1>11
  <2>3. e <= d /\ e <= e
    BY <1>4
  <2>4. e = h + 1
    BY <1>4
  <2>5. \A k \in 1..h : Slices(t, c, e)[k] = Slices(s, b, d)[k]
    BY <1>7, <2>1, <2>2, <2>3, <2>4, CallersKept
  <2>6. QED
    BY <2>1, <2>5, SlicesType
<1>13. PICK F \in Seq(Seq(Value)), G \in Seq(Seq(Value)) :
           /\ F = frames /\ G = frames' /\ Len(F) = d /\ Len(G) = e
           /\ \A k \in 1..h : G[k] = F[k]
  BY <1>5, <1>6, <1>8, <1>11, <1>12
<1>14. /\ F[e] = SubSeq(s, p + 1, q)
       /\ F[d] = SubSeq(s, q + 1, r)
       /\ G[e] = SubSeq(t, p + 1, q + 1)
  <2>1. \A k \in 1..d : F[k] = SubSeq(s, b[k] + 1, b[k+1])
    <3>1. \A k \in 1..d :
              Slices(stack, b, d)[k] = SubSeq(stack, b[k] + 1, b[k+1])
      BY <1>5, SlicesType
    <3>2. QED
      BY <1>5, <1>8, <1>13, <3>1
  <2>2. \A k \in 1..e : G[k] = SubSeq(t, c[k] + 1, c[k+1])
    <3>1. \A k \in 1..e :
              Slices(stack', c, e)[k] = SubSeq(stack', c[k] + 1, c[k+1])
      BY <1>6, SlicesType
    <3>2. QED
      BY <1>6, <1>11, <1>13, <3>1
  <2>3. e \in 1..d /\ d \in 1..d /\ e + 1 = d /\ e \in 1..e
    BY <1>4
  <2>4. c[e] = p /\ c[e+1] = q + 1
    <3>1. c[e+1] = Len(t)
      BY <1>6, <1>11 DEF Bases
    <3>2. QED
      BY <1>7, <1>8, <1>11, <2>3, <3>1
  <2>5. F[e] = SubSeq(s, p + 1, q) /\ F[d] = SubSeq(s, q + 1, r)
    BY <1>8, <2>1, <2>3
  <2>6. G[e] = SubSeq(t, c[e] + 1, c[e+1])
    BY <2>2, <2>3
  <2>7. QED
    BY <2>4, <2>5, <2>6
<1>15. F[d] # <<>> /\ F[d][Len(F[d])] = v
  <2>1. q <= r /\ r <= Len(s) /\ r - q \in 1 .. r - q /\ q + (r - q) = r
    BY <1>8
  <2>2. PICK w \in Seq(Value) :
            /\ w = SubSeq(s, q + 1, r) /\ Len(w) = r - q
            /\ \A i \in 1 .. r - q : w[i] = s[q + i]
    BY <2>1, SliceFacts
  <2>3. w[r - q] = s[r]
    BY <2>1, <2>2
  <2>4. w # <<>>
    <3>1. Len(w) # 0
      BY <2>1, <2>2
    <3>2. QED
      BY <3>1
  <2>5. QED
    BY <1>9, <1>14, <2>2, <2>3, <2>4
<1>16. G[e] = Append(F[e], v)
  BY <1>11, <1>14
<1>17. G = [SubSeq(F, 1, e) EXCEPT ![e] = Append(@, v)]
  <2>1. PICK A \in Seq(Seq(Value)) :
            /\ A = SubSeq(F, 1, e) /\ Len(A) = e
            /\ \A k \in 1..e : A[k] = F[k]
    <3>1. e \in 0..Len(F)
      BY <1>4, <1>13
    <3>2. QED
      BY <3>1, ShorterSeq
  <2>2. e \in 1..e /\ e \in Nat
    BY <1>4
  <2>3. PICK x \in Seq(Value) : x = G[e]
    BY <1>13, <2>2, Elements
  <2>4. x = Append(A[e], v)
    BY <1>16, <2>1, <2>2, <2>3
  <2>5. /\ [A EXCEPT ![e] = x] \in Seq(Seq(Value))
        /\ Len([A EXCEPT ![e] = x]) = e
    BY <2>1, <2>2, ReplacedSeq
  <2>6. \A k \in 1..e : k \in 1..h \/ k = e
    BY <1>4
  <2>7. \A k \in 1..e : [A EXCEPT ![e] = x][k] = IF k = e THEN x ELSE A[k]
    <3>1. DOMAIN A = 1..e
      BY <2>1, <2>2
    <3>2. QED
      BY <3>1, Zenon
  <2>8. \A k \in 1..e : [A EXCEPT ![e] = x][k] = G[k]
    BY <1>13, <2>1, <2>3, <2>6, <2>7
  <2>9. [A EXCEPT ![e] = x] = G
    BY <1>13, <2>5, <2>8, SeqEqual
  <2>10. QED
    BY <2>1, <2>4, <2>9
<1>18. /\ (IF misused THEN <<>> ELSE frames) = F
       /\ (IF misused THEN <<>> ELSE frames)' = G
  BY <1>13
<1>19. Len(F) > 1 /\ Len(F) - 1 = e
  BY <1>4, <1>13
<1>20. F[Len(F)] # <<>> /\ F[Len(F)][Len(F[Len(F)])] = v
  BY <1>13, <1>15
<1>21. G = [SubSeq(F, 1, Len(F) - 1) EXCEPT
               ![Len(F) - 1] = Append(@, F[Len(F)][Len(F[Len(F)])])]
  BY <1>17, <1>19, <1>20
<1>22. QED
  BY <1>18, <1>19, <1>20, <1>21
     DEF Calls!Return, Calls!Running, Calls!Depth, Calls!Callers

\* A stack that keeps what is below the frame of the running function.
Above(s) == \A i \in 1..framePointer : s[i] = stack[i]

\* What the instructions that neither call nor return do to the frames.
Working ==
    /\ UNCHANGED <<callStack, framePointer>>
    /\ misused' \/ Above(stack')

LEMMA LeftAbove ==
    ASSUME TypeOK, NEW k \in 0..Len(stack), framePointer <= Len(stack) - k
    PROVE  Above(Left(k))
<1>1. stack \in Seq(Value) /\ Len(stack) - k \in 0..Len(stack)
      /\ framePointer \in Int
  BY DEF TypeOK
<1>2. PICK s \in Seq(Value), n \in Nat :
          s = stack /\ n = Len(stack) - k /\ n \in 0..Len(s)
  BY <1>1
<1>3. \A i \in 1..n : SubSeq(s, 1, n)[i] = s[i]
  BY <1>2, ShorterSeq
<1>4. Left(k) = SubSeq(s, 1, n)
  BY <1>2 DEF Left
<1>5. \A i \in 1..framePointer : i \in 1..n
  BY <1>1, <1>2
<1>6. QED
  BY <1>2, <1>3, <1>4, <1>5 DEF Above

\* What is pushed leaves the rest.
LEMMA PushAbove ==
    ASSUME TypeOK, NEW s \in Seq(Value), Above(s), framePointer <= Len(s),
           NEW r \in Seq(Value)
    PROVE  Above(s \o r)
<1>1. framePointer \in Int
  BY DEF TypeOK
<1>2. \A i \in 1..Len(s) + Len(r) :
          (s \o r)[i] = IF i <= Len(s) THEN s[i] ELSE r[i - Len(s)]
  BY ConcatProperties
<1>3. \A i \in 1..framePointer : i \in 1..Len(s) + Len(r) /\ i <= Len(s)
  BY <1>1
<1>4. QED
  BY <1>2, <1>3 DEF Above

LEMMA AppendAbove ==
    ASSUME TypeOK, NEW s \in Seq(Value), Above(s), framePointer <= Len(s),
           NEW v \in Value
    PROVE  Above(Append(s, v))
<1>1. framePointer \in Int
  BY DEF TypeOK
<1>2. \A i \in 1..Len(s) : Append(s, v)[i] = s[i]
  OBVIOUS
<1>3. \A i \in 1..framePointer : i \in 1..Len(s)
  BY <1>1
<1>4. QED
  BY <1>2, <1>3 DEF Above

LEMMA RaiseAbove ==
    ASSUME TypeOK, NEW at, NEW s \in Seq(Value), Raise(at, s), Above(s),
           framePointer <= Len(s)
    PROVE  Above(stack')
<1>1. stack' = s \/ stack' = Append(s, "error")
  BY DEF Raise
<1>2. Above(Append(s, "error"))
  BY AppendAbove, ErrorIsValue
<1>3. QED
  BY <1>1, <1>2

\* The instructions that only push, pop and jump.
LEMMA Workers ==
    ASSUME Inv, ~ misused,
           \/ Refuse \/ Operate \/ Jump \/ Branch \/ ReturnFromMain
           \/ OutOfBounds \/ LoadLocal \/ StoreLocal \/ StoreGlobal \/ LoadGlobal
           \/ TryBegin \/ TryEnd \/ Throw \/ Catch \/ Exit \/ Finish
    PROVE  Working
<1>0. TypeOK /\ NestInv
  BY DEF Inv
<1>1. /\ stack \in Seq(Value) /\ Len(stack) \in Nat
      /\ framePointer \in Int /\ framePointer <= Len(stack)
  BY <1>0, Types, FrameBelow
<1>2. Above(stack)
  BY DEF Above
<1>3. ASSUME NEW k \in 0..Len(stack), Taking(k)
      PROVE  misused' \/ /\ Above(Left(k)) /\ framePointer <= Len(Left(k))
                         /\ Left(k) \in Seq(Value)
  <2>1. k \in Nat
    BY <1>3
  <2>2. misused' \/ framePointer <= Len(stack) - k
    BY <1>0, <1>3, <2>1, TakingFacts
  <2>3. Left(k) \in Seq(Value) /\ Len(Left(k)) = Len(stack) - k
    BY <1>0, LeftFacts
  <2>4. QED
    BY <1>0, <2>2, <2>3, LeftAbove
<1>4. stack # <<>> => 1 \in 0..Len(stack)
  BY <1>1
<1>5. CASE Refuse \/ OutOfBounds
  <2>1. UNCHANGED <<callStack, framePointer>>
    BY <1>5 DEF Refuse, OutOfBounds, control
  <2>2. \E at : Raise(at, stack)
    BY <1>5 DEF Refuse, OutOfBounds
  <2>3. QED
    BY <1>0, <1>1, <1>2, <2>1, <2>2, RaiseAbove DEF Working
<1>6. CASE Operate
  <2>1. UNCHANGED <<callStack, framePointer>>
    BY <1>6 DEF Operate, control
  <2>2. PICK k : /\ k = Takes(op) /\ Len(stack) >= k /\ Taking(k)
                 /\ \E result \in Results(op, Taken(k)) :
                       IF result = Fails THEN Raise(next_ip, Left(k))
                       ELSE Continues /\ stack' = Left(k) \o result
    BY <1>6 DEF Operate
  <2>3. k \in 0..Len(stack)
    <3>1. k \in 0..3
      BY <2>2, TakesType
    <3>2. QED
      BY <1>1, <2>2, <3>1
  <2>4. ASSUME NEW result \in Results(op, Taken(k)), result # Fails
        PROVE  result \in Seq(Value)
    <3>1. op \in Operators /\ next_ip <= Size
      BY <1>6 DEF Operate, Executes
    <3>2. Taken(k) \in Seq(Value) /\ Len(Taken(k)) = Takes(op)
      BY <1>0, <2>2, <2>3, TakenFacts
    <3>3. op = "PUSH_CONST" => ip + 1 < Size
      <4>1. ip + Width(op) <= Size
        BY <3>1 DEF next_ip
      <4>2. QED
        BY <1>0, <4>1, Widths, NextIp
    <3>4. Results(op, Taken(k)) \subseteq ResultType
      BY <1>0, <3>1, <3>2, <3>3, ResultsType
    <3>5. QED
      BY <2>4, <3>4 DEF ResultType
  <2>5. CASE misused'
    BY <2>1, <2>5 DEF Working
  <2>6. CASE ~ misused'
    <3>1. PICK left \in Seq(Value) :
              /\ left = Left(k) /\ Above(left) /\ framePointer <= Len(left)
      BY <1>3, <2>2, <2>3, <2>6
    <3>2. \/ Raise(next_ip, left)
          \/ \E result \in Seq(Value) : stack' = left \o result
      BY <2>2, <2>4, <3>1
    <3>3. Above(stack')
      BY <1>0, <3>1, <3>2, RaiseAbove, PushAbove
    <3>4. QED
      BY <2>1, <3>3 DEF Working
  <2>7. QED
    BY <2>5, <2>6
<1>7. CASE Jump \/ ReturnFromMain \/ TryBegin \/ TryEnd \/ Catch \/ Exit
  <2>1. UNCHANGED <<stack, callStack, framePointer>>
    BY <1>7 DEF Jump, ReturnFromMain, TryBegin, TryEnd, Catch, Exit, control
  <2>2. QED
    BY <1>2, <2>1 DEF Working
<1>8. CASE Branch \/ StoreGlobal
  <2>1. /\ UNCHANGED <<callStack, framePointer>>
        /\ stack # <<>> /\ Taking(1) /\ stack' = Left(1)
    BY <1>8 DEF Branch, StoreGlobal, control
  <2>2. QED
    BY <1>3, <1>4, <2>1 DEF Working
<1>9. CASE Throw \/ Finish
  <2>1. /\ UNCHANGED <<callStack, framePointer>>
        /\ \/ UNCHANGED stack
           \/ stack # <<>> /\ Taking(1) /\ stack' = Left(1)
    BY <1>9 DEF Throw, Finish, control
  <2>2. QED
    BY <1>2, <1>3, <1>4, <2>1 DEF Working
<1>10. CASE LoadLocal
  <2>1. /\ local \in 0..Len(stack) - 1
        /\ stack' = Append(stack, stack[local + 1])
        /\ UNCHANGED <<callStack, framePointer>>
    BY <1>10 DEF LoadLocal, control
  <2>2. stack[local + 1] \in Value
    <3>1. local + 1 \in 1..Len(stack)
      BY <1>1, <2>1
    <3>2. QED
      BY <1>1, <3>1, Elements
  <2>3. QED
    BY <1>0, <1>1, <1>2, <2>1, <2>2, AppendAbove DEF Working
<1>11. CASE LoadGlobal
  <2>1. /\ UNCHANGED <<callStack, framePointer>>
        /\ \/ Raise(next_ip, stack)
           \/ \E index \in DOMAIN globals : stack' = Append(stack, globals[index])
    BY <1>11 DEF LoadGlobal, control
  <2>2. \A index \in DOMAIN globals : globals[index] \in Value
    BY <1>0 DEF TypeOK
  <2>3. QED
    BY <1>0, <1>1, <1>2, <2>1, <2>2, AppendAbove, RaiseAbove DEF Working
<1>12. CASE StoreLocal
  <2>1. /\ local \in 0..Len(stack) - 1 /\ Taking(1)
        /\ UNCHANGED <<callStack, framePointer>>
        /\ stack' = IF local = Len(stack) - 1 THEN stack
                    ELSE [Left(1) EXCEPT ![local + 1] = Taken(1)[1]]
    BY <1>12 DEF StoreLocal, control
  <2>2. readByte(ip + 1) \in 0..255
    <3>1. Executes({"STORE_LOCAL"})
      BY <1>12 DEF StoreLocal
    <3>2. Width(op) = 2
      BY <3>1, Widths DEF Executes
    <3>3. QED
      BY <1>0, <3>1, <3>2, Operand
  <2>3. PICK n \in Nat : n = local /\ framePointer <= n
    <3>1. PICK byte \in 0..255 : byte = readByte(ip + 1)
      BY <2>2
    <3>2. local = framePointer + byte
      BY <3>1 DEF local
    <3>3. framePointer <= framePointer + byte
      BY <1>1
    <3>4. local \in Nat
      BY <1>1, <2>1
    <3>5. QED
      BY <3>2, <3>3, <3>4
  <2>4. 1 \in 0..Len(stack)
    BY <1>1, <2>1
  <2>5. CASE misused'
    BY <2>1, <2>5 DEF Working
  <2>6. CASE ~ misused' /\ n = Len(stack) - 1
    BY <1>2, <2>1, <2>3, <2>6 DEF Working
  <2>7. CASE ~ misused' /\ n # Len(stack) - 1
    <3>1. PICK left \in Seq(Value) :
              /\ left = Left(1) /\ Above(left) /\ framePointer <= Len(left)
      BY <1>3, <2>1, <2>4, <2>7
    <3>2. PICK v : v = Taken(1)[1]
      OBVIOUS
    <3>3. stack' = [left EXCEPT ![n + 1] = v]
      BY <2>1, <2>3, <2>7, <3>1, <3>2
    <3>4. \A i \in 1..framePointer : i \in DOMAIN left /\ i # n + 1
      <4>1. DOMAIN left = 1..Len(left) /\ Len(left) \in Nat
        OBVIOUS
      <4>2. QED
        BY <1>1, <2>3, <3>1, <4>1
    <3>5. \A i \in 1..framePointer : stack'[i] = left[i]
      BY <3>3, <3>4
    <3>6. QED
      BY <2>1, <3>1, <3>5 DEF Working, Above
  <2>8. QED
    BY <2>5, <2>6, <2>7
<1>13. QED
  BY <1>5, <1>6, <1>7, <1>8, <1>9, <1>10, <1>11, <1>12

LEMMA MisusedStays ==
    ASSUME Next, misused
    PROVE  misused'
<1>1. ASSUME NEW k, Taking(k)
      PROVE  misused'
  BY <1>1 DEF Taking
<1>2. CASE Call
  BY <1>1, <1>2 DEF Call, CallWith
<1>3. CASE \/ Operate \/ Branch \/ Return \/ ReturnFromMain
           \/ StoreLocal \/ StoreGlobal \/ Throw
  BY <1>1, <1>3 DEF Operate, Branch, Return, ReturnFromMain, StoreLocal,
     StoreGlobal, Throw
<1>4. CASE Finish
  BY <1>1, <1>4 DEF Finish
<1>5. CASE \/ Refuse \/ Jump \/ ReturnFails \/ OutOfBounds \/ LoadLocal
           \/ LoadGlobal \/ TryBegin \/ TryEnd \/ Catch \/ Exit
  BY <1>5 DEF Refuse, Jump, ReturnFails, OutOfBounds, LoadLocal, LoadGlobal,
     TryBegin, TryEnd, Catch, Exit
<1>6. QED
  BY <1>2, <1>3, <1>4, <1>5 DEF Next

LEMMA SomeFrame ==
    ASSUME Inv, ~ misused
    PROVE  frames # <<>>
<1>1. PICK n \in Nat : n = Len(callStack) + 1
  BY DEF Inv, TypeOK
<1>2. DOMAIN frames = 1..n
  BY <1>1 DEF frames
<1>3. 1 \in 1..n /\ 1 \notin DOMAIN <<>>
  <2>1. Len(callStack) \in Nat
    BY DEF Inv, TypeOK
  <2>2. QED
    BY <1>1, <2>1
<1>4. QED
  BY <1>2, <1>3

LEMMA FrameSteps ==
    ASSUME Inv, Inv', [Next]_vars
    PROVE  [Calls!Next]_(IF misused THEN <<>> ELSE frames)
<1> DEFINE mapped == IF misused THEN <<>> ELSE frames
<1>1. CASE UNCHANGED vars
  <2>1. UNCHANGED mapped
    BY <1>1 DEF vars, frames, base
  <2>2. QED
    BY <2>1
<1>2. CASE misused /\ Next
  <2>1. misused'
    BY <1>2, MisusedStays
  <2>2. mapped' = mapped
    BY <1>2, <2>1
  <2>3. QED
    BY <2>2
<1>3. CASE ~ misused /\ misused'
  <2>1. mapped' = Calls!Broken /\ mapped # Calls!Broken
    BY <1>3, SomeFrame DEF Calls!Broken
  <2>2. Calls!Next
    BY <2>1 DEF Calls!Next
  <2>3. QED
    BY <2>2
<1>4. CASE Next /\ ~ misused /\ ~ misused'
  <2>1. mapped # Calls!Broken
    BY <1>4, SomeFrame DEF Calls!Broken
  <2>2. CASE Call
    BY <1>4, <2>1, <2>2, CallStep DEF Calls!Next
  <2>3. CASE Return
    BY <1>4, <2>1, <2>3, ReturnStep DEF Calls!Next
  <2>4. CASE ReturnFails
    <3>1. framePointer < 0 /\ framePointer \in Int
      BY <2>4 DEF ReturnFails, Inv, TypeOK
    <3>2. 0 <= framePointer
      BY <1>4, FrameBelow DEF Inv
    <3>3. QED
      BY <3>1, <3>2
  <2>5. CASE ~ (Call \/ Return \/ ReturnFails)
    <3>1. Working
      BY <1>4, <2>5, Workers DEF Next
    <3>2. Calls!Work
      BY <1>4, <3>1, WorkStep DEF Working, Above
    <3>3. QED
      BY <2>1, <3>2 DEF Calls!Next
  <2>6. QED
    BY <2>2, <2>3, <2>4, <2>5
<1>5. QED
  BY <1>1, <1>2, <1>3, <1>4

LEMMA FramesInitially ==
    ASSUME Init
    PROVE  Calls!Init
<1>1. /\ ~ misused /\ stack = <<>> /\ framePointer = 0
      /\ Len(callStack) = 0
  BY DEF Init
<1>2. frames = [k \in 1..1 |-> SubSeq(stack, base(k) + 1, base(k + 1))]
  BY <1>1 DEF frames
<1>3. base(1) = 0 /\ base(2) = 0
  BY <1>1 DEF base
<1>4. SubSeq(stack, 1, 0) = <<>>
  BY <1>1
<1>5. \A k \in 1..1 : SubSeq(stack, base(k) + 1, base(k + 1)) = <<>>
  BY <1>3, <1>4
<1>6. frames = [k \in 1..1 |-> <<>>]
  BY <1>2, <1>5
<1>7. frames = << <<>> >>
  BY <1>6
<1>8. QED
  BY <1>1, <1>7 DEF Calls!Init

\* The one stack of the interpreter implements a frame for each call, for every
\* program and as long as no instruction takes values from outside its frame:
\* no store, jump, exception or return changes what belongs to the callers of
\* the running function, a call moves its arguments and nothing else to the new
\* frame, and a return (vm.ts:262) gives the caller one value, the callee's last.
THEOREM FramesStayApart == Spec => FramesKeptApart
<1>1. Init => Inv
  BY Initially
<1>2. Inv /\ [Next]_vars => Inv'
  BY Invariance
<1>3. Init => Calls!Init
  BY FramesInitially
<1>4. Inv /\ Inv' /\ [Next]_vars
        => [Calls!Next]_(IF misused THEN <<>> ELSE frames)
  BY FrameSteps
<1>5. QED
  BY <1>1, <1>2, <1>3, <1>4, PTL DEF Spec, FramesKeptApart, Calls!Spec

-----------------------------------------------------------------------------
(* Where instructions begin *)

\* The first instruction is at zero, and each is followed by another one or
\* the end of the bytecode.
LEMMA InstructionFollows ==
    ASSUME NEW code \in Seq(0..255)
    PROVE  /\ 0 \in Instructions(code)
           /\ \A at \in Instructions(code) :
                 /\ at \in Nat
                 /\ at < Len(code) =>
                      at + Width(OpIn(code, at)) \in Instructions(code)
<1> DEFINE n == Len(code)
           behind == [at \in Nat |-> IF at < Len(code)
                                     THEN at + Width(OpIn(code, at)) ELSE at]
           turn == [k \in 1..n |-> behind]
           address == Iterate(turn, 0, n)
           Far(k) == address[k] >= n \/ address[k] >= k
           P == {k \in 0..n : Far(k)}
<1>1. n \in Nat /\ 0 \in 0..n /\ 0 \in Nat
  OBVIOUS
<1>2. \A at \in Nat : Width(OpIn(code, at)) \in Nat \ {0}
  BY OffsetsType
<1>3. behind \in [Nat -> Nat]
  <2>1. ASSUME NEW at \in Nat
        PROVE  at + Width(OpIn(code, at)) \in Nat
    BY <1>2
  <2>2. QED
    BY <2>1
<1>4. turn \in [1..n -> [Nat -> Nat]]
  BY <1>3
<1>5. Instructions(code) = {address[k] : k \in 0..n}
  BY DEF Instructions
<1>6. /\ \A at \in Nat : at < n => behind[at] = at + Width(OpIn(code, at))
      /\ \A at \in Nat : ~ (at < n) => behind[at] = at
  OBVIOUS
<1>7. \A k \in 1..n : turn[k] = behind
  OBVIOUS
<1> HIDE DEF behind, turn, n
<1>8. address \in [0..n -> Nat] /\ Turns(address, turn, 0, n)
  BY <1>1, <1>4, IterateEquation, Zenon
<1> HIDE DEF address
<1>9. /\ address[0] = 0
      /\ \A k \in 1..n : address[k] = behind[address[k-1]]
  BY <1>7, <1>8 DEF Turns
<1>10. P = 0..n
  <2>1. 0 \in P
    BY <1>1, <1>9
  <2>2. ASSUME NEW k \in 1..n, k - 1 \in P
        PROVE  k \in P
    <3>1. k - 1 \in 0..n /\ k \in 0..n
      BY <1>1
    <3>2. PICK at \in Nat : at = address[k-1]
      BY <1>8, <3>1
    <3>3. at >= n \/ at >= k - 1
      BY <2>2, <3>2
    <3>4. address[k] = behind[at]
      BY <1>9, <3>2
    <3>5. CASE at < n
      <4>1. PICK w \in Nat \ {0} : w = Width(OpIn(code, at))
        BY <1>2
      <4>2. address[k] = at + w
        BY <1>6, <3>4, <3>5, <4>1
      <4>3. at + w >= k
        BY <1>1, <3>3, <3>5, <4>1
      <4>4. QED
        BY <3>1, <4>2, <4>3
    <3>6. CASE ~ (at < n)
      <4>1. address[k] = at /\ at >= n
        BY <1>1, <1>6, <3>4, <3>6
      <4>2. QED
        BY <3>1, <4>1
    <3>7. QED
      BY <3>5, <3>6
  <2>3. P \in SUBSET (0..n)
    OBVIOUS
  <2> HIDE DEF P
  <2>4. QED
    BY <1>1, <2>1, <2>2, <2>3, Induction
<1>11. ASSUME NEW at \in Instructions(code)
       PROVE  /\ at \in Nat
              /\ at < n => at + Width(OpIn(code, at)) \in Instructions(code)
  <2>1. PICK k \in 0..n : at = address[k]
    BY <1>5
  <2>2. at \in Nat
    BY <1>8, <2>1
  <2>3. ASSUME at < n
        PROVE  at + Width(OpIn(code, at)) \in Instructions(code)
    <3>1. Far(k)
      BY <1>10
    <3>2. k + 1 \in 1..n /\ k + 1 \in 0..n /\ (k + 1) - 1 = k
      BY <1>1, <2>1, <2>2, <2>3, <3>1
    <3>3. address[k+1] = behind[at]
      BY <1>9, <2>1, <3>2
    <3>4. address[k+1] = at + Width(OpIn(code, at))
      BY <1>6, <2>2, <2>3, <3>3
    <3>5. QED
      BY <1>5, <3>2, <3>4
  <2>4. QED
    BY <2>2, <2>3
<1>12. 0 \in Instructions(code)
  BY <1>1, <1>5, <1>9
<1>13. QED
  BY <1>11, <1>12 DEF n

\* Wherever a compiled program is at or will come back to is an instruction.
Places == Instructions(program.bytecode)

AlignInv ==
    program \in Compiled =>
        /\ ip \in Places
        /\ \A k \in 1..Len(callStack) : callStack[k].returnIp \in Places
        /\ \A k \in 1..Len(exceptionHandlers) :
               exceptionHandlers[k].catchStart \in Places

\* What a compiled program is assumed to be, at the instruction executed.
LEMMA CompiledStep ==
    ASSUME Inv, AlignInv, program \in Compiled
    PROVE  /\ ip < Size => next_ip \in Places /\ next_ip <= Size
           /\ ip < Size /\ op \in {"JMP", "JZ", "JNZ", "CALL"} =>
                 readShort(ip + 1) \in Places
           /\ ip < Size /\ op = "TRY_BEGIN" => readShort(ip + 3) \in Places
<1>1. PICK code \in Seq(0..255) : code = program.bytecode
  BY DEF Inv, TypeOK, Program
<1>2. Places = Instructions(code) /\ ip \in Places /\ ip \in Nat
  BY <1>1 DEF AlignInv, Places, Inv, TypeOK
<1>3. /\ Instructions(code) \subseteq 0..Len(code)
      /\ \A at \in Instructions(code) \ {Len(code)} :
             Targets(code, at) \subseteq Instructions(code)
  BY <1>1, CompiledAssumption DEF LeadsToInstructions
<1>4. Size = Len(code) /\ op = OpIn(code, ip)
  BY <1>1 DEF Size, op
<1>5. ASSUME ip < Size
      PROVE  next_ip \in Places /\ next_ip <= Size
  <2>1. next_ip = ip + Width(OpIn(code, ip))
    BY <1>4 DEF next_ip
  <2>2. next_ip \in Instructions(code)
    BY <1>2, <1>4, <1>5, <2>1, InstructionFollows
  <2>3. next_ip \in 0..Len(code)
    BY <1>3, <2>2
  <2>4. QED
    BY <1>2, <1>4, <2>2, <2>3
<1>6. ASSUME ip < Size
      PROVE  Targets(code, ip) \subseteq Places
  <2>1. ip # Len(code)
    BY <1>2, <1>4, <1>6
  <2>2. QED
    BY <1>2, <1>3, <2>1
<1>7. op \in {"JMP", "JZ", "JNZ", "CALL"} =>
          readShort(ip + 1) \in Targets(code, ip)
  BY <1>1, <1>4 DEF Targets, readShort
<1>8. op = "TRY_BEGIN" => readShort(ip + 3) \in Targets(code, ip)
  BY <1>1, <1>4 DEF Targets, readShort
<1>9. QED
  BY <1>5, <1>6, <1>7, <1>8

LEMMA RaiseAligned ==
    ASSUME AlignInv, program \in Compiled, NEW at \in Places, NEW left,
           Raise(at, left)
    PROVE  ip' \in Places
<1>1. \A h \in findExceptionHandler(at) : h \in 1..Len(exceptionHandlers)
  BY DEF findExceptionHandler
<1>2. \/ ip' = at
      \/ \E h \in findExceptionHandler(at) :
            ip' = exceptionHandlers[h].catchStart
  BY DEF Raise
<1>3. QED
  BY <1>1, <1>2 DEF AlignInv

\* A step that leaves calls and handlers alone, and goes on behind the
\* instruction, to its target, or to a handler.
LEMMA AlignedWithin ==
    ASSUME AlignInv, UNCHANGED <<program, callStack, exceptionHandlers>>,
           program \in Compiled => ip' \in Places
    PROVE  AlignInv'
BY DEF AlignInv, Places

LEMMA RaisesAligned ==
    ASSUME Inv, AlignInv, Refuse \/ Operate \/ OutOfBounds \/ LoadGlobal
    PROVE  AlignInv'
<1>1. UNCHANGED <<program, callStack, exceptionHandlers>>
  BY DEF Refuse, Operate, OutOfBounds, LoadGlobal, control
<1>2. ASSUME program \in Compiled
      PROVE  ip' \in Places
  <2>1. ip < Size
    BY DEF Refuse, Operate, OutOfBounds, LoadGlobal, Executes, Going
  <2>2. next_ip \in Places /\ next_ip <= Size
    BY <1>2, <2>1, CompiledStep
  <2>3. next_ip \in Nat /\ Size \in Nat
    BY NextIp DEF Inv
  <2>4. ip' = next_ip \/ \E left : Raise(next_ip, left)
    <3>1. CASE Refuse
      BY <2>2, <2>3, <3>1 DEF Refuse
    <3>2. CASE Operate
      BY <3>2 DEF Operate, Continues
    <3>3. CASE OutOfBounds
      BY <3>3 DEF OutOfBounds
    <3>4. CASE LoadGlobal
      BY <3>4 DEF LoadGlobal, Continues
    <3>5. QED
      BY <3>1, <3>2, <3>3, <3>4
  <2>5. QED
    BY <1>2, <2>2, <2>4, RaiseAligned
<1>3. QED
  BY <1>1, <1>2, AlignedWithin

LEMMA JumpsAligned ==
    ASSUME Inv, AlignInv, Jump \/ Branch
    PROVE  AlignInv'
<1>1. UNCHANGED <<program, callStack, exceptionHandlers>>
  BY DEF Jump, Branch, control
<1>2. ASSUME program \in Compiled
      PROVE  ip' \in Places
  <2>1. ip < Size /\ op \in {"JMP", "JZ", "JNZ"}
    BY DEF Jump, Branch, Executes, Going
  <2>2. next_ip \in Places /\ readShort(ip + 1) \in Places
    BY <1>2, <2>1, CompiledStep
  <2>3. ip' \in {next_ip, readShort(ip + 1)}
    BY DEF Jump, Branch
  <2>4. QED
    BY <2>2, <2>3
<1>3. QED
  BY <1>1, <1>2, AlignedWithin

LEMMA ContinuesAligned ==
    ASSUME Inv, AlignInv,
           \/ LoadLocal \/ StoreLocal \/ StoreGlobal
           \/ ReturnFromMain \/ Catch \/ Exit
    PROVE  AlignInv'
<1>1. UNCHANGED <<program, callStack, exceptionHandlers>>
  BY DEF LoadLocal, StoreLocal, StoreGlobal, ReturnFromMain, Catch, Exit, control
<1>2. ASSUME program \in Compiled
      PROVE  ip' \in Places
  <2>1. ip < Size
    BY DEF LoadLocal, StoreLocal, StoreGlobal, ReturnFromMain, Catch, Exit,
           Executes, Going
  <2>2. ip' = next_ip
    BY DEF LoadLocal, StoreLocal, StoreGlobal, ReturnFromMain, Catch, Exit,
           Continues
  <2>3. QED
    BY <1>2, <2>1, <2>2, CompiledStep
<1>3. QED
  BY <1>1, <1>2, AlignedWithin

LEMMA FinishAligned ==
    ASSUME AlignInv, Finish
    PROVE  AlignInv'
<1>1. UNCHANGED <<program, callStack, exceptionHandlers, ip>>
  BY DEF Finish, control
<1>2. QED
  BY <1>1 DEF AlignInv, Places

LEMMA CallAligned ==
    ASSUME Inv, AlignInv, Call
    PROVE  AlignInv'
<1>1. /\ callStack' = Append(callStack, Frame(next_ip))
      /\ ip' = readShort(ip + 1)
      /\ UNCHANGED <<program, exceptionHandlers>>
  BY DEF Call, CallWith
<1>2. ASSUME program \in Compiled
      PROVE  /\ ip' \in Places
             /\ \A k \in 1..Len(callStack') : callStack'[k].returnIp \in Places
  <2>1. ip < Size /\ op = "CALL"
    BY DEF Call, CallWith, Executes, Going
  <2>2. next_ip \in Places /\ readShort(ip + 1) \in Places
    BY <1>2, <2>1, CompiledStep
  <2>3. PICK calls \in Seq([returnIp: Nat, framePointer: Int]) :
            calls = callStack
    BY DEF Inv, TypeOK
  <2>4. PICK frame \in [returnIp: Nat, framePointer: Int] :
            frame = Frame(next_ip) /\ frame.returnIp = next_ip
    <3>1. next_ip \in Nat /\ framePointer \in Int
      BY Types DEF Inv
    <3>2. PICK frame : frame = Frame(next_ip)
      OBVIOUS
    <3>3. /\ frame \in [returnIp: Nat, framePointer: Int]
          /\ frame.returnIp = next_ip
      BY <3>1, <3>2 DEF Frame
    <3>4. QED
      BY <3>2, <3>3
  <2>5. ASSUME NEW k \in 1..Len(Append(calls, frame))
        PROVE  Append(calls, frame)[k].returnIp \in Places
    <3>1. \/ k \in 1..Len(calls) /\ Append(calls, frame)[k] = calls[k]
          \/ Append(calls, frame)[k] = frame
      OBVIOUS
    <3>2. QED
      BY <1>2, <2>2, <2>3, <2>4, <3>1 DEF AlignInv
  <2>6. QED
    BY <1>1, <2>2, <2>3, <2>4, <2>5
<1>3. QED
  BY <1>1, <1>2 DEF AlignInv, Places

LEMMA ReturnAligned ==
    ASSUME Inv, AlignInv, Return \/ ReturnFails
    PROVE  AlignInv'
<1>1. /\ callStack # << >>
      /\ callStack' = SubSeq(callStack, 1, Len(callStack) - 1)
      /\ ip' = TopFrame.returnIp \/ \E left : Raise(TopFrame.returnIp, left)
      /\ UNCHANGED <<program, exceptionHandlers>>
  BY DEF Return, ReturnFails
<1>2. /\ Len(callStack') = Len(callStack) - 1
      /\ \A k \in 1..Len(callStack') : callStack'[k] = callStack[k]
  BY <1>1, CallersFacts DEF Inv
<1>3. Len(callStack) \in Nat /\ Len(callStack) # 0
  BY <1>1 DEF Inv, TypeOK
<1>4. ASSUME program \in Compiled
      PROVE  /\ ip' \in Places
             /\ \A k \in 1..Len(callStack') : callStack'[k].returnIp \in Places
  <2>1. TopFrame.returnIp \in Places
    <3>1. Len(callStack) \in 1..Len(callStack)
      BY <1>3
    <3>2. QED
      BY <1>4, <3>1 DEF AlignInv, TopFrame
  <2>2. ip' \in Places
    BY <1>1, <1>4, <2>1, RaiseAligned
  <2>3. \A k \in 1..Len(callStack') : k \in 1..Len(callStack)
    BY <1>2, <1>3
  <2>4. QED
    BY <1>2, <1>4, <2>2, <2>3 DEF AlignInv
<1>5. QED
  BY <1>1, <1>4 DEF AlignInv, Places

LEMMA TriesAligned ==
    ASSUME Inv, AlignInv, TryBegin \/ TryEnd
    PROVE  AlignInv'
<1>1. UNCHANGED <<program, callStack>> /\ ip' = next_ip /\ ip < Size
  BY DEF TryBegin, TryEnd, Continues, Executes, Going
<1>2. PICK handlers \in Seq(Handler) : handlers = exceptionHandlers
  BY DEF Inv, TypeOK
<1>3. ASSUME program \in Compiled
      PROVE  /\ ip' \in Places
             /\ \A k \in 1..Len(exceptionHandlers') :
                    exceptionHandlers'[k].catchStart \in Places
  <2>1. ip' \in Places
    BY <1>1, <1>3, CompiledStep
  <2>2. \A k \in 1..Len(handlers) : handlers[k].catchStart \in Places
    BY <1>2, <1>3 DEF AlignInv
  <2>3. CASE TryBegin
    <3>1. op = "TRY_BEGIN" /\ Executes({"TRY_BEGIN"})
      BY <2>3 DEF TryBegin, Executes
    <3>2. readShort(ip + 3) \in Places
      BY <1>1, <1>3, <3>1, CompiledStep
    <3>3. PICK handler \in Handler :
              /\ handler.catchStart \in Places
              /\ exceptionHandlers' = Append(handlers, handler)
      <4>1. readShort(ip + 1) \in Nat /\ readShort(ip + 3) \in Nat
        BY <3>1, Operand, Widths DEF Inv
      <4>2. ip + 1 \in Nat
        BY Types DEF Inv
      <4>3. PICK handler : handler = [tryStart   |-> ip + 1,
                                      tryEnd     |-> readShort(ip + 1),
                                      catchStart |-> readShort(ip + 3)]
        OBVIOUS
      <4>4. handler \in Handler /\ handler.catchStart = readShort(ip + 3)
        BY <4>1, <4>2, <4>3, HandlerType
      <4>5. exceptionHandlers' = Append(handlers, handler)
        BY <1>2, <2>3, <4>3 DEF TryBegin
      <4>6. QED
        BY <3>2, <4>4, <4>5
    <3>4. \A k \in 1..Len(Append(handlers, handler)) :
             \/ k \in 1..Len(handlers) /\ Append(handlers, handler)[k] = handlers[k]
             \/ Append(handlers, handler)[k] = handler
      OBVIOUS
    <3>5. QED
      BY <2>1, <2>2, <3>3, <3>4
  <2>4. CASE TryEnd
    <3>1. exceptionHandlers' = SubSeq(handlers, 1, Len(handlers) - 1)
      BY <1>2, <2>4 DEF TryEnd
    <3>2. \A k \in 1..Len(SubSeq(handlers, 1, Len(handlers) - 1)) :
             /\ k \in 1..Len(handlers)
             /\ SubSeq(handlers, 1, Len(handlers) - 1)[k] = handlers[k]
      OBVIOUS
    <3>3. QED
      BY <2>1, <2>2, <3>1, <3>2
  <2>5. QED
    BY <2>3, <2>4
<1>4. QED
  BY <1>1, <1>3 DEF AlignInv, Places

LEMMA ThrowAligned ==
    ASSUME Inv, AlignInv, Throw
    PROVE  AlignInv'
<1>1. /\ UNCHANGED <<program, callStack, exceptionHandlers>> /\ ip < Size
      /\ \/ ip' = next_ip
         \/ \E h \in findExceptionHandler(next_ip) :
               ip' = exceptionHandlers[h].catchStart
  BY DEF Throw, control, Executes, Going
<1>2. ASSUME program \in Compiled
      PROVE  ip' \in Places
  <2>1. next_ip \in Places
    BY <1>1, <1>2, CompiledStep
  <2>2. \A h \in findExceptionHandler(next_ip) : h \in 1..Len(exceptionHandlers)
    BY DEF findExceptionHandler
  <2>3. QED
    BY <1>1, <1>2, <2>1, <2>2 DEF AlignInv
<1>3. QED
  BY <1>1, <1>2, AlignedWithin

LEMMA AlignInitially == Init => AlignInv
<1>1. SUFFICES ASSUME Init, program \in Compiled
               PROVE  /\ ip \in Places /\ Len(callStack) = 0
                      /\ \A k \in 1..Len(exceptionHandlers) :
                            exceptionHandlers[k].catchStart \in Places
  BY DEF AlignInv
<1>2. program.bytecode \in Seq(0..255)
  BY <1>1, VMAssumption DEF Init, Program
<1>3. ip \in Places
  BY <1>1, <1>2, InstructionFollows DEF Init, Places
<1>4. \A k \in 1..Len(program.exceptionHandlers) :
          program.exceptionHandlers[k].catchStart \in Places
  BY <1>1, CompiledAssumption DEF LeadsToInstructions, Places
<1>5. QED
  BY <1>1, <1>3, <1>4 DEF Init

LEMMA AlignInvariance ==
    ASSUME Inv, AlignInv, [Next]_vars
    PROVE  AlignInv'
<1>1. CASE UNCHANGED vars
  BY <1>1 DEF AlignInv, Places, vars
<1>2. CASE Next
  BY <1>2, RaisesAligned, JumpsAligned, ContinuesAligned, FinishAligned,
     CallAligned, ReturnAligned, TriesAligned, ThrowAligned DEF Next
<1>3. QED
  BY <1>1, <1>2

\* In a program whose jumps lead to instructions, no operand is ever taken for
\* an opcode: return addresses and the addresses of handlers, put down when
\* calls and try blocks begin, lead to instructions as well.
THEOREM AlwaysAligned == Spec => []Aligned
<1>1. Init => Inv /\ AlignInv
  BY Initially, AlignInitially
<1>2. Inv /\ AlignInv /\ [Next]_vars => Inv' /\ AlignInv'
  BY Invariance, AlignInvariance
<1>3. AlignInv => Aligned
  BY DEF AlignInv, Aligned, Places
<1>4. QED
  BY <1>1, <1>2, <1>3, PTL DEF Spec

-----------------------------------------------------------------------------
(* Try blocks *)

\* The handler that a TRY_BEGIN puts on the list.
HandlerIn(code, block) ==
    [tryStart   |-> block + 1,
     tryEnd     |-> ShortIn(code, block + 1),
     catchStart |-> ShortIn(code, block + 3)]

\* The try blocks that are under way while calls wait and the running function
\* is at an address: pairs of a position among the calls and a block.
Active(code, calls, at) ==
    {a \in (1..Len(calls) + 1) \X Nat :
        a[2] \in Around(code, IF a[1] <= Len(calls) THEN calls[a[1]].returnIp
                              ELSE at)}

\* The order in which they began.
Before(a, b) == a[1] < b[1] \/ (a[1] = b[1] /\ a[2] < b[2])

\* A list of handlers has one for each active block, in this order, with stale
\* ones anywhere between and behind them.
OnList(code, active, handlers) ==
    \E place \in [active -> 1..Len(handlers)] :
        /\ \A a \in active : handlers[place[a]] = HandlerIn(code, a[2])
        /\ \A a, b \in active : Before(a, b) => place[a] < place[b]

\* A list of handlers has no others than those of try blocks.
OfBlocks(code, handlers) ==
    \A i \in 1..Len(handlers) :
        \E block \in Instructions(code) :
            /\ block < Len(code) /\ OpIn(code, block) = "TRY_BEGIN"
            /\ handlers[i] = HandlerIn(code, block)

Tried(p, calls, at, handlers) ==
    /\ OnList(p.bytecode, Active(p.bytecode, calls, at), handlers)
    /\ OfBlocks(p.bytecode, handlers)

TryInv ==
    program \in Structured /\ outcome = "pending" =>
        Tried(program, callStack, ip, exceptionHandlers)

LEMMA OnListSmaller ==
    ASSUME NEW code, NEW active, NEW smaller \in SUBSET active, NEW handlers,
           OnList(code, active, handlers)
    PROVE  OnList(code, smaller, handlers)
<1>1. PICK place \in [active -> 1..Len(handlers)] :
            /\ \A a \in active : handlers[place[a]] = HandlerIn(code, a[2])
            /\ \A a, b \in active : Before(a, b) => place[a] < place[b]
  BY DEF OnList
<1> DEFINE less == [a \in smaller |-> place[a]]
<1>2. less \in [smaller -> 1..Len(handlers)]
  BY <1>1
<1>3. /\ \A a \in smaller : handlers[less[a]] = HandlerIn(code, a[2])
      /\ \A a, b \in smaller : Before(a, b) => less[a] < less[b]
  BY <1>1
<1> HIDE DEF less
<1>4. QED
  BY <1>2, <1>3 DEF OnList

\* TRY_BEGIN appends the handler of the block that began last.
LEMMA OnListLonger ==
    ASSUME NEW code, NEW active, NEW last, NEW handlers \in Seq(Handler),
           NEW handler \in Handler, handler = HandlerIn(code, last[2]),
           OnList(code, active, handlers),
           ~ Before(last, last),
           \A a \in active : Before(a, last) /\ ~ Before(last, a)
    PROVE  OnList(code, active \cup {last}, Append(handlers, handler))
<1>1. PICK place \in [active -> 1..Len(handlers)] :
            /\ \A a \in active : handlers[place[a]] = HandlerIn(code, a[2])
            /\ \A a, b \in active : Before(a, b) => place[a] < place[b]
  BY DEF OnList
<1> DEFINE longer == Append(handlers, handler)
<1>2. /\ Len(longer) = Len(handlers) + 1 /\ Len(handlers) \in Nat
      /\ longer[Len(handlers) + 1] = handler
      /\ \A i \in 1..Len(handlers) : longer[i] = handlers[i]
  OBVIOUS
<1> HIDE DEF longer
<1>3. /\ Len(longer) = Len(handlers) + 1 /\ Len(handlers) \in Nat
      /\ longer[Len(handlers) + 1] = HandlerIn(code, last[2])
      /\ \A i \in 1..Len(handlers) : longer[i] = handlers[i]
  BY <1>2
<1> DEFINE more == [a \in active \cup {last} |->
                       IF a = last THEN Len(handlers) + 1 ELSE place[a]]
<1>4. last \notin active
  OBVIOUS
<1>5. /\ more[last] = Len(handlers) + 1
      /\ \A a \in active : more[a] = place[a] /\ place[a] \in 1..Len(handlers)
  BY <1>1, <1>4
<1>6. more \in [active \cup {last} -> 1..Len(longer)]
  <2>1. \A a \in active \cup {last} : more[a] \in 1..Len(longer)
    BY <1>3, <1>5
  <2>2. QED
    BY <2>1
<1> HIDE DEF more
<1>7. \A a \in active \cup {last} : longer[more[a]] = HandlerIn(code, a[2])
  BY <1>1, <1>3, <1>5
<1>8. ASSUME NEW a \in active \cup {last}, NEW b \in active \cup {last},
             Before(a, b)
      PROVE  more[a] < more[b]
  <2>1. a \in active
    BY <1>8
  <2>2. CASE b = last
    BY <1>3, <1>5, <2>1, <2>2
  <2>3. CASE b \in active
    BY <1>1, <1>5, <1>8, <2>1, <2>3
  <2>4. QED
    BY <2>2, <2>3
<1>9. OnList(code, active \cup {last}, longer)
  BY <1>6, <1>7, <1>8 DEF OnList
<1>10. QED
  BY <1>9 DEF longer

\* TRY_END removes the last handler, whichever it is, and with it no more than
\* the last place of an active block.
LEMMA OnListShorter ==
    ASSUME NEW code, NEW active, NEW last \in active,
           NEW handlers \in Seq(Handler), OnList(code, active, handlers),
           \A a \in active \ {last} : Before(a, last)
    PROVE  OnList(code, active \ {last}, SubSeq(handlers, 1, Len(handlers) - 1))
<1>1. PICK place \in [active -> 1..Len(handlers)] :
            /\ \A a \in active : handlers[place[a]] = HandlerIn(code, a[2])
            /\ \A a, b \in active : Before(a, b) => place[a] < place[b]
  BY DEF OnList
<1>2. Len(handlers) \in Nat /\ place[last] \in 1..Len(handlers)
  BY <1>1
<1>3. Len(handlers) - 1 \in 0..Len(handlers)
  BY <1>2
<1>4. PICK shorter \in Seq(Handler) :
            shorter = SubSeq(handlers, 1, Len(handlers) - 1)
  BY <1>3, ShorterSeq
<1>5. /\ Len(shorter) = Len(handlers) - 1
      /\ \A i \in 1..Len(handlers) - 1 : shorter[i] = handlers[i]
  BY <1>3, <1>4, ShorterSeq
<1> DEFINE less == [a \in active \ {last} |-> place[a]]
<1>6. \A a \in active \ {last} : place[a] \in 1..Len(handlers) - 1
  BY <1>1, <1>2
<1>7. less \in [active \ {last} -> 1..Len(shorter)]
  BY <1>5, <1>6
<1>8. /\ \A a \in active \ {last} : shorter[less[a]] = HandlerIn(code, a[2])
      /\ \A a, b \in active \ {last} : Before(a, b) => less[a] < less[b]
  BY <1>1, <1>5, <1>6
<1> HIDE DEF less
<1>9. OnList(code, active \ {last}, shorter)
  BY <1>7, <1>8 DEF OnList
<1>10. QED
  BY <1>4, <1>9

\* The blocks around an address begin before it.
LEMMA BlocksAround ==
    ASSUME NEW code \in Seq(0..255), NEW at \in Nat
    PROVE  \A block \in Around(code, at) :
              /\ block \in Instructions(code) /\ block \in Nat /\ block < at
<1>1. \A block \in Around(code, at) :
        block \in Instructions(code) /\ block < at
  BY DEF Around
<1>2. QED
  BY <1>1, InstructionFollows

LEMMA OneInnermost ==
    ASSUME NEW blocks \in SUBSET Nat, NEW a \in Innermost(blocks),
           NEW b \in Innermost(blocks)
    PROVE  a = b
BY DEF Innermost

LEMMA ActiveWithin ==
    ASSUME NEW code, NEW calls, NEW x, NEW y,
           Around(code, y) \subseteq Around(code, x)
    PROVE  Active(code, calls, y) \subseteq Active(code, calls, x)
BY DEF Active

\* A call turns the blocks of the running function into those of a caller.
LEMMA ActiveCalling ==
    ASSUME NEW code, NEW calls \in Seq(CallFrame), NEW frame \in CallFrame,
           NEW x, NEW y,
           Around(code, frame.returnIp) = Around(code, x), Around(code, y) = {}
    PROVE  Active(code, Append(calls, frame), y) \subseteq Active(code, calls, x)
<1> DEFINE longer == Append(calls, frame)
<1>2. /\ Len(longer) = Len(calls) + 1 /\ Len(calls) \in Nat
      /\ longer[Len(calls) + 1] = frame
      /\ \A i \in 1..Len(calls) : longer[i] = calls[i]
  OBVIOUS
<1> HIDE DEF longer
<1>3. ASSUME NEW k \in 1..Len(longer) + 1, NEW block \in Nat,
             block \in Around(code, IF k <= Len(longer) THEN longer[k].returnIp
                                    ELSE y)
      PROVE  /\ k \in 1..Len(calls) + 1
             /\ block \in Around(code, IF k <= Len(calls) THEN calls[k].returnIp
                                       ELSE x)
  <2>1. k <= Len(longer)
    BY <1>3
  <2>2. CASE k = Len(calls) + 1
    BY <1>2, <1>3, <2>1, <2>2
  <2>3. CASE k # Len(calls) + 1
    <3>1. k \in 1..Len(calls) /\ longer[k] = calls[k] /\ k <= Len(calls)
      BY <1>2, <2>1, <2>3
    <3>2. QED
      BY <1>2, <1>3, <2>1, <3>1
  <2>4. QED
    BY <2>2, <2>3
<1>4. Active(code, longer, y) \subseteq Active(code, calls, x)
  BY <1>3 DEF Active
<1>5. QED
  BY <1>4 DEF longer

\* A return forgets the blocks of the function that returns.
LEMMA ActiveReturning ==
    ASSUME NEW code, NEW calls \in Seq(CallFrame), calls # << >>, NEW x, NEW y,
           Around(code, y) \subseteq Around(code, calls[Len(calls)].returnIp)
    PROVE  Active(code, SubSeq(calls, 1, Len(calls) - 1), y)
              \subseteq Active(code, calls, x)
<1>1. Len(calls) \in Nat \ {0} /\ Len(calls) - 1 \in 0..Len(calls)
  OBVIOUS
<1>2. PICK shorter : shorter = SubSeq(calls, 1, Len(calls) - 1)
  OBVIOUS
<1>3. /\ Len(shorter) = Len(calls) - 1
      /\ \A i \in 1..Len(calls) - 1 : shorter[i] = calls[i]
  BY <1>1, <1>2, ShorterSeq
<1>4. ASSUME NEW k \in 1..Len(shorter) + 1, NEW block \in Nat,
             block \in Around(code, IF k <= Len(shorter) THEN shorter[k].returnIp
                                    ELSE y)
      PROVE  /\ k \in 1..Len(calls) + 1 /\ k <= Len(calls)
             /\ block \in Around(code, calls[k].returnIp)
  <2>1. k \in 1..Len(calls)
    BY <1>1, <1>3
  <2>2. CASE k = Len(calls)
    BY <1>1, <1>3, <1>4, <2>1, <2>2
  <2>3. CASE k # Len(calls)
    <3>1. k \in 1..Len(calls) - 1 /\ shorter[k] = calls[k] /\ k <= Len(shorter)
      BY <1>1, <1>3, <2>1, <2>3
    <3>2. QED
      BY <1>1, <1>4, <2>1, <3>1
  <2>4. QED
    BY <2>2, <2>3
<1>5. Active(code, shorter, y) \subseteq Active(code, calls, x)
  BY <1>4 DEF Active
<1>6. QED
  BY <1>2, <1>5

\* A block of the running function is the last to have begun, if it is the
\* innermost around the address.
LEMMA ActiveLast ==
    ASSUME NEW code \in Seq(0..255), NEW calls \in Seq(CallFrame), NEW x \in Nat,
           NEW last \in Nat,
           \A block \in Around(code, x) \ {last} : block < last
    PROVE  LET newest == <<Len(calls) + 1, last>>
           IN  /\ ~ Before(newest, newest)
               /\ \A a \in Active(code, calls, x) \ {newest} :
                     Before(a, newest) /\ ~ Before(newest, a)
<1> DEFINE newest == <<Len(calls) + 1, last>>
<1>1. newest[1] = Len(calls) + 1 /\ newest[2] = last /\ Len(calls) \in Nat
  OBVIOUS
<1>2. ASSUME NEW a \in Active(code, calls, x), a # newest
      PROVE  Before(a, newest) /\ ~ Before(newest, a)
  <2>1. PICK k \in 1..Len(calls) + 1, block \in Nat : a = <<k, block>>
    BY DEF Active
  <2>2. a[1] = k /\ a[2] = block
    BY <2>1
  <2>3. CASE k <= Len(calls)
    BY <1>1, <2>2, <2>3 DEF Before
  <2>4. CASE ~ (k <= Len(calls))
    <3>1. k = Len(calls) + 1
      BY <1>1, <2>4
    <3>2. block \in Around(code, x) /\ block # last
      BY <1>2, <2>1, <2>2, <2>4, <3>1 DEF Active
    <3>3. block < last
      BY <3>2
    <3>4. QED
      BY <1>1, <2>2, <3>1, <3>3 DEF Before
  <2>5. QED
    BY <2>3, <2>4
<1>3. ~ Before(newest, newest)
  BY <1>1 DEF Before
<1>4. QED
  BY <1>2, <1>3

\* Where the running function comes to a further block.
LEMMA ActiveMore ==
    ASSUME NEW code, NEW calls \in Seq(CallFrame), NEW x, NEW y,
           NEW block \in Nat, Around(code, y) = Around(code, x) \cup {block}
    PROVE  Active(code, calls, y)
              = Active(code, calls, x) \cup {<<Len(calls) + 1, block>>}
<1>1. Len(calls) \in Nat
  OBVIOUS
<1>2. ASSUME NEW k \in 1..Len(calls) + 1, NEW b \in Nat
      PROVE  <<k, b>> \in Active(code, calls, y)
                <=> \/ <<k, b>> \in Active(code, calls, x)
                    \/ k = Len(calls) + 1 /\ b = block
  BY <1>1 DEF Active
<1>3. \A a : a \in Active(code, calls, x) \/ a \in Active(code, calls, y) =>
                \E k \in 1..Len(calls) + 1, b \in Nat : a = <<k, b>>
  BY DEF Active
<1>4. Len(calls) + 1 \in 1..Len(calls) + 1
  BY <1>1
<1>5. QED
  BY <1>2, <1>3, <1>4

\* Where it leaves a block.
LEMMA ActiveLess ==
    ASSUME NEW code, NEW calls \in Seq(CallFrame), NEW x, NEW y,
           NEW block \in Around(code, x), block \in Nat,
           \A b : b \in Around(code, y) <=> b \in Around(code, x) /\ b # block,
           NEW newest, newest = <<Len(calls) + 1, block>>
    PROVE  /\ newest \in Active(code, calls, x)
           /\ \A a : a \in Active(code, calls, y)
                        <=> a \in Active(code, calls, x) /\ a # newest
<1>1. Len(calls) \in Nat /\ Len(calls) + 1 \in 1..Len(calls) + 1
  OBVIOUS
<1>2. ASSUME NEW k \in 1..Len(calls) + 1, NEW b \in Nat
      PROVE  <<k, b>> \in Active(code, calls, y)
                <=> /\ <<k, b>> \in Active(code, calls, x)
                    /\ ~ (k = Len(calls) + 1 /\ b = block)
  BY <1>1 DEF Active
<1>3. \A a : a \in Active(code, calls, x) \/ a \in Active(code, calls, y) =>
                \E k \in 1..Len(calls) + 1, b \in Nat : a = <<k, b>>
  BY DEF Active
<1>4. newest \in Active(code, calls, x)
  BY <1>1 DEF Active
<1>5. QED
  BY <1>2, <1>3, <1>4

-----------------------------------------------------------------------------

Blocks(at) == Around(program.bytecode, at)

\* What a structured program is assumed to be, at the instruction executed.
LEMMA StructuredStep ==
    ASSUME Inv, AlignInv, program \in Structured, ip < Size
    PROVE  /\ next_ip \in Places /\ next_ip <= Size
           /\ op \notin {"TRY_BEGIN", "TRY_END"} => Blocks(next_ip) = Blocks(ip)
           /\ op = "TRY_BEGIN" => Blocks(next_ip) = Blocks(ip) \cup {ip}
           /\ op = "TRY_END" => \E block \in Innermost(Blocks(ip)) :
                                   Blocks(next_ip) = Blocks(ip) \ {block}
           /\ op \in {"JMP", "JZ", "JNZ"} =>
                 Blocks(readShort(ip + 1)) = Blocks(ip)
           /\ op = "CALL" => Blocks(readShort(ip + 1)) = {}
<1>1. program \in Compiled
  BY VMAssumption
<1>2. next_ip \in Places /\ next_ip <= Size
  BY <1>1, CompiledStep
<1>3. PICK code \in Seq(0..255) : code = program.bytecode
  BY DEF Inv, TypeOK, Program
<1>4. ip \in Instructions(code) \ {Len(code)}
  <2>1. ip \in Nat /\ Size = Len(code)
    BY <1>3 DEF Inv, TypeOK, Size
  <2>2. QED
    BY <1>1, <1>3, <2>1 DEF AlignInv, Places
<1>5. next_ip = ip + Width(OpIn(code, ip)) /\ op = OpIn(code, ip)
  BY <1>3 DEF next_ip, op
<1>6. /\ readShort(ip + 1) = ShortIn(code, ip + 1)
      /\ \A at : Blocks(at) = Around(code, at)
  BY <1>3 DEF readShort, Blocks
<1>7. StaysInBlocks(code, ip)
  BY <1>3, <1>4, StructuredAssumption, Zenon
<1>8. QED
  BY <1>2, <1>5, <1>6, <1>7 DEF StaysInBlocks

\* Where the blocks around the running function's address have handlers, the
\* one that findExceptionHandler takes is that of the innermost block.
LEMMA CaughtByInnermost ==
    ASSUME Inv, program \in Structured, NEW at \in Places,
           OfBlocks(program.bytecode, exceptionHandlers),
           \A block \in Blocks(at) : \E i \in 1..Len(exceptionHandlers) :
               exceptionHandlers[i] = HandlerIn(program.bytecode, block)
    PROVE  /\ \A h \in findExceptionHandler(at) :
                 \E block \in Innermost(Blocks(at)) :
                    /\ exceptionHandlers[h].catchStart = readShort(block + 3)
                    /\ Blocks(exceptionHandlers[h].catchStart)
                          = Blocks(at) \ {block}
           /\ Innermost(Blocks(at)) # {} => findExceptionHandler(at) # {}
<1>1. PICK code \in Seq(0..255) : code = program.bytecode
  BY DEF Inv, TypeOK, Program
<1>2. PICK handlers \in Seq(Handler) : handlers = exceptionHandlers
  BY DEF Inv, TypeOK
<1>3. at \in Instructions(code) /\ at \in Nat /\ Blocks(at) = Around(code, at)
  BY <1>1, InstructionFollows DEF Places, Blocks
<1>4. ASSUME NEW i \in 1..Len(handlers), NEW block \in Instructions(code),
             block < Len(code), OpIn(code, block) = "TRY_BEGIN",
             handlers[i] = HandlerIn(code, block)
      PROVE  /\ block \in Nat /\ handlers[i].tryStart = block + 1
             /\ handlers[i].catchStart = ShortIn(code, block + 3)
             /\ at \in handlers[i].tryStart .. handlers[i].tryEnd
                   <=> block \in Blocks(at)
  <2>1. block \in Nat
    BY InstructionFollows
  <2>2. /\ handlers[i].tryStart = block + 1
        /\ handlers[i].tryEnd = ShortIn(code, block + 1)
        /\ handlers[i].catchStart = ShortIn(code, block + 3)
    BY <1>4 DEF HandlerIn
  <2>3. handlers[i] \in Handler
    BY Elements
  <2>4. handlers[i].tryEnd \in Nat
    BY <2>3 DEF Handler
  <2>5. block \in Around(code, at)
           <=> block < at /\ at <= ShortIn(code, block + 1)
    BY <1>4 DEF Around
  <2>6. at \in handlers[i].tryStart .. handlers[i].tryEnd
           <=> block \in Around(code, at)
    BY <1>3, <2>1, <2>2, <2>4, <2>5
  <2>7. QED
    BY <1>3, <2>1, <2>2, <2>6
<1>5. ASSUME NEW i \in 1..Len(handlers)
      PROVE  \E block \in Instructions(code) :
                /\ block < Len(code) /\ OpIn(code, block) = "TRY_BEGIN"
                /\ handlers[i] = HandlerIn(code, block)
  BY <1>1, <1>2 DEF OfBlocks
<1>6. ASSUME NEW block \in Blocks(at)
      PROVE  /\ block \in Instructions(code) /\ block < Len(code)
             /\ OpIn(code, block) = "TRY_BEGIN"
             /\ \E i \in 1..Len(handlers) : handlers[i] = HandlerIn(code, block)
  BY <1>1, <1>2, <1>3 DEF Around
<1> DEFINE covering == {i \in 1..Len(handlers) :
                           at \in handlers[i].tryStart .. handlers[i].tryEnd}
<1>7. findExceptionHandler(at)
        = {i \in covering :
              \A j \in covering :
                 /\ handlers[j].tryStart <= handlers[i].tryStart
                 /\ handlers[j].tryStart = handlers[i].tryStart => i <= j}
  BY <1>2 DEF findExceptionHandler
<1>8. ASSUME NEW h \in findExceptionHandler(at)
      PROVE  \E block \in Innermost(Blocks(at)) :
                /\ handlers[h].catchStart = readShort(block + 3)
                /\ Blocks(handlers[h].catchStart) = Blocks(at) \ {block}
  <2>1. /\ h \in covering
        /\ \A j \in covering : handlers[j].tryStart <= handlers[h].tryStart
    BY <1>7
  <2>2. PICK block \in Instructions(code) :
                /\ block < Len(code) /\ OpIn(code, block) = "TRY_BEGIN"
                /\ handlers[h] = HandlerIn(code, block)
    BY <1>5, <2>1
  <2>3. /\ block \in Nat /\ handlers[h].tryStart = block + 1
        /\ handlers[h].catchStart = ShortIn(code, block + 3)
        /\ block \in Blocks(at)
    BY <1>4, <2>1, <2>2
  <2>4. ASSUME NEW other \in Blocks(at)
        PROVE  other <= block
    <3>1. PICK j \in 1..Len(handlers) : handlers[j] = HandlerIn(code, other)
      BY <1>6
    <3>2. /\ other \in Nat /\ handlers[j].tryStart = other + 1 /\ j \in covering
      BY <1>4, <1>6, <3>1
    <3>3. QED
      BY <2>1, <2>3, <3>2
  <2>5. block \in Innermost(Blocks(at))
    BY <2>3, <2>4 DEF Innermost
  <2>6. Around(code, ShortIn(code, block + 3)) = Around(code, at) \ {block}
    <3>1. CatchesOutside(code, at)
      BY <1>1, <1>3, StructuredAssumption, Zenon
    <3>2. QED
      BY <1>3, <2>5, <3>1 DEF CatchesOutside
  <2>7. QED
    BY <1>1, <1>3, <2>3, <2>5, <2>6 DEF Blocks, readShort
<1>9. ASSUME NEW block \in Innermost(Blocks(at))
      PROVE  findExceptionHandler(at) # {}
  <2>1. block \in Blocks(at) /\ \A other \in Blocks(at) : other <= block
    BY DEF Innermost
  <2> DEFINE first == {i \in 1..Len(handlers) : handlers[i] = HandlerIn(code, block)}
  <2>2. first # {}
    BY <1>6, <2>1
  <2>3. Len(handlers) \in Nat /\ first \in SUBSET (0..Len(handlers))
    OBVIOUS
  <2>4. PICK i \in first : \A j \in first : i <= j
    BY <2>2, <2>3, LeastElement
  <2>5. i \in covering /\ handlers[i].tryStart = block + 1 /\ block \in Nat
    BY <1>4, <1>6, <2>1, <2>4
  <2>6. ASSUME NEW j \in covering
        PROVE  /\ handlers[j].tryStart <= handlers[i].tryStart
               /\ handlers[j].tryStart = handlers[i].tryStart => i <= j
    <3>1. PICK other \in Instructions(code) :
                /\ other < Len(code) /\ OpIn(code, other) = "TRY_BEGIN"
                /\ handlers[j] = HandlerIn(code, other)
      BY <1>5
    <3>2. /\ other \in Nat /\ handlers[j].tryStart = other + 1
          /\ other \in Blocks(at)
      BY <1>4, <3>1
    <3>3. other <= block
      BY <2>1, <3>2
    <3>4. other = block => j \in first
      BY <3>1
    <3>5. QED
      BY <2>4, <2>5, <3>2, <3>3, <3>4
  <2>7. i \in findExceptionHandler(at)
    BY <1>7, <2>5, <2>6
  <2>8. QED
    BY <2>7
<1>10. QED
  BY <1>2, <1>8, <1>9

\* What is common to Raise and Throw.
Thrown(at) ==
    /\ thrown' = at
    /\ \/ findExceptionHandler(at) = {} /\ outcome' = "rejected"
       \/ \E h \in findExceptionHandler(at) :
             ip' = exceptionHandlers[h].catchStart /\ outcome' = outcome

\* With this, it is caught by the innermost block, if there is one, and the
\* handlers of the others remain where they are.
LEMMA ThrownStep ==
    ASSUME Inv, program \in Structured, outcome = "pending",
           NEW calls \in Seq(CallFrame), NEW at \in Places,
           Tried(program, calls, at, exceptionHandlers),
           Thrown(at), program' = program
    PROVE  /\ TryProtects'
           /\ outcome' = "pending" =>
                 Tried(program, calls, ip', exceptionHandlers)
<1>1. PICK code \in Seq(0..255) : code = program.bytecode
  BY DEF Inv, TypeOK, Program
<1>2. /\ OnList(code, Active(code, calls, at), exceptionHandlers)
      /\ OfBlocks(code, exceptionHandlers)
  BY <1>1 DEF Tried
<1>3. at \in Nat /\ Blocks(at) = Around(code, at)
  BY <1>1, InstructionFollows DEF Places, Blocks
<1>4. ASSUME NEW block \in Blocks(at)
      PROVE  \E i \in 1..Len(exceptionHandlers) :
                exceptionHandlers[i] = HandlerIn(code, block)
  <2>1. block \in Nat
    BY <1>3, BlocksAround
  <2>2. PICK a : a = <<Len(calls) + 1, block>>
    OBVIOUS
  <2>3. a \in Active(code, calls, at) /\ a[2] = block
    BY <1>3, <2>1, <2>2 DEF Active
  <2>4. QED
    BY <1>2, <2>3 DEF OnList
<1>5. /\ \A h \in findExceptionHandler(at) :
            \E block \in Innermost(Blocks(at)) :
               /\ exceptionHandlers[h].catchStart = readShort(block + 3)
               /\ Blocks(exceptionHandlers[h].catchStart) = Blocks(at) \ {block}
      /\ Innermost(Blocks(at)) # {} => findExceptionHandler(at) # {}
  BY <1>1, <1>2, <1>4, CaughtByInnermost
<1>6. CASE findExceptionHandler(at) = {} /\ outcome' = "rejected"
  <2>1. Innermost(Around(program.bytecode, at)) = {}
    BY <1>5, <1>6 DEF Blocks
  <2>2. thrown' = at
    BY DEF Thrown
  <2>3. Innermost(Around(program.bytecode, thrown))' = {}
    BY <2>1, <2>2 DEF Innermost, Around
  <2>4. QED
    BY <1>6, <2>3 DEF TryProtects
<1>7. CASE \E h \in findExceptionHandler(at) :
              ip' = exceptionHandlers[h].catchStart /\ outcome' = outcome
  <2>1. PICK block \in Innermost(Blocks(at)) :
           ip' = readShort(block + 3) /\ Blocks(ip') = Blocks(at) \ {block}
    BY <1>5, <1>7
  <2>2. Tried(program, calls, ip', exceptionHandlers)
    <3>1. Around(code, ip') \subseteq Around(code, at)
      BY <1>1, <2>1 DEF Blocks
    <3>2. Active(code, calls, ip') \subseteq Active(code, calls, at)
      BY <3>1, ActiveWithin
    <3>3. QED
      BY <1>1, <1>2, <3>2, OnListSmaller DEF Tried
  <2>3. Blocks(at) \in SUBSET Nat
    BY <1>3, BlocksAround
  <2>4. ASSUME NEW other \in Innermost(Blocks(at))
        PROVE  other = block
    BY <2>1, <2>3, OneInnermost
  <2>5. thrown' = at /\ outcome' = "pending"
    BY <1>7 DEF Thrown
  <2>6. Innermost(Around(program.bytecode, thrown))' = Innermost(Blocks(at))
    BY <2>5 DEF Innermost, Around, Blocks
  <2>7. \A other : readShort(other + 3)' = readShort(other + 3)
    BY DEF readShort, ShortIn
  <2>8. QED
    BY <2>1, <2>2, <2>4, <2>5, <2>6, <2>7 DEF TryProtects
<1>8. QED
  BY <1>6, <1>7 DEF Thrown

-----------------------------------------------------------------------------

TryStep == TryInv' /\ TryProtects'

LEMMA TriesKept ==
    ASSUME program' = program,
           program \in Structured =>
              /\ TryProtects'
              /\ outcome' = "pending" =>
                    Tried(program, callStack', ip', exceptionHandlers')
    PROVE  TryStep
<1>1. CASE program \in Structured
  BY <1>1 DEF TryStep, TryInv
<1>2. CASE program \notin Structured
  BY <1>2 DEF TryStep, TryInv, TryProtects
<1>3. QED
  BY <1>1, <1>2

LEMMA NothingThrown ==
    ASSUME thrown' = Nowhere
    PROVE  TryProtects'
BY DEF TryProtects

LEMMA TriedAlready ==
    ASSUME Inv, TryInv, program \in Structured, outcome = "pending"
    PROVE  /\ Tried(program, callStack, ip, exceptionHandlers)
           /\ callStack \in Seq(CallFrame) /\ exceptionHandlers \in Seq(Handler)
           /\ program.bytecode \in Seq(0..255)
BY DEF TryInv, Inv, TypeOK, CallFrame, Program

\* Fewer blocks are active than before.
LEMMA TriedSmaller ==
    ASSUME NEW p, NEW calls, NEW at, NEW handlers, NEW fewer, NEW to,
           Tried(p, calls, at, handlers),
           Active(p.bytecode, fewer, to) \subseteq Active(p.bytecode, calls, at)
    PROVE  Tried(p, fewer, to, handlers)
BY OnListSmaller DEF Tried

\* Every instruction but a call, a return, and the ends of a block stays in its
\* blocks or throws.
LEMMA TryWithin ==
    ASSUME Inv, AlignInv, TryInv, outcome = "pending", ip < Size,
           UNCHANGED <<program, callStack, exceptionHandlers>>,
           \/ /\ op \notin {"TRY_BEGIN", "TRY_END"}
              /\ ip' = next_ip /\ thrown' = Nowhere
           \/ /\ op \in {"JMP", "JZ", "JNZ"}
              /\ ip' = readShort(ip + 1) /\ thrown' = Nowhere
           \/ op \notin {"TRY_BEGIN", "TRY_END"} /\ Thrown(next_ip)
    PROVE  TryStep
<1>1. ASSUME program \in Structured
      PROVE  /\ TryProtects'
             /\ outcome' = "pending" =>
                   Tried(program, callStack, ip', exceptionHandlers)
  <2>1. /\ Tried(program, callStack, ip, exceptionHandlers)
        /\ callStack \in Seq(CallFrame)
    BY <1>1, TriedAlready
  <2>2. ASSUME NEW to, Blocks(to) = Blocks(ip)
        PROVE  Tried(program, callStack, to, exceptionHandlers)
    <3>1. Around(program.bytecode, to) \subseteq Around(program.bytecode, ip)
      BY <2>2 DEF Blocks
    <3>2. Active(program.bytecode, callStack, to)
             \subseteq Active(program.bytecode, callStack, ip)
      BY <3>1, ActiveWithin
    <3>3. QED
      BY <2>1, <3>2, TriedSmaller
  <2>3. CASE /\ op \notin {"TRY_BEGIN", "TRY_END"}
             /\ ip' = next_ip /\ thrown' = Nowhere
    BY <1>1, <2>2, <2>3, StructuredStep, NothingThrown
  <2>4. CASE /\ op \in {"JMP", "JZ", "JNZ"}
             /\ ip' = readShort(ip + 1) /\ thrown' = Nowhere
    BY <1>1, <2>2, <2>4, StructuredStep, NothingThrown
  <2>5. CASE op \notin {"TRY_BEGIN", "TRY_END"} /\ Thrown(next_ip)
    <3>1. Blocks(next_ip) = Blocks(ip) /\ next_ip \in Places
      BY <1>1, <2>5, StructuredStep
    <3>2. Tried(program, callStack, next_ip, exceptionHandlers)
      BY <2>2, <3>1
    <3>3. QED
      BY <1>1, <2>1, <2>5, <3>1, <3>2, ThrownStep
  <2>6. QED
    BY <2>3, <2>4, <2>5
<1>2. QED
  BY <1>1, TriesKept

LEMMA RaiseThrown ==
    ASSUME NEW at, NEW left, Raise(at, left)
    PROVE  Thrown(at)
BY DEF Raise, Thrown

LEMMA NoBlockEnds ==
    ASSUME NEW o,
           \/ o \in Operators \/ o \in Unimplemented
           \/ o \in {"JMP", "JZ", "JNZ", "RET", "THROW", "CATCH", "EXIT",
                     "LOAD_LOCAL", "STORE_LOCAL", "LOAD_GLOBAL", "STORE_GLOBAL"}
    PROVE  o \notin {"TRY_BEGIN", "TRY_END"}
BY DEF Operators, StackOps, NumberOps, Compare, InOutOps, ArrayOps, StringOps,
       ObjectOps, Unimplemented

LEMMA RaisesTry ==
    ASSUME Inv, AlignInv, TryInv, Refuse \/ Operate \/ OutOfBounds \/ LoadGlobal
    PROVE  TryStep
<1>1. /\ UNCHANGED <<program, callStack, exceptionHandlers>>
      /\ outcome = "pending" /\ ip < Size
  BY DEF Refuse, Operate, OutOfBounds, LoadGlobal, control, Executes, Going
<1>2. ASSUME op \notin {"TRY_BEGIN", "TRY_END"},
             \/ ip' = next_ip /\ thrown' = Nowhere
             \/ \E left : Raise(next_ip, left)
      PROVE  TryStep
  BY <1>1, <1>2, RaiseThrown, TryWithin
<1>3. CASE Refuse
  <2>1. CASE next_ip > Size
    <3>1. ASSUME program \in Structured
          PROVE  FALSE
      <4>1. next_ip <= Size /\ next_ip \in Nat /\ Size \in Nat
        BY <1>1, <3>1, StructuredStep, NextIp DEF Inv
      <4>2. QED
        BY <2>1, <4>1
    <3>2. QED
      BY <1>1, <3>1, TriesKept
  <2>2. CASE ~ (next_ip > Size)
    <3>1. /\ \/ op \in Operators \/ op \in Unimplemented
             \/ op \in {"JZ", "JNZ", "RET", "THROW", "STORE_GLOBAL"}
          /\ Raise(next_ip, stack)
      BY <1>3, <2>2 DEF Refuse, Executes
    <3>2. QED
      BY <1>2, <3>1, NoBlockEnds
  <2>3. QED
    BY <2>1, <2>2
<1>4. CASE Operate
  <2>1. op \in Operators
    BY <1>4 DEF Operate, Executes
  <2>2. \/ ip' = next_ip /\ thrown' = Nowhere
        \/ \E left : Raise(next_ip, left)
    BY <1>4 DEF Operate, Continues
  <2>3. QED
    BY <1>2, <2>1, <2>2, NoBlockEnds
<1>5. CASE OutOfBounds
  <2>1. op \in {"LOAD_LOCAL", "STORE_LOCAL"} /\ Raise(next_ip, stack)
    BY <1>5 DEF OutOfBounds, Executes
  <2>2. QED
    BY <1>2, <2>1
<1>6. CASE LoadGlobal
  <2>1. /\ op = "LOAD_GLOBAL"
        /\ \/ ip' = next_ip /\ thrown' = Nowhere
           \/ \E left : Raise(next_ip, left)
    BY <1>6 DEF LoadGlobal, Continues, Executes
  <2>2. QED
    BY <1>2, <2>1
<1>7. QED
  BY <1>3, <1>4, <1>5, <1>6

LEMMA JumpsTry ==
    ASSUME Inv, AlignInv, TryInv, Jump \/ Branch
    PROVE  TryStep
<1>1. /\ UNCHANGED <<program, callStack, exceptionHandlers>>
      /\ outcome = "pending" /\ ip < Size /\ op \in {"JMP", "JZ", "JNZ"}
      /\ thrown' = Nowhere /\ ip' \in {next_ip, readShort(ip + 1)}
  BY DEF Jump, Branch, control, Executes, Going
<1>2. QED
  BY <1>1, TryWithin

LEMMA ContinuesTry ==
    ASSUME Inv, AlignInv, TryInv,
           \/ LoadLocal \/ StoreLocal \/ StoreGlobal
           \/ ReturnFromMain \/ Catch \/ Exit
    PROVE  TryStep
<1>1. /\ UNCHANGED <<program, callStack, exceptionHandlers>>
      /\ outcome = "pending" /\ ip < Size
      /\ thrown' = Nowhere /\ ip' = next_ip
  BY DEF LoadLocal, StoreLocal, StoreGlobal, ReturnFromMain, Catch, Exit,
         Continues, control, Executes, Going
<1>2. op \in {"LOAD_LOCAL", "STORE_LOCAL", "STORE_GLOBAL", "RET", "CATCH", "EXIT"}
  BY DEF LoadLocal, StoreLocal, StoreGlobal, ReturnFromMain, Catch, Exit, Executes
<1>3. QED
  BY <1>1, <1>2, TryWithin

LEMMA ThrowTry ==
    ASSUME Inv, AlignInv, TryInv, Throw
    PROVE  TryStep
<1>1. /\ UNCHANGED <<program, callStack, exceptionHandlers>>
      /\ outcome = "pending" /\ ip < Size /\ op = "THROW"
  BY DEF Throw, control, Executes, Going
<1>2. Thrown(next_ip)
  BY DEF Throw, Thrown
<1>3. QED
  BY <1>1, <1>2, TryWithin

LEMMA FinishTry ==
    ASSUME Finish
    PROVE  TryStep
<1>1. program' = program /\ thrown' = Nowhere /\ outcome' = "returned"
  BY DEF Finish, control
<1>2. QED
  BY <1>1, NothingThrown, TriesKept

LEMMA CallTry ==
    ASSUME Inv, AlignInv, TryInv, Call
    PROVE  TryStep
<1>1. /\ callStack' = Append(callStack, Frame(next_ip))
      /\ ip' = readShort(ip + 1) /\ thrown' = Nowhere
      /\ UNCHANGED <<program, exceptionHandlers>>
      /\ outcome = "pending" /\ ip < Size /\ op = "CALL"
  BY DEF Call, CallWith, Executes, Going
<1>2. ASSUME program \in Structured
      PROVE  Tried(program, callStack', ip', exceptionHandlers)
  <2>1. /\ Tried(program, callStack, ip, exceptionHandlers)
        /\ callStack \in Seq(CallFrame)
    BY <1>1, <1>2, TriedAlready
  <2>2. PICK frame \in CallFrame : frame = Frame(next_ip)
                                   /\ frame.returnIp = next_ip
    <3>1. next_ip \in Nat /\ framePointer \in Int
      BY Types DEF Inv
    <3>2. PICK frame : frame = Frame(next_ip)
      OBVIOUS
    <3>3. frame \in CallFrame /\ frame.returnIp = next_ip
      BY <3>1, <3>2 DEF Frame, CallFrame
    <3>4. QED
      BY <3>2, <3>3
  <2>3. Blocks(next_ip) = Blocks(ip) /\ Blocks(readShort(ip + 1)) = {}
    BY <1>1, <1>2, StructuredStep
  <2>4. Active(program.bytecode, Append(callStack, frame), readShort(ip + 1))
           \subseteq Active(program.bytecode, callStack, ip)
    BY <2>1, <2>2, <2>3, ActiveCalling DEF Blocks
  <2>5. QED
    BY <1>1, <2>1, <2>2, <2>4, TriedSmaller
<1>3. QED
  BY <1>1, <1>2, NothingThrown, TriesKept

LEMMA ReturnTry ==
    ASSUME Inv, AlignInv, TryInv, Return \/ ReturnFails
    PROVE  TryStep
<1>1. /\ callStack # << >>
      /\ callStack' = SubSeq(callStack, 1, Len(callStack) - 1)
      /\ \/ ip' = TopFrame.returnIp /\ thrown' = Nowhere
         \/ \E left : Raise(TopFrame.returnIp, left)
      /\ UNCHANGED <<program, exceptionHandlers>>
      /\ outcome = "pending"
  BY DEF Return, ReturnFails, Executes, Going
<1>2. ASSUME program \in Structured
      PROVE  /\ TryProtects'
             /\ outcome' = "pending" =>
                   Tried(program, callStack', ip', exceptionHandlers)
  <2>1. /\ Tried(program, callStack, ip, exceptionHandlers)
        /\ callStack \in Seq(CallFrame)
    BY <1>1, <1>2, TriedAlready
  <2>2. PICK at : at = TopFrame.returnIp
    OBVIOUS
  <2>3. Active(program.bytecode, callStack', at)
           \subseteq Active(program.bytecode, callStack, ip)
    BY <1>1, <2>1, <2>2, ActiveReturning DEF TopFrame
  <2>4. Tried(program, callStack', at, exceptionHandlers)
    BY <2>1, <2>3, TriedSmaller
  <2>5. CASE ip' = at /\ thrown' = Nowhere
    BY <2>4, <2>5, NothingThrown
  <2>6. CASE \E left : Raise(at, left)
    <3>1. Thrown(at)
      BY <2>6, RaiseThrown
    <3>2. at \in Places
      <4>1. Len(callStack) \in 1..Len(callStack)
        BY <1>1, <2>1
      <4>2. program \in Compiled
        BY <1>2, VMAssumption
      <4>3. QED
        BY <2>2, <4>1, <4>2 DEF AlignInv, TopFrame
    <3>3. PICK calls \in Seq(CallFrame) : calls = callStack'
      BY <1>1, CallersFacts DEF Inv, CallFrame
    <3>4. Tried(program, calls, at, exceptionHandlers)
      BY <2>4, <3>3
    <3>5. QED
      BY <1>1, <1>2, <3>1, <3>2, <3>3, <3>4, ThrownStep
  <2>7. QED
    BY <1>1, <2>2, <2>5, <2>6
<1>3. QED
  BY <1>1, <1>2, TriesKept

LEMMA TryBeginTry ==
    ASSUME Inv, AlignInv, TryInv, TryBegin
    PROVE  TryStep
<1>1. /\ UNCHANGED <<program, callStack>> /\ ip' = next_ip
      /\ thrown' = Nowhere /\ outcome = "pending"
      /\ ip < Size /\ op = "TRY_BEGIN" /\ Executes({"TRY_BEGIN"})
  BY DEF TryBegin, Continues, Executes, Going
<1>2. ASSUME program \in Structured
      PROVE  Tried(program, callStack, ip', exceptionHandlers')
  <2>1. /\ Tried(program, callStack, ip, exceptionHandlers)
        /\ callStack \in Seq(CallFrame) /\ exceptionHandlers \in Seq(Handler)
    BY <1>1, <1>2, TriedAlready
  <2>2. PICK code \in Seq(0..255) : code = program.bytecode
    BY <1>1, <1>2, TriedAlready
  <2>3. PICK handler \in Handler :
            /\ handler = HandlerIn(code, ip)
            /\ exceptionHandlers' = Append(exceptionHandlers, handler)
    <3>1. readShort(ip + 1) \in Nat /\ readShort(ip + 3) \in Nat
      BY <1>1, Operand, Widths DEF Inv
    <3>2. ip + 1 \in Nat
      BY Types DEF Inv
    <3>3. PICK handler : handler = [tryStart   |-> ip + 1,
                                    tryEnd     |-> readShort(ip + 1),
                                    catchStart |-> readShort(ip + 3)]
      OBVIOUS
    <3>4. handler \in Handler
      BY <3>1, <3>2, <3>3, HandlerType
    <3>5. handler = HandlerIn(code, ip)
      BY <2>2, <3>3 DEF HandlerIn, readShort
    <3>6. exceptionHandlers' = Append(exceptionHandlers, handler)
      BY <3>3 DEF TryBegin
    <3>7. QED
      BY <3>4, <3>5, <3>6
  <2>4. ip \in Nat /\ ip \in Instructions(code) /\ Size = Len(code)
        /\ OpIn(code, ip) = "TRY_BEGIN"
    <3>1. program \in Compiled
      BY <1>2, VMAssumption
    <3>2. QED
      BY <1>1, <2>2, <3>1, Types DEF Inv, AlignInv, Places, Size, op
  <2>5. Around(code, next_ip) = Around(code, ip) \cup {ip}
    BY <1>1, <1>2, <2>2, StructuredStep DEF Blocks
  <2>6. PICK newest : newest = <<Len(callStack) + 1, ip>>
    OBVIOUS
  <2>7. Active(code, callStack, next_ip)
           = Active(code, callStack, ip) \cup {newest}
    BY <2>1, <2>4, <2>5, <2>6, ActiveMore
  <2>8. /\ \A block \in Around(code, ip) : block \in Nat /\ block < ip
        /\ ip \notin Around(code, ip)
    BY <2>4, BlocksAround
  <2>9. /\ ~ Before(newest, newest)
        /\ \A a \in Active(code, callStack, ip) \ {newest} :
              Before(a, newest) /\ ~ Before(newest, a)
    BY <2>1, <2>4, <2>6, <2>8, ActiveLast
  <2>10. newest \notin Active(code, callStack, ip)
    <3>1. ~ (Len(callStack) + 1 <= Len(callStack))
      BY <2>1
    <3>2. QED
      BY <2>6, <2>8, <3>1 DEF Active
  <2>11. OnList(code, Active(code, callStack, ip), exceptionHandlers)
    BY <2>1, <2>2 DEF Tried
  <2>12. OnList(code, Active(code, callStack, next_ip), exceptionHandlers')
    <3>1. handler = HandlerIn(code, newest[2])
      BY <2>3, <2>6
    <3>2. \A a \in Active(code, callStack, ip) :
             Before(a, newest) /\ ~ Before(newest, a)
      BY <2>9, <2>10
    <3>3. ~ Before(newest, newest) /\ exceptionHandlers \in Seq(Handler)
      BY <2>1, <2>9
    <3>4. OnList(code, Active(code, callStack, ip) \cup {newest},
                 Append(exceptionHandlers, handler))
      BY <2>11, <3>1, <3>2, <3>3, OnListLonger, Zenon
    <3>5. QED
      BY <2>3, <2>7, <3>4, Zenon
  <2>13. OfBlocks(code, exceptionHandlers')
    <3>1. PICK handlers \in Seq(Handler) : handlers = exceptionHandlers
      BY <2>1
    <3>2. \A i \in 1..Len(Append(handlers, handler)) :
             \/ i \in 1..Len(handlers) /\ Append(handlers, handler)[i] = handlers[i]
             \/ Append(handlers, handler)[i] = handler
      OBVIOUS
    <3>3. ip < Len(code)
      BY <1>1, <2>4
    <3>4. \A i \in 1..Len(handlers) :
             \E block \in Instructions(code) :
                /\ block < Len(code) /\ OpIn(code, block) = "TRY_BEGIN"
                /\ handlers[i] = HandlerIn(code, block)
      BY <2>1, <2>2, <3>1 DEF Tried, OfBlocks
    <3>5. QED
      BY <2>3, <2>4, <3>1, <3>2, <3>3, <3>4 DEF OfBlocks
  <2>14. QED
    BY <1>1, <2>2, <2>12, <2>13 DEF Tried
<1>3. QED
  BY <1>1, <1>2, NothingThrown, TriesKept

LEMMA TryEndTry ==
    ASSUME Inv, AlignInv, TryInv, TryEnd
    PROVE  TryStep
<1>1. /\ UNCHANGED <<program, callStack>> /\ ip' = next_ip
      /\ thrown' = Nowhere /\ outcome = "pending"
      /\ ip < Size /\ op = "TRY_END"
      /\ exceptionHandlers' =
             SubSeq(exceptionHandlers, 1, Len(exceptionHandlers) - 1)
  BY DEF TryEnd, Continues, Executes, Going
<1>2. ASSUME program \in Structured
      PROVE  Tried(program, callStack, ip', exceptionHandlers')
  <2>1. /\ Tried(program, callStack, ip, exceptionHandlers)
        /\ callStack \in Seq(CallFrame)
    BY <1>1, <1>2, TriedAlready
  <2>2. PICK code \in Seq(0..255) : code = program.bytecode
    BY <1>1, <1>2, TriedAlready
  <2>3. PICK handlers \in Seq(Handler) : handlers = exceptionHandlers
    BY <1>1, <1>2, TriedAlready
  <2>4. PICK block \in Innermost(Around(code, ip)) :
           Around(code, next_ip) = Around(code, ip) \ {block}
    BY <1>1, <1>2, <2>2, StructuredStep DEF Blocks
  <2>5. ip \in Nat
    BY Types DEF Inv
  <2>6. /\ block \in Around(code, ip) /\ block \in Nat
        /\ \A other \in Around(code, ip) \ {block} : other < block
    <3>1. \A other \in Around(code, ip) : other \in Nat
      BY <2>5, BlocksAround
    <3>2. QED
      BY <2>4, <3>1 DEF Innermost
  <2>7. PICK newest : newest = <<Len(callStack) + 1, block>>
    OBVIOUS
  <2>8. /\ newest \in Active(code, callStack, ip)
        /\ Active(code, callStack, next_ip)
              = Active(code, callStack, ip) \ {newest}
    <3>1. /\ callStack \in Seq(CallFrame) /\ block \in Nat
          /\ block \in Around(code, ip)
      BY <2>1, <2>6
    <3>2. \A b : b \in Around(code, next_ip)
                    <=> b \in Around(code, ip) /\ b # block
      BY <2>4
    <3>3. /\ newest \in Active(code, callStack, ip)
          /\ \A a : a \in Active(code, callStack, next_ip)
                       <=> a \in Active(code, callStack, ip) /\ a # newest
      BY <2>7, <3>1, <3>2, ActiveLess
    <3>4. QED
      BY <3>3
  <2>9. \A a \in Active(code, callStack, ip) \ {newest} : Before(a, newest)
    BY <2>1, <2>5, <2>6, <2>7, ActiveLast
  <2>10. /\ OnList(code, Active(code, callStack, ip), handlers)
         /\ OfBlocks(code, handlers)
    BY <2>1, <2>2, <2>3 DEF Tried
  <2>11. OnList(code, Active(code, callStack, next_ip),
                SubSeq(handlers, 1, Len(handlers) - 1))
    BY <2>8, <2>9, <2>10, OnListShorter
  <2>12. OfBlocks(code, SubSeq(handlers, 1, Len(handlers) - 1))
    <3>1. \A i \in 1..Len(SubSeq(handlers, 1, Len(handlers) - 1)) :
             /\ i \in 1..Len(handlers)
             /\ SubSeq(handlers, 1, Len(handlers) - 1)[i] = handlers[i]
      OBVIOUS
    <3>2. QED
      BY <2>10, <3>1 DEF OfBlocks
  <2>13. QED
    BY <1>1, <2>2, <2>3, <2>11, <2>12 DEF Tried
<1>3. QED
  BY <1>1, <1>2, NothingThrown, TriesKept

LEMMA TryInitially == Init => TryInv /\ TryProtects
<1>1. SUFFICES ASSUME Init, program \in Structured
               PROVE  Tried(program, callStack, ip, exceptionHandlers)
  BY DEF TryInv, TryProtects, Init
<1>2. exceptionHandlers = << >> /\ callStack = << >> /\ ip = 0
  BY <1>1, StructuredAssumption DEF Init
<1>3. PICK code \in Seq(0..255) : code = program.bytecode
  BY <1>1, VMAssumption DEF Program
<1>4. Around(code, 0) = {}
  <2>1. \A block \in Around(code, 0) : block \in Nat /\ block < 0
    BY BlocksAround
  <2>2. QED
    BY <2>1
<1>5. Active(code, << >>, 0) = {}
  BY <1>4 DEF Active
<1>6. OnList(code, {}, << >>)
  <2>1. [a \in {} |-> a] \in [{} -> 1..Len(<< >>)]
    OBVIOUS
  <2>2. QED
    BY <2>1 DEF OnList
<1>7. OfBlocks(code, << >>)
  BY DEF OfBlocks
<1>8. QED
  BY <1>2, <1>3, <1>5, <1>6, <1>7 DEF Tried

\* In a structured program, what is thrown in a try block is caught by the
\* innermost block around it, after any number of caught exceptions, calls and
\* recursive calls left stale handlers on the list (vm.ts:558): TRY_BEGINs put
\* handlers on the list in the order in which their blocks began, and a TRY_END,
\* which removes the last of the list, is that of the block that began last.
THEOREM TriesProtect == Spec => []TryProtects
<1>1. Init => Inv /\ AlignInv /\ TryInv /\ TryProtects
  BY Initially, AlignInitially, TryInitially
<1>2. ASSUME Inv, AlignInv, TryInv, TryProtects, [Next]_vars
      PROVE  TryStep
  <2>1. CASE UNCHANGED vars
    <3>1. UNCHANGED <<program, callStack, ip, exceptionHandlers, outcome, thrown>>
      BY <2>1 DEF vars
    <3>2. TryInv'
      BY <1>2, <3>1 DEF TryInv
    <3>3. TryProtects'
      BY <1>2, <3>1 DEF TryProtects, Innermost, Around, readShort, ShortIn
    <3>4. QED
      BY <3>2, <3>3 DEF TryStep
  <2>2. CASE Next
    BY <1>2, <2>2, RaisesTry, JumpsTry, ContinuesTry, ThrowTry, FinishTry,
       CallTry, ReturnTry, TryBeginTry, TryEndTry DEF Next
  <2>3. QED
    BY <1>2, <2>1, <2>2
<1>3. Inv /\ [Next]_vars => Inv'
  BY Invariance
<1>4. Inv /\ AlignInv /\ [Next]_vars => AlignInv'
  BY AlignInvariance
<1>5. Inv /\ AlignInv /\ TryInv /\ TryProtects /\ [Next]_vars
        => TryInv' /\ TryProtects'
  BY <1>2 DEF TryStep
<1>6. QED
  BY <1>1, <1>3, <1>4, <1>5, PTL DEF Spec

=============================================================================
