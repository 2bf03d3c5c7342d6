------------------------------ MODULE ScriptProofs ------------------------------
(***************************************************************************)
(* Theorems about Script, for any scripts of any length, any signatures    *)
(* and whatever other memory shows: a script keeps its bytes, and the code *)
(* decides no verdict but that of an input without a script.               *)
(***************************************************************************)
EXTENDS Script, SequenceTheorems, TLAPS

\* The operations that have a byte of their own.
Ops == DOMAIN opcode
\* What parseInstruction makes of bytes.
Instructions == [operation : Codes, argument : Bytes]
\* What step may take for an instruction.
Seen == [operation : Codes \cup {"unlisted"}, argument : Bytes]
\* The values of the stack.
Stacks == Seq(Seq(Bytes))

-----------------------------------------------------------------------------
(* The opcodes are bytes and differ from each other.                         *)
LEMMA Opcodes ==
  /\ Ops = {"OP_FALSE", "OP_STACK", "OP_TRUE", "OP_DUP", "OP_EQUAL", "OP_VERIFY",
            "OP_HASH160", "OP_CHECKSIG"}
  /\ opcode \in [Ops -> Bytes]
  /\ opcode["OP_STACK"] = 1
  /\ \A op, p \in Ops : opcode[op] = opcode[p] => op = p
  /\ Codes = Ops \cup {"OP_UNKNOWN"}
BY DEF Ops, opcode, Bytes, Codes

(* An instruction holds what its byte says: a count, an unknown byte, or an  *)
(* operation that no other byte stands for (parseInstruction).               *)
LEMMA ParsedByte ==
  ASSUME NEW b \in Bytes
  PROVE  /\ ParseInstruction(b) \in Instructions
         /\ ParseInstruction(b).operation = "OP_STACK" =>
              b \in 1 .. 75 /\ ParseInstruction(b).argument = b
         /\ ParseInstruction(b).operation = "OP_UNKNOWN" => ParseInstruction(b).argument = b
         /\ ParseInstruction(b).operation \notin {"OP_UNKNOWN", "OP_STACK"} =>
              opcode[ParseInstruction(b).operation] = b
<1>1. CASE b \in 1 .. 75
  BY <1>1, Opcodes DEF ParseInstruction, Instructions
<1>2. CASE b \notin 1 .. 75 /\ \E op \in Ops : opcode[op] = b
  <2> DEFINE o == CHOOSE op \in Ops : opcode[op] = b
  <2>1. o \in Ops /\ opcode[o] = b
    BY <1>2
  <2>2. ParseInstruction(b) = [operation |-> o, argument |-> 0]
    BY <1>2 DEF ParseInstruction, Ops
  <2>3. 0 \in Bytes
    BY DEF Bytes
  <2> HIDE DEF o
  <2>4. o # "OP_STACK"
    BY <1>2, <2>1, Opcodes
  <2> QED  BY <2>1, <2>2, <2>3, <2>4, Opcodes DEF Instructions
<1>3. CASE b \notin 1 .. 75 /\ ~\E op \in Ops : opcode[op] = b
  <2>1. ParseInstruction(b) = [operation |-> "OP_UNKNOWN", argument |-> b]
    BY <1>3 DEF ParseInstruction, Ops
  <2> QED  BY <2>1, Opcodes DEF Instructions
<1> QED  BY <1>1, <1>2, <1>3

(* Parsing gives one instruction for each byte.                              *)
LEMMA ParseType ==
  ASSUME NEW bytes \in Seq(Bytes)
  PROVE  /\ Parse(bytes) \in Seq(Instructions) /\ Len(Parse(bytes)) = Len(bytes)
         /\ \A i \in 1 .. Len(bytes) : Parse(bytes)[i] = ParseInstruction(bytes[i])
BY ParsedByte DEF Parse

(* Parsing an output's script behind an input's is parsing both as one:      *)
(* chain appends the instructions.                                           *)
LEMMA ParseConcat ==
  ASSUME NEW a \in Seq(Bytes), NEW b \in Seq(Bytes)
  PROVE  Parse(a) \o Parse(b) = Parse(a \o b)
<1> DEFINE whole == Parse(a \o b)
           pa == Parse(a)
           pb == Parse(b)
           parts == pa \o pb
<1>1. a \o b \in Seq(Bytes) /\ Len(a \o b) = Len(a) + Len(b)
  OBVIOUS
<1>2. whole \in Seq(Instructions) /\ Len(whole) = Len(a) + Len(b)
  BY <1>1, ParseType
<1>3. /\ pa \in Seq(Instructions) /\ Len(pa) = Len(a)
      /\ pb \in Seq(Instructions) /\ Len(pb) = Len(b)
      /\ \A i \in 1 .. Len(a) : pa[i] = ParseInstruction(a[i])
      /\ \A i \in 1 .. Len(b) : pb[i] = ParseInstruction(b[i])
  BY ParseType
<1> HIDE DEF pa, pb
<1>4. parts \in Seq(Instructions) /\ Len(parts) = Len(pa) + Len(pb)
  BY <1>3, ConcatProperties
<1>5. ASSUME NEW i \in 1 .. Len(a) + Len(b) PROVE whole[i] = parts[i]
  <2>1. whole[i] = ParseInstruction((a \o b)[i])
    BY <1>1, ParseType
  <2>2. CASE i <= Len(a)
    <3>1. (a \o b)[i] = a[i] /\ parts[i] = pa[i]
      BY <1>3, <2>2
    <3> QED  BY <1>3, <2>1, <2>2, <3>1
  <2>3. CASE i > Len(a)
    <3>1. /\ (a \o b)[i] = b[i - Len(a)] /\ i - Len(a) \in 1 .. Len(b)
          /\ parts[i] = pb[i - Len(a)]
      BY <1>3, <2>3
    <3> QED  BY <1>3, <2>1, <3>1
  <2> HIDE DEF whole, parts
  <2> QED  BY <2>2, <2>3
<1> HIDE DEF whole, parts
<1>6. whole = parts
  BY <1>2, <1>3, <1>4, <1>5
<1> QED  BY <1>6 DEF whole, parts, pa, pb

(* What was parsed is written as the same bytes again (byteRepr).            *)
LEMMA Represented ==
  ASSUME NEW bytes \in Seq(Bytes)
  PROVE  ByteRepr(Parse(bytes)) = bytes
<1> DEFINE repr == ByteRepr(Parse(bytes))
<1>1. ASSUME NEW i \in 1 .. Len(bytes) PROVE repr[i] = bytes[i]
  <2>1. Parse(bytes)[i] = ParseInstruction(bytes[i]) /\ i \in DOMAIN Parse(bytes)
    BY ParseType DEF Parse
  <2>2. repr[i] = IF ParseInstruction(bytes[i]).operation \in {"OP_UNKNOWN", "OP_STACK"}
                  THEN ParseInstruction(bytes[i]).argument
                  ELSE opcode[ParseInstruction(bytes[i]).operation]
    BY <2>1 DEF ByteRepr
  <2> QED  BY <2>2, ParsedByte
<1>2. DOMAIN repr = 1 .. Len(bytes) /\ repr = [i \in DOMAIN repr |-> repr[i]]
  BY DEF ByteRepr, Parse
<1>3. bytes = [i \in 1 .. Len(bytes) |-> bytes[i]]
  OBVIOUS
<1> HIDE DEF repr
<1>4. repr = bytes
  BY <1>1, <1>2, <1>3
<1> QED  BY <1>4 DEF repr

-----------------------------------------------------------------------------
(* The last element of a sequence and the others.                            *)
LEMMA Ends ==
  ASSUME NEW S, NEW s \in Seq(S), s # <<>>
  PROVE  Last(s) \in S /\ Front(s) \in Seq(S) /\ Len(Front(s)) = Len(s) - 1
<1>1. Last(s) \in S
  BY DEF Last
<1>2. Front(s) \in Seq(S)
  BY DEF Front
<1>3. Len(Front(s)) = Len(s) - 1
  <2>1. Len(s) - 1 \in Nat
    OBVIOUS
  <2> DEFINE n == Len(s) - 1
  <2>2. \A i \in 1 .. n : s[i] \in S
    OBVIOUS
  <2> HIDE DEF n
  <2>3. n \in Nat /\ Len(SubSeq(s, 1, n)) = IF 1 <= n THEN n - 1 + 1 ELSE 0
    BY <2>1, <2>2, SubSeqProperties DEF n
  <2>4. Len(SubSeq(s, 1, n)) = n
    BY <2>3
  <2> QED  BY <2>4 DEF Front, n
<1> QED  BY <1>1, <1>2, <1>3

(* The two elements that operations push are byte strings.                   *)
LEMMA TrueFalse == True \in Seq(Bytes) /\ False \in Seq(Bytes)
BY DEF True, False, Bytes

(* An operation with enough operands leaves a stack of byte strings and says *)
(* whether the script is still valid (execute).                              *)
LEMMA Executed ==
  ASSUME NEW stack \in Stacks, NEW op \in (Codes \cup {"unlisted"}) \ {"OP_STACK"},
         Defined(op, stack)
  PROVE  Execute(op, stack).stack \in Stacks /\ Execute(op, stack).valid \in BOOLEAN
<1> DEFINE top == Last(stack)
           second == stack[Len(stack) - 1]
           below == Front(Front(stack))
<1>1. op \in {"OP_FALSE", "OP_TRUE", "OP_DUP", "OP_EQUAL", "OP_VERIFY", "OP_CHECKSIG",
              "OP_UNKNOWN", "unlisted"}
  BY DEF Defined, Codes
<1>2. Len(stack) >= Needs[op]
  BY DEF Defined
<1>3. Len(stack) >= 1 => top \in Seq(Bytes) /\ Front(stack) \in Stacks
  <2>1. Len(stack) >= 1 => stack # <<>>
    BY DEF Stacks
  <2> QED  BY <2>1, Ends DEF Stacks
<1>4. Len(stack) >= 2 => below \in Stacks
  <2> SUFFICES ASSUME Len(stack) >= 2 PROVE below \in Stacks
    OBVIOUS
  <2>1. Front(stack) \in Seq(Seq(Bytes)) /\ Len(Front(stack)) = Len(stack) - 1
    <3>1. stack \in Seq(Seq(Bytes)) /\ stack # <<>>
      BY DEF Stacks
    <3> QED  BY <3>1, Ends
  <2>2. Front(stack) # <<>>
    BY <2>1
  <2> QED  BY <2>1, <2>2, Ends DEF Stacks
<1>5. \A s \in Stacks, x \in Seq(Bytes) : Append(s, x) \in Stacks
  BY DEF Stacks
<1>6. CASE op = "OP_FALSE"
  <2>1. Execute(op, stack) = [stack |-> Append(stack, False), valid |-> TRUE]
    BY <1>6, Zenon DEF Execute
  <2> QED  BY <1>5, <2>1, TrueFalse
<1>7. CASE op = "OP_TRUE"
  <2>1. Execute(op, stack) = [stack |-> Append(stack, True), valid |-> TRUE]
    BY <1>7, Zenon DEF Execute
  <2> QED  BY <1>5, <2>1, TrueFalse
<1>8. CASE op = "OP_DUP"
  <2>1. Execute(op, stack) = [stack |-> Append(stack, top), valid |-> TRUE]
    BY <1>8, Zenon DEF Execute
  <2>2. Len(stack) >= 1
    BY <1>2, <1>8 DEF Needs
  <2> QED  BY <1>3, <1>5, <2>1, <2>2
<1>9. CASE op = "OP_EQUAL"
  <2>1. Execute(op, stack) =
          [stack |-> Append(below, IF top = second THEN True ELSE False), valid |-> TRUE]
    BY <1>9, Zenon DEF Execute
  <2>2. Len(stack) >= 2
    BY <1>2, <1>9 DEF Needs
  <2> HIDE DEF below
  <2> QED  BY <1>4, <1>5, <2>1, <2>2, TrueFalse
<1>10. CASE op = "OP_VERIFY"
  <2>1. Execute(op, stack) = [stack |-> Front(stack), valid |-> top # True]
    BY <1>10, Zenon DEF Execute
  <2>2. Len(stack) >= 1
    BY <1>2, <1>10 DEF Needs
  <2> QED  BY <1>3, <2>1, <2>2
<1>11. CASE op = "OP_CHECKSIG"
  <2>1. Execute(op, stack) = [stack |-> below, valid |-> <<second, top>> \in Signed]
    BY <1>11, Zenon DEF Execute
  <2>2. Len(stack) >= 2
    BY <1>2, <1>11 DEF Needs
  <2> HIDE DEF below
  <2> QED  BY <1>4, <2>1, <2>2
<1>12. CASE op = "OP_UNKNOWN"
  <2>1. Execute(op, stack) = [stack |-> stack, valid |-> FALSE]
    BY <1>12, Zenon DEF Execute
  <2> QED  BY <2>1
<1>13. CASE op = "unlisted"
  <2>1. Execute(op, stack) = [stack |-> stack, valid |-> TRUE]
    BY <1>13, Zenon DEF Execute
  <2> QED  BY <2>1
<1> QED  BY <1>1, <1>6, <1>7, <1>8, <1>9, <1>10, <1>11, <1>12, <1>13

(* OP_STACK pushes bytes.                                                    *)
LEMMA DataByteType ==
  ASSUME NEW instr \in Seen
  PROVE  DataByte(instr) \in Bytes
BY Opcodes DEF DataByte, Seen

-----------------------------------------------------------------------------
\* Only the empty script keeps an iterator of its own, and step never gets one:
\* what makes OnlyEmptyDecided inductive is what holds before the output is chained.
IInv ==
  /\ TypeOK
  /\ scriptInstructions = Parse(source)
  /\ verdict = "parsed" => codePointer = IF source = <<>> THEN "null" ELSE "begin"
  /\ verdict = "chain" => codePointer # "begin"
  /\ verdict \in {"parsed", "chain"} => data = <<>> /\ valid = TRUE
  /\ OnlyEmptyDecided

\* What the walk leaves alone.
Code == <<scriptInstructions, codePointer, source>>

(* A parsed script satisfies the invariant.                                  *)
LEMMA InitIInv == Init => IInv
<1> SUFFICES ASSUME Init PROVE IInv
  OBVIOUS
<1>1. source \in Seq(Bytes)
  BY ScriptsAssumption DEF Init
<1>2. scriptInstructions \in Seq(Instructions)
  BY <1>1, ParseType DEF Init
<1>3. TypeOK
  BY <1>1, <1>2, StackAssumption DEF Init, TypeOK, Instructions
<1> QED  BY <1>3 DEF Init, IInv, OnlyEmptyDecided

(* Copying a script takes its iterator away (Var_Array::getValue).           *)
LEMMA CopyKeeps == ASSUME IInv, Copy PROVE IInv'
<1>1. TypeOK'
  BY DEF IInv, TypeOK, Copy
<1> QED  BY <1>1 DEF IInv, TypeOK, Copy, OnlyEmptyDecided

(* Chaining appends an output's instructions and its bytes (chain).          *)
LEMMA ChainKeeps == ASSUME IInv, NEW output \in Outputs, Chain(output) PROVE IInv'
<1>1. source \in Seq(Bytes) /\ output \in Seq(Bytes) /\ scriptInstructions = Parse(source)
  BY OutputsAssumption DEF IInv, TypeOK
<1>2. source' = source \o output /\ source' \in Seq(Bytes)
  BY <1>1 DEF Chain
<1>3. scriptInstructions' = Parse(source')
  BY <1>1, <1>2, ParseConcat DEF Chain
<1>4. scriptInstructions' \in Seq(Instructions)
  BY <1>2, <1>3, ParseType
<1>5. TypeOK'
  BY <1>2, <1>4 DEF IInv, TypeOK, Chain, Instructions
<1>6. OnlyEmptyDecided'
  BY DEF IInv, TypeOK, Chain, OnlyEmptyDecided
<1> QED  BY <1>3, <1>5, <1>6 DEF IInv, Chain

(* A step over other memory keeps the script and leaves a stack of byte      *)
(* strings; the invariant speaks of no verdict that follows from it (step).  *)
LEMMA ElsewhereKeeps ==
  ASSUME IInv, codePointer = "elsewhere", UNCHANGED Code,
         data' \in Stacks, Len(data') <= MaxStack, valid' \in BOOLEAN,
         verdict' \in {"none", "true", "false", "undefined"}
  PROVE  IInv'
<1>1. TypeOK'
  BY DEF IInv, TypeOK, Code, Stacks
<1> QED  BY <1>1 DEF IInv, Code, OnlyEmptyDecided

(* OP_STACK pushes bytes (step).                                             *)
LEMMA StackKeeps == ASSUME IInv, StepStack PROVE IInv'
<1>1. PICK instr \in Shown :
        \E seen \in [1 .. instr.argument -> Shown] :
          data' = Append(data, [i \in 1 .. instr.argument |-> DataByte(seen[i])])
  BY DEF StepStack
<1>2. PICK seen \in [1 .. instr.argument -> Shown] :
        data' = Append(data, [i \in 1 .. instr.argument |-> DataByte(seen[i])])
  BY <1>1
<1>3. instr.argument \in Nat /\ Shown \subseteq Seen
  <2>1. Shown \subseteq Seen
    BY ShownAssumption DEF Seen
  <2>2. instr.argument \in Bytes
    BY <2>1 DEF Seen
  <2>3. \A b \in Bytes : b \in Nat
    BY DEF Bytes
  <2> QED  BY <2>1, <2>2, <2>3
<1> DEFINE pushed == [i \in 1 .. instr.argument |-> DataByte(seen[i])]
<1>4. \A i \in 1 .. instr.argument : DataByte(seen[i]) \in Bytes
  BY <1>3, DataByteType
<1>5. pushed \in Seq(Bytes)
  BY <1>3, <1>4
<1> HIDE DEF pushed
<1>6. data' \in Stacks
  <2>1. data' = Append(data, pushed)
    BY <1>2 DEF pushed
  <2>2. data \in Stacks
    BY DEF IInv, TypeOK, Stacks
  <2> QED  BY <1>5, <2>1, <2>2 DEF Stacks
<1>7. valid' \in BOOLEAN /\ verdict' = "none" /\ codePointer = "elsewhere"
  BY DEF StepStack, Stepping, IInv, TypeOK
<1> QED  BY <1>6, <1>7, ElsewhereKeeps DEF StepStack, Code

(* Any other operation leaves a stack of byte strings (step).                *)
LEMMA OtherKeeps == ASSUME IInv, StepOther PROVE IInv'
<1>1. PICK instr \in Shown :
        /\ instr.operation # "OP_STACK" /\ Defined(instr.operation, data)
        /\ data' = Execute(instr.operation, data).stack
        /\ valid' = Execute(instr.operation, data).valid
        /\ verdict' = IF Execute(instr.operation, data).valid THEN "none" ELSE "false"
  BY DEF StepOther
<1>2. instr.operation \in (Codes \cup {"unlisted"}) \ {"OP_STACK"}
  BY <1>1, ShownAssumption
<1>3. data \in Stacks
  BY DEF IInv, TypeOK, Stacks
<1>4. data' \in Stacks /\ valid' \in BOOLEAN
  BY <1>1, <1>2, <1>3, Executed
<1>5. verdict' \in {"none", "false"}
  BY <1>1
<1> QED  BY <1>4, <1>5, ElsewhereKeeps DEF StepOther, Stepping, Code

(* The verdicts that no operation gives: of null, by what was chained.       *)
LEMMA EndKeeps == ASSUME IInv, Undefined \/ Done PROVE IInv'
<1>1. verdict' \in {"true", "undefined"} /\ UNCHANGED Code /\ UNCHANGED <<data, valid>>
  BY DEF Undefined, Done, Code
<1>2. CASE codePointer = "elsewhere"
  BY <1>1, <1>2, ElsewhereKeeps DEF IInv, TypeOK, Stacks
<1>3. CASE codePointer = "null"
  <2>1. TypeOK'
    BY <1>1 DEF IInv, TypeOK, Code
  <2>2. scriptInstructions = <<>> <=> source = <<>>
    BY ParseType DEF IInv, TypeOK
  <2>3. data = <<>> /\ valid = TRUE
    BY <1>3 DEF IInv, OnlyEmptyDecided, Undefined, Done
  <2>4. verdict' = IF source = <<>> THEN "true" ELSE "undefined"
    BY <1>3, <2>2 DEF Undefined, Done
  <2> QED  BY <1>1, <1>3, <2>1, <2>3, <2>4 DEF IInv, Code, OnlyEmptyDecided
<1> QED  BY <1>2, <1>3 DEF Undefined, Done

(* The invariant holds throughout.                                           *)
LEMMA IInvAlways == Spec => []IInv
<1>1. ASSUME IInv, [Next]_vars PROVE IInv'
  <2>1. CASE Copy
    BY <1>1, <2>1, CopyKeeps
  <2>2. CASE \E output \in Outputs : Chain(output)
    BY <1>1, <2>2, ChainKeeps
  <2>3. CASE StepStack
    BY <1>1, <2>3, StackKeeps
  <2>4. CASE StepOther
    BY <1>1, <2>4, OtherKeeps
  <2>5. CASE StepBehindEnd \/ UNCHANGED vars
    BY <1>1, <2>5 DEF StepBehindEnd, vars, IInv, TypeOK, OnlyEmptyDecided
  <2>6. CASE Undefined \/ Done
    BY <1>1, <2>6, EndKeeps
  <2> QED  BY <1>1, <2>1, <2>2, <2>3, <2>4, <2>5, <2>6 DEF Next
<1> QED  BY <1>1, InitIInv, PTL DEF Spec

-----------------------------------------------------------------------------
(* For any scripts, outputs, signatures and memory: the type invariant.      *)
THEOREM TypeOKHolds == Spec => []TypeOK
<1>1. IInv => TypeOK
  BY DEF IInv
<1> QED  BY <1>1, IInvAlways, PTL

(* For scripts of any length, chained or not, and although 75 bytes are one  *)
(* operation: a script is written as the bytes it was read from              *)
(* (parseInstruction, byteRepr, chain).                                      *)
THEOREM BytesKeptHolds == Spec => []BytesKept
<1>1. IInv => BytesKept
  BY Represented DEF IInv, TypeOK, BytesKept
<1> QED  BY <1>1, IInvAlways, PTL

(* For scripts of any length and whatever other memory shows: the only       *)
(* verdict that follows from the scripts is that of an input without one:    *)
(* true if the output has none either, undefined if it has (Var_Array::      *)
(* getValue, LinkedTransaction, chain, step, done).                          *)
THEOREM OnlyEmptyDecidedHolds == Spec => []OnlyEmptyDecided
<1>1. IInv => OnlyEmptyDecided
  BY DEF IInv
<1> QED  BY <1>1, IInvAlways, PTL
=============================================================================
