-------------------------------- MODULE Script --------------------------------
(***************************************************************************)
(* The script of one input and the loop that runs it: Script, and its only *)
(* caller, LinkedTransaction::validateScript, which chains the script of   *)
(* the output that is spent and steps until done().                        *)
(***************************************************************************)
EXTENDS Naturals, Sequences, SequencesExt

CONSTANTS
  Scripts,   \* byte strings an input's script may be parsed from
  Outputs,   \* byte strings an output's script may be parsed from
  Signed,    \* the pairs of signature and key that verify for signingHash
  Shown,     \* what other memory may look like, taken for an instruction
  MaxStack   \* bound: elements on the stack

Bytes == 0 .. 255
Codes == {"OP_FALSE", "OP_STACK", "OP_TRUE", "OP_DUP", "OP_EQUAL", "OP_VERIFY",
          "OP_HASH160", "OP_CHECKSIG", "OP_UNKNOWN"}

ASSUME ScriptsAssumption == Scripts \subseteq Seq(Bytes)
ASSUME OutputsAssumption == Outputs \subseteq Seq(Bytes)
\* A byte that is no opcode is an "unlisted" operation, whose argument is that byte.
ASSUME ShownAssumption == Shown \subseteq [operation : Codes \cup {"unlisted"}, argument : Bytes]
ASSUME StackAssumption == MaxStack \in Nat

VARIABLES
  scriptInstructions,
  codePointer,  \* where the iterator points
  data,         \* the stack, its top last
  valid,
  verdict,      \* of validateScript, and what comes before it
  source        \* history: the bytes that were parsed, those of the output after

vars == <<scriptInstructions, codePointer, data, valid, verdict, source>>

-----------------------------------------------------------------------------
opcode == [OP_FALSE |-> 0, OP_STACK |-> 1, OP_TRUE |-> 80, OP_DUP |-> 100, OP_EQUAL |-> 120,
           OP_VERIFY |-> 140, OP_HASH160 |-> 160, OP_CHECKSIG |-> 170]

\* The bytes 1 to 75 are all OP_STACK.
ParseInstruction(chr) ==
  IF chr \in 1 .. 75 THEN [operation |-> "OP_STACK", argument |-> chr]
  ELSE IF \E op \in DOMAIN opcode : opcode[op] = chr
  THEN [operation |-> CHOOSE op \in DOMAIN opcode : opcode[op] = chr, argument |-> 0]
  ELSE [operation |-> "OP_UNKNOWN", argument |-> chr]
Parse(bytes) == [i \in DOMAIN bytes |-> ParseInstruction(bytes[i])]

ByteReprOfOpcode(code) ==   \* mutation
  [i \in DOMAIN code |-> IF code[i].operation = "OP_UNKNOWN"
                         THEN code[i].argument ELSE opcode[code[i].operation]]
ByteRepr(code) ==
  [i \in DOMAIN code |-> IF code[i].operation \in {"OP_UNKNOWN", "OP_STACK"}
                         THEN code[i].argument ELSE opcode[code[i].operation]]

\* What OP_STACK pushes for an instruction: 1 for any other OP_STACK.
DataByteAsChar(instr) ==   \* mutation
  LET byte == IF instr.operation \in {"OP_UNKNOWN", "unlisted"}
              THEN instr.argument ELSE opcode[instr.operation]
  IN  IF byte < 128 THEN byte ELSE byte - 256
DataByte(instr) ==
  IF instr.operation \in {"OP_UNKNOWN", "unlisted"}
  THEN instr.argument ELSE opcode[instr.operation]

-----------------------------------------------------------------------------
\* The operations but OP_STACK.  top() and pop() of an empty stack are undefined,
\* and so is OP_HASH160, which copies the hash into an empty vector.
Needs == [OP_FALSE |-> 0, OP_TRUE |-> 0, OP_DUP |-> 1, OP_EQUAL |-> 2, OP_VERIFY |-> 1,
          OP_CHECKSIG |-> 2, OP_UNKNOWN |-> 0, unlisted |-> 0]
Defined(op, stack) == op # "OP_HASH160" /\ Len(stack) >= Needs[op]

True == <<1>>
False == <<0>>

\* OP_VERIFY refuses the element that OP_TRUE pushes.
Execute(op, stack) ==
  LET top == Last(stack)
      second == stack[Len(stack) - 1]
      below == Front(Front(stack))
  IN  CASE op = "OP_FALSE" -> [stack |-> Append(stack, False), valid |-> TRUE]
        [] op = "OP_TRUE" -> [stack |-> Append(stack, True), valid |-> TRUE]
        [] op = "OP_DUP" -> [stack |-> Append(stack, top), valid |-> TRUE]
        [] op = "OP_EQUAL" -> [stack |-> Append(below, IF top = second THEN True ELSE False),
                               valid |-> TRUE]
        [] op = "OP_VERIFY" -> [stack |-> Front(stack), valid |-> top # True]
        [] op = "OP_CHECKSIG" -> [stack |-> below, valid |-> <<second, top>> \in Signed]
        [] op = "OP_UNKNOWN" -> [stack |-> stack, valid |-> FALSE]
        [] op = "unlisted" -> [stack |-> stack, valid |-> TRUE]

-----------------------------------------------------------------------------
\* An empty vector has no memory, and its iterators are null.
Init ==
  /\ source \in Scripts
  /\ scriptInstructions = Parse(source)
  /\ codePointer = IF source = <<>> THEN "null" ELSE "begin"
  /\ data = <<>>
  /\ valid = TRUE
  /\ verdict = "parsed"

\* The inputs of a transaction are copies of those that were parsed, and those of a
\* LinkedTransaction are copies of these.  A copy has a vector of its own, but the
\* iterator of the original, whose memory is given back.
Copy ==
  /\ verdict = "parsed"
  /\ codePointer' = IF codePointer = "begin" THEN "elsewhere" ELSE codePointer
  /\ verdict' = "chain"
  /\ UNCHANGED <<scriptInstructions, data, valid, source>>

\* The iterator stays what it is, wherever the insertion puts the instructions.
Chain(output) ==
  /\ verdict = "chain"
  /\ scriptInstructions' = scriptInstructions \o Parse(output)
  /\ verdict' = "none"
  /\ source' = source \o output
  /\ UNCHANGED <<codePointer, data, valid>>

\* step() runs whatever other memory shows; it may show what the script says.
Stepping == verdict = "none" /\ codePointer = "elsewhere"

\* OP_STACK pushes itself first and so not the last of the bytes it passes over.
StepStack ==
  /\ Stepping
  /\ \E instr \in Shown :
       /\ instr.operation = "OP_STACK"
       /\ \E seen \in [1 .. instr.argument -> Shown] :
            /\ instr.argument > 0 => seen[1] = instr
            /\ data' = Append(data, [i \in 1 .. instr.argument |-> DataByte(seen[i])])
  /\ Len(data') <= MaxStack
  /\ UNCHANGED <<scriptInstructions, codePointer, valid, verdict, source>>

StepOther ==
  /\ Stepping
  /\ \E instr \in Shown :
       /\ instr.operation # "OP_STACK" /\ Defined(instr.operation, data)
       /\ LET r == Execute(instr.operation, data)
          IN  /\ data' = r.stack
              /\ valid' = r.valid
              /\ verdict' = IF r.valid THEN "none" ELSE "false"
  /\ Len(data') <= MaxStack
  /\ UNCHANGED <<scriptInstructions, codePointer, source>>

\* Memory that is not before end() is passed over for ever.
StepBehindEnd == Stepping /\ UNCHANGED vars

\* The memory cannot be read, or shows an operation without its operands; null
\* lies before the end of any vector that has memory.
Undefined ==
  /\ verdict = "none"
  /\ \/ codePointer = "elsewhere"
     \/ codePointer = "null" /\ scriptInstructions # <<>>
  /\ verdict' = "undefined"
  /\ UNCHANGED <<scriptInstructions, codePointer, data, valid, source>>

\* Only null is known to be end() of an empty vector; other memory may lie there.
DoneAtOldEnd ==   \* mutation
  /\ verdict = "none"
  /\ codePointer \in {"elsewhere", "null"}
  /\ verdict' = "true"
  /\ UNCHANGED <<scriptInstructions, codePointer, data, valid, source>>
Done ==
  /\ verdict = "none"
  /\ \/ codePointer = "elsewhere"
     \/ codePointer = "null" /\ scriptInstructions = <<>>
  /\ verdict' = "true"
  /\ UNCHANGED <<scriptInstructions, codePointer, data, valid, source>>

Next ==
  \/ Copy
  \/ \E output \in Outputs : Chain(output)
  \/ StepStack \/ StepOther \/ StepBehindEnd \/ Undefined \/ Done

Spec == Init /\ [][Next]_vars

-----------------------------------------------------------------------------
\* Type invariant.
TypeOK ==
  /\ scriptInstructions \in Seq([operation : Codes, argument : Bytes])
  /\ codePointer \in {"begin", "null", "elsewhere"}
  /\ data \in Seq(Seq(Bytes)) /\ Len(data) <= MaxStack
  /\ valid \in BOOLEAN
  /\ verdict \in {"parsed", "chain", "none", "true", "false", "undefined"}
  /\ source \in Seq(Bytes)

(* A script is written as the bytes that it was read from, chained or not,   *)
(* although several bytes are read as one operation (parseInstruction,       *)
(* byteRepr, chain).                                                         *)
BytesKept == ByteRepr(scriptInstructions) = source

(* The code decides one case only.  An input without a script that spends an *)
(* output without one is valid at once; if that output has a script, the     *)
(* loop follows a null pointer.  Any other input is run from memory that is  *)
(* not its script's, and nothing follows from the script for its verdict     *)
(* (the iterator through Var_Array::getValue, LinkedTransaction, chain, step *)
(* and done).                                                                *)
OnlyEmptyDecided ==
  verdict \notin {"parsed", "chain"} /\ codePointer # "elsewhere" =>
    /\ codePointer = "null" /\ data = <<>> /\ valid = TRUE
    /\ verdict \in {"none", IF source = <<>> THEN "true" ELSE "undefined"}
=============================================================================
