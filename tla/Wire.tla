--------------------------------- MODULE Wire ---------------------------------
(***************************************************************************)
(* How values become bytes and bytes become values again: byteRepr() of    *)
(* the types in networkable, and the reads of NetworkBuffer.  There is no  *)
(* state here: a read takes the stringstream and gives back the value and  *)
(* the stringstream it leaves.                                             *)
(*                                                                         *)
(* A byte has Base values, 256 in the program; a smaller Base keeps every  *)
(* width and every boundary of the format.                                 *)
(***************************************************************************)
EXTENDS Naturals, Sequences, SequencesExt

CONSTANTS
  Base,        \* how many values a byte has
  Whitespace,  \* the bytes that operator>> skips: 9 to 13 and 32 of 256
  BufferSize,  \* the block in which readStr reads, 4096 bytes
  Garbage      \* what uninitialised memory may hold up to the next NUL

ASSUME BaseAssumption == Base \in Nat /\ Base > 4
ASSUME WhitespaceAssumption == Whitespace \subseteq 1 .. Base - 4
ASSUME BufferSizeAssumption == BufferSize \in Nat \ {0}
ASSUME GarbageAssumption == Garbage \subseteq Seq(1 .. Base - 1) /\ Garbage # {}

Bytes == 0 .. Base - 1

\* Texts, one after the other.
Concat(texts) == FoldLeft(LAMBDA text, more : text \o more, <<>>, texts)

-----------------------------------------------------------------------------
\* How many values n bytes have.
Power[n \in Nat] == IF n = 0 THEN 1 ELSE Base * Power[n - 1]

\* Unsigned numbers of n bytes, the most significant one first.
DigitsUnmasked(v, n) == [i \in 1 .. n |-> v \div Power[n - i]]   \* mutation
Digits(v, n) == [i \in 1 .. n |-> (v \div Power[n - i]) % Base]
Number(bytes) == FoldLeft(LAMBDA acc, b : acc * Base + b, 0, bytes)

\* The three largest bytes announce 2, 4 or 8 bytes; any other is the value.
Prefixed(width) == Base - (CASE width = 2 -> 3 [] width = 4 -> 2 [] width = 8 -> 1)
VarUintLastWrong(v) ==   \* mutation
  CASE v <= Base - 3 -> Digits(v, 1)
    [] v > Base - 3 /\ v < Power[2] -> <<Prefixed(2)>> \o Digits(v, 2)
    [] v >= Power[2] /\ v < Power[4] -> <<Prefixed(4)>> \o Digits(v, 4)
    [] v >= Power[4] -> <<Prefixed(8)>> \o Digits(v, 8)
VarUint(v) ==
  CASE v <= Base - 4 -> Digits(v, 1)
    [] v > Base - 4 /\ v < Power[2] -> <<Prefixed(2)>> \o Digits(v, 2)
    [] v >= Power[2] /\ v < Power[4] -> <<Prefixed(4)>> \o Digits(v, 4)
    [] v >= Power[4] -> <<Prefixed(8)>> \o Digits(v, 8)

Str(text) == text
VarStr(text) == VarUint(Len(text)) \o Str(text)

-----------------------------------------------------------------------------
\* The stringstream: what can still be extracted, and its failbit.
Stream(bytes) == [content |-> bytes, failed |-> FALSE]
Failed == [content |-> <<>>, failed |-> TRUE]

\* Inserting into a stream that has failed does nothing.
Insert(stream, bytes) ==
  IF stream.failed THEN stream ELSE Stream(stream.content \o bytes)

\* istream::read: a stream that ends before n bytes gives what it has, fails,
\* and gives nothing from then on.
ReadBytes(stream, n) ==
  IF stream.failed THEN [value |-> <<>>, stream |-> stream]
  ELSE IF n <= Len(stream.content)
  THEN [value |-> SubSeq(stream.content, 1, n),
        stream |-> Stream(SubSeq(stream.content, n + 1, Len(stream.content)))]
  ELSE [value |-> stream.content, stream |-> Failed]

ReadUintUnchecked(stream, n) ==   \* mutation
  LET r == ReadBytes(stream, n)
      array == [i \in 1 .. n |-> IF i <= Len(r.value) THEN r.value[i] ELSE 1]
  IN  [value |-> Number(array), stream |-> r.stream]
\* readUint16, readUint32 and readUint64.
ReadUint(stream, n) ==
  LET r == ReadBytes(stream, n)
  IN  [value |-> IF Len(r.value) = n THEN Number(r.value) ELSE 0, stream |-> r.stream]

\* operator>> skips whitespace before it takes its byte.
SkipWhitespace(bytes) ==
  LET i == SelectInSeq(bytes, LAMBDA b : b \notin Whitespace)
  IN  IF i = 0 THEN <<>> ELSE SubSeq(bytes, i, Len(bytes))

ReadVarUintKeepingStart(stream) ==   \* mutation
  LET bytes == SkipWhitespace(stream.content)
      start == Head(bytes)
      after == Stream(Tail(bytes))
  IN  CASE stream.failed \/ bytes = <<>> -> [value |-> 0, stream |-> Failed]
        [] OTHER ->
             CASE start <= Base - 4 -> [value |-> start, stream |-> Stream(bytes)]
               [] start = Prefixed(2) -> ReadUint(after, 2)
               [] start = Prefixed(4) -> ReadUint(after, 4)
               [] OTHER -> ReadUint(after, 8)
ReadVarUint(stream) ==
  LET bytes == SkipWhitespace(stream.content)
      start == Head(bytes)
      after == Stream(Tail(bytes))
  IN  CASE stream.failed \/ bytes = <<>> -> [value |-> 0, stream |-> Failed]
        [] OTHER ->
             CASE start <= Base - 4 -> [value |-> start, stream |-> after]
               [] start = Prefixed(2) -> ReadUint(after, 2)
               [] start = Prefixed(4) -> ReadUint(after, 4)
               [] OTHER -> ReadUint(after, 8)

\* A char array taken for a C string ends at its first NUL.
CString(chars) ==
  LET i == SelectInSeq(chars, LAMBDA b : b = 0)
  IN  IF i = 0 THEN chars ELSE SubSeq(chars, 1, i - 1)

\* readStr reads block after block to the start of one array, each over what the
\* one before has left, and appends the array as a C string that nothing
\* terminates: what follows it in memory, `beyond`, is appended too.
ReadStr(stream, length, beyond) ==
  LET bytes == SubSeq(stream.content, 1, length)
      full == IF length = 0 THEN 0 ELSE (length - 1) \div BufferSize
      Block(i) == SubSeq(bytes, (i - 1) * BufferSize + 1, IF i <= full THEN i * BufferSize ELSE length)
      Array(i) == Block(i) \o IF i = 1 THEN <<>> ELSE SubSeq(Block(i - 1), Len(Block(i)) + 1, BufferSize)
  IN  IF length > Len(stream.content)
      THEN [value |-> <<>>, stream |-> Failed]
      ELSE [value |-> FlattenSeq([i \in 1 .. full + 1 |-> CString(Array(i) \o beyond)]),
            stream |-> ReadBytes(stream, length).stream]

ReadVarStr(stream, beyond) ==
  LET size == ReadVarUint(stream) IN ReadStr(size.stream, size.value, beyond)

-----------------------------------------------------------------------------
\* What the format carries unharmed: a Var_uint that does not begin with
\* whitespace, a text that has no NUL and fits the array of readStr.
CleanUint(v) == Head(VarUint(v)) \notin Whitespace
CleanText(text) == Len(text) <= BufferSize /\ 0 \notin ToSet(text)

-----------------------------------------------------------------------------
\* A value with its type.
Repr(field) ==
  CASE field.type = "Uint16" -> Digits(field.value, 2)
    [] field.type = "Uint32" -> Digits(field.value, 4)
    [] field.type = "Uint64" -> Digits(field.value, 8)
    [] field.type = "Var_uint" -> VarUint(field.value)
    [] field.type = "Str" -> Str(field.value)
    [] field.type = "Var_str" -> VarStr(field.value)

\* The reader of a Str knows its length.
Read(stream, field, beyond) ==
  CASE field.type = "Uint16" -> ReadUint(stream, 2)
    [] field.type = "Uint32" -> ReadUint(stream, 4)
    [] field.type = "Uint64" -> ReadUint(stream, 8)
    [] field.type = "Var_uint" -> ReadVarUint(stream)
    [] field.type = "Str" -> ReadStr(stream, Len(field.value), beyond)
    [] field.type = "Var_str" -> ReadVarStr(stream, beyond)
=============================================================================
