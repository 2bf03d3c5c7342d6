-------------------------------- MODULE Records --------------------------------
(***************************************************************************)
(* Everything that is made of the types in Wire: arrays, addresses,        *)
(* transactions, blocks and the messages.  A record is the sequence of its *)
(* fields; it has bytes, as byteRepr() writes them, and a reader, the      *)
(* constructor from a NetworkBuffer.                                       *)
(***************************************************************************)
EXTENDS FixedStr

CONSTANTS
  IPLength,    \* bytes of an address, 16
  NameLength   \* bytes of a type name in a header, 12

ASSUME LengthsAssumption == {IPLength, NameLength, HashLength} \subseteq 1 .. BufferSize

\* The values of the enumeration ressource_type.
Code(type) == CASE type = "blockRes" -> 0 [] type = "txRes" -> 1

TypeOfCodeFromOne(code) ==   \* mutation
  CASE code = 1 -> "txRes" [] code = 2 -> "blockRes" [] OTHER -> "invalidRes"
\* The reader does not take the codes as the writer gives them.
TypeOfCode(code) ==
  CASE code = 0 -> "txRes" [] code = 1 -> "blockRes" [] OTHER -> "invalidRes"

HeaderSizeShort == 4 + NameLength + 4   \* mutation
HeaderSize == 4 + NameLength + 8

-----------------------------------------------------------------------------
\* byteRepr().  An array begins with its length.
Counted(texts) == VarUint(Len(texts)) \o Concat(texts)
TextsBytes(v) == Counted([i \in DOMAIN v |-> VarStr(v[i])])
HashBytes(v, memory) == Fill(v, HashLength, memory)

AddressBytes(v, memory) ==
  Concat(<<Digits(v[1], 8), Fill(v[2], IPLength, memory), Digits(v[3], 2)>>)
InvVectBytes(v) == Concat(<<Digits(Code(v[1]), 4), Str(v[2])>>)

TransactionIdentifierBytes(v, memory) == Concat(<<HashBytes(v[1], memory), VarUint(v[2])>>)
InputTransactionBytes(v, memory) ==
  Concat(<<TransactionIdentifierBytes(v[1], memory), VarStr(v[2])>>)
OutputTransactionBytes(v) == Concat(<<Digits(v[1], 8), VarStr(v[2])>>)
TransactionBytes(v, memory) ==
  Concat(<<Digits(v[1], 4), TextsBytes(v[2]),
           Counted([i \in DOMAIN v[3] |-> InputTransactionBytes(v[3][i], memory)]),
           Counted([i \in DOMAIN v[4] |-> OutputTransactionBytes(v[4][i])])>>)

\* The compressed value of a target is always written as 0.
BlockHeaderBytes(v, memory) ==
  Concat(<<Digits(v[1], 4), TextsBytes(v[2]), HashBytes(v[3], memory), HashBytes(v[4], memory),
           Digits(v[5], 8), Digits(v[6], 4), Digits(0, 4), Digits(v[8], 8)>>)
BlockBytes(v, memory) ==
  Concat(<<BlockHeaderBytes(v[1], memory),
           Counted([i \in DOMAIN v[2] |-> TransactionBytes(v[2][i], memory)])>>)

\* payload().
Payload(type, v, memory) ==
  CASE type = "whoami" ->
         Concat(<<Digits(v[1], 4), AddressBytes(v[2], memory), TextsBytes(v[3])>>)
    [] type \in {"whoamiack", "getaddr", "getmempool"} -> <<>>
    [] type = "addr" -> Counted([i \in DOMAIN v |-> AddressBytes(v[i], memory)])
    [] type \in {"inv", "getdata", "notfound"} ->
         Counted([i \in DOMAIN v |-> InvVectBytes(v[i])])
    [] type = "getblocks" ->
         Concat(<<Counted([i \in DOMAIN v[1] |-> HashBytes(v[1][i], memory)]), Str(v[2])>>)
    [] type = "block" -> BlockBytes(v, memory)
    [] type = "tx" -> TransactionBytes(v, memory)

-----------------------------------------------------------------------------
\* The constructors from a NetworkBuffer are functions of the stream.
Streams == [content : Seq(Bytes), failed : BOOLEAN]

Uint(size) == [s \in Streams |-> ReadUint(s, size)]
VarU == [s \in Streams |-> ReadVarUint(s)]
Text(memory) == [s \in Streams |-> ReadVarStr(s, memory.beyond)]
HashAsText(memory) == [s \in Streams |-> ReadStr(s, HashLength, memory.beyond)]
Fixed(size, memory) ==
  [s \in Streams |-> [ReadStr(s, size, memory.beyond) EXCEPT !.value = Fill(@, size, memory)]]
Hash(memory) == Fixed(HashLength, memory)
Resource == [s \in Streams |-> [ReadUint(s, 4) EXCEPT !.value = TypeOfCode(@)]]
BlockTarget == Uint(4)

\* One reader after the other.
ReadNext(read, reader) ==
  LET next == reader[read.stream]
  IN  [value |-> Append(read.value, next.value), stream |-> next.stream]
ReadEach(readers, stream) ==
  FoldLeft(LAMBDA read, reader : ReadNext(read, reader), [value |-> <<>>, stream |-> stream],
           readers)
Struct(readers) == [s \in Streams |-> ReadEach(readers, s)]

\* An array has the elements that its count announces, blank ones when the
\* bytes end before.
Array(reader) == [s \in Streams |->
  LET count == ReadVarUint(s)
  IN  ReadEach([i \in 1 .. count.value |-> reader], count.stream)]

Address(memory) == Struct(<<Uint(8), Fixed(IPLength, memory), Uint(2)>>)
InvVect(memory) == Struct(<<Resource, HashAsText(memory)>>)
MessageHeader(memory) == Struct(<<Uint(4), Fixed(NameLength, memory), Uint(8)>>)

TransactionIdentifier(memory) == Struct(<<Hash(memory), VarU>>)
InputTransaction(memory) == Struct(<<TransactionIdentifier(memory), Text(memory)>>)
OutputTransaction(memory) == Struct(<<Uint(8), Text(memory)>>)
Transaction(memory) ==
  Struct(<<Uint(4), Array(Text(memory)), Array(InputTransaction(memory)),
           Array(OutputTransaction(memory))>>)

BlockHeader(memory) ==
  Struct(<<Uint(4), Array(Text(memory)), Hash(memory), Hash(memory), Uint(8), Uint(4),
           BlockTarget, Uint(8)>>)
Block(memory) == Struct(<<BlockHeader(memory), Array(Transaction(memory))>>)

\* The constructors of the messages.
Message(type, memory) ==
  CASE type = "whoami" -> Struct(<<Uint(4), Address(memory), Array(Text(memory))>>)
    [] type \in {"whoamiack", "getaddr", "getmempool"} -> Struct(<<>>)
    [] type = "addr" -> Array(Address(memory))
    [] type \in {"inv", "getdata", "notfound"} -> Array(InvVect(memory))
    [] type = "getblocks" -> Struct(<<Array(Hash(memory)), Hash(memory)>>)
    [] type = "block" -> Block(memory)
    [] type = "tx" -> Transaction(memory)

-----------------------------------------------------------------------------
\* What the format carries; a hash has all of its length, and an address may
\* hold NULs, as constants::IP_bytes does.
Uints(size) == 0 .. Power[size] - 1
CleanTexts == {t \in Seq(Bytes) : Len(t) < Power[8] /\ CleanUint(Len(t)) /\ CleanText(t)}
CleanTextsOf(size) == {t \in Seq(Bytes) : Len(t) = size /\ CleanText(t)}
CleanHashes == CleanTextsOf(HashLength)
CleanArrays(S) == {a \in Seq(S) : Len(a) < Power[8] /\ CleanUint(Len(a))}

CleanAddresses == Uints(8) \X {t \in Seq(Bytes) : Len(t) = IPLength} \X Uints(2)
CleanInvVects == {"blockRes", "txRes"} \X CleanHashes

CleanIdentifiers == {id \in CleanHashes \X Uints(8) : CleanUint(id[2])}
CleanOutputs == Uints(8) \X CleanTexts
CleanTransactions ==
  Uints(4) \X CleanArrays(CleanTexts) \X CleanArrays(CleanIdentifiers \X CleanTexts)
    \X CleanArrays(CleanOutputs)

CleanHeaders ==
  Uints(4) \X CleanArrays(CleanTexts) \X CleanHashes \X CleanHashes \X Uints(8) \X Uints(4)
    \X Uints(4) \X Uints(8)

CleanPayloads(type) ==
  CASE type = "whoami" -> Uints(4) \X CleanAddresses \X CleanArrays(CleanTexts)
    [] type \in {"whoamiack", "getaddr", "getmempool"} -> {<<>>}
    [] type = "addr" -> CleanArrays(CleanAddresses)
    [] type \in {"inv", "getdata", "notfound"} -> CleanArrays(CleanInvVects)
    [] type = "getblocks" -> CleanArrays(CleanHashes) \X CleanHashes
    [] type = "block" -> CleanHeaders \X CleanArrays(CleanTransactions)
    [] type = "tx" -> CleanTransactions
=============================================================================
