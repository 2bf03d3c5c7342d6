----------------------------- MODULE InventoryProofs -----------------------------
(***************************************************************************)
(* Theorems about Records and Inventory, for bytes of any size, any        *)
(* messages and anything in memory: every record and every message is read *)
(* to its last byte as it was written, the bytes under way in both         *)
(* directions are whole messages, and inventories are answered in turn by  *)
(* requests for what was announced and is not known.                       *)
(*                                                                         *)
(* IInvInventory says which messages the bytes under way are made of; the  *)
(* properties follow from it by what readers make of the bytes.            *)
(***************************************************************************)
EXTENDS Inventory, WireProofs

\* The recursive definitions of Records and Inventory.
OneMore(any, read, reader) == ReadNext(read, reader)
FromStream(stream) == [value |-> <<>>, stream |-> stream]
Select(S, those, e) == IF e \in S THEN Append(those, e) ELSE those
R == INSTANCE Recursion WITH Op <- OneMore, Start <- FromStream
W == INSTANCE Recursion WITH Op <- Select, Start <- FromNothing

\* A reader takes a text for a value and leaves what follows it; so do readers
\* that come one after the other.
Carries(reader, text, value) ==
  /\ text \in Seq(Bytes)
  /\ \A rest \in Seq(Bytes) :
       reader[Stream(text \o rest)] = [value |-> value, stream |-> Stream(rest)]
CarryInTurn(readers, text, values) ==
  /\ text \in Seq(Bytes)
  /\ \A rest \in Seq(Bytes) :
       ReadEach(readers, Stream(text \o rest)) = [value |-> values, stream |-> Stream(rest)]

\* The recursive definition of Left.
AnyMemory == CHOOSE memory \in Memories : TRUE
ArriveNext(bytes, left, i) == Arrived(left, AnyMemory).rest
FromBytes(bytes) == bytes
L == INSTANCE Recursion WITH Op <- ArriveNext, Start <- FromBytes

-----------------------------------------------------------------------------
\* A reader takes a text.

(* Reading a field more is one step more.                                    *)
LEMMA ReadEachSteps ==
  ASSUME NEW stream
  PROVE  /\ ReadEach(<<>>, stream) = [value |-> <<>>, stream |-> stream]
         /\ \A X : \A readers \in Seq(X), reader \in X :
              ReadEach(Append(readers, reader), stream) =
                ReadNext(ReadEach(readers, stream), reader)
<1>1. \A readers : R!Fold(stream, readers) = ReadEach(readers, stream)
  BY DEF R!Fold, ReadEach, FoldLeft, R!FoldLeft, R!MapThenFoldSet, MapThenFoldSet, R!Max, Max,
         OneMore, FromStream
<1>2. ReadEach(<<>>, stream) = [value |-> <<>>, stream |-> stream]
  BY <1>1, R!FoldEmpty DEF FromStream
<1>3. ASSUME NEW X, NEW readers \in Seq(X), NEW reader \in X
      PROVE  ReadEach(Append(readers, reader), stream) =
               ReadNext(ReadEach(readers, stream), reader)
  <2>1. R!Fold(stream, Append(readers, reader)) =
          OneMore(stream, R!Fold(stream, readers), reader)
    BY R!FoldAppend
  <2> QED  BY <1>1, <2>1 DEF OneMore
<1> QED  BY <1>2, <1>3

(* No readers take nothing.                                                  *)
LEMMA NoneCarry == CarryInTurn(<<>>, <<>>, <<>>)
<1>1. \A rest \in Seq(Bytes) : <<>> \o rest = rest
  OBVIOUS
<1> QED  BY <1>1, ReadEachSteps DEF CarryInTurn

(* A reader after others takes what is written after them.                   *)
LEMMA OneMoreCarries ==
  ASSUME NEW X, NEW readers \in Seq(X), NEW reader \in X,
         NEW V, NEW values \in Seq(V), NEW value \in V,
         NEW text, NEW more, CarryInTurn(readers, text, values), Carries(reader, more, value)
  PROVE  CarryInTurn(Append(readers, reader), text \o more, Append(values, value))
<1>1. text \in Seq(Bytes) /\ more \in Seq(Bytes) /\ text \o more \in Seq(Bytes)
  BY Joined DEF CarryInTurn, Carries
<1>2. ASSUME NEW rest \in Seq(Bytes)
      PROVE  ReadEach(Append(readers, reader), Stream((text \o more) \o rest)) =
               [value |-> Append(values, value), stream |-> Stream(rest)]
  <2>1. (text \o more) \o rest = text \o (more \o rest) /\ more \o rest \in Seq(Bytes)
    BY <1>1, Joined
  <2> DEFINE s == Stream(text \o (more \o rest))
  <2>2. ReadEach(readers, s) = [value |-> values, stream |-> Stream(more \o rest)]
    BY <2>1, Zenon DEF CarryInTurn
  <2>3. reader[Stream(more \o rest)] = [value |-> value, stream |-> Stream(rest)]
    BY Zenon DEF Carries
  <2> HIDE DEF s
  <2>4. ReadEach(Append(readers, reader), s) = ReadNext(ReadEach(readers, s), reader)
    BY ReadEachSteps
  <2> DEFINE read == [value |-> values, stream |-> Stream(more \o rest)]
             next == [value |-> value, stream |-> Stream(rest)]
  <2>5. read.value = values /\ read.stream = Stream(more \o rest)
        /\ next.value = value /\ next.stream = Stream(rest)
    OBVIOUS
  <2> HIDE DEF read, next
  <2>6. ReadNext(read, reader) = [value |-> Append(values, value), stream |-> Stream(rest)]
    BY <2>3, <2>5, Zenon DEF ReadNext, next
  <2> QED  BY <2>1, <2>2, <2>4, <2>6, Zenon DEF s, read
<1> QED  BY <1>1, <1>2, Zenon DEF CarryInTurn

(* The beginnings of a sequence grow by one element.                         *)
LEMMA Beginnings ==
  ASSUME NEW X, NEW seq \in Seq(X)
  PROVE  /\ \A k \in 0 .. Len(seq) : SubSeq(seq, 1, k) \in Seq(X) /\ Len(SubSeq(seq, 1, k)) = k
         /\ \A k \in 0 .. Len(seq) - 1 :
              SubSeq(seq, 1, k + 1) = Append(SubSeq(seq, 1, k), seq[k + 1]) /\ seq[k + 1] \in X
         /\ SubSeq(seq, 1, 0) = <<>> /\ SubSeq(seq, 1, Len(seq)) = seq
OBVIOUS

(* Readers take what is written for each, by induction over the readers.     *)
LEMMA EachCarries ==
  ASSUME NEW X, NEW readers \in Seq(X), NEW texts \in Seq(Seq(Bytes)),
         NEW V, NEW values \in Seq(V), Len(texts) = Len(readers), Len(values) = Len(readers),
         \A i \in 1 .. Len(readers) : Carries(readers[i], texts[i], values[i])
  PROVE  CarryInTurn(readers, Concat(texts), values)
<1> DEFINE Q(k) == CarryInTurn(SubSeq(readers, 1, k), Concat(SubSeq(texts, 1, k)),
                              SubSeq(values, 1, k))
           S == {k \in Nat : k <= Len(readers) => Q(k)}
<1>1. 0 \in S
  BY Beginnings, ConcatSteps, NoneCarry
<1>2. ASSUME NEW k \in Nat, k \in S PROVE k + 1 \in S
  <2> SUFFICES ASSUME k + 1 <= Len(readers) PROVE Q(k + 1)
    OBVIOUS
  <2>1. Q(k) /\ k \in 0 .. Len(readers) /\ k \in 0 .. Len(readers) - 1
        /\ k + 1 \in 1 .. Len(readers)
    BY <1>2
  <2> DEFINE r == SubSeq(readers, 1, k)
             t == SubSeq(texts, 1, k)
             v == SubSeq(values, 1, k)
  <2>2. r \in Seq(X) /\ SubSeq(readers, 1, k + 1) = Append(r, readers[k + 1])
        /\ readers[k + 1] \in X
    BY <2>1, Beginnings
  <2>3. t \in Seq(Seq(Bytes)) /\ SubSeq(texts, 1, k + 1) = Append(t, texts[k + 1])
        /\ texts[k + 1] \in Seq(Bytes)
    BY <2>1, Beginnings
  <2>4. v \in Seq(V) /\ SubSeq(values, 1, k + 1) = Append(v, values[k + 1]) /\ values[k + 1] \in V
    BY <2>1, Beginnings
  <2>5. Concat(SubSeq(texts, 1, k + 1)) = Concat(t) \o texts[k + 1]
    BY <2>3, ConcatSteps
  <2>6. CarryInTurn(r, Concat(t), v) /\ Carries(readers[k + 1], texts[k + 1], values[k + 1])
    BY <2>1
  <2> HIDE DEF r, t, v
  <2>7. CarryInTurn(Append(r, readers[k + 1]), Concat(t) \o texts[k + 1], Append(v, values[k + 1]))
    BY <2>2, <2>4, <2>6, OneMoreCarries
  <2> QED  BY <2>2, <2>4, <2>5, <2>7
<1>3. Nat \subseteq S
  <2> HIDE DEF S
  <2> QED  BY <1>1, <1>2, P!InductionOverNat
<1>4. Q(Len(readers))
  <2> HIDE DEF Q
  <2> QED  BY <1>3
<1>5. /\ SubSeq(readers, 1, Len(readers)) = readers
      /\ SubSeq(texts, 1, Len(readers)) = texts
      /\ SubSeq(values, 1, Len(readers)) = values
  BY Beginnings
<1> QED  BY <1>4, <1>5

(* A stream with bytes in it is one that a constructor may be given.         *)
LEMMA StreamIn == ASSUME NEW s \in Seq(Bytes) PROVE Stream(s) \in Streams
BY DEF Stream, Streams

(* A record is carried when its fields are.                                  *)
LEMMA StructCarries ==
  ASSUME NEW readers, NEW text, NEW values, CarryInTurn(readers, text, values)
  PROVE  Carries(Struct(readers), text, values)
<1>1. text \in Seq(Bytes)
  BY DEF CarryInTurn
<1>2. ASSUME NEW rest \in Seq(Bytes)
      PROVE  Struct(readers)[Stream(text \o rest)] = [value |-> values, stream |-> Stream(rest)]
  <2>1. Stream(text \o rest) \in Streams
    BY <1>1, Joined, StreamIn
  <2>2. Struct(readers)[Stream(text \o rest)] = ReadEach(readers, Stream(text \o rest))
    BY <2>1, Zenon DEF Struct
  <2> QED  BY <2>2, Zenon DEF CarryInTurn
<1> QED  BY <1>1, <1>2, Zenon DEF Carries

(* An array is carried when its elements and its length are (Var_Array).     *)
LEMMA ArrayCarries ==
  ASSUME NEW reader, NEW texts \in Seq(Seq(Bytes)), NEW V, NEW values \in Seq(V),
         Len(values) = Len(texts), Len(texts) < Power[8], CleanUint(Len(texts)),
         \A i \in 1 .. Len(texts) : Carries(reader, texts[i], values[i])
  PROVE  Carries(Array(reader), Counted(texts), values)
<1> DEFINE n == Len(texts)
           size == VarUint(n)
           all == Concat(texts)
           readers == [i \in 1 .. n |-> reader]
<1>1. n \in Nat /\ size \in Seq(Bytes) /\ all \in Seq(Bytes)
  BY ConcatSteps, VarUintType
<1>2. Counted(texts) = size \o all
  BY DEF Counted
<1>3. CarryInTurn(readers, all, values)
  <2>1. readers \in Seq({reader}) /\ Len(readers) = n /\ \A i \in 1 .. n : readers[i] = reader
    BY <1>1
  <2> HIDE DEF readers, all
  <2> QED  BY <2>1, EachCarries DEF all
<1>4. ASSUME NEW rest \in Seq(Bytes)
      PROVE  Array(reader)[Stream((size \o all) \o rest)] =
               [value |-> values, stream |-> Stream(rest)]
  <2>1. (size \o all) \o rest = size \o (all \o rest) /\ all \o rest \in Seq(Bytes)
    <3> HIDE DEF size, all
    <3> QED  BY <1>1, Joined
  <2> DEFINE s == Stream(size \o (all \o rest))
             count == [value |-> n, stream |-> Stream(all \o rest)]
  <2>2. s \in Streams
    BY <1>1, <2>1, Joined, StreamIn
  <2>3. ReadVarUint(s) = count
    <3> HIDE DEF all
    <3> QED  BY <1>1, <2>1, VarUintBack
  <2>4. count.value = n /\ count.stream = Stream(all \o rest)
    OBVIOUS
  <2> HIDE DEF s, count, n, all
  <2>5. Array(reader)[s] =
          ReadEach([i \in 1 .. ReadVarUint(s).value |-> reader], ReadVarUint(s).stream)
    BY <2>2, Zenon DEF Array
  <2>6. Array(reader)[s] = ReadEach(readers, Stream(all \o rest))
    BY <2>3, <2>4, <2>5, Zenon DEF n
  <2>7. ReadEach(readers, Stream(all \o rest)) = [value |-> values, stream |-> Stream(rest)]
    BY <1>3, Zenon DEF CarryInTurn
  <2> QED  BY <2>1, <2>6, <2>7, Zenon DEF s
<1>5. size \o all \in Seq(Bytes)
  BY <1>1, Joined
<1> QED  BY <1>2, <1>4, <1>5, Zenon DEF Carries

(* A record of two fields.                                                   *)
LEMMA TwoCarry ==
  ASSUME NEW r1, NEW r2,
         NEW t1, NEW t2,
         NEW v1, NEW v2,
         Carries(r1, t1, v1), Carries(r2, t2, v2)
  PROVE  Carries(Struct(<<r1, r2>>), Concat(<<t1, t2>>),
                 <<v1, v2>>)
<1> DEFINE readers == <<r1, r2>>
           texts == <<t1, t2>>
           values == <<v1, v2>>
<1>1. t1 \in Seq(Bytes) /\ t2 \in Seq(Bytes)
  BY DEF Carries
<1>2. /\ readers \in Seq({r1, r2}) /\ Len(readers) = 2
      /\ readers[1] = r1 /\ readers[2] = r2
  OBVIOUS
<1>3. /\ texts \in Seq(Seq(Bytes)) /\ Len(texts) = 2
      /\ texts[1] = t1 /\ texts[2] = t2
  BY <1>1
<1>4. /\ values \in Seq({v1, v2}) /\ Len(values) = 2
      /\ values[1] = v1 /\ values[2] = v2
  OBVIOUS
<1> HIDE DEF readers, texts, values
<1>5. \A i \in 1 .. 2 : Carries(readers[i], texts[i], values[i])
  <2> TAKE i \in 1 .. 2
  <2>1. i = 1 \/ i = 2
    OBVIOUS
  <2> QED  BY <1>2, <1>3, <1>4, <2>1
<1>6. CarryInTurn(readers, Concat(texts), values)
  BY <1>2, <1>3, <1>4, <1>5, EachCarries
<1> QED  BY <1>6, StructCarries DEF readers, texts, values

(* A record of three fields.                                                 *)
LEMMA ThreeCarry ==
  ASSUME NEW r1, NEW r2, NEW r3,
         NEW t1, NEW t2, NEW t3,
         NEW v1, NEW v2, NEW v3,
         Carries(r1, t1, v1), Carries(r2, t2, v2), Carries(r3, t3, v3)
  PROVE  Carries(Struct(<<r1, r2, r3>>), Concat(<<t1, t2, t3>>),
                 <<v1, v2, v3>>)
<1> DEFINE readers == <<r1, r2, r3>>
           texts == <<t1, t2, t3>>
           values == <<v1, v2, v3>>
<1>1. t1 \in Seq(Bytes) /\ t2 \in Seq(Bytes) /\ t3 \in Seq(Bytes)
  BY DEF Carries
<1>2. /\ readers \in Seq({r1, r2, r3}) /\ Len(readers) = 3
      /\ readers[1] = r1 /\ readers[2] = r2 /\ readers[3] = r3
  OBVIOUS
<1>3. /\ texts \in Seq(Seq(Bytes)) /\ Len(texts) = 3
      /\ texts[1] = t1 /\ texts[2] = t2 /\ texts[3] = t3
  BY <1>1
<1>4. /\ values \in Seq({v1, v2, v3}) /\ Len(values) = 3
      /\ values[1] = v1 /\ values[2] = v2 /\ values[3] = v3
  OBVIOUS
<1> HIDE DEF readers, texts, values
<1>5. \A i \in 1 .. 3 : Carries(readers[i], texts[i], values[i])
  <2> TAKE i \in 1 .. 3
  <2>1. i = 1 \/ i = 2 \/ i = 3
    OBVIOUS
  <2> QED  BY <1>2, <1>3, <1>4, <2>1
<1>6. CarryInTurn(readers, Concat(texts), values)
  BY <1>2, <1>3, <1>4, <1>5, EachCarries
<1> QED  BY <1>6, StructCarries DEF readers, texts, values

(* A record of four fields.                                                  *)
LEMMA FourCarry ==
  ASSUME NEW r1, NEW r2, NEW r3, NEW r4,
         NEW t1, NEW t2, NEW t3, NEW t4,
         NEW v1, NEW v2, NEW v3, NEW v4,
         Carries(r1, t1, v1), Carries(r2, t2, v2), Carries(r3, t3, v3),
         Carries(r4, t4, v4)
  PROVE  Carries(Struct(<<r1, r2, r3, r4>>), Concat(<<t1, t2, t3, t4>>),
                 <<v1, v2, v3, v4>>)
<1> DEFINE readers == <<r1, r2, r3, r4>>
           texts == <<t1, t2, t3, t4>>
           values == <<v1, v2, v3, v4>>
<1>1. /\ t1 \in Seq(Bytes) /\ t2 \in Seq(Bytes) /\ t3 \in Seq(Bytes)
      /\ t4 \in Seq(Bytes)
  BY DEF Carries
<1>2. /\ readers \in Seq({r1, r2, r3, r4}) /\ Len(readers) = 4
      /\ readers[1] = r1 /\ readers[2] = r2 /\ readers[3] = r3 /\ readers[4] = r4
  OBVIOUS
<1>3. /\ texts \in Seq(Seq(Bytes)) /\ Len(texts) = 4
      /\ texts[1] = t1 /\ texts[2] = t2 /\ texts[3] = t3 /\ texts[4] = t4
  BY <1>1
<1>4. /\ values \in Seq({v1, v2, v3, v4}) /\ Len(values) = 4
      /\ values[1] = v1 /\ values[2] = v2 /\ values[3] = v3 /\ values[4] = v4
  OBVIOUS
<1> HIDE DEF readers, texts, values
<1>5. \A i \in 1 .. 4 : Carries(readers[i], texts[i], values[i])
  <2> TAKE i \in 1 .. 4
  <2>1. i = 1 \/ i = 2 \/ i = 3 \/ i = 4
    OBVIOUS
  <2> QED  BY <1>2, <1>3, <1>4, <2>1
<1>6. CarryInTurn(readers, Concat(texts), values)
  BY <1>2, <1>3, <1>4, <1>5, EachCarries
<1> QED  BY <1>6, StructCarries DEF readers, texts, values

(* A record of eight fields.                                                 *)
LEMMA EightCarry ==
  ASSUME NEW r1, NEW r2, NEW r3, NEW r4, NEW r5, NEW r6, NEW r7, NEW r8,
         NEW t1, NEW t2, NEW t3, NEW t4, NEW t5, NEW t6, NEW t7, NEW t8,
         NEW v1, NEW v2, NEW v3, NEW v4, NEW v5, NEW v6, NEW v7, NEW v8,
         Carries(r1, t1, v1), Carries(r2, t2, v2), Carries(r3, t3, v3),
         Carries(r4, t4, v4), Carries(r5, t5, v5), Carries(r6, t6, v6),
         Carries(r7, t7, v7), Carries(r8, t8, v8)
  PROVE  Carries(Struct(<<r1, r2, r3, r4, r5, r6, r7, r8>>),
                 Concat(<<t1, t2, t3, t4, t5, t6, t7, t8>>),
                 <<v1, v2, v3, v4, v5, v6, v7, v8>>)
<1> DEFINE readers == <<r1, r2, r3, r4, r5, r6, r7, r8>>
           texts == <<t1, t2, t3, t4, t5, t6, t7, t8>>
           values == <<v1, v2, v3, v4, v5, v6, v7, v8>>
<1>1. /\ t1 \in Seq(Bytes) /\ t2 \in Seq(Bytes) /\ t3 \in Seq(Bytes)
      /\ t4 \in Seq(Bytes) /\ t5 \in Seq(Bytes) /\ t6 \in Seq(Bytes)
      /\ t7 \in Seq(Bytes) /\ t8 \in Seq(Bytes)
  BY DEF Carries
<1>2. /\ readers \in Seq({r1, r2, r3, r4, r5, r6, r7, r8}) /\ Len(readers) = 8
      /\ readers[1] = r1 /\ readers[2] = r2 /\ readers[3] = r3 /\ readers[4] = r4
      /\ readers[5] = r5 /\ readers[6] = r6 /\ readers[7] = r7 /\ readers[8] = r8
  OBVIOUS
<1>3. /\ texts \in Seq(Seq(Bytes)) /\ Len(texts) = 8
      /\ texts[1] = t1 /\ texts[2] = t2 /\ texts[3] = t3 /\ texts[4] = t4
      /\ texts[5] = t5 /\ texts[6] = t6 /\ texts[7] = t7 /\ texts[8] = t8
  BY <1>1
<1>4. /\ values \in Seq({v1, v2, v3, v4, v5, v6, v7, v8}) /\ Len(values) = 8
      /\ values[1] = v1 /\ values[2] = v2 /\ values[3] = v3 /\ values[4] = v4
      /\ values[5] = v5 /\ values[6] = v6 /\ values[7] = v7 /\ values[8] = v8
  OBVIOUS
<1> HIDE DEF readers, texts, values
<1>5. \A i \in 1 .. 8 : Carries(readers[i], texts[i], values[i])
  <2> TAKE i \in 1 .. 8
  <2>1. i = 1 \/ i = 2 \/ i = 3 \/ i = 4 \/ i = 5 \/ i = 6 \/ i = 7 \/ i = 8
    OBVIOUS
  <2> QED  BY <1>2, <1>3, <1>4, <2>1
<1>6. CarryInTurn(readers, Concat(texts), values)
  BY <1>2, <1>3, <1>4, <1>5, EachCarries
<1> QED  BY <1>6, StructCarries DEF readers, texts, values

(* Garbage is a text without NULs.                                           *)
LEMMA BeyondTyped ==
  ASSUME NEW memory \in Memories
  PROVE  memory.beyond \in Seq(1 .. Base - 1) /\ memory.beyond \in Seq(Bytes)
<1>1. memory.beyond \in Garbage
  BY DEF Memories
<1>2. 1 .. Base - 1 \subseteq Bytes
  BY BaseAssumption DEF Bytes
<1>3. memory.beyond \in Seq(1 .. Base - 1)
  BY <1>1, GarbageAssumption
<1>4. \A S, U : S \subseteq U => \A seq \in Seq(S) : seq \in Seq(U)
  OBVIOUS
<1>5. memory.beyond \in Seq(Bytes)
  BY <1>2, <1>3, <1>4, Zenon
<1> QED  BY <1>3, <1>5

(* Numbers of every width, whatever their bytes.                             *)
LEMMA UintCarries ==
  ASSUME NEW n \in Nat, NEW v \in Nat, v < Power[n]
  PROVE  Carries(Uint(n), Digits(v, n), v)
<1>1. Digits(v, n) \in Seq(Bytes)
  BY DigitsType
<1>2. ASSUME NEW rest \in Seq(Bytes)
      PROVE  Uint(n)[Stream(Digits(v, n) \o rest)] = [value |-> v, stream |-> Stream(rest)]
  <2>1. Stream(Digits(v, n) \o rest) \in Streams
    BY <1>1, Joined, StreamIn
  <2>2. Uint(n)[Stream(Digits(v, n) \o rest)] = ReadUint(Stream(Digits(v, n) \o rest), n)
    BY <2>1, Zenon DEF Uint
  <2> QED  BY <2>2, UintBack
<1> QED  BY <1>1, <1>2, Zenon DEF Carries

(* Bytes are read as the number that they are.                               *)
LEMMA BytesCarry ==
  ASSUME NEW bytes \in Seq(Bytes), NEW n, n = Len(bytes)
  PROVE  Carries(Uint(n), bytes, Number(bytes))
<1>1. ASSUME NEW rest \in Seq(Bytes)
      PROVE  Uint(n)[Stream(bytes \o rest)] = [value |-> Number(bytes), stream |-> Stream(rest)]
  <2>1. Stream(bytes \o rest) \in Streams
    BY Joined, StreamIn
  <2>2. Uint(n)[Stream(bytes \o rest)] = ReadUint(Stream(bytes \o rest), n)
    BY <2>1, Zenon DEF Uint
  <2>3. ReadBytes(Stream(bytes \o rest), n) = [value |-> bytes, stream |-> Stream(rest)]
    BY BytesBack
  <2> DEFINE s == Stream(bytes \o rest)
             read == [value |-> bytes, stream |-> Stream(rest)]
  <2>4. read.value = bytes /\ read.stream = Stream(rest)
    OBVIOUS
  <2> HIDE DEF s, read
  <2>5. ReadUint(s, n) = [value |-> Number(bytes), stream |-> Stream(rest)]
    <3>1. ReadBytes(s, n) = read
      BY <2>3 DEF s, read
    <3> QED  BY <2>4, <3>1, Zenon DEF ReadUint
  <2> QED  BY <2>2, <2>5 DEF s
<1> QED  BY <1>1, Zenon DEF Carries

(* A number of a variable width comes back when its first byte is not        *)
(* whitespace.                                                               *)
LEMMA VarUCarries ==
  ASSUME NEW v \in Nat, v < Power[8], CleanUint(v)
  PROVE  Carries(VarU, VarUint(v), v)
<1>1. VarUint(v) \in Seq(Bytes)
  BY VarUintType
<1>2. ASSUME NEW rest \in Seq(Bytes)
      PROVE  VarU[Stream(VarUint(v) \o rest)] = [value |-> v, stream |-> Stream(rest)]
  <2>1. Stream(VarUint(v) \o rest) \in Streams
    BY <1>1, Joined, StreamIn
  <2>2. VarU[Stream(VarUint(v) \o rest)] = ReadVarUint(Stream(VarUint(v) \o rest))
    BY <2>1, Zenon DEF VarU
  <2> QED  BY <2>2, VarUintBack
<1> QED  BY <1>1, <1>2, Zenon DEF Carries

(* A read is the record of its value and its stream.                         *)
LEMMA ReadStrRecord ==
  ASSUME NEW s, NEW length, NEW beyond
  PROVE  LET r == ReadStr(s, length, beyond) IN r = [value |-> r.value, stream |-> r.stream]
BY Zenon DEF ReadStr

(* A hash that is read as a text brings what follows it in memory.           *)
LEMMA HashAsTextCarries ==
  ASSUME NEW text \in CleanHashes, NEW memory \in Memories
  PROVE  Carries(HashAsText(memory), Str(text), text \o memory.beyond)
<1>1. text \in Seq(Bytes) /\ Len(text) = HashLength /\ CleanText(text)
  BY DEF CleanHashes, CleanTextsOf
<1>2. ASSUME NEW rest \in Seq(Bytes)
      PROVE  HashAsText(memory)[Stream(text \o rest)] =
               [value |-> text \o memory.beyond, stream |-> Stream(rest)]
  <2> DEFINE s == Stream(text \o rest)
             r == ReadStr(s, HashLength, memory.beyond)
  <2>1. s \in Streams
    BY <1>1, Joined, StreamIn
  <2>2. r.value = text \o memory.beyond /\ r.stream = Stream(rest)
    BY <1>1, BeyondTyped, StrBack
  <2> HIDE DEF s
  <2>3. HashAsText(memory)[s] = r
    BY <2>1, Zenon DEF HashAsText
  <2>4. r = [value |-> r.value, stream |-> r.stream]
    BY ReadStrRecord
  <2> HIDE DEF r
  <2>5. HashAsText(memory)[s] = [value |-> text \o memory.beyond, stream |-> Stream(rest)]
    BY <2>2, <2>3, <2>4, Zenon
  <2> QED  BY <2>5 DEF s
<1>3. Str(text) = text
  BY DEF Str
<1> QED  BY <1>1, <1>2, <1>3, Zenon DEF Carries

(* A text of a variable length too.                                          *)
LEMMA TextCarries ==
  ASSUME NEW text \in CleanTexts, NEW memory \in Memories
  PROVE  Carries(Text(memory), VarStr(text), text \o memory.beyond)
<1> DEFINE n == Len(text)
           size == VarUint(n)
<1>1. text \in Seq(Bytes) /\ n \in Nat /\ n < Power[8] /\ CleanUint(n) /\ CleanText(text)
  BY DEF CleanTexts
<1>2. size \in Seq(Bytes) /\ VarStr(text) = size \o text
  BY <1>1, VarUintType DEF VarStr, Str
<1>3. ASSUME NEW rest \in Seq(Bytes)
      PROVE  Text(memory)[Stream((size \o text) \o rest)] =
               [value |-> text \o memory.beyond, stream |-> Stream(rest)]
  <2>1. (size \o text) \o rest = size \o (text \o rest) /\ text \o rest \in Seq(Bytes)
    <3> HIDE DEF size
    <3> QED  BY <1>1, <1>2, Joined
  <2> DEFINE s == Stream(size \o (text \o rest))
             after == Stream(text \o rest)
             r == ReadStr(after, n, memory.beyond)
  <2>2. s \in Streams
    BY <1>2, <2>1, Joined, StreamIn
  <2>3. ReadVarUint(s) = [value |-> n, stream |-> after]
    BY <1>1, <2>1, VarUintBack
  <2>4. r.value = text \o memory.beyond /\ r.stream = Stream(rest)
    BY <1>1, BeyondTyped, StrBack
  <2> HIDE DEF s, after, n
  <2>5. Text(memory)[s] = r
    <3>1. Text(memory)[s] = ReadVarStr(s, memory.beyond)
      BY <2>2, Zenon DEF Text
    <3>2. ReadVarUint(s).value = n /\ ReadVarUint(s).stream = after
      BY <2>3
    <3> QED  BY <3>1, <3>2, Zenon DEF ReadVarStr
  <2>6. r = [value |-> r.value, stream |-> r.stream]
    BY ReadStrRecord
  <2> HIDE DEF r
  <2>7. Text(memory)[s] = [value |-> text \o memory.beyond, stream |-> Stream(rest)]
    BY <2>4, <2>5, <2>6, Zenon
  <2> QED  BY <2>1, <2>7 DEF s
<1>4. size \o text \in Seq(Bytes)
  BY <1>1, <1>2, Joined
<1> QED  BY <1>2, <1>3, <1>4, Zenon DEF Carries

(* A text that fills its array is all that the array shows.                  *)
LEMMA Filled ==
  ASSUME NEW text \in Seq(Bytes), NEW more \in Seq(Bytes), NEW memory
  PROVE  Fill(text \o more, Len(text), memory) = text
         /\ Fill(text, Len(text), memory) = text
<1> DEFINE whole == text \o more
<1>1. /\ Len(text) \in Nat /\ Len(whole) = Len(text) + Len(more) /\ Len(more) \in Nat
      /\ \A i \in 1 .. Len(text) : whole[i] = text[i]
  OBVIOUS
<1>2. text = [i \in 1 .. Len(text) |-> text[i]]
  OBVIOUS
<1> HIDE DEF whole
<1>3. \A i \in 1 .. Len(text) :
        /\ (IF i <= Len(whole) THEN whole[i] ELSE memory.residue[i]) = text[i]
        /\ (IF i <= Len(text) THEN text[i] ELSE memory.residue[i]) = text[i]
  BY <1>1
<1>4. Fill(whole, Len(text), memory) = [i \in 1 .. Len(text) |-> text[i]]
  BY <1>3, Zenon DEF Fill
<1>5. Fill(text, Len(text), memory) = [i \in 1 .. Len(text) |-> text[i]]
  BY <1>3, Zenon DEF Fill
<1> QED  BY <1>2, <1>4, <1>5 DEF whole

(* What an array of at most one block shows of the text that it was read     *)
(* from.                                                                     *)
LEMMA FixedShows ==
  ASSUME NEW text \in Seq(Bytes), NEW size, size = Len(text), size <= BufferSize,
         NEW memory \in Memories
  PROVE  Carries(Fixed(size, memory), text, Fill(CString(text \o memory.beyond), size, memory))
<1> DEFINE shown == CString(text \o memory.beyond)
<1>1. ASSUME NEW rest \in Seq(Bytes)
      PROVE  Fixed(size, memory)[Stream(text \o rest)] =
               [value |-> Fill(shown, size, memory), stream |-> Stream(rest)]
  <2> DEFINE s == Stream(text \o rest)
             r == ReadStr(s, size, memory.beyond)
  <2>1. s \in Streams
    BY Joined, StreamIn
  <2>2. r.value = shown /\ r.stream = Stream(rest)
    BY BeyondTyped, StrOfOneBlock
  <2>3. Fixed(size, memory)[s] = [r EXCEPT !.value = Fill(@, size, memory)]
    <3> HIDE DEF s
    <3> QED  BY <2>1, Zenon DEF Fixed
  <2>4. r = [value |-> r.value, stream |-> r.stream]
    BY ReadStrRecord
  <2> HIDE DEF r, s, shown
  <2>5. r = [value |-> shown, stream |-> Stream(rest)]
    BY <2>2, <2>4
  <2>6. Fixed(size, memory)[s] = [value |-> Fill(shown, size, memory), stream |-> Stream(rest)]
    BY <2>3, <2>5
  <2> QED  BY <2>6 DEF s
<1> QED  BY <1>1, Zenon DEF Carries

(* A hash comes back as it was, whatever memory holds.                       *)
LEMMA FixedCarries ==
  ASSUME NEW size \in Nat, NEW text \in CleanTextsOf(size), NEW memory \in Memories, NEW written
  PROVE  Carries(Fixed(size, memory), Fill(text, size, written), text)
<1>1. text \in Seq(Bytes) /\ Len(text) = size /\ CleanText(text) /\ size <= BufferSize
      /\ 0 \notin ToSet(text)
  BY DEF CleanTextsOf, CleanText
<1>2. CString(text \o memory.beyond) = text \o memory.beyond
  BY <1>1, BeyondTyped, TextIsCString
<1>3. Fill(text \o memory.beyond, size, memory) = text /\ Fill(text, size, written) = text
  BY <1>1, BeyondTyped, Filled
<1> QED  BY <1>1, <1>2, <1>3, FixedShows

(* A hash is a text that fills its array (Hash).                             *)
LEMMA HashCarries ==
  ASSUME NEW hash \in CleanHashes, NEW memory \in Memories, NEW written
  PROVE  Carries(Hash(memory), HashBytes(hash, written), hash)
BY HashLengthAssumption, FixedCarries DEF CleanHashes, Hash, HashBytes

(* A type comes back as the other (ressource_type).                          *)
Swapped(type) == IF type = "blockRes" THEN "txRes" ELSE "blockRes"

(* A type comes back as the other one (ressource_type, Inv_vect).            *)
LEMMA ResourceCarries ==
  ASSUME NEW type \in {"blockRes", "txRes"}
  PROVE  Carries(Resource, Digits(Code(type), 4), Swapped(type))
<1> DEFINE c == Code(type)
<1>1. c \in {0, 1} /\ TypeOfCode(c) = Swapped(type)
  <2>1. CASE type = "blockRes"
    <3>1. c = 0
      BY <2>1 DEF Code
    <3>2. TypeOfCode(0) = "txRes"
      BY DEF TypeOfCode
    <3> HIDE DEF c
    <3> QED  BY <2>1, <3>1, <3>2 DEF Swapped
  <2>2. CASE type = "txRes"
    <3>1. c = 1
      BY <2>2 DEF Code
    <3>2. TypeOfCode(1) = "blockRes"
      BY DEF TypeOfCode
    <3> HIDE DEF c
    <3> QED  BY <2>2, <3>1, <3>2 DEF Swapped
  <2> QED  BY <2>1, <2>2
<1> HIDE DEF c
<1>2. c \in Nat /\ c < Power[4]
  BY <1>1, PowerSizes, BaseAssumption
<1>3. Digits(c, 4) \in Seq(Bytes)
  BY <1>2, DigitsType
<1>4. ASSUME NEW rest \in Seq(Bytes)
      PROVE  Resource[Stream(Digits(c, 4) \o rest)] =
               [value |-> Swapped(type), stream |-> Stream(rest)]
  <2> DEFINE s == Stream(Digits(c, 4) \o rest)
             r == ReadUint(s, 4)
  <2>1. s \in Streams
    BY <1>3, Joined, StreamIn
  <2>2. r = [value |-> c, stream |-> Stream(rest)]
    BY <1>2, UintBack
  <2>3. Resource[s] = [r EXCEPT !.value = TypeOfCode(@)]
    <3> HIDE DEF s
    <3> QED  BY <2>1, Zenon DEF Resource
  <2> HIDE DEF r, s
  <2>4. Resource[s] = [value |-> TypeOfCode(c), stream |-> Stream(rest)]
    BY <2>2, <2>3
  <2> QED  BY <1>1, <2>4 DEF s
<1> QED  BY <1>3, <1>4, Zenon DEF Carries, c

(* A C string ends at the first NUL.                                         *)
LEMMA CStringEnds ==
  ASSUME NEW chars \in Seq(Bytes), NEW n \in 1 .. Len(chars), chars[n] = 0,
         \A i \in 1 .. n - 1 : chars[i] # 0
  PROVE  CString(chars) = SubSeq(chars, 1, n - 1)
<1> DEFINE S == {i \in 1 .. Len(chars) : chars[i] = 0}
           first == SelectInSeq(chars, LAMBDA b : b = 0)
<1>1. n \in S /\ \A i \in S : n <= i
  OBVIOUS
<1>2. first = CHOOSE j \in S : \A k \in S : j <= k
  <2>1. S # {}
    BY <1>1
  <2> QED  BY <2>1 DEF SelectInSeq, Min
<1>3. first = n
  <2>1. S \subseteq Nat
    OBVIOUS
  <2>2. \A j \in S : (\A k \in S : j <= k) => j = n
    <3> HIDE DEF S
    <3> QED  BY <1>1, <2>1
  <2> HIDE DEF S, first
  <2> QED  BY <1>1, <1>2, <2>2, Zenon
<1>4. CString(chars) = IF first = 0 THEN chars ELSE SubSeq(chars, 1, first - 1)
  BY DEF CString
<1> HIDE DEF first
<1> QED  BY <1>3, <1>4

(* The name of a type in its array.                                          *)
LEMMA NameTyped ==
  ASSUME NEW type \in Types
  PROVE  LET name == TypeAsString(type)
         IN  /\ name \in Seq(Bytes) /\ Len(name) \in 1 .. NameLength
             /\ \A i \in 1 .. Len(name) : name[i] # 0
             /\ Padded(name) \in Seq(Bytes) /\ Len(Padded(name)) = NameLength
             /\ \A i \in 1 .. NameLength :
                  Padded(name)[i] = IF i <= Len(name) THEN name[i] ELSE 0
             /\ NameLength \in 1 .. BufferSize
<1> DEFINE name == TypeAsString(type)
<1>1. name \in Seq(Bytes \ {0}) /\ Len(name) \in 1 .. NameLength
  BY NamesAssumption DEF TypeAsString
<1>2. NameLength \in 1 .. BufferSize
  BY LengthsAssumption
<1> HIDE DEF name
<1>3. \A i \in 1 .. Len(name) : name[i] \in Bytes /\ name[i] # 0
  BY <1>1
<1>4. name \in Seq(Bytes)
  BY <1>1
<1>5. 0 \in Bytes
  BY BaseAssumption DEF Bytes
<1>6. \A i \in 1 .. NameLength : (IF i <= Len(name) THEN name[i] ELSE 0) \in Bytes
  BY <1>1, <1>2, <1>3, <1>5
<1>7. Padded(name) \in [1 .. NameLength -> Bytes]
      /\ \A i \in 1 .. NameLength : Padded(name)[i] = IF i <= Len(name) THEN name[i] ELSE 0
  BY <1>6, Zenon DEF Padded
<1>8. Padded(name) \in Seq(Bytes) /\ Len(Padded(name)) = NameLength
  <2> DEFINE p == Padded(name)
  <2>1. p \in [1 .. NameLength -> Bytes]
    BY <1>7
  <2> HIDE DEF p
  <2>2. p \in Seq(Bytes) /\ Len(p) = NameLength
    BY <1>2, <2>1, BufferSizeAssumption
  <2> QED  BY <2>2 DEF p
<1> QED  BY <1>1, <1>2, <1>3, <1>4, <1>7, <1>8 DEF name

(* A name is read as what its array shows of it (Message::byteRepr,          *)
(* MessageHeader).                                                           *)
LEMMA NameCarries ==
  ASSUME NEW type \in Types, NEW memory \in Memories
  PROVE  Carries(Fixed(NameLength, memory), Padded(TypeAsString(type)),
                 Fill(TypeAsString(type), NameLength, memory))
<1> DEFINE name == TypeAsString(type)
           padded == Padded(name)
           chars == padded \o memory.beyond
<1>1. /\ name \in Seq(Bytes) /\ Len(name) \in 1 .. NameLength
      /\ \A i \in 1 .. Len(name) : name[i] # 0
      /\ padded \in Seq(Bytes) /\ Len(padded) = NameLength
      /\ \A i \in 1 .. NameLength : padded[i] = IF i <= Len(name) THEN name[i] ELSE 0
      /\ NameLength \in 1 .. BufferSize
  BY NameTyped
<1>2. memory.beyond \in Seq(Bytes) /\ memory.beyond \in Seq(1 .. Base - 1)
  BY BeyondTyped
<1> HIDE DEF padded, name
<1>3. /\ chars \in Seq(Bytes) /\ Len(chars) >= NameLength
      /\ \A i \in 1 .. NameLength : chars[i] = padded[i]
  BY <1>1, <1>2
<1>4. Fill(CString(chars), NameLength, memory) = Fill(name, NameLength, memory)
  <2>1. CASE Len(name) < NameLength
    <3> DEFINE n == Len(name) + 1
    <3>1. n \in 1 .. Len(chars) /\ chars[n] = 0 /\ (\A i \in 1 .. n - 1 : chars[i] # 0)
          /\ n - 1 = Len(name)
      <4> HIDE DEF chars
      <4> QED  BY <1>1, <1>3, <2>1
    <3>2. CString(chars) = SubSeq(chars, 1, Len(name))
      <4> HIDE DEF chars
      <4>1. CString(chars) = SubSeq(chars, 1, n - 1)
        <5> HIDE DEF n
        <5> QED  BY <1>3, <3>1, CStringEnds
      <4> QED  BY <3>1, <4>1
    <3>3. SubSeq(chars, 1, Len(name)) = name
      <4>1. Len(name) <= Len(chars) /\ \A i \in 1 .. Len(name) : chars[i] = name[i]
        <5> HIDE DEF chars
        <5> QED  BY <1>1, <1>3
      <4> HIDE DEF chars
      <4> QED  BY <1>1, <1>3, <4>1
    <3> QED  BY <3>2, <3>3
  <2>2. CASE Len(name) = NameLength
    <3>1. padded = name
      BY <1>1, <2>2
    <3>2. 0 \notin ToSet(name)
      BY <1>1 DEF ToSet
    <3>3. CString(name \o memory.beyond) = name \o memory.beyond
      BY <1>1, <1>2, <3>2, TextIsCString
    <3>4. /\ Fill(name \o memory.beyond, Len(name), memory) = name
          /\ Fill(name, Len(name), memory) = name
      BY <1>1, <1>2, Filled
    <3>5. /\ Fill(name \o memory.beyond, NameLength, memory) = name
          /\ Fill(name, NameLength, memory) = name
      BY <2>2, <3>4
    <3> QED  BY <3>1, <3>3, <3>5
  <2> QED  BY <1>1, <2>1, <2>2
<1>5. NameLength = Len(padded) /\ NameLength <= BufferSize
  BY <1>1
<1>6. Carries(Fixed(NameLength, memory), padded, Fill(CString(chars), NameLength, memory))
  BY <1>1, <1>5, FixedShows
<1> QED  BY <1>4, <1>6 DEF padded, name

-----------------------------------------------------------------------------
\* Messages in their frames.

(* A header is read as the type and the length that it was written with.     *)
LEMMA HeaderCarries ==
  ASSUME NEW type \in Types, NEW length \in Nat, length < Power[8], NEW memory \in Memories
  PROVE  Carries(MessageHeader(memory), HeaderBytes(type, length),
                 <<Number(Digits(MAGIC, 4)), Fill(TypeAsString(type), NameLength, memory),
                   length>>)
<1> DEFINE magic == Digits(MAGIC, 4)
           name == TypeAsString(type)
<1>1. magic \in Seq(Bytes) /\ Len(magic) = 4
  <2>1. MAGIC \in Nat
    BY DEF MAGIC
  <2> QED  BY <2>1, DigitsType
<1> HIDE DEF magic
<1>2. Carries(Uint(4), magic, Number(magic))
  BY <1>1, BytesCarry
<1>3. Carries(Fixed(NameLength, memory), Padded(name), Fill(name, NameLength, memory))
  BY NameCarries
<1>4. Carries(Uint(8), Digits(length, 8), length)
  BY UintCarries
<1> HIDE DEF name
<1>5. Carries(Struct(<<Uint(4), Fixed(NameLength, memory), Uint(8)>>),
              Concat(<<magic, Padded(name), Digits(length, 8)>>),
              <<Number(magic), Fill(name, NameLength, memory), length>>)
  BY <1>2, <1>3, <1>4, ThreeCarry
<1> QED  BY <1>5, Zenon DEF MessageHeader, HeaderBytes, magic, name

(* Tuples grow by one element.                                               *)
LEMMA Tuples ==
  ASSUME NEW x, NEW y, NEW z
  PROVE  /\ Append(<<>>, x) = <<x>> /\ Append(<<x>>, y) = <<x, y>>
         /\ Append(<<x, y>>, z) = <<x, y, z>>
<1> DEFINE S == {x, y, z}
<1>1. /\ <<>> \in Seq(S) /\ <<x>> \in Seq(S) /\ <<x, y>> \in Seq(S) /\ <<x, y, z>> \in Seq(S)
      /\ x \in S /\ y \in S /\ z \in S
  OBVIOUS
<1>2. Append(<<>>, x) = <<x>>
  OBVIOUS
<1>3. Append(<<x>>, y) = <<x, y>>
  <2> DEFINE s == <<x>>
             t == <<x, y>>
  <2>1. /\ s \in Seq(S) /\ Len(s) = 1 /\ s[1] = x
        /\ t \in Seq(S) /\ Len(t) = 2 /\ t[1] = x /\ t[2] = y
    BY <1>1
  <2> HIDE DEF s, t, S
  <2>2. Append(s, y) \in Seq(S) /\ Len(Append(s, y)) = 2 /\ Append(s, y)[1] = x
        /\ Append(s, y)[2] = y
    <3>1. y \in S /\ 1 \in 1 .. Len(s)
      BY <1>1, <2>1 DEF S
    <3>2. /\ Append(s, y) \in Seq(S) /\ Len(Append(s, y)) = Len(s) + 1
          /\ (\A i \in 1 .. Len(s) : Append(s, y)[i] = s[i]) /\ Append(s, y)[Len(s) + 1] = y
      <4>1. s \in Seq(S) /\ y \in S
        BY <2>1, <3>1
      <4> QED  BY <4>1, AppendProperties
    <3> QED  BY <2>1, <3>1, <3>2
  <2>3. Append(s, y) = t
    BY <2>1, <2>2
  <2> QED  BY <2>3 DEF s, t
<1>4. Append(<<x, y>>, z) = <<x, y, z>>
  <2> DEFINE s == <<x, y>>
             t == <<x, y, z>>
  <2>1. /\ s \in Seq(S) /\ Len(s) = 2 /\ s[1] = x /\ s[2] = y
        /\ t \in Seq(S) /\ Len(t) = 3 /\ t[1] = x /\ t[2] = y /\ t[3] = z
    BY <1>1
  <2> HIDE DEF s, t, S
  <2>2. Append(s, z) \in Seq(S) /\ Len(Append(s, z)) = 3 /\ Append(s, z)[1] = x
        /\ Append(s, z)[2] = y /\ Append(s, z)[3] = z
    <3>1. z \in S /\ 1 \in 1 .. Len(s) /\ 2 \in 1 .. Len(s)
      BY <1>1, <2>1 DEF S
    <3>2. /\ Append(s, z) \in Seq(S) /\ Len(Append(s, z)) = Len(s) + 1
          /\ (\A i \in 1 .. Len(s) : Append(s, z)[i] = s[i]) /\ Append(s, z)[Len(s) + 1] = z
      BY <2>1, <3>1, AppendProperties
    <3> QED  BY <2>1, <3>1, <3>2
  <2>3. Append(s, z) = t
    BY <2>1, <2>2
  <2> QED  BY <2>3 DEF s, t
<1> QED  BY <1>2, <1>3, <1>4

(* Texts one after the other.                                                *)
LEMMA ConcatThree ==
  ASSUME NEW a \in Seq(Bytes), NEW b \in Seq(Bytes), NEW c \in Seq(Bytes)
  PROVE  Concat(<<a, b, c>>) = (a \o b) \o c /\ Concat(<<a, b>>) = a \o b /\ Concat(<<a>>) = a
<1>1. /\ <<>> \in Seq(Seq(Bytes)) /\ Append(<<>>, a) = <<a>> /\ <<a>> \in Seq(Seq(Bytes))
      /\ Append(<<a>>, b) = <<a, b>> /\ <<a, b>> \in Seq(Seq(Bytes))
      /\ Append(<<a, b>>, c) = <<a, b, c>> /\ <<>> \o a = a
  <2>1. /\ <<>> \in Seq(Seq(Bytes)) /\ <<a>> \in Seq(Seq(Bytes)) /\ <<a, b>> \in Seq(Seq(Bytes))
    OBVIOUS
  <2>2. /\ Append(<<>>, a) = <<a>> /\ Append(<<a>>, b) = <<a, b>>
        /\ Append(<<a, b>>, c) = <<a, b, c>>
    BY Tuples, Zenon
  <2>3. <<>> \o a = a
    BY ConcatEmptySeq
  <2> QED  BY <2>1, <2>2, <2>3
<1>2. Concat(<<a>>) = a
  <2>1. Concat(Append(<<>>, a)) = Concat(<<>>) \o a
    BY <1>1, ConcatSteps
  <2> QED  BY <1>1, <2>1, ConcatSteps
<1>3. Concat(<<a, b>>) = a \o b
  <2>1. Concat(Append(<<a>>, b)) = Concat(<<a>>) \o b
    BY <1>1, ConcatSteps
  <2> QED  BY <1>1, <1>2, <2>1
<1>4. Concat(<<a, b, c>>) = (a \o b) \o c
  <2>1. Concat(Append(<<a, b>>, c)) = Concat(<<a, b>>) \o c
    BY <1>1, ConcatSteps
  <2> QED  BY <1>1, <1>3, <2>1
<1> QED  BY <1>2, <1>3, <1>4

(* A header has the size that handleHeader asks for.                         *)
LEMMA HeaderLength ==
  ASSUME NEW type \in Types, NEW length \in Nat
  PROVE  HeaderBytes(type, length) \in Seq(Bytes) /\ Len(HeaderBytes(type, length)) = HeaderSize
         /\ HeaderSize \in Nat \ {0}
<1> DEFINE a == Digits(MAGIC, 4)
           b == Padded(TypeAsString(type))
           c == Digits(length, 8)
<1>1. a \in Seq(Bytes) /\ Len(a) = 4 /\ c \in Seq(Bytes) /\ Len(c) = 8
  <2>1. MAGIC \in Nat
    BY DEF MAGIC
  <2> QED  BY <2>1, DigitsType
<1>2. b \in Seq(Bytes) /\ Len(b) = NameLength /\ NameLength \in Nat
  BY NameTyped, BufferSizeAssumption
<1>3. HeaderBytes(type, length) = Concat(<<a, b, c>>)
  BY DEF HeaderBytes
<1> HIDE DEF a, b, c
<1>4. Concat(<<a, b, c>>) = (a \o b) \o c
  BY <1>1, <1>2, ConcatThree
<1>5. (a \o b) \o c \in Seq(Bytes) /\ Len((a \o b) \o c) = 4 + NameLength + 8
  <2> DEFINE ab == a \o b
  <2>1. ab \in Seq(Bytes) /\ Len(ab) = 4 + NameLength
    BY <1>1, <1>2, CutConcat
  <2> HIDE DEF ab
  <2>2. ab \o c \in Seq(Bytes) /\ Len(ab \o c) = 4 + NameLength + 8
    BY <1>1, <1>2, <2>1, CutConcat
  <2> QED  BY <2>2 DEF ab
<1>6. HeaderSize = 4 + NameLength + 8 /\ HeaderSize \in Nat \ {0}
  BY <1>2 DEF HeaderSize
<1> QED  BY <1>3, <1>4, <1>5, <1>6

(* A whole frame arrives with the payload that it was made of, and leaves    *)
(* what follows it, whatever the memory of either end; its type is what the  *)
(* array of its name shows (Message::byteRepr, handleHeader, handleMessage,  *)
(* getTypeFromString).                                                       *)
THEOREM FrameArrives ==
  ASSUME NEW type \in Types, NEW payload \in Seq(Bytes), Len(payload) < Power[8],
         NEW memory \in Memories, NEW rest \in Seq(Bytes)
  PROVE  Arrived((HeaderBytes(type, Len(payload)) \o payload) \o rest, memory) =
           [type |-> FoundType(type, memory), payload |-> payload, rest |-> rest]
<1> DEFINE n == Len(payload)
           head == HeaderBytes(type, n)
           bytes == (head \o payload) \o rest
           after == payload \o rest
           shown == Fill(TypeAsString(type), NameLength, memory)
           magic == Number(Digits(MAGIC, 4))
<1>1. head \in Seq(Bytes) /\ Len(head) = HeaderSize
  BY HeaderLength
<1>2. Carries(MessageHeader(memory), head, <<magic, shown, n>>)
  BY HeaderCarries
<1>3. TypeFromString(shown) = FoundType(type, memory)
  BY DEF FoundType
<1>4. after \in Seq(Bytes)
  BY Joined
<1> HIDE DEF head, magic, shown
<1>5. bytes = head \o after
  BY <1>1
<1>6. SubSeq(bytes, 1, HeaderSize) = head
  <2> HIDE DEF after, bytes
  <2> QED  BY <1>1, <1>4, <1>5, CutConcat
<1>7. SubSeq(bytes, HeaderSize + 1, Len(bytes)) = after
  <2> HIDE DEF after, bytes
  <2> QED  BY <1>1, <1>4, <1>5, CutConcat
<1>8. MessageHeader(memory)[Stream(head)].value = <<magic, shown, n>>
  <2>1. head \o <<>> = head /\ <<>> \in Seq(Bytes)
    BY <1>1, ConcatEmptySeq
  <2> DEFINE reader == MessageHeader(memory)
             v == <<magic, shown, n>>
  <2> HIDE DEF reader, v
  <2>2. reader[Stream(head \o <<>>)] = [value |-> v, stream |-> Stream(<<>>)]
    BY <1>2, <2>1, Zenon DEF Carries, reader, v
  <2>3. reader[Stream(head)].value = v
    BY <2>1, <2>2
  <2> QED  BY <2>3 DEF reader, v
<1>9. SubSeq(after, 1, n) = payload /\ SubSeq(after, n + 1, Len(after)) = rest
  BY CutConcat
<1> DEFINE h == <<magic, shown, n>>
<1>10. h[2] = shown /\ h[3] = n
  OBVIOUS
<1> HIDE DEF after, h, n, bytes
<1>11. MessageHeader(memory)[Stream(SubSeq(bytes, 1, HeaderSize))].value = h
  BY <1>6, <1>8 DEF h
<1>12. Arrived(bytes, memory) =
         [type |-> TypeFromString(h[2]), payload |-> SubSeq(after, 1, h[3]),
          rest |-> SubSeq(after, h[3] + 1, Len(after))]
  BY <1>7, <1>11, Zenon DEF Arrived
<1> QED  BY <1>3, <1>9, <1>10, <1>12 DEF bytes, head, n

(* A name that has NULs behind it is found under its own type.               *)
LEMMA FoundBeforeNULs ==
  ASSUME NEW type \in Types, NEW memory, memory.residue = [i \in 1 .. BufferSize |-> 0]
  PROVE  FoundType(type, memory) = type
<1>1. NameLength \in Nat /\ NameLength <= BufferSize
  BY LengthsAssumption, BufferSizeAssumption
<1>2. \A i \in 1 .. NameLength : memory.residue[i] = 0
  <2> DEFINE NULs == [i \in 1 .. BufferSize |-> 0]
  <2>1. \A i \in 1 .. NameLength : i \in 1 .. BufferSize
    BY <1>1, BufferSizeAssumption
  <2>2. \A i \in 1 .. NameLength : NULs[i] = 0
    BY <2>1
  <2> HIDE DEF NULs
  <2>3. memory.residue = NULs
    BY DEF NULs
  <2> QED  BY <2>2, <2>3
<1>3. Fill(TypeAsString(type), NameLength, memory) = Padded(TypeAsString(type))
  BY <1>2, Zenon DEF Fill, Padded
<1> QED  BY <1>3, FoundAssumption DEF FoundType, TypeAsString

-----------------------------------------------------------------------------
\* The records, and the messages that are made of them.

\* Memory in which nothing follows a C string.
Plain == {memory \in Memories : memory.beyond = <<>>}

(* A number comes back in the width that it fits.                            *)
LEMMA NumberCarries ==
  ASSUME NEW n \in Nat, NEW v \in Uints(n)
  PROVE  Carries(Uint(n), Digits(v, n), v)
<1>1. v \in Nat /\ v < Power[n]
  BY Powers DEF Uints
<1> QED  BY <1>1, UintCarries

(* An array of clean elements, each written by a text of its own.            *)
LEMMA ArrayOf ==
  ASSUME NEW reader, NEW V, NEW values \in Seq(V), Len(values) < Power[8],
         CleanUint(Len(values)), NEW texts, texts = [i \in DOMAIN values |-> texts[i]],
         \A i \in DOMAIN values : Carries(reader, texts[i], values[i])
  PROVE  Carries(Array(reader), Counted(texts), values)
<1>1. DOMAIN values = 1 .. Len(values) /\ Len(values) \in Nat
  OBVIOUS
<1>2. \A i \in 1 .. Len(values) : texts[i] \in Seq(Bytes)
  BY <1>1 DEF Carries
<1>3. texts \in Seq(Seq(Bytes)) /\ Len(texts) = Len(values)
  <2> DEFINE n == Len(values)
  <2>1. texts \in [1 .. n -> Seq(Bytes)]
    BY <1>1, <1>2, Zenon
  <2>2. n \in Nat
    BY <1>1
  <2> HIDE DEF n
  <2>3. texts \in Seq(Seq(Bytes)) /\ Len(texts) = n
    BY <2>1, <2>2
  <2> QED  BY <2>3 DEF n
<1> QED  BY <1>1, <1>3, ArrayCarries

(* An array of a clean length, each of whose elements is read as what its    *)
(* own text is read as.                                                      *)
LEMMA CleanArray ==
  ASSUME NEW S, NEW reader, NEW v \in CleanArrays(S), NEW texts,
         texts = [i \in DOMAIN v |-> texts[i]], NEW read, read = [i \in DOMAIN v |-> read[i]],
         \A i \in DOMAIN v : Carries(reader, texts[i], read[i])
  PROVE  Carries(Array(reader), Counted(texts), read)
<1> DEFINE V == {read[i] : i \in DOMAIN v}
           n == Len(v)
<1>1. v \in Seq(S) /\ n < Power[8] /\ CleanUint(n) /\ n \in Nat /\ DOMAIN v = 1 .. n
  BY DEF CleanArrays
<1>2. read \in [1 .. n -> V]
  <2> HIDE DEF n
  <2>1. \A i \in 1 .. n : read[i] \in V
    BY <1>1
  <2>2. read = [i \in 1 .. n |-> read[i]]
    BY <1>1, Zenon
  <2> HIDE DEF V
  <2> QED  BY <2>1, <2>2, Zenon
<1> HIDE DEF V, n
<1>3. read \in Seq(V) /\ Len(read) = n /\ DOMAIN read = 1 .. n
  BY <1>1, <1>2
<1>4. texts = [i \in DOMAIN read |-> texts[i]]
      /\ \A i \in DOMAIN read : Carries(reader, texts[i], read[i])
  BY <1>1, <1>3, Zenon
<1>5. Len(read) < Power[8] /\ CleanUint(Len(read))
  BY <1>1, <1>3, Zenon
<1> QED  BY <1>3, <1>4, <1>5, ArrayOf

(* An array has elements of its set.                                         *)
LEMMA CleanElement ==
  ASSUME NEW S, NEW v \in CleanArrays(S), NEW i \in DOMAIN v
  PROVE  v[i] \in S
BY DEF CleanArrays

(* The texts of an array, each with what follows it in memory.               *)
LEMMA TextsCarry ==
  ASSUME NEW v \in CleanArrays(CleanTexts), NEW memory \in Memories
  PROVE  Carries(Array(Text(memory)), TextsBytes(v), TextsRead(v, memory))
<1> DEFINE texts == [i \in DOMAIN v |-> VarStr(v[i])]
           read == TextsRead(v, memory)
<1>1. \A i \in DOMAIN v : Carries(Text(memory), VarStr(v[i]), v[i] \o memory.beyond)
  BY CleanElement, TextCarries
<1>2. texts = [i \in DOMAIN v |-> texts[i]] /\ \A i \in DOMAIN v : texts[i] = VarStr(v[i])
  OBVIOUS
<1>3. read = [i \in DOMAIN v |-> read[i]] /\ \A i \in DOMAIN v : read[i] = v[i] \o memory.beyond
  BY DEF TextsRead
<1> HIDE DEF texts, read
<1>4. \A i \in DOMAIN v : Carries(Text(memory), texts[i], read[i])
  BY <1>1, <1>2, <1>3
<1>5. Carries(Array(Text(memory)), Counted(texts), read)
  BY <1>2, <1>3, <1>4, CleanArray
<1> QED  BY <1>5 DEF texts, TextsBytes, read

(* An array of hashes (GetBlocks).                                           *)
LEMMA HashesCarry ==
  ASSUME NEW v \in CleanArrays(CleanHashes), NEW memory \in Memories, NEW written
  PROVE  Carries(Array(Hash(memory)), Counted([i \in DOMAIN v |-> HashBytes(v[i], written)]), v)
<1> DEFINE texts == [i \in DOMAIN v |-> HashBytes(v[i], written)]
<1>1. \A i \in DOMAIN v : Carries(Hash(memory), HashBytes(v[i], written), v[i])
  BY CleanElement, HashCarries
<1>2. texts = [i \in DOMAIN v |-> texts[i]]
      /\ \A i \in DOMAIN v : texts[i] = HashBytes(v[i], written)
  OBVIOUS
<1>3. v = [i \in DOMAIN v |-> v[i]]
  BY DEF CleanArrays
<1> HIDE DEF texts
<1>4. \A i \in DOMAIN v : Carries(Hash(memory), texts[i], v[i])
  BY <1>1, <1>2
<1>5. Carries(Array(Hash(memory)), Counted(texts), v)
  BY <1>2, <1>3, <1>4, CleanArray
<1> QED  BY <1>5 DEF texts

(* An address of the network, NULs or not (Address).                         *)
LEMMA AddressCarries ==
  ASSUME NEW v \in CleanAddresses, NEW memory \in Memories, NEW written
  PROVE  Carries(Address(memory), AddressBytes(v, written), AddressRead(v, memory))
<1> DEFINE text == v[2]
           shown == Fill(CString(text \o memory.beyond), IPLength, memory)
<1>1. /\ v[1] \in Uints(8) /\ text \in Seq(Bytes) /\ Len(text) = IPLength /\ v[3] \in Uints(2)
  BY DEF CleanAddresses
<1>2. IPLength \in Nat /\ IPLength <= BufferSize
  BY LengthsAssumption, BufferSizeAssumption
<1>3. Carries(Uint(8), Digits(v[1], 8), v[1]) /\ Carries(Uint(2), Digits(v[3], 2), v[3])
  BY <1>1, NumberCarries
<1> HIDE DEF text
<1>4. Carries(Fixed(IPLength, memory), Fill(text, IPLength, written), shown)
  <2>1. Fill(text, Len(text), written) = text
    BY <1>1, Filled
  <2>2. Carries(Fixed(IPLength, memory), text, Fill(CString(text \o memory.beyond), IPLength, memory))
    BY <1>1, <1>2, FixedShows
  <2> QED  BY <1>1, <2>1, <2>2
<1> HIDE DEF shown
<1>5. Carries(Struct(<<Uint(8), Fixed(IPLength, memory), Uint(2)>>),
              Concat(<<Digits(v[1], 8), Fill(text, IPLength, written), Digits(v[3], 2)>>),
              <<v[1], shown, v[3]>>)
  BY <1>3, <1>4, ThreeCarry
<1> QED  BY <1>5, Zenon DEF Address, AddressBytes, AddressRead, text, shown

(* An array of addresses (Addr).                                             *)
LEMMA AddressesCarry ==
  ASSUME NEW v \in CleanArrays(CleanAddresses), NEW memory \in Memories, NEW written
  PROVE  Carries(Array(Address(memory)), Counted([i \in DOMAIN v |-> AddressBytes(v[i], written)]),
                 [i \in DOMAIN v |-> AddressRead(v[i], memory)])
<1> DEFINE texts == [i \in DOMAIN v |-> AddressBytes(v[i], written)]
           read == [i \in DOMAIN v |-> AddressRead(v[i], memory)]
<1>1. \A i \in DOMAIN v :
        Carries(Address(memory), AddressBytes(v[i], written), AddressRead(v[i], memory))
  BY CleanElement, AddressCarries
<1>2. texts = [i \in DOMAIN v |-> texts[i]] /\ read = [i \in DOMAIN v |-> read[i]]
      /\ \A i \in DOMAIN v : texts[i] = AddressBytes(v[i], written)
                             /\ read[i] = AddressRead(v[i], memory)
  OBVIOUS
<1> HIDE DEF texts, read
<1>3. \A i \in DOMAIN v : Carries(Address(memory), texts[i], read[i])
  BY <1>1, <1>2
<1>4. Carries(Array(Address(memory)), Counted(texts), read)
  BY <1>2, <1>3, CleanArray
<1> QED  BY <1>4 DEF texts, read

(* What an input spends (TransactionIdentifier).                             *)
LEMMA IdentifierCarries ==
  ASSUME NEW v \in CleanIdentifiers, NEW memory \in Memories, NEW written
  PROVE  Carries(TransactionIdentifier(memory), TransactionIdentifierBytes(v, written), v)
<1>1. /\ v = <<v[1], v[2]>> /\ v[1] \in CleanHashes /\ v[2] \in Uints(8) /\ CleanUint(v[2])
  BY DEF CleanIdentifiers
<1>2. v[2] \in Nat /\ v[2] < Power[8]
  BY <1>1, Powers DEF Uints
<1>3. Carries(Hash(memory), HashBytes(v[1], written), v[1])
  BY <1>1, HashCarries
<1>4. Carries(VarU, VarUint(v[2]), v[2])
  BY <1>1, <1>2, VarUCarries
<1>5. Carries(Struct(<<Hash(memory), VarU>>),
              Concat(<<HashBytes(v[1], written), VarUint(v[2])>>), <<v[1], v[2]>>)
  BY <1>3, <1>4, TwoCarry
<1> QED  BY <1>1, <1>5, Zenon DEF TransactionIdentifier, TransactionIdentifierBytes

(* An input of a transaction (InputTransaction).                             *)
LEMMA InputCarries ==
  ASSUME NEW v \in CleanIdentifiers \X CleanTexts, NEW memory \in Memories, NEW written
  PROVE  Carries(InputTransaction(memory), InputTransactionBytes(v, written), Grown(v, memory))
<1>1. v[1] \in CleanIdentifiers /\ v[2] \in CleanTexts
  OBVIOUS
<1>2. /\ Carries(TransactionIdentifier(memory), TransactionIdentifierBytes(v[1], written), v[1])
      /\ Carries(Text(memory), VarStr(v[2]), v[2] \o memory.beyond)
  BY <1>1, IdentifierCarries, TextCarries
<1>3. Carries(Struct(<<TransactionIdentifier(memory), Text(memory)>>),
              Concat(<<TransactionIdentifierBytes(v[1], written), VarStr(v[2])>>),
              <<v[1], v[2] \o memory.beyond>>)
  BY <1>2, TwoCarry
<1> QED  BY <1>3, Zenon DEF InputTransaction, InputTransactionBytes, Grown

(* An output of a transaction (OutputTransaction).                           *)
LEMMA OutputCarries ==
  ASSUME NEW v \in CleanOutputs, NEW memory \in Memories
  PROVE  Carries(OutputTransaction(memory), OutputTransactionBytes(v), Grown(v, memory))
<1>1. v[1] \in Uints(8) /\ v[2] \in CleanTexts
  BY DEF CleanOutputs
<1>2. Carries(Uint(8), Digits(v[1], 8), v[1])
      /\ Carries(Text(memory), VarStr(v[2]), v[2] \o memory.beyond)
  BY <1>1, NumberCarries, TextCarries
<1>3. Carries(Struct(<<Uint(8), Text(memory)>>), Concat(<<Digits(v[1], 8), VarStr(v[2])>>),
              <<v[1], v[2] \o memory.beyond>>)
  BY <1>2, TwoCarry
<1> QED  BY <1>3, Zenon DEF OutputTransaction, OutputTransactionBytes, Grown

(* A transaction, flags, inputs and outputs and all.                         *)
LEMMA TransactionCarries ==
  ASSUME NEW v \in CleanTransactions, NEW memory \in Memories, NEW written
  PROVE  Carries(Transaction(memory), TransactionBytes(v, written), TransactionRead(v, memory))
<1>1. /\ v[1] \in Uints(4) /\ v[2] \in CleanArrays(CleanTexts)
      /\ v[3] \in CleanArrays(CleanIdentifiers \X CleanTexts) /\ v[4] \in CleanArrays(CleanOutputs)
  BY DEF CleanTransactions
<1> DEFINE inputs == [i \in DOMAIN v[3] |-> InputTransactionBytes(v[3][i], written)]
           outputs == [i \in DOMAIN v[4] |-> OutputTransactionBytes(v[4][i])]
           spent == [i \in DOMAIN v[3] |-> Grown(v[3][i], memory)]
           created == [i \in DOMAIN v[4] |-> Grown(v[4][i], memory)]
<1>2. Carries(Uint(4), Digits(v[1], 4), v[1])
  BY <1>1, NumberCarries
<1>3. Carries(Array(Text(memory)), TextsBytes(v[2]), TextsRead(v[2], memory))
  BY <1>1, TextsCarry
<1>4. Carries(Array(InputTransaction(memory)), Counted(inputs), spent)
  <2>1. \A i \in DOMAIN v[3] :
          Carries(InputTransaction(memory), InputTransactionBytes(v[3][i], written),
                  Grown(v[3][i], memory))
    BY <1>1, CleanElement, InputCarries
  <2>2. inputs = [i \in DOMAIN v[3] |-> inputs[i]] /\ spent = [i \in DOMAIN v[3] |-> spent[i]]
        /\ \A i \in DOMAIN v[3] : inputs[i] = InputTransactionBytes(v[3][i], written)
                                  /\ spent[i] = Grown(v[3][i], memory)
    OBVIOUS
  <2> HIDE DEF inputs, spent
  <2>3. \A i \in DOMAIN v[3] : Carries(InputTransaction(memory), inputs[i], spent[i])
    BY <2>1, <2>2
  <2> QED  BY <1>1, <2>2, <2>3, CleanArray
<1>5. Carries(Array(OutputTransaction(memory)), Counted(outputs), created)
  <2>1. \A i \in DOMAIN v[4] :
          Carries(OutputTransaction(memory), OutputTransactionBytes(v[4][i]), Grown(v[4][i], memory))
    BY <1>1, CleanElement, OutputCarries
  <2>2. outputs = [i \in DOMAIN v[4] |-> outputs[i]]
        /\ created = [i \in DOMAIN v[4] |-> created[i]]
        /\ \A i \in DOMAIN v[4] : outputs[i] = OutputTransactionBytes(v[4][i])
                                  /\ created[i] = Grown(v[4][i], memory)
    OBVIOUS
  <2> HIDE DEF outputs, created
  <2>3. \A i \in DOMAIN v[4] : Carries(OutputTransaction(memory), outputs[i], created[i])
    BY <2>1, <2>2
  <2> QED  BY <1>1, <2>2, <2>3, CleanArray
<1> HIDE DEF inputs, outputs, spent, created
<1>6. Carries(Struct(<<Uint(4), Array(Text(memory)), Array(InputTransaction(memory)),
                       Array(OutputTransaction(memory))>>),
              Concat(<<Digits(v[1], 4), TextsBytes(v[2]), Counted(inputs), Counted(outputs)>>),
              <<v[1], TextsRead(v[2], memory), spent, created>>)
  BY <1>2, <1>3, <1>4, <1>5, FourCarry
<1> QED  BY <1>6, Zenon DEF Transaction, TransactionBytes, TransactionRead, inputs, outputs,
                           spent, created

(* A header of a block comes back but for its target, which is written as 0. *)
LEMMA BlockHeaderCarries ==
  ASSUME NEW v \in CleanHeaders, NEW memory \in Memories, NEW written
  PROVE  Carries(BlockHeader(memory), BlockHeaderBytes(v, written), BlockHeaderRead(v, memory))
<1>1. /\ v[1] \in Uints(4) /\ v[2] \in CleanArrays(CleanTexts) /\ v[3] \in CleanHashes
      /\ v[4] \in CleanHashes /\ v[5] \in Uints(8) /\ v[6] \in Uints(4) /\ v[8] \in Uints(8)
  BY DEF CleanHeaders
<1>2. Carries(Uint(4), Digits(v[1], 4), v[1]) /\ Carries(Uint(8), Digits(v[5], 8), v[5])
      /\ Carries(Uint(4), Digits(v[6], 4), v[6]) /\ Carries(Uint(8), Digits(v[8], 8), v[8])
  BY <1>1, NumberCarries
<1>3. Carries(BlockTarget, Digits(0, 4), 0)
  <2>1. 0 \in Uints(4)
    BY Powers DEF Uints
  <2> QED  BY <2>1, NumberCarries DEF BlockTarget
<1>4. Carries(Hash(memory), HashBytes(v[3], written), v[3])
      /\ Carries(Hash(memory), HashBytes(v[4], written), v[4])
  BY <1>1, HashCarries
<1> DEFINE flags == TextsRead(v[2], memory)
<1>5. Carries(Array(Text(memory)), TextsBytes(v[2]), flags)
  BY <1>1, TextsCarry
<1> HIDE DEF flags
<1>6. Carries(Struct(<<Uint(4), Array(Text(memory)), Hash(memory), Hash(memory), Uint(8),
                       Uint(4), BlockTarget, Uint(8)>>),
              Concat(<<Digits(v[1], 4), TextsBytes(v[2]), HashBytes(v[3], written),
                       HashBytes(v[4], written), Digits(v[5], 8), Digits(v[6], 4),
                       Digits(0, 4), Digits(v[8], 8)>>),
              <<v[1], flags, v[3], v[4], v[5], v[6], 0, v[8]>>)
  BY <1>2, <1>3, <1>4, <1>5, EightCarry
<1> QED  BY <1>6, Zenon DEF BlockHeader, BlockHeaderBytes, BlockHeaderRead, flags

(* A block is its header and its transactions.                               *)
LEMMA BlockCarries ==
  ASSUME NEW v \in CleanHeaders \X CleanArrays(CleanTransactions), NEW memory \in Memories,
         NEW written
  PROVE  Carries(Block(memory), BlockBytes(v, written),
                 <<BlockHeaderRead(v[1], memory),
                   [i \in DOMAIN v[2] |-> TransactionRead(v[2][i], memory)]>>)
<1> DEFINE texts == [i \in DOMAIN v[2] |-> TransactionBytes(v[2][i], written)]
           read == [i \in DOMAIN v[2] |-> TransactionRead(v[2][i], memory)]
<1>1. v[1] \in CleanHeaders /\ v[2] \in CleanArrays(CleanTransactions)
  OBVIOUS
<1>2. Carries(Array(Transaction(memory)), Counted(texts), read)
  <2>1. \A i \in DOMAIN v[2] :
          Carries(Transaction(memory), TransactionBytes(v[2][i], written),
                  TransactionRead(v[2][i], memory))
    BY <1>1, CleanElement, TransactionCarries
  <2>2. texts = [i \in DOMAIN v[2] |-> texts[i]] /\ read = [i \in DOMAIN v[2] |-> read[i]]
        /\ \A i \in DOMAIN v[2] : texts[i] = TransactionBytes(v[2][i], written)
                                  /\ read[i] = TransactionRead(v[2][i], memory)
    OBVIOUS
  <2> HIDE DEF texts, read
  <2>3. \A i \in DOMAIN v[2] : Carries(Transaction(memory), texts[i], read[i])
    BY <2>1, <2>2
  <2> QED  BY <1>1, <2>2, <2>3, CleanArray
<1> DEFINE header == BlockHeaderRead(v[1], memory)
<1>3. Carries(BlockHeader(memory), BlockHeaderBytes(v[1], written), header)
  BY <1>1, BlockHeaderCarries
<1> HIDE DEF texts, read, header
<1>4. Carries(Struct(<<BlockHeader(memory), Array(Transaction(memory))>>),
              Concat(<<BlockHeaderBytes(v[1], written), Counted(texts)>>), <<header, read>>)
  BY <1>2, <1>3, TwoCarry
<1> QED  BY <1>4, Zenon DEF Block, BlockBytes, texts, read, header

(* A resource comes back under the other type (Inv_vect).                    *)
LEMMA InvVectCarries ==
  ASSUME NEW v \in CleanInvVects, NEW memory \in Memories
  PROVE  Carries(InvVect(memory), InvVectBytes(v), ResourceRead(v, memory))
<1>1. v[1] \in {"blockRes", "txRes"} /\ v[2] \in CleanHashes
  BY DEF CleanInvVects
<1> DEFINE type == Swapped(v[1])
           hash == v[2] \o memory.beyond
<1>2. Carries(Resource, Digits(Code(v[1]), 4), type) /\ Carries(HashAsText(memory), Str(v[2]), hash)
  BY <1>1, ResourceCarries, HashAsTextCarries
<1>3. ResourceRead(v, memory) = <<type, hash>>
  BY DEF ResourceRead, Grown, Swapped
<1> HIDE DEF type, hash
<1>4. Carries(Struct(<<Resource, HashAsText(memory)>>),
              Concat(<<Digits(Code(v[1]), 4), Str(v[2])>>), <<type, hash>>)
  BY <1>2, TwoCarry
<1> QED  BY <1>3, <1>4, Zenon DEF InvVect, InvVectBytes

(* A list of resources comes back with every type changed.                   *)
LEMMA ResourcesCarry ==
  ASSUME NEW v \in CleanArrays(CleanInvVects), NEW memory \in Memories
  PROVE  Carries(Array(InvVect(memory)), Counted([i \in DOMAIN v |-> InvVectBytes(v[i])]),
                 [i \in DOMAIN v |-> ResourceRead(v[i], memory)])
<1> DEFINE texts == [i \in DOMAIN v |-> InvVectBytes(v[i])]
           read == [i \in DOMAIN v |-> ResourceRead(v[i], memory)]
<1>1. \A i \in DOMAIN v :
        Carries(InvVect(memory), InvVectBytes(v[i]), ResourceRead(v[i], memory))
  BY CleanElement, InvVectCarries
<1>2. texts = [i \in DOMAIN v |-> texts[i]] /\ read = [i \in DOMAIN v |-> read[i]]
      /\ \A i \in DOMAIN v : texts[i] = InvVectBytes(v[i]) /\ read[i] = ResourceRead(v[i], memory)
  OBVIOUS
<1> HIDE DEF texts, read
<1>3. \A i \in DOMAIN v : Carries(InvVect(memory), texts[i], read[i])
  BY <1>1, <1>2
<1>4. Carries(Array(InvVect(memory)), Counted(texts), read)
  BY <1>2, <1>3, CleanArray
<1> QED  BY <1>4 DEF texts, read

\* What an inventory is read as when nothing follows a C string in memory.
Swap(resource) == <<Swapped(resource[1]), resource[2]>>
SwapAll(list) == [i \in DOMAIN list |-> Swap(list[i])]

(* Then its hashes come back as they were.                                   *)
LEMMA InventoryCarries ==
  ASSUME NEW v \in CleanArrays(CleanInvVects), NEW memory \in Plain
  PROVE  Carries(Array(InvVect(memory)), Counted([i \in DOMAIN v |-> InvVectBytes(v[i])]),
                 SwapAll(v))
<1>1. memory \in Memories /\ memory.beyond = <<>>
  BY DEF Plain
<1>2. \A i \in DOMAIN v : ResourceRead(v[i], memory) = Swap(v[i])
  <2> TAKE i \in DOMAIN v
  <2> DEFINE r == v[i]
             hash == r[2]
  <2>1. hash \in Seq(Bytes)
    <3>1. r \in CleanInvVects
      BY CleanElement
    <3> HIDE DEF r
    <3> QED  BY <3>1 DEF CleanInvVects, CleanHashes, CleanTextsOf
  <2> HIDE DEF r
  <2>2. hash \o <<>> = hash
    BY <2>1, ConcatEmptySeq
  <2>3. ResourceRead(r, memory) = Swap(r)
    BY <1>1, <2>2 DEF ResourceRead, Grown, Swap, Swapped
  <2> QED  BY <2>3 DEF r
<1>3. [i \in DOMAIN v |-> ResourceRead(v[i], memory)] = SwapAll(v)
  BY <1>2, Zenon DEF SwapAll
<1> QED  BY <1>1, <1>3, ResourcesCarry

(* The constructor of every message takes its payload to the last byte,      *)
(* whatever memory holds, and for what it was but for the ways of ReadAs     *)
(* (the constructors and payload() of the messages).                         *)
THEOREM MessageCarries ==
  ASSUME NEW type \in Types, NEW v \in CleanPayloads(type), NEW memory \in Memories,
         NEW written
  PROVE  Carries(Message(type, memory), Payload(type, v, written), ReadAs(type, v, memory))
<1>1. CASE type = "whoami"
  <2> DEFINE address == AddressRead(v[2], memory)
             services == TextsRead(v[3], memory)
  <2>1. CleanPayloads(type) = Uints(4) \X CleanAddresses \X CleanArrays(CleanTexts)
    BY <1>1 DEF CleanPayloads
  <2>2. v[1] \in Uints(4) /\ v[2] \in CleanAddresses /\ v[3] \in CleanArrays(CleanTexts)
    BY <2>1
  <2>3. /\ Carries(Uint(4), Digits(v[1], 4), v[1])
        /\ Carries(Address(memory), AddressBytes(v[2], written), address)
        /\ Carries(Array(Text(memory)), TextsBytes(v[3]), services)
    BY <2>2, NumberCarries, AddressCarries, TextsCarry
  <2>4. ReadAs(type, v, memory) = <<v[1], address, services>>
    BY <1>1, Zenon DEF ReadAs
  <2> HIDE DEF address, services
  <2>5. Carries(Struct(<<Uint(4), Address(memory), Array(Text(memory))>>),
                Concat(<<Digits(v[1], 4), AddressBytes(v[2], written), TextsBytes(v[3])>>),
                <<v[1], address, services>>)
    BY <2>3, ThreeCarry
  <2>6. Message(type, memory) = Struct(<<Uint(4), Address(memory), Array(Text(memory))>>)
    BY <1>1 DEF Message
  <2>7. Payload(type, v, written) =
          Concat(<<Digits(v[1], 4), AddressBytes(v[2], written), TextsBytes(v[3])>>)
    BY <1>1 DEF Payload
  <2> QED  BY <2>4, <2>5, <2>6, <2>7, Zenon
<1>2. CASE type \in {"whoamiack", "getaddr", "getmempool"}
  <2>1. v = <<>>
    BY <1>2 DEF CleanPayloads
  <2>2. Message(type, memory) = Struct(<<>>) /\ Payload(type, v, written) = <<>>
    BY <1>2 DEF Message, Payload
  <2>3. Carries(Struct(<<>>), <<>>, <<>>)
    BY NoneCarry, StructCarries
  <2>4. ReadAs(type, v, memory) = v
    BY <1>2 DEF ReadAs
  <2> QED  BY <2>1, <2>2, <2>3, <2>4, Zenon
<1>3. CASE type = "addr"
  <2>1. v \in CleanArrays(CleanAddresses)
    BY <1>3 DEF CleanPayloads
  <2>2. Message(type, memory) = Array(Address(memory))
    BY <1>3 DEF Message
  <2>3. Payload(type, v, written) = Counted([i \in DOMAIN v |-> AddressBytes(v[i], written)])
    BY <1>3 DEF Payload
  <2>4. ReadAs(type, v, memory) = [i \in DOMAIN v |-> AddressRead(v[i], memory)]
    BY <1>3 DEF ReadAs
  <2>5. Carries(Array(Address(memory)), Counted([i \in DOMAIN v |-> AddressBytes(v[i], written)]),
                [i \in DOMAIN v |-> AddressRead(v[i], memory)])
    BY <2>1, AddressesCarry
  <2> QED  BY <2>2, <2>3, <2>4, <2>5, Zenon
<1>4. CASE type = "getblocks"
  <2> DEFINE texts == Counted([i \in DOMAIN v[1] |-> HashBytes(v[1][i], written)])
  <2>1. CleanPayloads(type) = CleanArrays(CleanHashes) \X CleanHashes
    BY <1>4 DEF CleanPayloads
  <2>2. v = <<v[1], v[2]>> /\ v[1] \in CleanArrays(CleanHashes) /\ v[2] \in CleanHashes
    BY <2>1
  <2>3. Carries(Array(Hash(memory)), texts, v[1])
    BY <2>2, HashesCarry
  <2>4. Carries(Hash(memory), Str(v[2]), v[2])
    <3>1. HashBytes(v[2], written) = Str(v[2])
      <4>1. v[2] \in Seq(Bytes) /\ Len(v[2]) = HashLength
        BY <2>2 DEF CleanHashes, CleanTextsOf
      <4> QED  BY <4>1, Filled DEF HashBytes, Str
    <3> QED  BY <2>2, <3>1, HashCarries
  <2>5. Message(type, memory) = Struct(<<Array(Hash(memory)), Hash(memory)>>)
    BY <1>4 DEF Message
  <2>6. Payload(type, v, written) = Concat(<<texts, Str(v[2])>>)
    BY <1>4 DEF Payload
  <2> HIDE DEF texts
  <2>7. Carries(Struct(<<Array(Hash(memory)), Hash(memory)>>), Concat(<<texts, Str(v[2])>>),
                <<v[1], v[2]>>)
    BY <2>3, <2>4, TwoCarry
  <2>8. ReadAs(type, v, memory) = v
    BY <1>4 DEF ReadAs
  <2> QED  BY <2>2, <2>5, <2>6, <2>7, <2>8, Zenon
<1>5. CASE type = "block"
  <2>1. v \in CleanHeaders \X CleanArrays(CleanTransactions)
    BY <1>5 DEF CleanPayloads
  <2>2. Message(type, memory) = Block(memory) /\ Payload(type, v, written) = BlockBytes(v, written)
    BY <1>5 DEF Message, Payload
  <2>3. ReadAs(type, v, memory) =
          <<BlockHeaderRead(v[1], memory),
            [i \in DOMAIN v[2] |-> TransactionRead(v[2][i], memory)]>>
    BY <1>5, Zenon DEF ReadAs
  <2> QED  BY <2>1, <2>2, <2>3, BlockCarries, Zenon
<1>6. CASE type = "tx"
  <2>1. v \in CleanTransactions
    BY <1>6 DEF CleanPayloads
  <2>2. Message(type, memory) = Transaction(memory)
        /\ Payload(type, v, written) = TransactionBytes(v, written)
    BY <1>6 DEF Message, Payload
  <2>3. ReadAs(type, v, memory) = TransactionRead(v, memory)
    BY <1>6, Zenon DEF ReadAs
  <2> QED  BY <2>1, <2>2, <2>3, TransactionCarries, Zenon
<1>7. CASE type \in {"inv", "getdata", "notfound"}
  <2>1. v \in CleanArrays(CleanInvVects)
    BY <1>7 DEF CleanPayloads
  <2>2. Message(type, memory) = Array(InvVect(memory))
    BY <1>7 DEF Message
  <2>3. Payload(type, v, written) = Counted([i \in DOMAIN v |-> InvVectBytes(v[i])])
    BY <1>7 DEF Payload
  <2>4. ReadAs(type, v, memory) = [i \in DOMAIN v |-> ResourceRead(v[i], memory)]
    BY <1>7 DEF ReadAs
  <2> QED  BY <2>1, <2>2, <2>3, <2>4, ResourcesCarry, Zenon
<1> QED  BY <1>1, <1>2, <1>3, <1>4, <1>5, <1>6, <1>7 DEF Types

-----------------------------------------------------------------------------
\* What was read is written with the same bytes.

(* What is clean has the same bytes whatever memory holds: no array shows    *)
(* more than what it was set to.                                             *)
LEMMA HashSame ==
  ASSUME NEW size, NEW text \in CleanTextsOf(size), NEW a, NEW b
  PROVE  Fill(text, size, a) = Fill(text, size, b)
<1>1. text \in Seq(Bytes) /\ Len(text) = size
  BY DEF CleanTextsOf
<1> QED  BY <1>1, Filled

(* The bytes of an identifier do not depend on what memory holds.            *)
LEMMA IdentifierSame ==
  ASSUME NEW v \in CleanIdentifiers, NEW a, NEW b
  PROVE  TransactionIdentifierBytes(v, a) = TransactionIdentifierBytes(v, b)
<1>1. v[1] \in CleanTextsOf(HashLength)
  BY DEF CleanIdentifiers, CleanHashes
<1>2. Fill(v[1], HashLength, a) = Fill(v[1], HashLength, b)
  BY <1>1, HashSame
<1> QED  BY <1>2, Zenon DEF TransactionIdentifierBytes, HashBytes

(* Nor do those of a transaction.                                            *)
LEMMA TransactionSame ==
  ASSUME NEW v \in CleanTransactions, NEW a, NEW b
  PROVE  TransactionBytes(v, a) = TransactionBytes(v, b)
<1>1. v[3] \in CleanArrays(CleanIdentifiers \X CleanTexts)
  BY DEF CleanTransactions
<1>2. \A i \in DOMAIN v[3] : InputTransactionBytes(v[3][i], a) = InputTransactionBytes(v[3][i], b)
  <2> TAKE i \in DOMAIN v[3]
  <2> DEFINE input == v[3][i]
  <2>1. input \in CleanIdentifiers \X CleanTexts
    BY <1>1, CleanElement
  <2>2. input[1] \in CleanIdentifiers
    BY <2>1
  <2> HIDE DEF input
  <2>3. TransactionIdentifierBytes(input[1], a) = TransactionIdentifierBytes(input[1], b)
    BY <2>2, IdentifierSame
  <2>4. InputTransactionBytes(input, a) = InputTransactionBytes(input, b)
    BY <2>3, Zenon DEF InputTransactionBytes
  <2> QED  BY <2>4 DEF input
<1>3. [i \in DOMAIN v[3] |-> InputTransactionBytes(v[3][i], a)] =
        [i \in DOMAIN v[3] |-> InputTransactionBytes(v[3][i], b)]
  BY <1>2, Zenon
<1> QED  BY <1>3, Zenon DEF TransactionBytes

(* Nor do those of a block, and its target leaves no trace in them.          *)
LEMMA BlockSame ==
  ASSUME NEW header \in CleanHeaders, NEW txs \in CleanArrays(CleanTransactions), NEW bare,
         bare = <<header[1], header[2], header[3], header[4], header[5], header[6], 0, header[8]>>,
         NEW a, NEW b
  PROVE  BlockBytes(<<bare, txs>>, a) = BlockBytes(<<header, txs>>, b)
<1>1. header[3] \in CleanTextsOf(HashLength) /\ header[4] \in CleanTextsOf(HashLength)
  BY DEF CleanHeaders, CleanHashes
<1>2. HashBytes(header[3], a) = HashBytes(header[3], b)
      /\ HashBytes(header[4], a) = HashBytes(header[4], b)
  BY <1>1, HashSame DEF HashBytes
<1>3. /\ bare[1] = header[1] /\ bare[2] = header[2] /\ bare[3] = header[3]
      /\ bare[4] = header[4] /\ bare[5] = header[5] /\ bare[6] = header[6]
      /\ bare[8] = header[8]
  OBVIOUS
<1>4. BlockHeaderBytes(bare, a) = BlockHeaderBytes(header, b)
  BY <1>2, <1>3, Zenon DEF BlockHeaderBytes
<1>5. \A i \in DOMAIN txs : TransactionBytes(txs[i], a) = TransactionBytes(txs[i], b)
  BY CleanElement, TransactionSame
<1>6. [i \in DOMAIN txs |-> TransactionBytes(txs[i], a)] =
        [i \in DOMAIN txs |-> TransactionBytes(txs[i], b)]
  BY <1>5, Zenon
<1> DEFINE read == <<bare, txs>>
           v == <<header, txs>>
<1>7. read[1] = bare /\ read[2] = txs /\ v[1] = header /\ v[2] = txs
  OBVIOUS
<1> HIDE DEF read, v
<1>8. BlockBytes(read, a) = Concat(<<BlockHeaderBytes(bare, a),
                                     Counted([i \in DOMAIN txs |-> TransactionBytes(txs[i], a)])>>)
  BY <1>7, Zenon DEF BlockBytes
<1>9. BlockBytes(v, b) = Concat(<<BlockHeaderBytes(header, b),
                                  Counted([i \in DOMAIN txs |-> TransactionBytes(txs[i], b)])>>)
  BY <1>7, Zenon DEF BlockBytes
<1>10. BlockBytes(read, a) = BlockBytes(v, b)
  BY <1>4, <1>6, <1>8, <1>9, Zenon
<1> QED  BY <1>10 DEF read, v

(* Texts that nothing follows in memory are read as they were.               *)
LEMMA TextsStay ==
  ASSUME NEW memory, memory.beyond = <<>>
  PROVE  /\ \A v \in CleanArrays(CleanTexts) : TextsRead(v, memory) = v
         /\ \A S, v : v \in CleanArrays(S \X CleanTexts) =>
              [i \in DOMAIN v |-> Grown(v[i], memory)] = v
<1>1. \A t \in CleanTexts : t \o memory.beyond = t
  <2> TAKE t \in CleanTexts
  <2>1. t \in Seq(Bytes)
    BY DEF CleanTexts
  <2>2. t \o <<>> = t
    BY <2>1, ConcatEmptySeq
  <2> QED  BY <2>2
<1>2. \A S : \A v \in CleanArrays(S) : v = [i \in DOMAIN v |-> v[i]]
  BY DEF CleanArrays
<1>3. ASSUME NEW v \in CleanArrays(CleanTexts) PROVE TextsRead(v, memory) = v
  <2>1. \A i \in DOMAIN v : v[i] \o memory.beyond = v[i]
    BY <1>1, CleanElement
  <2>2. TextsRead(v, memory) = [i \in DOMAIN v |-> v[i]]
    BY <2>1, Zenon DEF TextsRead
  <2> QED  BY <1>2, <2>2, Zenon
<1>4. ASSUME NEW S, NEW v, v \in CleanArrays(S \X CleanTexts)
      PROVE  [i \in DOMAIN v |-> Grown(v[i], memory)] = v
  <2>1. \A i \in DOMAIN v : Grown(v[i], memory) = v[i]
    <3> TAKE i \in DOMAIN v
    <3> DEFINE p == v[i]
    <3>1. p \in S \X CleanTexts
      BY <1>4, CleanElement
    <3> HIDE DEF p
    <3>2. p = <<p[1], p[2]>> /\ p[2] \o memory.beyond = p[2]
      BY <1>1, <3>1
    <3>3. Grown(p, memory) = p
      BY <3>2, Zenon DEF Grown
    <3> QED  BY <3>3 DEF p
  <2>2. [i \in DOMAIN v |-> Grown(v[i], memory)] = [i \in DOMAIN v |-> v[i]]
    BY <2>1, Zenon
  <2> QED  BY <1>2, <1>4, <2>2, Zenon
<1> QED  BY <1>3, <1>4

(* So is a transaction.                                                      *)
LEMMA TransactionStays ==
  ASSUME NEW v \in CleanTransactions, NEW memory, memory.beyond = <<>>
  PROVE  TransactionRead(v, memory) = v
<1>1. /\ v = <<v[1], v[2], v[3], v[4]>> /\ v[2] \in CleanArrays(CleanTexts)
      /\ v[3] \in CleanArrays(CleanIdentifiers \X CleanTexts)
      /\ v[4] \in CleanArrays(Uints(8) \X CleanTexts)
  BY DEF CleanTransactions, CleanOutputs
<1>2. /\ TextsRead(v[2], memory) = v[2]
      /\ [i \in DOMAIN v[3] |-> Grown(v[3][i], memory)] = v[3]
      /\ [i \in DOMAIN v[4] |-> Grown(v[4][i], memory)] = v[4]
  BY <1>1, TextsStay
<1> QED  BY <1>1, <1>2, Zenon DEF TransactionRead

(* A transaction or a block that nothing follows in memory is read as what   *)
(* has the same bytes, whatever memory holds when either is written: a hash  *)
(* taken over them is the same on both ends (Transaction, Block, payload()). *)
THEOREM PayloadSame ==
  ASSUME NEW type \in {"tx", "block"}, NEW v \in CleanPayloads(type), NEW memory,
         memory.beyond = <<>>, NEW a, NEW b
  PROVE  Payload(type, ReadAs(type, v, memory), a) = Payload(type, v, b)
<1>1. CASE type = "block"
  <2> DEFINE header == v[1]
             txs == v[2]
             bare == BlockHeaderRead(header, memory)
  <2>1. v \in CleanHeaders \X CleanArrays(CleanTransactions)
    BY <1>1 DEF CleanPayloads
  <2>2. header \in CleanHeaders /\ txs \in CleanArrays(CleanTransactions) /\ v = <<header, txs>>
    BY <2>1
  <2>3. \A u, m : Payload(type, u, m) = BlockBytes(u, m)
    BY <1>1 DEF Payload
  <2>4. ReadAs(type, v, memory) = <<bare, [i \in DOMAIN txs |-> TransactionRead(txs[i], memory)]>>
    BY <1>1, Zenon DEF ReadAs
  <2> HIDE DEF header, txs
  <2>5. bare = <<header[1], header[2], header[3], header[4], header[5], header[6], 0, header[8]>>
    <3>1. header[2] \in CleanArrays(CleanTexts)
      BY <2>2 DEF CleanHeaders
    <3>2. TextsRead(header[2], memory) = header[2]
      BY <3>1, TextsStay
    <3> QED  BY <3>2, Zenon DEF BlockHeaderRead
  <2>6. [i \in DOMAIN txs |-> TransactionRead(txs[i], memory)] = txs
    <3>1. \A i \in DOMAIN txs : TransactionRead(txs[i], memory) = txs[i]
      BY <2>2, CleanElement, TransactionStays
    <3>2. txs = [i \in DOMAIN txs |-> txs[i]]
      BY <2>2 DEF CleanArrays
    <3>3. [i \in DOMAIN txs |-> TransactionRead(txs[i], memory)] = [i \in DOMAIN txs |-> txs[i]]
      BY <3>1, Zenon
    <3> QED  BY <3>2, <3>3, Zenon
  <2> HIDE DEF bare
  <2>7. BlockBytes(<<bare, txs>>, a) = BlockBytes(<<header, txs>>, b)
    BY <2>2, <2>5, BlockSame
  <2>8. Payload(type, ReadAs(type, v, memory), a) = BlockBytes(<<bare, txs>>, a)
    BY <2>3, <2>4, <2>6, Zenon
  <2>9. Payload(type, v, b) = BlockBytes(<<header, txs>>, b)
    BY <2>2, <2>3, Zenon
  <2> QED  BY <2>7, <2>8, <2>9, Zenon
<1>2. CASE type = "tx"
  <2>1. v \in CleanTransactions
    BY <1>2 DEF CleanPayloads
  <2>2. \A u, m : Payload(type, u, m) = TransactionBytes(u, m)
    BY <1>2 DEF Payload
  <2>3. ReadAs(type, v, memory) = v
    BY <1>2, <2>1, TransactionStays, Zenon DEF ReadAs
  <2>4. TransactionBytes(v, a) = TransactionBytes(v, b)
    BY <2>1, TransactionSame
  <2> QED  BY <2>2, <2>3, <2>4, Zenon
<1> QED  BY <1>1, <1>2

-----------------------------------------------------------------------------
\* What is chosen of a sequence.

(* Those of one element more.                                                *)
LEMMA ThoseSteps ==
  ASSUME NEW S
  PROVE  /\ Those(<<>>, S) = <<>>
         /\ \A X : \A seq \in Seq(X), e \in X :
              /\ e \in S => Those(Append(seq, e), S) = Append(Those(seq, S), e)
              /\ e \notin S => Those(Append(seq, e), S) = Those(seq, S)
<1>1. \A seq : W!Fold(S, seq) = Those(seq, S)
  BY DEF W!Fold, Those, FoldLeft, W!FoldLeft, W!MapThenFoldSet, MapThenFoldSet, W!Max, Max,
         Select, FromNothing
<1>2. Those(<<>>, S) = <<>>
  BY <1>1, W!FoldEmpty DEF FromNothing
<1>3. ASSUME NEW X, NEW seq \in Seq(X), NEW e \in X
      PROVE  /\ e \in S => Those(Append(seq, e), S) = Append(Those(seq, S), e)
             /\ e \notin S => Those(Append(seq, e), S) = Those(seq, S)
  <2>1. W!Fold(S, Append(seq, e)) = Select(S, W!Fold(S, seq), e)
    BY W!FoldAppend
  <2> QED  BY <1>1, <2>1 DEF Select
<1> QED  BY <1>2, <1>3

(* The same, to be cited for one sequence.                                   *)
LEMMA ThoseNext ==
  ASSUME NEW S, NEW X, NEW seq \in Seq(X), NEW e \in X
  PROVE  /\ e \in S => Those(Append(seq, e), S) = Append(Those(seq, S), e)
         /\ e \notin S => Those(Append(seq, e), S) = Those(seq, S)
BY ThoseSteps

(* What is chosen of a beginning grows by the next element, or does not.     *)
LEMMA ThoseLess ==
  ASSUME NEW X, NEW seq \in Seq(X), NEW S, NEW k \in 0 .. Len(seq) - 1
  PROVE  Those(SubSeq(seq, 1, k + 1), S) =
           IF seq[k + 1] \in S THEN Append(Those(SubSeq(seq, 1, k), S), seq[k + 1])
           ELSE Those(SubSeq(seq, 1, k), S)
<1>1. /\ SubSeq(seq, 1, k + 1) = Append(SubSeq(seq, 1, k), seq[k + 1]) /\ seq[k + 1] \in X
      /\ SubSeq(seq, 1, k) \in Seq(X)
  BY Beginnings
<1> DEFINE front == SubSeq(seq, 1, k)
           e == seq[k + 1]
<1> HIDE DEF front, e
<1>2. /\ e \in S => Those(Append(front, e), S) = Append(Those(front, S), e)
      /\ e \notin S => Those(Append(front, e), S) = Those(front, S)
  <2>1. front \in Seq(X) /\ e \in X
    BY <1>1 DEF front, e
  <2> QED  BY <2>1, ThoseNext
<1> QED  BY <1>1, <1>2, Zenon DEF front, e

(* Those of a sequence are of the sequence, and no more than it has.         *)
LEMMA ThoseTyped ==
  ASSUME NEW X, NEW seq \in Seq(X), NEW S
  PROVE  Those(seq, S) \in Seq(X \cap S) /\ Len(Those(seq, S)) <= Len(seq)
<1> DEFINE those(k) == Those(SubSeq(seq, 1, k), S)
           Q(k) == those(k) \in Seq(X \cap S) /\ Len(those(k)) <= k
           Good == {k \in Nat : k <= Len(seq) => Q(k)}
<1>1. 0 \in Good
  <2>1. those(0) = <<>>
    BY Beginnings, ThoseSteps
  <2>2. <<>> \in Seq(X \cap S) /\ Len(<<>>) <= 0
    OBVIOUS
  <2>3. Q(0)
    BY <2>1, <2>2, Zenon
  <2> HIDE DEF Q
  <2> QED  BY <2>3
<1>2. ASSUME NEW k \in Nat, k \in Good PROVE k + 1 \in Good
  <2> SUFFICES ASSUME k + 1 <= Len(seq) PROVE Q(k + 1)
    OBVIOUS
  <2> DEFINE e == seq[k + 1]
  <2>1. Q(k) /\ k \in 0 .. Len(seq) - 1 /\ e \in X
    BY <1>2
  <2>2. those(k + 1) = IF e \in S THEN Append(those(k), e) ELSE those(k)
    BY <2>1, ThoseLess
  <2>3. those(k) \in Seq(X \cap S) /\ Len(those(k)) <= k
    BY <2>1
  <2> HIDE DEF those, e
  <2>4. those(k + 1) \in Seq(X \cap S) /\ Len(those(k + 1)) <= k + 1
    <3>1. CASE e \in S
      <4>1. those(k + 1) = Append(those(k), e) /\ e \in X \cap S
        BY <2>1, <2>2, <3>1
      <4>2. Append(those(k), e) \in Seq(X \cap S) /\ Len(Append(those(k), e)) = Len(those(k)) + 1
            /\ Len(those(k)) \in Nat
        BY <2>3, <4>1
      <4> QED  BY <2>3, <4>1, <4>2
    <3>2. CASE e \notin S
      <4>1. those(k + 1) = those(k) /\ Len(those(k)) \in Nat
        BY <2>2, <2>3, <3>2
      <4> QED  BY <2>3, <4>1
    <3> QED  BY <3>1, <3>2
  <2> QED  BY <2>4
<1>3. Nat \subseteq Good
  <2> HIDE DEF Good
  <2> QED  BY <1>1, <1>2, P!InductionOverNat
<1>4. Q(Len(seq))
  <2> HIDE DEF Q
  <2> QED  BY <1>3
<1> QED  BY <1>4, Beginnings

(* Membership, and what it decides.                                          *)
LEMMA ThoseMembers ==
  ASSUME NEW X, NEW seq \in Seq(X), NEW S
  PROVE  ToSet(Those(seq, S)) = ToSet(seq) \cap S
<1> DEFINE those(k) == Those(SubSeq(seq, 1, k), S)
           Q(k) == ToSet(those(k)) = ToSet(SubSeq(seq, 1, k)) \cap S
           Good == {k \in Nat : k <= Len(seq) => Q(k)}
<1>a. \A A : \A s \in Seq(A), e \in A : ToSet(Append(s, e)) = ToSet(s) \cup {e}
  <2> TAKE A
  <2> TAKE s \in Seq(A), e \in A
  <2>1. /\ DOMAIN s = 1 .. Len(s) /\ DOMAIN Append(s, e) = 1 .. Len(s) + 1
        /\ (\A i \in 1 .. Len(s) : Append(s, e)[i] = s[i]) /\ Append(s, e)[Len(s) + 1] = e
        /\ Len(s) \in Nat
    OBVIOUS
  <2> HIDE DEF Q, Good
  <2>2. ToSet(Append(s, e)) = {Append(s, e)[i] : i \in 1 .. Len(s) + 1}
        /\ ToSet(s) = {s[i] : i \in 1 .. Len(s)}
    BY <2>1 DEF ToSet
  <2> QED  BY <2>1, <2>2
<1>1. 0 \in Good
  <2>1. ToSet(<<>>) = {}
    BY DEF ToSet
  <2>2. SubSeq(seq, 1, 0) = <<>> /\ Those(<<>>, S) = <<>>
    BY Beginnings, ThoseSteps
  <2>3. {} \cap S = {}
    OBVIOUS
  <2>4. Q(0)
    BY <2>1, <2>2, <2>3, Zenon
  <2> HIDE DEF Q
  <2> QED  BY <2>4
<1>2. ASSUME NEW k \in Nat, k \in Good PROVE k + 1 \in Good
  <2> SUFFICES ASSUME k + 1 <= Len(seq) PROVE Q(k + 1)
    OBVIOUS
  <2> DEFINE e == seq[k + 1]
             front == SubSeq(seq, 1, k)
             more == SubSeq(seq, 1, k + 1)
  <2>1. Q(k) /\ k \in 0 .. Len(seq) - 1 /\ k \in 0 .. Len(seq) /\ e \in X
    BY <1>2
  <2>2. those(k + 1) = IF e \in S THEN Append(those(k), e) ELSE those(k)
    BY <2>1, ThoseLess
  <2>3. front \in Seq(X) /\ more = Append(front, e)
    BY <2>1, Beginnings
  <2>4. those(k) \in Seq(X)
    <3>1. those(k) \in Seq(X \cap S)
      BY <2>3, ThoseTyped
    <3>2. \A s \in Seq(X \cap S) : s \in Seq(X)
      OBVIOUS
    <3> QED  BY <3>1, <3>2
  <2>5. ToSet(those(k)) = ToSet(front) \cap S
    BY <2>1
  <2>6. ToSet(more) = ToSet(front) \cup {e}
    <3> HIDE DEF front, e, more
    <3> QED  BY <1>a, <2>1, <2>3
  <2>7. ToSet(Append(those(k), e)) = ToSet(those(k)) \cup {e}
    <3> HIDE DEF those, e
    <3> QED  BY <1>a, <2>1, <2>4
  <2> HIDE DEF those, e, front, more
  <2>8. ToSet(those(k + 1)) = ToSet(more) \cap S
    BY <2>2, <2>5, <2>6, <2>7
  <2> QED  BY <2>8 DEF more
<1>3. Nat \subseteq Good
  <2> HIDE DEF Good
  <2> QED  BY <1>1, <1>2, P!InductionOverNat
<1>4. Q(Len(seq))
  <2> HIDE DEF Q
  <2> QED  BY <1>3
<1> QED  BY <1>4, Beginnings

(* Two sets that agree on the elements choose the same.                      *)
LEMMA ThoseSame ==
  ASSUME NEW X, NEW seq \in Seq(X), NEW S, NEW U, \A e \in X : e \in S <=> e \in U
  PROVE  Those(seq, S) = Those(seq, U)
<1> DEFINE Q(k) == Those(SubSeq(seq, 1, k), S) = Those(SubSeq(seq, 1, k), U)
           Good == {k \in Nat : k <= Len(seq) => Q(k)}
<1>1. 0 \in Good
  BY Beginnings, ThoseSteps
<1>2. ASSUME NEW k \in Nat, k \in Good PROVE k + 1 \in Good
  <2> SUFFICES ASSUME k + 1 <= Len(seq) PROVE Q(k + 1)
    OBVIOUS
  <2>1. Q(k) /\ k \in 0 .. Len(seq) - 1 /\ seq[k + 1] \in X
    BY <1>2
  <2> QED  BY <2>1, ThoseLess, Zenon
<1>3. Nat \subseteq Good
  <2> HIDE DEF Good
  <2> QED  BY <1>1, <1>2, P!InductionOverNat
<1>4. Q(Len(seq))
  <2> HIDE DEF Q
  <2> QED  BY <1>3
<1> QED  BY <1>4, Beginnings

(* A smaller set chooses no more.                                            *)
LEMMA ThoseFewer ==
  ASSUME NEW X, NEW seq \in Seq(X), NEW S, NEW U, \A e \in X : e \in S => e \in U
  PROVE  Len(Those(seq, S)) <= Len(Those(seq, U))
<1> DEFINE a(k) == Those(SubSeq(seq, 1, k), S)
           b(k) == Those(SubSeq(seq, 1, k), U)
           Q(k) == Len(a(k)) <= Len(b(k))
           Good == {k \in Nat : k <= Len(seq) => Q(k)}
<1>1. 0 \in Good
  <2>1. a(0) = <<>> /\ b(0) = <<>>
    BY Beginnings, ThoseSteps
  <2> HIDE DEF a, b
  <2> QED  BY <2>1
<1>2. ASSUME NEW k \in Nat, k \in Good PROVE k + 1 \in Good
  <2> SUFFICES ASSUME k + 1 <= Len(seq) PROVE Q(k + 1)
    OBVIOUS
  <2> DEFINE e == seq[k + 1]
  <2>1. Q(k) /\ k \in 0 .. Len(seq) - 1 /\ k \in 0 .. Len(seq) /\ e \in X
    BY <1>2
  <2>2. /\ a(k + 1) = IF e \in S THEN Append(a(k), e) ELSE a(k)
        /\ b(k + 1) = IF e \in U THEN Append(b(k), e) ELSE b(k)
    BY <2>1, ThoseLess
  <2>3. a(k) \in Seq(X \cap S) /\ b(k) \in Seq(X \cap U)
    BY <2>1, Beginnings, ThoseTyped
  <2>4. Len(a(k)) <= Len(b(k))
    BY <2>1
  <2> HIDE DEF a, b, e
  <2>5. Len(a(k + 1)) <= Len(b(k + 1))
    <3>1. /\ Len(a(k)) \in Nat /\ Len(b(k)) \in Nat
          /\ (e \in S => Len(Append(a(k), e)) = Len(a(k)) + 1)
          /\ (e \in U => Len(Append(b(k), e)) = Len(b(k)) + 1)
      BY <2>1, <2>3
    <3>2. e \in S => e \in U
      BY <2>1
    <3>3. CASE e \in S
      <4>1. a(k + 1) = Append(a(k), e) /\ b(k + 1) = Append(b(k), e)
        BY <2>2, <3>2, <3>3
      <4> QED  BY <2>4, <3>1, <3>2, <3>3, <4>1
    <3>4. CASE e \notin S
      <4>1. a(k + 1) = a(k) /\ (b(k + 1) = b(k) \/ (e \in U /\ b(k + 1) = Append(b(k), e)))
        BY <2>2, <3>4
      <4> QED  BY <2>4, <3>1, <4>1
    <3> QED  BY <3>3, <3>4
  <2> QED  BY <2>5
<1>3. Nat \subseteq Good
  <2> HIDE DEF Good
  <2> QED  BY <1>1, <1>2, P!InductionOverNat
<1>4. Q(Len(seq))
  <2> HIDE DEF Q
  <2> QED  BY <1>3
<1> QED  BY <1>4, Beginnings

\* What a list of resources is made of.
Named == {"blockRes", "txRes"} \X Seq(Bytes)

(* Changing the type twice changes nothing.                                  *)
LEMMA SwapTwice ==
  ASSUME NEW r \in Named
  PROVE  Swap(r) \in Named /\ Swap(Swap(r)) = r
<1>1. r = <<r[1], r[2]>> /\ r[1] \in {"blockRes", "txRes"} /\ r[2] \in Seq(Bytes)
  BY DEF Named
<1> DEFINE a == r[1]
           b == r[2]
<1> HIDE DEF a, b
<1>2. Swapped(a) \in {"blockRes", "txRes"} /\ Swapped(Swapped(a)) = a
  BY <1>1 DEF Swapped, a
<1>3. Swap(r) = <<Swapped(a), b>>
  BY DEF Swap, a, b
<1>4. Swap(<<Swapped(a), b>>) = <<Swapped(Swapped(a)), b>>
  BY DEF Swap
<1>5. <<Swapped(a), b>> \in Named
  BY <1>1, <1>2 DEF Named, b
<1> QED  BY <1>1, <1>2, <1>3, <1>4, <1>5 DEF a, b

(* A list keeps its length when its types are changed.                       *)
LEMMA SwapAllTyped ==
  ASSUME NEW list \in Seq(Named)
  PROVE  SwapAll(list) \in Seq(Named) /\ Len(SwapAll(list)) = Len(list)
         /\ \A i \in 1 .. Len(list) : SwapAll(list)[i] = Swap(list[i])
<1> DEFINE n == Len(list)
           swapped == SwapAll(list)
<1>1. n \in Nat /\ DOMAIN list = 1 .. n /\ \A i \in 1 .. n : list[i] \in Named
  OBVIOUS
<1>2. \A i \in 1 .. n : Swap(list[i]) \in Named
  BY <1>1, SwapTwice
<1>3. swapped \in [1 .. n -> Named] /\ \A i \in 1 .. n : swapped[i] = Swap(list[i])
  <2> HIDE DEF n
  <2> QED  BY <1>1, <1>2, Zenon DEF SwapAll
<1> HIDE DEF n, swapped
<1>4. swapped \in Seq(Named) /\ Len(swapped) = n
  BY <1>1, <1>3
<1> QED  BY <1>3, <1>4 DEF n, swapped

(* The types of a list are changed one by one.                               *)
LEMMA SwapAllSteps ==
  ASSUME NEW list \in Seq(Named), NEW r \in Named
  PROVE  SwapAll(Append(list, r)) = Append(SwapAll(list), Swap(r)) /\ SwapAll(<<>>) = <<>>
<1> DEFINE more == Append(list, r)
           n == Len(list)
           a == SwapAll(more)
           b == SwapAll(list)
           s == Swap(r)
<1>1. /\ more \in Seq(Named) /\ Len(more) = n + 1 /\ more[n + 1] = r /\ n \in Nat
      /\ \A i \in 1 .. n : more[i] = list[i]
  OBVIOUS
<1> HIDE DEF more
<1>2. /\ a \in Seq(Named) /\ Len(a) = Len(more) /\ \A i \in 1 .. Len(more) : a[i] = Swap(more[i])
      /\ b \in Seq(Named) /\ Len(b) = n /\ \A i \in 1 .. n : b[i] = Swap(list[i])
  BY <1>1, SwapAllTyped
<1>3. s \in Named
  BY SwapTwice
<1>4. a[n + 1] = s
  <2>1. n + 1 \in 1 .. Len(more)
    BY <1>1
  <2> QED  BY <1>1, <1>2, <2>1
<1>5. \A i \in 1 .. n : a[i] = b[i]
  <2> TAKE i \in 1 .. n
  <2>1. i \in 1 .. Len(more)
    BY <1>1
  <2> QED  BY <1>1, <1>2, <2>1
<1> HIDE DEF a, b, s, n
<1>6. a = Append(b, s)
  <2>1. Append(b, s) \in Seq(Named) /\ Len(Append(b, s)) = n + 1 /\ Append(b, s)[n + 1] = s
        /\ \A i \in 1 .. n : Append(b, s)[i] = b[i]
    BY <1>2, <1>3
  <2>2. \A i \in 1 .. n + 1 : a[i] = Append(b, s)[i]
    BY <1>1, <1>4, <1>5, <2>1
  <2>3. Len(a) = n + 1 /\ a \in Seq(Named)
    BY <1>1, <1>2
  <2> QED  BY <2>1, <2>2, <2>3, SeqEqual
<1>7. SwapAll(<<>>) = <<>>
  BY DEF SwapAll
<1> QED  BY <1>6, <1>7 DEF a, b, s, more

(* What is chosen of a list that is read with its types changed and changed  *)
(* back is chosen of the list.                                               *)
LEMMA ThoseSwapped ==
  ASSUME NEW list \in Seq(Named), NEW S, NEW U, \A r \in Named : r \in U <=> Swap(r) \in S
  PROVE  SwapAll(Those(SwapAll(list), S)) = Those(list, U)
<1> DEFINE front(k) == SubSeq(list, 1, k)
           there(k) == SwapAll(front(k))
           those(k) == Those(there(k), S)
           Q(k) == SwapAll(those(k)) = Those(front(k), U)
           Good == {k \in Nat : k <= Len(list) => Q(k)}
<1>0. SwapAll(<<>>) = <<>>
  BY DEF SwapAll
<1>1. 0 \in Good
  <2>1. Q(0)
    BY <1>0, Beginnings, ThoseSteps
  <2> HIDE DEF Q
  <2> QED  BY <2>1
<1>2. ASSUME NEW k \in Nat, k \in Good PROVE k + 1 \in Good
  <2> SUFFICES ASSUME k + 1 <= Len(list) PROVE Q(k + 1)
    OBVIOUS
  <2> DEFINE e == list[k + 1]
             f == Swap(e)
  <2>1. Q(k) /\ k \in 0 .. Len(list) - 1 /\ k \in 0 .. Len(list)
    BY <1>2
  <2>2. front(k) \in Seq(Named) /\ front(k + 1) = Append(front(k), e) /\ e \in Named
    BY <2>1, Beginnings
  <2>3. f \in Named /\ Swap(f) = e /\ (e \in U <=> f \in S)
    <3> HIDE DEF e
    <3> QED  BY <2>2, SwapTwice
  <2>4. there(k) \in Seq(Named)
    BY <2>2, SwapAllTyped
  <2>5. there(k + 1) = Append(there(k), f)
    <3> HIDE DEF front, e
    <3> QED  BY <2>2, SwapAllSteps
  <2>6. those(k + 1) = IF f \in S THEN Append(those(k), f) ELSE those(k)
    <3> HIDE DEF there, f
    <3>1. Those(Append(there(k), f), S) = IF f \in S THEN Append(those(k), f) ELSE those(k)
      <4> DEFINE seq == there(k)
      <4> HIDE DEF seq
      <4>1. seq \in Seq(Named) /\ f \in Named
        BY <2>3, <2>4 DEF seq
      <4>2. /\ f \in S => Those(Append(seq, f), S) = Append(Those(seq, S), f)
            /\ f \notin S => Those(Append(seq, f), S) = Those(seq, S)
        BY <4>1, ThoseNext
      <4> QED  BY <4>2, Zenon DEF seq
    <3> QED  BY <2>5, <3>1, Zenon
  <2>7. those(k) \in Seq(Named)
    <3>1. those(k) \in Seq(Named \cap S)
      <4> HIDE DEF there
      <4> QED  BY <2>4, ThoseTyped
    <3>2. \A s \in Seq(Named \cap S) : s \in Seq(Named)
      OBVIOUS
    <3> QED  BY <3>1, <3>2
  <2>8. Those(front(k + 1), U) =
          IF e \in U THEN Append(Those(front(k), U), e) ELSE Those(front(k), U)
    <3> HIDE DEF front, e
    <3> DEFINE seq == front(k)
    <3> HIDE DEF seq
    <3>1. seq \in Seq(Named) /\ e \in Named
      BY <2>2 DEF seq
    <3>2. /\ e \in U => Those(Append(seq, e), U) = Append(Those(seq, U), e)
          /\ e \notin U => Those(Append(seq, e), U) = Those(seq, U)
      BY <3>1, ThoseNext
    <3> QED  BY <2>2, <3>2, Zenon DEF seq
  <2>9. SwapAll(Append(those(k), f)) = Append(SwapAll(those(k)), Swap(f))
    <3> HIDE DEF those, f
    <3> QED  BY <2>3, <2>7, SwapAllSteps
  <2>10. SwapAll(those(k)) = Those(front(k), U)
    BY <2>1
  <2> HIDE DEF those, front, e, f, there
  <2>11. SwapAll(those(k + 1)) = Those(front(k + 1), U)
    BY <2>3, <2>6, <2>8, <2>9, <2>10
  <2> QED  BY <2>11
<1>3. Nat \subseteq Good
  <2> HIDE DEF Good
  <2> QED  BY <1>1, <1>2, P!InductionOverNat
<1>4. Q(Len(list))
  <2> HIDE DEF Q
  <2> QED  BY <1>3
<1> QED  BY <1>4, Beginnings

-----------------------------------------------------------------------------
\* What any bytes are read as.

(* What the reader of a resource gives of any stream.                        *)
Kinds == {"blockRes", "txRes", "invalidRes"}
ShownResources(memory) ==
  {r \in Kinds \X Seq(Bytes) : Len(r[2]) <= HashLength + Len(memory.beyond)}

(* The type of a resource is one of three, whatever it is read from.         *)
LEMMA ResourceTyped ==
  ASSUME NEW s \in Streams
  PROVE  Resource[s].value \in Kinds /\ Resource[s].stream \in Streams
<1> DEFINE r == ReadUint(s, 4)
<1>1. r.stream \in Streams
  <2>1. Typed(s)
    BY DEF Typed, Streams
  <2>2. Typed(r.stream)
    BY <2>1, UintTyped
  <2> HIDE DEF r
  <2> QED  BY <2>2 DEF Typed, Streams
<1>2. r = [value |-> r.value, stream |-> r.stream]
  BY Zenon DEF ReadUint
<1>3. Resource[s] = [r EXCEPT !.value = TypeOfCode(@)]
  BY Zenon DEF Resource
<1> HIDE DEF r
<1>4. Resource[s] = [value |-> TypeOfCode(r.value), stream |-> r.stream]
  BY <1>2, <1>3
<1>5. TypeOfCode(r.value) \in Kinds
  BY DEF TypeOfCode, Kinds
<1> QED  BY <1>1, <1>4, <1>5

(* The two parts of a sequence that is cut make the whole of it.             *)
LEMMA CutWhole ==
  ASSUME NEW c \in Seq(Bytes), NEW n \in 0 .. Len(c)
  PROVE  /\ SubSeq(c, 1, n) \in Seq(Bytes) /\ Len(SubSeq(c, 1, n)) = n
         /\ SubSeq(c, n + 1, Len(c)) \in Seq(Bytes)
         /\ SubSeq(c, 1, n) \o SubSeq(c, n + 1, Len(c)) = c
<1> DEFINE a == SubSeq(c, 1, n)
           b == SubSeq(c, n + 1, Len(c))
<1>1. a \in Seq(Bytes) /\ Len(a) = n /\ \A i \in 1 .. n : a[i] = c[i]
  OBVIOUS
<1>2. b \in Seq(Bytes) /\ Len(b) = Len(c) - n /\ \A i \in 1 .. Len(c) - n : b[i] = c[n + i]
  OBVIOUS
<1> HIDE DEF a, b
<1> DEFINE ab == a \o b
<1>3. /\ ab \in Seq(Bytes) /\ Len(ab) = Len(c)
      /\ \A i \in 1 .. n : ab[i] = a[i]
      /\ \A i \in n + 1 .. Len(c) : ab[i] = b[i - n]
  <2>1. Len(b) \in Nat /\ n \in Nat /\ Len(a) + Len(b) = Len(c)
    BY <1>1, <1>2
  <2>2. /\ ab \in Seq(Bytes) /\ Len(ab) = Len(a) + Len(b)
        /\ \A i \in 1 .. Len(a) : ab[i] = a[i]
        /\ \A i \in Len(a) + 1 .. Len(a) + Len(b) : ab[i] = b[i - Len(a)]
    BY <1>1, <1>2
  <2> QED  BY <1>1, <2>1, <2>2
<1> HIDE DEF ab
<1>4. \A i \in 1 .. Len(c) : ab[i] = c[i]
  <2> TAKE i \in 1 .. Len(c)
  <2>1. CASE i <= n
    BY <1>1, <1>3, <2>1
  <2>2. CASE ~(i <= n)
    <3>1. i \in n + 1 .. Len(c) /\ i - n \in 1 .. Len(c) - n /\ n + (i - n) = i
      BY <2>2
    <3> QED  BY <1>2, <1>3, <3>1
  <2> QED  BY <2>1, <2>2
<1>5. ab = c
  BY <1>3, <1>4, SeqEqual
<1> QED  BY <1>1, <1>2, <1>5 DEF ab, a, b

(* A step more of the readers, to be cited for one sequence of them.         *)
LEMMA ReadEachNext ==
  ASSUME NEW stream, NEW X, NEW readers \in Seq(X), NEW reader \in X
  PROVE  ReadEach(Append(readers, reader), stream) = ReadNext(ReadEach(readers, stream), reader)
BY ReadEachSteps

(* A text is never longer than what was asked for and what follows it in     *)
(* memory.                                                                   *)
LEMMA HashAsTextTyped ==
  ASSUME NEW s \in Streams, NEW memory \in Memories
  PROVE  LET read == HashAsText(memory)[s]
         IN  /\ read.value \in Seq(Bytes) /\ Len(read.value) <= HashLength + Len(memory.beyond)
             /\ read.stream \in Streams
<1> DEFINE r == ReadStr(s, HashLength, memory.beyond)
           c == s.content
<1>1. r.stream \in Streams
  <2>1. Typed(s) /\ HashLength \in Nat
    BY HashLengthAssumption DEF Typed, Streams
  <2>2. Typed(r.stream)
    BY <2>1, StrTyped
  <2> HIDE DEF r
  <2> QED  BY <2>2 DEF Typed, Streams
<1>2. HashAsText(memory)[s] = r
  BY Zenon DEF HashAsText
<1>3. /\ c \in Seq(Bytes) /\ HashLength \in Nat /\ HashLength <= BufferSize
      /\ memory.beyond \in Seq(Bytes) /\ memory.beyond \in Seq(1 .. Base - 1)
  BY HashLengthAssumption, LengthsAssumption, BufferSizeAssumption, BeyondTyped DEF Streams
<1>4. r.value \in Seq(Bytes) /\ Len(r.value) <= HashLength + Len(memory.beyond)
  <2>1. CASE HashLength > Len(c)
    <3>1. r.value = <<>>
      BY <2>1 DEF ReadStr
    <3> HIDE DEF r
    <3> QED  BY <1>3, <3>1
  <2>2. CASE ~(HashLength > Len(c))
    <3> DEFINE text == SubSeq(c, 1, HashLength)
               rest == SubSeq(c, HashLength + 1, Len(c))
               chars == text \o memory.beyond
    <3> HIDE DEF c
    <3>1. text \in Seq(Bytes) /\ Len(text) = HashLength /\ rest \in Seq(Bytes)
          /\ text \o rest = c
      <4>1. HashLength \in 0 .. Len(c)
        BY <1>3, <2>2
      <4> QED  BY <1>3, <4>1, CutWhole
    <3>2. s.content = Stream(text \o rest).content
      BY <3>1 DEF Stream, c
    <3>3. r.value = ReadStr(Stream(text \o rest), HashLength, memory.beyond).value
      <4> HIDE DEF text, rest
      <4> DEFINE t == Stream(text \o rest)
      <4> HIDE DEF t
      <4>1. s.content = t.content
        BY <3>2 DEF t
      <4>2. /\ ~(HashLength > Len(s.content)) /\ ~(HashLength > Len(t.content))
        BY <2>2, <4>1 DEF c
      <4>3. r.value = ReadStr(t, HashLength, memory.beyond).value
        BY <4>1, <4>2 DEF ReadStr
      <4> QED  BY <4>3 DEF t
    <3> HIDE DEF text, rest, r
    <3>4. r.value = CString(chars)
      BY <1>3, <3>1, <3>3, StrOfOneBlock
    <3>5. chars \in Seq(Bytes) /\ Len(chars) = HashLength + Len(memory.beyond)
      BY <1>3, <3>1, CutConcat
    <3> HIDE DEF chars
    <3> QED  BY <3>4, <3>5, CStringTyped
  <2> QED  BY <2>1, <2>2
<1> QED  BY <1>1, <1>2, <1>4

(* Any stream gives a resource (Inv_vect).                                   *)
LEMMA InvVectTyped ==
  ASSUME NEW s \in Streams, NEW memory \in Memories
  PROVE  /\ InvVect(memory)[s].value \in ShownResources(memory)
         /\ InvVect(memory)[s].stream \in Streams
<1> DEFINE a == Resource[s]
           text == HashAsText(memory)
           b == text[a.stream]
           none == ReadEach(<<>>, s)
           one == ReadEach(<<Resource>>, s)
           two == ReadEach(<<Resource, text>>, s)
<1>1. a.value \in Kinds /\ a.stream \in Streams
  BY ResourceTyped
<1>2. /\ b.value \in Seq(Bytes) /\ Len(b.value) <= HashLength + Len(memory.beyond)
      /\ b.stream \in Streams
  BY <1>1, HashAsTextTyped
<1>3. InvVect(memory)[s] = two
  BY Zenon DEF InvVect, Struct
<1>4. none = [value |-> <<>>, stream |-> s]
  BY ReadEachSteps
<1> HIDE DEF text
<1>5. /\ <<>> \in Seq({Resource, text}) /\ <<Resource>> \in Seq({Resource, text})
      /\ Append(<<>>, Resource) = <<Resource>>
      /\ Append(<<Resource>>, text) = <<Resource, text>>
  <2> DEFINE x == Resource
  <2> HIDE DEF x
  <2>1. <<>> \in Seq({x, text}) /\ <<x>> \in Seq({x, text})
    OBVIOUS
  <2>2. Append(<<>>, x) = <<x>> /\ Append(<<x>>, text) = <<x, text>>
    BY Tuples, Zenon
  <2> QED  BY <2>1, <2>2 DEF x
<1>6. one = ReadNext(none, Resource)
  <2>1. ReadEach(Append(<<>>, Resource), s) = ReadNext(ReadEach(<<>>, s), Resource)
    <3> DEFINE x == Resource
    <3> HIDE DEF x
    <3>1. <<>> \in Seq({x}) /\ x \in {x}
      OBVIOUS
    <3>2. ReadEach(Append(<<>>, x), s) = ReadNext(ReadEach(<<>>, s), x)
      BY <3>1, ReadEachSteps
    <3> QED  BY <3>2 DEF x
  <2> QED  BY <1>5, <2>1, Zenon
<1>7. two = ReadNext(one, text)
  <2>1. ReadEach(Append(<<Resource>>, text), s) = ReadNext(ReadEach(<<Resource>>, s), text)
    <3> DEFINE x == <<Resource>>
               X == {Resource, text}
    <3>1. x \in Seq(X) /\ text \in X
      BY <1>5
    <3> HIDE DEF x, X
    <3>2. ReadEach(Append(x, text), s) = ReadNext(ReadEach(x, s), text)
      BY <3>1, ReadEachSteps
    <3> QED  BY <3>2 DEF x
  <2> QED  BY <1>5, <2>1, Zenon
<1>8. one.value = <<a.value>> /\ one.stream = a.stream
  <2>1. one = [value |-> Append(none.value, a.value), stream |-> a.stream]
    <3>1. none.stream = s
      BY <1>4
    <3> QED  BY <1>6, <3>1, Zenon DEF ReadNext
  <2>2. none.value = <<>>
    BY <1>4
  <2>3. Append(<<>>, a.value) = <<a.value>>
    BY Tuples, Zenon
  <2> HIDE DEF one, none, a
  <2> QED  BY <2>1, <2>2, <2>3
<1>9. two.value = <<a.value, b.value>> /\ two.stream = b.stream
  <2>1. two = [value |-> Append(one.value, b.value), stream |-> b.stream]
    BY <1>7, <1>8, Zenon DEF ReadNext
  <2>2. Append(<<a.value>>, b.value) = <<a.value, b.value>>
    BY Tuples, Zenon
  <2> HIDE DEF one, two, a, b
  <2> QED  BY <1>8, <2>1, <2>2
<1> HIDE DEF a, b, two
<1>10. <<a.value, b.value>> \in ShownResources(memory)
  BY <1>1, <1>2 DEF ShownResources
<1> QED  BY <1>2, <1>3, <1>9, <1>10

\* A reader that gives such values, and leaves a stream, whatever it is given.
Reads(reader, V) == \A s \in Streams : reader[s].value \in V /\ reader[s].stream \in Streams

(* What as many reads as a count says give.                                  *)
LEMMA EachTyped ==
  ASSUME NEW reader, NEW V, Reads(reader, V), NEW s \in Streams, NEW n \in Nat,
         NEW all, all = [i \in 1 .. n |-> reader]
  PROVE  /\ ReadEach(all, s).value \in Seq(V) /\ Len(ReadEach(all, s).value) = n
         /\ ReadEach(all, s).stream \in Streams
<1> DEFINE readers(k) == [i \in 1 .. k |-> reader]
           read(k) == ReadEach(readers(k), s)
           Q(k) == /\ read(k).value \in Seq(V) /\ Len(read(k).value) = k
                   /\ read(k).stream \in Streams
           Good == {k \in Nat : Q(k)}
<1>1. /\ readers(0) = <<>>
      /\ \A k \in Nat : /\ readers(k) \in Seq({reader})
                        /\ readers(k + 1) = Append(readers(k), reader)
  OBVIOUS
<1>2. 0 \in Good
  <2>1. read(0) = [value |-> <<>>, stream |-> s]
    <3> HIDE DEF readers
    <3> QED  BY <1>1, ReadEachSteps
  <2>2. <<>> \in Seq(V) /\ Len(<<>>) = 0
    OBVIOUS
  <2> HIDE DEF read
  <2>3. read(0).value = <<>> /\ read(0).stream = s
    BY <2>1
  <2>4. Q(0)
    BY <2>2, <2>3, Zenon
  <2> HIDE DEF Q
  <2> QED  BY <2>4
<1>3. ASSUME NEW k \in Nat, k \in Good PROVE k + 1 \in Good
  <2> HIDE DEF readers
  <2>1. read(k + 1) = ReadNext(read(k), reader)
    <3> DEFINE seq == readers(k)
    <3>1. seq \in Seq({reader}) /\ reader \in {reader} /\ readers(k + 1) = Append(seq, reader)
      BY <1>1
    <3> HIDE DEF seq
    <3>2. ReadEach(Append(seq, reader), s) = ReadNext(ReadEach(seq, s), reader)
      BY <3>1, ReadEachNext, Zenon
    <3> QED  BY <3>1, <3>2, Zenon DEF seq
  <2> DEFINE old == read(k)
             next == reader[old.stream]
             new == read(k + 1)
  <2>2. old.value \in Seq(V) /\ Len(old.value) = k /\ old.stream \in Streams
    BY <1>3
  <2> HIDE DEF old
  <2>3. next.value \in V /\ next.stream \in Streams
    BY <2>2 DEF Reads
  <2>4. new = [value |-> Append(old.value, next.value), stream |-> next.stream]
    <3> HIDE DEF read
    <3> QED  BY <2>1, Zenon DEF ReadNext, old
  <2> HIDE DEF next, new
  <2>5. new.value = Append(old.value, next.value) /\ new.stream = next.stream
    BY <2>4
  <2>6. Append(old.value, next.value) \in Seq(V) /\ Len(Append(old.value, next.value)) = k + 1
    BY <2>2, <2>3
  <2>7. new.value \in Seq(V) /\ Len(new.value) = k + 1 /\ new.stream \in Streams
    BY <2>3, <2>5, <2>6
  <2>8. Q(k + 1)
    BY <2>7, Zenon DEF new
  <2> HIDE DEF Q
  <2> QED  BY <2>8
<1>4. Nat \subseteq Good
  <2> HIDE DEF Good
  <2> QED  BY <1>2, <1>3, P!InductionOverNat
<1>5. Q(n)
  <2> HIDE DEF Q
  <2> QED  BY <1>4
<1> QED  BY <1>5, Zenon

(* Any bytes are read as an inventory of as many resources as they announce  *)
(* (Var_Array, Inv_vect).                                                    *)
LEMMA InventoryTyped ==
  ASSUME NEW s \in Streams, NEW memory \in Memories
  PROVE  LET read == Array(InvVect(memory))[s].value
         IN  /\ read \in Seq(ShownResources(memory)) /\ Len(read) = ReadVarUint(s).value
             /\ ReadVarUint(s).value \in Nat
<1> DEFINE count == ReadVarUint(s)
           reader == InvVect(memory)
           read == ReadEach([i \in 1 .. count.value |-> reader], count.stream)
<1>1. count.value \in Nat /\ count.stream \in Streams
  <2>1. Typed(s)
    BY DEF Typed, Streams
  <2>2. Typed(count.stream) /\ count.value \in Nat
    BY <2>1, VarUintTyped
  <2> HIDE DEF count
  <2> QED  BY <2>2 DEF Typed, Streams
<1>2. Array(reader)[s] = read
  BY Zenon DEF Array
<1>3. Reads(reader, ShownResources(memory))
  BY InvVectTyped DEF Reads
<1>4. read.value \in Seq(ShownResources(memory)) /\ Len(read.value) = count.value
  <2> DEFINE n == count.value
             start == count.stream
             Shown == ShownResources(memory)
             take == reader
  <2>1. n \in Nat /\ start \in Streams
    BY <1>1
  <2>2. Reads(take, Shown)
    BY <1>3
  <2> HIDE DEF n, start, Shown, take
  <2> DEFINE all == [i \in 1 .. n |-> take]
  <2>3. all = [i \in 1 .. n |-> take]
    OBVIOUS
  <2> HIDE DEF all
  <2>4. ReadEach(all, start).value \in Seq(Shown) /\ Len(ReadEach(all, start).value) = n
    BY <2>1, <2>2, <2>3, EachTyped
  <2> QED  BY <2>4 DEF n, start, Shown, take, all
<1> HIDE DEF count, reader
<1> QED  BY <1>1, <1>2, <1>4 DEF count, reader

-----------------------------------------------------------------------------
\* Messages one after the other.

\* What is left of a sequence after so many elements.
After(seq, n) == SubSeq(seq, n + 1, Len(seq))

(* What is left of a sequence loses its first element, and grows at its end. *)
LEMMA AfterSteps ==
  ASSUME NEW X, NEW seq \in Seq(X), NEW n \in 0 .. Len(seq)
  PROVE  /\ After(seq, n) \in Seq(X) /\ Len(After(seq, n)) = Len(seq) - n
         /\ n = Len(seq) => After(seq, n) = <<>>
         /\ n < Len(seq) => /\ After(seq, n) # <<>> /\ Head(After(seq, n)) = seq[n + 1]
                            /\ Tail(After(seq, n)) = After(seq, n + 1) /\ seq[n + 1] \in X
         /\ \A e \in X : After(Append(seq, e), n) = Append(After(seq, n), e)
         /\ After(seq, 0) = seq
<1> DEFINE a == After(seq, n)
           N == Len(seq)
<1>1. /\ a \in Seq(X) /\ Len(a) = N - n /\ \A i \in 1 .. N - n : a[i] = seq[n + i]
      /\ N \in Nat /\ n \in Nat
  BY DEF After
<1>2. n = N => a = <<>>
  <2> HIDE DEF a, N
  <2> QED  BY <1>1
<1>3. ASSUME n < N
      PROVE  /\ a # <<>> /\ Head(a) = seq[n + 1] /\ Tail(a) = After(seq, n + 1) /\ seq[n + 1] \in X
  <2> DEFINE b == After(seq, n + 1)
             t == Tail(a)
  <2>1. b \in Seq(X) /\ Len(b) = N - n - 1 /\ \A i \in 1 .. N - n - 1 : b[i] = seq[n + 1 + i]
    BY <1>3 DEF After
  <2>2. seq[n + 1] \in X /\ 1 \in 1 .. N - n
    BY <1>3
  <2> HIDE DEF a, b, N
  <2>3. a # <<>> /\ Head(a) = seq[n + 1]
    BY <1>1, <1>3, <2>2
  <2>4. t \in Seq(X) /\ Len(t) = N - n - 1 /\ \A i \in 1 .. N - n - 1 : t[i] = a[i + 1]
    BY <1>1, <1>3, <2>3
  <2> HIDE DEF t
  <2>5. \A i \in 1 .. N - n - 1 : t[i] = b[i]
    <3> TAKE i \in 1 .. N - n - 1
    <3>1. i + 1 \in 1 .. N - n /\ n + (i + 1) = n + 1 + i
      BY <1>1
    <3> QED  BY <1>1, <2>1, <2>4, <3>1
  <2>6. t = b
    BY <2>1, <2>4, <2>5, SeqEqual
  <2> QED  BY <2>2, <2>3, <2>6 DEF t, b
<1>4. ASSUME NEW e \in X PROVE After(Append(seq, e), n) = Append(a, e)
  <2> DEFINE more == Append(seq, e)
             b == After(more, n)
             c == Append(a, e)
  <2>1. more \in Seq(X) /\ Len(more) = N + 1 /\ more[N + 1] = e
        /\ \A i \in 1 .. N : more[i] = seq[i]
    OBVIOUS
  <2> HIDE DEF more, N
  <2>2. b \in Seq(X) /\ Len(b) = N + 1 - n /\ \A i \in 1 .. N + 1 - n : b[i] = more[n + i]
    BY <1>1, <2>1 DEF After
  <2> HIDE DEF a, b
  <2>3. c \in Seq(X) /\ Len(c) = N - n + 1 /\ c[N - n + 1] = e /\ \A i \in 1 .. N - n : c[i] = a[i]
    BY <1>1
  <2> HIDE DEF c
  <2>4. \A i \in 1 .. N + 1 - n : b[i] = c[i]
    <3> TAKE i \in 1 .. N + 1 - n
    <3>1. CASE i \in 1 .. N - n
      <4>1. n + i \in 1 .. N
        BY <1>1, <3>1
      <4> QED  BY <1>1, <2>1, <2>2, <2>3, <3>1, <4>1
    <3>2. CASE i = N - n + 1
      <4>1. n + i = N + 1
        BY <1>1, <3>2
      <4> QED  BY <2>1, <2>2, <2>3, <3>2, <4>1
    <3> QED  BY <1>1, <3>1, <3>2
  <2>5. Len(b) = Len(c)
    BY <1>1, <2>2, <2>3
  <2> QED  BY <2>2, <2>3, <2>4, <2>5, SeqEqual DEF b, c, more
<1>5. After(seq, 0) = seq
  BY DEF After
<1> QED  BY <1>1, <1>2, <1>3, <1>4, <1>5

(* The first text comes before the others: by induction over these.          *)
LEMMA ConcatFirst ==
  ASSUME NEW ss \in Seq(Seq(Bytes)), ss # <<>>
  PROVE  Concat(ss) = Head(ss) \o Concat(Tail(ss))
<1> DEFINE S == Seq(Bytes)
           h == Head(ss)
           t == Tail(ss)
           Q(k) == Concat(SubSeq(ss, 1, k + 1)) = h \o Concat(SubSeq(t, 1, k))
           Good == {k \in Nat : k <= Len(t) => Q(k)}
<1>1. /\ h \in S /\ h = ss[1] /\ t \in Seq(S) /\ Len(t) = Len(ss) - 1 /\ Len(t) \in Nat
      /\ \A i \in 1 .. Len(t) : t[i] = ss[i + 1]
  OBVIOUS
<1>a. \A x \in S, y \in S, z \in S : (x \o y) \o z = x \o (y \o z)
  <2> TAKE x \in Seq(Bytes), y \in Seq(Bytes), z \in Seq(Bytes)
  <2> QED  OBVIOUS
<1>2. 0 \in Good
  <2>1. SubSeq(t, 1, 0) = <<>> /\ SubSeq(ss, 1, 0) = <<>>
    BY <1>1, Beginnings
  <2>2. SubSeq(ss, 1, 0 + 1) = Append(SubSeq(ss, 1, 0), ss[0 + 1])
    <3>1. 0 \in 0 .. Len(ss) - 1
      BY <1>1
    <3> QED  BY <3>1, Beginnings
  <2>3. Concat(Append(<<>>, h)) = Concat(<<>>) \o h /\ Concat(<<>>) = <<>>
    <3>1. <<>> \in Seq(S)
      OBVIOUS
    <3> HIDE DEF h
    <3> QED  BY <1>1, <3>1, ConcatSteps
  <2>4. <<>> \o h = h /\ h \o <<>> = h
    <3> HIDE DEF h
    <3> QED  BY <1>1, ConcatEmptySeq
  <2>5. ss[0 + 1] = h
    BY <1>1
  <2>6. Q(0)
    <3> HIDE DEF h, t
    <3> QED  BY <2>1, <2>2, <2>3, <2>4, <2>5
  <2> HIDE DEF Q
  <2> QED  BY <2>6
<1>3. ASSUME NEW k \in Nat, k \in Good PROVE k + 1 \in Good
  <2> SUFFICES ASSUME k + 1 <= Len(t) PROVE Q(k + 1)
    <3> HIDE DEF Q, t
    <3> QED  OBVIOUS
  <2> DEFINE e == t[k + 1]
             a == SubSeq(ss, 1, k + 1)
             b == SubSeq(t, 1, k)
  <2>1. Q(k) /\ k \in 0 .. Len(t) - 1 /\ k + 1 \in 0 .. Len(ss) - 1 /\ e = ss[k + 2]
        /\ k + 1 + 1 = k + 2
    <3>1. k <= Len(t) /\ k + 1 \in 1 .. Len(t) /\ k + 1 + 1 = k + 2
      BY <1>1
    <3>2. Q(k)
      <4> HIDE DEF Q
      <4> QED  BY <1>3, <3>1
    <3> HIDE DEF Q, t
    <3> QED  BY <1>1, <3>1, <3>2
  <2>2. SubSeq(ss, 1, k + 1 + 1) = Append(a, ss[k + 1 + 1]) /\ a \in Seq(S)
    <3>1. k + 1 \in 0 .. Len(ss)
      BY <2>1
    <3> HIDE DEF Q
    <3> QED  BY <2>1, <3>1, Beginnings
  <2>3. SubSeq(t, 1, k + 1) = Append(b, e) /\ e \in S /\ b \in Seq(S)
    <3>1. k \in 0 .. Len(t)
      BY <2>1
    <3> HIDE DEF Q, t
    <3> QED  BY <1>1, <2>1, <3>1, Beginnings
  <2>4. Concat(a) = h \o Concat(b)
    BY <2>1
  <2> HIDE DEF a, b, e, h, t
  <2>5. Concat(Append(a, e)) = Concat(a) \o e /\ Concat(Append(b, e)) = Concat(b) \o e
        /\ Concat(b) \in S
    BY <2>2, <2>3, ConcatSteps
  <2>6. (h \o Concat(b)) \o e = h \o (Concat(b) \o e)
    <3> DEFINE y == Concat(b)
    <3> HIDE DEF y
    <3>1. y \in S
      BY <2>5 DEF y
    <3>2. (h \o y) \o e = h \o (y \o e)
      <4> HIDE DEF S
      <4> QED  BY <1>1, <1>a, <2>3, <3>1
    <3> QED  BY <3>2 DEF y
  <2> QED  BY <2>1, <2>2, <2>3, <2>4, <2>5, <2>6
<1>4. Nat \subseteq Good
  <2> HIDE DEF Good
  <2> QED  BY <1>2, <1>3, P!InductionOverNat
<1>5. Q(Len(t))
  <2> HIDE DEF Q, t
  <2> QED  BY <1>1, <1>4
<1>6. SubSeq(t, 1, Len(t)) = t /\ SubSeq(ss, 1, Len(t) + 1) = ss
  <2>1. Len(t) + 1 = Len(ss)
    BY <1>1
  <2> HIDE DEF h
  <2> QED  BY <1>1, <2>1, Beginnings
<1> QED  BY <1>5, <1>6

\* Bytes that are taken as one message, whatever follows them.
Whole ==
  {t \in Seq(Bytes) :
     /\ t # <<>>
     /\ \A rest \in Seq(Bytes), memory \in Memories : Arrived(t \o rest, memory).rest = rest}

(* There is some memory.                                                     *)
LEMMA SomeMemory == AnyMemory \in Memories
<1>1. \E memory : memory \in Memories
  <2>1. PICK b \in Garbage : TRUE
    BY GarbageAssumption
  <2>2. PICK r \in Residues : TRUE
    BY ResiduesAssumption
  <2>3. [beyond |-> b, residue |-> r] \in Memories
    BY DEF Memories
  <2> QED  BY <2>3
<1> QED  BY <1>1 DEF AnyMemory

(* What is left after one message more.                                      *)
LEMMA LeftSteps ==
  ASSUME NEW bytes
  PROVE  /\ Left(bytes, 0) = bytes
         /\ \A n \in Nat : Left(bytes, n + 1) = Arrived(Left(bytes, n), AnyMemory).rest
<1> DEFINE Counting(k) == [i \in 1 .. k |-> i]
<1>1. \A seq : L!Fold(bytes, seq) =
        FoldLeft(LAMBDA left, i : Arrived(left, CHOOSE memory \in Memories : TRUE).rest, bytes, seq)
  BY DEF L!Fold, FoldLeft, L!FoldLeft, L!MapThenFoldSet, MapThenFoldSet, L!Max, Max,
         ArriveNext, FromBytes, AnyMemory
<1>2. \A n : Left(bytes, n) = L!Fold(bytes, Counting(n))
  BY <1>1, Zenon DEF Left
<1>3. /\ Counting(0) = <<>>
      /\ \A k \in Nat : Counting(k) \in Seq(Nat) /\ Counting(k + 1) = Append(Counting(k), k + 1)
  OBVIOUS
<1> HIDE DEF Counting
<1>4. Left(bytes, 0) = bytes
  BY <1>2, <1>3, L!FoldEmpty DEF FromBytes
<1>5. ASSUME NEW n \in Nat PROVE Left(bytes, n + 1) = Arrived(Left(bytes, n), AnyMemory).rest
  <2>1. Counting(n) \in Seq(Nat) /\ n + 1 \in Nat
    BY <1>3
  <2>2. L!Fold(bytes, Append(Counting(n), n + 1)) =
          ArriveNext(bytes, L!Fold(bytes, Counting(n)), n + 1)
    BY <2>1, L!FoldAppend
  <2> QED  BY <1>2, <1>3, <2>2, Zenon DEF ArriveNext
<1> QED  BY <1>4, <1>5

(* Messages are texts, and so are messages one after the other.              *)
LEMMA WholeTexts ==
  ASSUME NEW ss \in Seq(Whole)
  PROVE  ss \in Seq(Seq(Bytes)) /\ Concat(ss) \in Seq(Bytes)
<1>1. ss \in Seq(Seq(Bytes))
  BY DEF Whole
<1> QED  BY <1>1, ConcatSteps

(* What is left of messages begins with the next of them, and is empty after *)
(* the last.                                                                 *)
LEMMA AfterWhole ==
  ASSUME NEW ss \in Seq(Whole), NEW n \in 0 .. Len(ss)
  PROVE  /\ n = Len(ss) => Concat(After(ss, n)) = <<>>
         /\ n < Len(ss) => /\ Concat(After(ss, n)) = ss[n + 1] \o Concat(After(ss, n + 1))
                           /\ ss[n + 1] \in Whole /\ Concat(After(ss, n + 1)) \in Seq(Bytes)
                           /\ Concat(After(ss, n)) # <<>>
<1>0. n = Len(ss) \/ n < Len(ss)
  OBVIOUS
<1>1. CASE n = Len(ss)
  <2>1. ~(n < Len(ss))
    BY <1>1
  <2>2. Concat(After(ss, n)) = <<>>
    BY <1>1, AfterSteps, ConcatSteps
  <2> QED  BY <2>1, <2>2
<1>2. CASE n < Len(ss)
  <2> DEFINE a == After(ss, n)
             b == After(ss, n + 1)
             h == ss[n + 1]
  <2>1. a \in Seq(Whole) /\ a # <<>> /\ Head(a) = h /\ Tail(a) = b /\ h \in Whole
    BY <1>2, AfterSteps
  <2>2. b \in Seq(Whole)
    <3>1. n + 1 \in 0 .. Len(ss)
      BY <1>2
    <3> QED  BY <3>1, AfterSteps
  <2> HIDE DEF a, b, h
  <2>3. a \in Seq(Seq(Bytes)) /\ Concat(b) \in Seq(Bytes) /\ h \in Seq(Bytes) /\ h # <<>>
    BY <2>1, <2>2, WholeTexts DEF Whole
  <2>4. Concat(a) = h \o Concat(b)
    BY <2>1, <2>3, ConcatFirst
  <2>5. h \o Concat(b) # <<>>
    <3> DEFINE y == Concat(b)
    <3>1. y \in Seq(Bytes)
      BY <2>3
    <3> HIDE DEF y
    <3>2. Len(h \o y) = Len(h) + Len(y) /\ Len(y) \in Nat /\ Len(h) \in Nat \ {0}
      BY <2>3, <3>1, CutConcat
    <3>3. h \o y # <<>>
      BY <3>2
    <3> QED  BY <3>3 DEF y
  <2> QED  BY <1>2, <2>1, <2>3, <2>4, <2>5 DEF a, b, h
<1> QED  BY <1>0, <1>1, <1>2

(* Messages are taken one by one.                                            *)
LEMMA LeftWhole ==
  ASSUME NEW ss \in Seq(Whole), NEW n \in 0 .. Len(ss)
  PROVE  /\ Left(Concat(ss), n) = Concat(After(ss, n))
         /\ Concat(After(ss, n)) = <<>> <=> n = Len(ss)
<1> DEFINE Q(k) == Left(Concat(ss), k) = Concat(After(ss, k))
           Good == {k \in Nat : k <= Len(ss) => Q(k)}
<1>1. 0 \in Good
  <2>1. 0 \in 0 .. Len(ss)
    OBVIOUS
  <2>2. Q(0)
    BY <2>1, LeftSteps, AfterSteps
  <2> HIDE DEF Q
  <2> QED  BY <2>2
<1>2. ASSUME NEW k \in Nat, k \in Good PROVE k + 1 \in Good
  <2> SUFFICES ASSUME k + 1 <= Len(ss) PROVE Q(k + 1)
    OBVIOUS
  <2> DEFINE rest == Concat(After(ss, k + 1))
  <2>1. Q(k) /\ k \in 0 .. Len(ss) /\ k < Len(ss)
    BY <1>2
  <2>2. Concat(After(ss, k)) = ss[k + 1] \o rest /\ ss[k + 1] \in Whole /\ rest \in Seq(Bytes)
    <3> HIDE DEF Q
    <3> QED  BY <2>1, AfterWhole
  <2> HIDE DEF rest
  <2>3. Arrived(ss[k + 1] \o rest, AnyMemory).rest = rest
    BY <2>2, SomeMemory DEF Whole
  <2>4. Left(Concat(ss), k + 1) = Arrived(Left(Concat(ss), k), AnyMemory).rest
    BY LeftSteps
  <2>5. Left(Concat(ss), k + 1) = rest
    BY <2>1, <2>2, <2>3, <2>4, Zenon
  <2> QED  BY <2>5 DEF rest
<1>3. Nat \subseteq Good
  <2> HIDE DEF Good
  <2> QED  BY <1>1, <1>2, P!InductionOverNat
<1>4. Q(n)
  <2> HIDE DEF Q
  <2> QED  BY <1>3
<1>5. Concat(After(ss, n)) = <<>> <=> n = Len(ss)
  <2>1. n = Len(ss) \/ n < Len(ss)
    OBVIOUS
  <2> QED  BY <2>1, AfterWhole, Zenon
<1> QED  BY <1>4, <1>5

(* A message in its frame is taken as one.                                   *)
LEMMA FrameWhole ==
  ASSUME NEW type \in Types, NEW payload \in Seq(Bytes), Len(payload) < Power[8]
  PROVE  HeaderBytes(type, Len(payload)) \o payload \in Whole
<1> DEFINE head == HeaderBytes(type, Len(payload))
           t == head \o payload
<1>1. head \in Seq(Bytes) /\ Len(head) \in Nat \ {0}
  <2>1. Len(payload) \in Nat
    OBVIOUS
  <2> QED  BY <2>1, HeaderLength
<1>2. ASSUME NEW rest \in Seq(Bytes), NEW memory \in Memories
      PROVE  Arrived(t \o rest, memory).rest = rest
  <2> DEFINE m == Arrived(t \o rest, memory)
  <2>1. m = [type |-> FoundType(type, memory), payload |-> payload, rest |-> rest]
    BY FrameArrives, Zenon
  <2> HIDE DEF m
  <2>2. m.rest = rest
    BY <2>1
  <2> QED  BY <2>2 DEF m
<1> HIDE DEF head
<1>3. t \in Seq(Bytes) /\ Len(t) = Len(head) + Len(payload) /\ Len(payload) \in Nat
  BY <1>1, CutConcat
<1> HIDE DEF t
<1>4. t # <<>>
  BY <1>1, <1>3
<1> QED  BY <1>2, <1>3, <1>4 DEF Whole, t, head

-----------------------------------------------------------------------------
\* The bytes of a list of resources.

(* The first byte of a resource is 0: its code is a small number.            *)
LEMMA ResourceBytes ==
  ASSUME NEW r \in Named
  PROVE  /\ InvVectBytes(r) \in Seq(Bytes) /\ Len(InvVectBytes(r)) = 4 + Len(r[2])
         /\ InvVectBytes(r)[1] = 0
<1> DEFINE c == Code(r[1])
           d == Digits(c, 4)
           t == r[2]
<1>1. r[1] \in {"blockRes", "txRes"} /\ t \in Seq(Bytes)
  BY DEF Named
<1>2. c \in {0, 1}
  BY <1>1 DEF Code
<1>3. /\ Power[3] \in Nat /\ Power[3] > 1
  <2>1. Power[0 + 1] = Base * Power[0] /\ Power[1 + 1] = Base * Power[1] /\ Power[0] = 1
        /\ Power[2 + 1] = Base * Power[2] /\ Power[3] \in Nat
    BY Powers
  <2>2. Power[1] = Base /\ Power[2] = Base * Base /\ Power[3] = Base * (Base * Base)
    BY <2>1, BaseAssumption
  <2>3. Base * Base \in Nat /\ Base * Base > 4
    BY BaseAssumption
  <2>4. \A x \in Nat : x > 4 => Base * x > 1
    BY BaseAssumption
  <2> QED  BY <2>1, <2>2, <2>3, <2>4
<1> HIDE DEF c
<1>4. c \in Nat /\ c < Power[3]
  BY <1>2, <1>3
<1>5. c \div Power[3] = 0
  <2> DEFINE p == Power[3]
  <2>1. p \in Nat /\ p > 0 /\ c < p
    BY <1>3, <1>4
  <2> HIDE DEF p
  <2>2. c = p * 0 + c
    BY <1>4, <2>1
  <2>3. c \div p = 0
    BY <1>4, <2>1, <2>2, QuotientUnique
  <2> QED  BY <2>3 DEF p
<1>6. d \in Seq(Bytes) /\ Len(d) = 4 /\ d[1] = 0
  <2>1. d \in Seq(Bytes) /\ Len(d) = 4 /\ d[1] = (c \div Power[4 - 1]) % Base
    <3>1. 1 \in 1 .. 4 /\ 4 \in Nat
      OBVIOUS
    <3>2. Digits(c, 4) \in Seq(Bytes) /\ Len(Digits(c, 4)) = 4
          /\ \A i \in 1 .. 4 : Digits(c, 4)[i] = (c \div Power[4 - i]) % Base
      BY <1>4, <3>1, DigitsType
    <3> QED  BY <3>1, <3>2, Zenon
  <2>2. 4 - 1 = 3 /\ 0 % Base = 0
    BY BaseAssumption
  <2> HIDE DEF d
  <2> QED  BY <1>5, <2>1, <2>2
<1>7. InvVectBytes(r) = d \o t
  <2> DEFINE x == Str(r[2])
  <2>1. x = t
    BY DEF Str
  <2>2. InvVectBytes(r) = Concat(<<d, t>>)
    BY <2>1, Zenon DEF InvVectBytes, c
  <2> HIDE DEF d, t
  <2> QED  BY <1>1, <1>6, <2>2, ConcatThree
<1> HIDE DEF d, t
<1>8. d \o t \in Seq(Bytes) /\ Len(d \o t) = 4 + Len(t) /\ (d \o t)[1] = d[1]
  <2>1. \A x \in Seq(Bytes), y \in Seq(Bytes) :
          Len(x) = 4 => x \o y \in Seq(Bytes) /\ Len(x \o y) = 4 + Len(y) /\ (x \o y)[1] = x[1]
    <3> TAKE x \in Seq(Bytes), y \in Seq(Bytes)
    <3> HAVE Len(x) = 4
    <3>1. 1 \in 1 .. Len(x) + Len(y) /\ 1 <= Len(x)
      OBVIOUS
    <3>2. x \o y \in Seq(Bytes) /\ Len(x \o y) = Len(x) + Len(y)
      BY CutConcat
    <3>3. (x \o y)[1] = x[1]
      BY <3>1, ConcatProperties
    <3> QED  BY <3>2, <3>3
  <2> QED  BY <1>1, <1>6, <2>1
<1> QED  BY <1>6, <1>7, <1>8 DEF t

(* One byte of whitespace is skipped.                                        *)
LEMMA OneSkipped ==
  ASSUME NEW s \in Seq(Bytes), Len(s) >= 2, s[1] \in Whitespace, s[2] \notin Whitespace
  PROVE  SkipWhitespace(s) = SubSeq(s, 2, Len(s))
<1> DEFINE I == {i \in 1 .. Len(s) : s[i] \notin Whitespace}
<1>1. 2 \in I /\ 1 \notin I
  OBVIOUS
<1>2. \A i \in I : 2 <= i
  OBVIOUS
<1>3. Min(I) = 2
  <2>1. \A x \in I : (\A y \in I : x <= y) => x = 2
    BY <1>1, <1>2
  <2> HIDE DEF I
  <2> QED  BY <1>1, <1>2, <2>1 DEF Min
<1>5. I # {} /\ 2 # 0
  BY <1>1
<1>6. SkipWhitespace(s) = IF (IF I # {} THEN Min(I) ELSE 0) = 0 THEN <<>>
                          ELSE SubSeq(s, IF I # {} THEN Min(I) ELSE 0, Len(s))
  BY Zenon DEF SkipWhitespace, SelectInSeq
<1> HIDE DEF I
<1> QED  BY <1>3, <1>5, <1>6

(* A count that is whitespace is skipped, and the 0 after it is read         *)
(* (operator>> of an unsigned char).                                         *)
LEMMA NumberSkipped ==
  ASSUME NEW s \in Seq(Bytes), Len(s) >= 2, s[1] \in Whitespace, s[2] = 0
  PROVE  ReadVarUint(Stream(s)).value = 0
<1> DEFINE skipped == SubSeq(s, 2, Len(s))
<1>1. s[2] \notin Whitespace
  BY WhitespaceAssumption
<1>2. SkipWhitespace(s) = skipped
  BY <1>1, OneSkipped
<1>3. skipped # <<>> /\ Head(skipped) = 0
  <2>1. Len(skipped) = Len(s) - 1 /\ skipped[1] = s[2] /\ skipped \in Seq(Bytes)
    OBVIOUS
  <2> HIDE DEF skipped
  <2> QED  BY <2>1
<1>4. ~Stream(s).failed /\ Stream(s).content = s
  BY DEF Stream
<1> HIDE DEF skipped
<1>5. ~(Stream(s).failed \/ SkipWhitespace(Stream(s).content) = <<>>)
      /\ Head(SkipWhitespace(Stream(s).content)) = 0
  BY <1>2, <1>3, <1>4
<1>6. 0 <= Base - 4 /\ 0 # Prefixed(2) /\ 0 # Prefixed(4)
  BY BaseAssumption DEF Prefixed
<1>7. ReadVarUint(Stream(s)) =
        [value |-> 0, stream |-> Stream(Tail(SkipWhitespace(Stream(s).content)))]
  BY <1>5, <1>6, Zenon DEF ReadVarUint
<1> QED  BY <1>7

\* The payload of a list of resources.
ListBytes(u) == Counted([i \in DOMAIN u |-> InvVectBytes(u[i])])

(* Every resource of a list has its bytes.                                   *)
LEMMA ListTexts ==
  ASSUME NEW u \in Seq(Named)
  PROVE  LET texts == [i \in DOMAIN u |-> InvVectBytes(u[i])]
         IN  /\ texts \in Seq(Seq(Bytes)) /\ Len(texts) = Len(u)
             /\ \A i \in 1 .. Len(u) : texts[i] = InvVectBytes(u[i]) /\ u[i] \in Named
<1> DEFINE n == Len(u)
           texts == [i \in DOMAIN u |-> InvVectBytes(u[i])]
<1>1. DOMAIN u = 1 .. n /\ n \in Nat /\ \A i \in 1 .. n : u[i] \in Named
  OBVIOUS
<1>2. \A i \in 1 .. n : InvVectBytes(u[i]) \in Seq(Bytes)
  BY <1>1, ResourceBytes
<1>3. texts \in [1 .. n -> Seq(Bytes)] /\ \A i \in 1 .. n : texts[i] = InvVectBytes(u[i])
  <2> HIDE DEF n
  <2> QED  BY <1>1, <1>2, Zenon
<1> HIDE DEF n, texts
<1>4. texts \in Seq(Seq(Bytes)) /\ Len(texts) = n
  BY <1>1, <1>3
<1> QED  BY <1>1, <1>3, <1>4 DEF n, texts

(* The count of an inventory is read as it was written, or as 0 when it      *)
(* begins with whitespace: the byte after it is 0 (readVar_uint, Inv_vect).  *)
LEMMA ListCount ==
  ASSUME NEW u \in Seq(Named), Len(u) < Power[8]
  PROVE  /\ CleanUint(Len(u)) => ReadVarUint(Stream(ListBytes(u))).value = Len(u)
         /\ ~CleanUint(Len(u)) => ReadVarUint(Stream(ListBytes(u))).value = 0
<1> DEFINE n == Len(u)
           texts == [i \in DOMAIN u |-> InvVectBytes(u[i])]
           size == VarUint(n)
           rest == Concat(texts)
<1>1. /\ n \in Nat /\ texts \in Seq(Seq(Bytes)) /\ Len(texts) = n
      /\ \A i \in 1 .. n : texts[i] = InvVectBytes(u[i]) /\ u[i] \in Named
  BY ListTexts
<1>2. ListBytes(u) = size \o rest
  <2>1. Counted(texts) = VarUint(Len(texts)) \o Concat(texts)
    BY Zenon DEF Counted
  <2> HIDE DEF texts
  <2> QED  BY <1>1, <2>1 DEF ListBytes, texts
<1> HIDE DEF texts
<1>3. rest \in Seq(Bytes) /\ size \in Seq(Bytes)
  BY <1>1, ConcatSteps, VarUintType
<1>4. CASE CleanUint(n)
  <2>1. ReadVarUint(Stream(size \o rest)) = [value |-> n, stream |-> Stream(rest)]
    BY <1>1, <1>3, <1>4, VarUintBack
  <2> HIDE DEF size, rest, n
  <2>2. ReadVarUint(Stream(ListBytes(u))).value = n
    BY <1>2, <2>1
  <2> QED  BY <1>4, <2>2 DEF n
<1>5. CASE ~CleanUint(n)
  <2>1. size = <<n>> /\ n \in Whitespace
    <3>1. Head(size) \in Whitespace
      BY <1>5 DEF CleanUint
    <3>2. CASE Width(n) = 0
      <4>1. size = <<n>>
        BY <1>1, <3>2, VarUintShape
      <4> HIDE DEF size, n
      <4>2. Head(<<n>>) = n
        OBVIOUS
      <4> QED  BY <3>1, <4>1, <4>2
    <3>3. CASE Width(n) # 0
      <4> DEFINE start == Prefixed(Width(n))
                 digits == Digits(n, Width(n))
      <4>1. size = <<start>> \o digits /\ start > Base - 4 /\ start \in Bytes
            /\ Width(n) \in {2, 4, 8}
        BY <1>1, <3>3, VarUintShape
      <4>2. digits \in Seq(Bytes)
        BY <1>1, <4>1, DigitsType
      <4> HIDE DEF start, digits, size
      <4>3. Head(size) = start
        BY <4>1, <4>2
      <4> QED  BY <3>1, <4>1, <4>3, WhitespaceAssumption, BaseAssumption DEF Bytes
    <3> QED  BY <3>2, <3>3
  <2>2. n >= 1
    BY <1>1, <2>1, WhitespaceAssumption
  <2>3. rest # <<>> /\ rest[1] = 0
    <3> DEFINE h == Head(texts)
               y == Concat(Tail(texts))
    <3>1. texts # <<>> /\ h = InvVectBytes(u[1]) /\ u[1] \in Named
          /\ Tail(texts) \in Seq(Seq(Bytes))
          /\ h \in Seq(Bytes)
      BY <1>1, <2>2
    <3>2. rest = h \o y /\ y \in Seq(Bytes)
      BY <1>1, <3>1, ConcatFirst, ConcatSteps
    <3>3. Len(h) > 0 /\ h[1] = 0
      <4>1. u[1][2] \in Seq(Bytes)
        BY <3>1 DEF Named
      <4>2. Len(u[1][2]) \in Nat
        BY <4>1
      <4> DEFINE r == u[1]
                 t == InvVectBytes(r)
      <4> HIDE DEF r
      <4>3. t \in Seq(Bytes) /\ Len(t) = 4 + Len(r[2]) /\ t[1] = 0
        BY <3>1, ResourceBytes DEF r
      <4>4. Len(t) > 0
        BY <4>2, <4>3 DEF r
      <4> HIDE DEF h, t
      <4>5. h = t
        BY <3>1 DEF t, r
      <4> QED  BY <4>3, <4>4, <4>5
    <3> HIDE DEF h, y, rest
    <3> QED  BY <3>1, <3>2, <3>3
  <2> DEFINE all == <<n>> \o rest
  <2>4. all \in Seq(Bytes) /\ Len(all) >= 2 /\ all[1] = n /\ all[2] = 0
    <3>1. n \in Bytes
      BY <2>1, WhitespaceAssumption, BaseAssumption DEF Bytes
    <3> HIDE DEF rest, n
    <3> QED  BY <1>3, <2>3, <3>1
  <2> HIDE DEF all
  <2>5. ReadVarUint(Stream(all)).value = 0
    BY <2>1, <2>4, NumberSkipped
  <2>6. ListBytes(u) = all
    BY <1>2, <2>1 DEF all
  <2> QED  BY <1>5, <2>5, <2>6
<1> QED  BY <1>4, <1>5 DEF n

(* Texts of bounded length make a text of bounded length.                    *)
LEMMA ConcatLength ==
  ASSUME NEW ss \in Seq(Seq(Bytes)), NEW b \in Nat, \A i \in 1 .. Len(ss) : Len(ss[i]) <= b
  PROVE  Len(Concat(ss)) <= Len(ss) * b
<1> DEFINE Q(k) == Len(Concat(SubSeq(ss, 1, k))) <= k * b
           Good == {k \in Nat : k <= Len(ss) => Q(k)}
<1>1. 0 \in Good
  <2>1. SubSeq(ss, 1, 0) = <<>> /\ Concat(<<>>) = <<>>
    BY Beginnings, ConcatSteps
  <2>2. Len(<<>>) = 0 /\ 0 * b = 0
    OBVIOUS
  <2>3. Q(0)
    <3>1. Len(Concat(SubSeq(ss, 1, 0))) = 0
      BY <2>1, <2>2, Zenon
    <3> DEFINE l == Len(Concat(SubSeq(ss, 1, 0)))
    <3> HIDE DEF l
    <3>2. l <= 0 * b
      BY <2>2, <3>1 DEF l
    <3> QED  BY <3>2 DEF l
  <2> HIDE DEF Q
  <2> QED  BY <2>3
<1>2. ASSUME NEW k \in Nat, k \in Good PROVE k + 1 \in Good
  <2> SUFFICES ASSUME k + 1 <= Len(ss) PROVE Q(k + 1)
    OBVIOUS
  <2> DEFINE a == SubSeq(ss, 1, k)
             e == ss[k + 1]
             y == Concat(a)
  <2>1. Q(k) /\ k \in 0 .. Len(ss) - 1 /\ k \in 0 .. Len(ss) /\ Len(e) <= b
    BY <1>2
  <2>2. a \in Seq(Seq(Bytes)) /\ SubSeq(ss, 1, k + 1) = Append(a, e) /\ e \in Seq(Bytes)
    <3> HIDE DEF Q
    <3> QED  BY <2>1, Beginnings
  <2>3. Len(y) <= k * b
    BY <2>1
  <2> HIDE DEF a, e
  <2>4. y \in Seq(Bytes) /\ Concat(Append(a, e)) = y \o e
    BY <2>2, ConcatSteps
  <2> HIDE DEF y
  <2>5. Len(y \o e) = Len(y) + Len(e) /\ Len(y) \in Nat /\ Len(e) \in Nat
    BY <2>2, <2>4, CutConcat
  <2>6. (k + 1) * b = k * b + b /\ k * b \in Nat
    OBVIOUS
  <2> DEFINE kb == k * b
             more == (k + 1) * b
  <2> HIDE DEF kb, more
  <2>7. Len(y) + Len(e) <= more
    BY <2>1, <2>3, <2>5, <2>6 DEF kb, more
  <2> QED  BY <2>2, <2>4, <2>5, <2>7 DEF more
<1>3. Nat \subseteq Good
  <2> HIDE DEF Good
  <2> QED  BY <1>1, <1>2, P!InductionOverNat
<1>4. Q(Len(ss))
  <2> HIDE DEF Q
  <2> QED  BY <1>3
<1> QED  BY <1>4, Beginnings

\* Resources whose hashes have not grown beyond some length.
UpTo(b) == {r \in Named : Len(r[2]) <= b}

(* A list of so many resources fits into a frame.                            *)
LEMMA ListShort ==
  ASSUME NEW b \in Nat, NEW u \in Seq(UpTo(b)), NEW n \in Nat, Len(u) <= n,
         9 + n * (4 + b) < Power[8]
  PROVE  ListBytes(u) \in Seq(Bytes) /\ Len(ListBytes(u)) < Power[8]
<1> DEFINE k == Len(u)
           texts == [i \in DOMAIN u |-> InvVectBytes(u[i])]
           size == VarUint(k)
           rest == Concat(texts)
<1>0. u \in Seq(Named) /\ \A i \in 1 .. k : Len(u[i][2]) <= b /\ u[i][2] \in Seq(Bytes)
  BY DEF UpTo, Named
<1>1. /\ k \in Nat /\ texts \in Seq(Seq(Bytes)) /\ Len(texts) = k
      /\ \A i \in 1 .. k : texts[i] = InvVectBytes(u[i]) /\ u[i] \in Named
  BY <1>0, ListTexts
<1>2. ListBytes(u) = size \o rest
  <2>1. Counted(texts) = VarUint(Len(texts)) \o Concat(texts)
    BY Zenon DEF Counted
  <2> HIDE DEF texts
  <2> QED  BY <1>1, <2>1 DEF ListBytes, texts
<1> HIDE DEF texts
<1>3. \A i \in 1 .. Len(texts) : Len(texts[i]) <= 4 + b
  <2> TAKE i \in 1 .. Len(texts)
  <2> DEFINE r == u[i]
             t == InvVectBytes(r)
  <2>1. texts[i] = t /\ r \in Named /\ Len(r[2]) <= b /\ Len(r[2]) \in Nat
    BY <1>0, <1>1
  <2> HIDE DEF r
  <2>2. Len(t) = 4 + Len(r[2])
    BY <2>1, ResourceBytes
  <2> HIDE DEF t
  <2> QED  BY <2>1, <2>2
<1>4. Len(rest) <= k * (4 + b)
  <2>1. 4 + b \in Nat
    OBVIOUS
  <2> HIDE DEF k
  <2> QED  BY <1>1, <1>3, <2>1, ConcatLength
<1>5. rest \in Seq(Bytes) /\ size \in Seq(Bytes) /\ Len(size) <= 9
  <2>1. size \in Seq(Bytes) /\ Len(size) = Width(k) + 1 /\ Width(k) \in {0, 2, 4, 8}
    BY <1>1, VarUintType
  <2>2. rest \in Seq(Bytes)
    BY <1>1, ConcatSteps
  <2> HIDE DEF size, rest
  <2> QED  BY <2>1, <2>2
<1> HIDE DEF size, rest
<1>6. k * (4 + b) <= n * (4 + b) /\ k * (4 + b) \in Int /\ n * (4 + b) \in Int
  <2> DEFINE c == 4 + b
  <2>1. c \in Nat /\ k <= n
    OBVIOUS
  <2> HIDE DEF c, k
  <2>2. \A d \in Nat : (k + d) * c = k * c + d * c /\ d * c \in Nat
    BY <1>1, <2>1
  <2>3. PICK d \in Nat : n = k + d
    <3>1. n - k \in Nat /\ n = k + (n - k)
      BY <1>1, <2>1
    <3> QED  BY <3>1
  <2>4. k * c \in Nat
    BY <1>1, <2>1
  <2>5. k * c <= n * c /\ k * c \in Int /\ n * c \in Int
    <3>1. n * c = k * c + d * c /\ d * c \in Nat
      BY <2>2, <2>3
    <3> DEFINE x == k * c
               y == d * c
               z == n * c
    <3> HIDE DEF x, y, z
    <3>2. x \in Nat /\ y \in Nat /\ z = x + y
      BY <2>4, <3>1 DEF x, y, z
    <3>3. x <= z /\ x \in Int /\ z \in Int
      BY <3>2
    <3> QED  BY <3>3 DEF x, z
  <2> QED  BY <2>5 DEF c
<1>7. size \o rest \in Seq(Bytes) /\ Len(size \o rest) = Len(size) + Len(rest)
      /\ Len(size) \in Nat /\ Len(rest) \in Nat
  BY <1>5, CutConcat
<1> DEFINE x == k * (4 + b)
           y == n * (4 + b)
<1>8. Len(size) + Len(rest) < Power[8]
  <2> HIDE DEF x, y
  <2>1. x <= y /\ x \in Int /\ y \in Int /\ Len(rest) <= x /\ 9 + y < Power[8]
    BY <1>4, <1>6 DEF x, y
  <2>2. Power[8] \in Nat
    BY PowerSizes
  <2> QED  BY <1>5, <1>7, <2>1, <2>2
<1> QED  BY <1>2, <1>7, <1>8

\* What the node lacks of an inventory.
Lacking(list) == {r \in ToSet(list) : r[1] # "invalidRes" /\ ~Exists(r[1], r[2])}

(* What is unknown of a list is a list of resources, and no longer.          *)
LEMMA UnknownTyped ==
  ASSUME NEW memory \in Memories, NEW list \in Seq(ShownResources(memory))
  PROVE  /\ Unknown(list) \in Seq(UpTo(HashLength + Len(memory.beyond)))
         /\ Len(Unknown(list)) <= Len(list)
<1> DEFINE S == Lacking(list)
           X == ShownResources(memory)
           b == HashLength + Len(memory.beyond)
<1>1. Unknown(list) = Those(list, S)
  BY DEF Unknown, Lacking
<1>2. Those(list, S) \in Seq(X \cap S) /\ Len(Those(list, S)) <= Len(list)
  <2> HIDE DEF S, X
  <2> QED  BY ThoseTyped DEF X
<1>3. X \cap S \subseteq UpTo(b)
  BY DEF Lacking, ShownResources, UpTo, Named, Kinds
<1>4. Seq(X \cap S) \subseteq Seq(UpTo(b))
  <2> DEFINE A == X \cap S
             B == UpTo(b)
  <2> HIDE DEF A, B
  <2>1. A \subseteq B
    BY <1>3 DEF A, B
  <2>2. Seq(A) \subseteq Seq(B)
    BY <2>1
  <2> QED  BY <2>2 DEF A, B
<1> QED  BY <1>1, <1>2, <1>4

\* The length of a resource once its hash has grown by what followed it.
Spread(memory) == 4 + HashLength + Len(memory.beyond)

(* It is a length, and one of a hash that has grown and of four bytes more.  *)
LEMMA SpreadTyped ==
  ASSUME NEW memory \in Memories
  PROVE  /\ HashLength + Len(memory.beyond) \in Nat
         /\ Spread(memory) = 4 + (HashLength + Len(memory.beyond)) /\ Spread(memory) \in Nat
         /\ Spread(memory) >= 1
<1> DEFINE l == Len(memory.beyond)
<1>1. memory.beyond \in Seq(1 .. Base - 1)
  BY GarbageAssumption DEF Memories
<1>2. l \in Nat /\ HashLength \in Nat
  BY <1>1, HashLengthAssumption
<1> HIDE DEF l
<1>3. /\ HashLength + l \in Nat /\ 4 + HashLength + l = 4 + (HashLength + l)
      /\ 4 + HashLength + l \in Nat /\ 4 + HashLength + l >= 1
  BY <1>2
<1> QED  BY <1>3 DEF Spread, l

(* A number of resources whose request would fit is one that a Var_uint can  *)
(* hold.                                                                     *)
LEMMA CountFits ==
  ASSUME NEW n \in Nat, NEW memory \in Memories, 9 + n * Spread(memory) < Power[8]
  PROVE  n < Power[8]
<1> DEFINE c == Spread(memory)
<1>1. c \in Nat /\ c >= 1
  BY SpreadTyped
<1>2. 9 + n * c < Power[8]
  OBVIOUS
<1>3. \A x \in Nat, y \in Nat : y >= 1 => x * y >= x /\ x * y \in Nat
  <2> TAKE x \in Nat, y \in Nat
  <2> HAVE y >= 1
  <2>1. y - 1 \in Nat /\ x * y = x * (y - 1) + x /\ x * (y - 1) \in Nat
    OBVIOUS
  <2> DEFINE z == x * (y - 1)
  <2> HIDE DEF z
  <2> QED  BY <2>1 DEF z
<1> HIDE DEF c
<1>4. n * c >= n /\ n * c \in Nat
  BY <1>1, <1>3
<1> DEFINE z == n * c
<1> HIDE DEF z
<1> QED  BY <1>2, <1>4, PowerSizes DEF z

\* Requests that fit their frames, and their bytes.
Asks == {u \in Seq(Named) : ListBytes(u) \in Seq(Bytes) /\ Len(ListBytes(u)) < Power[8]
                            /\ Len(u) < Power[8]}
Request(u) == HeaderBytes("getdata", Len(ListBytes(u))) \o ListBytes(u)
Requests(lists) == [k \in 1 .. Len(lists) |-> Request(lists[k])]

(* The request for what is unknown of bytes that are taken for an inventory  *)
(* fits its frame, whatever they were sent as.                               *)
LEMMA RequestFits ==
  ASSUME NEW payload \in Seq(Bytes), NEW memory \in Memories,
         9 + Len(Parsed("inv", payload, memory).value) * Spread(memory) < Power[8]
  PROVE  Unknown(Parsed("inv", payload, memory).value) \in Asks
<1> DEFINE s == Stream(payload)
           list == Parsed("inv", payload, memory).value
           n == Len(list)
           b == HashLength + Len(memory.beyond)
           u == Unknown(list)
<1>1. s \in Streams
  BY StreamIn
<1>2. list = Array(InvVect(memory))[s].value
  BY Zenon DEF Parsed, Message
<1>3. list \in Seq(ShownResources(memory))
  <2> HIDE DEF s, list
  <2> QED  BY <1>1, <1>2, InventoryTyped
<1>4. 9 + n * Spread(memory) < Power[8]
  OBVIOUS
<1> HIDE DEF list, s
<1>5. n \in Nat
  BY <1>3
<1>6. u \in Seq(UpTo(b)) /\ Len(u) <= n
  BY <1>3, UnknownTyped
<1>7. n < Power[8]
  BY <1>4, <1>5, CountFits
<1>8. 9 + n * (4 + b) < Power[8] /\ b \in Nat
  <2>1. Spread(memory) = 4 + b /\ b \in Nat
    BY SpreadTyped
  <2> HIDE DEF b, n
  <2> QED  BY <1>4, <2>1
<1> HIDE DEF u, b, n
<1>9. ListBytes(u) \in Seq(Bytes) /\ Len(ListBytes(u)) < Power[8]
  BY <1>5, <1>6, <1>8, ListShort
<1>10. u \in Seq(Named) /\ Len(u) < Power[8]
  <2>1. u \in Seq(Named)
    BY <1>6 DEF UpTo
  <2>2. Len(u) \in Nat
    BY <2>1
  <2> QED  BY <1>5, <1>6, <1>7, <2>1, <2>2, PowerSizes
<1> QED  BY <1>9, <1>10 DEF Asks, u, list

-----------------------------------------------------------------------------
\* Inventories and the requests that answer them.

\* What the node remembers of a message that it handled, and those of these
\* that were taken for inventories.
Handlings ==
  [message : Traffic, type : {FoundType(type, memory) : type \in Types, memory \in Memories},
   beyond : Garbage]
Takings == {h \in Handlings : h.type = "inv"}
Taken(handlings) == Those(handlings, Takings)

(* The messages that are answered are those that were taken so.              *)
LEMMA TakenAre ==
  ASSUME handled \in Seq(Handlings)
  PROVE  Answered = Taken(handled) /\ Taken(handled) \in Seq(Takings)
<1> DEFINE X == ToSet(handled)
           S == {h \in ToSet(handled) : h.type = "inv"}
<1>1. handled \in Seq(X) /\ \A h \in X : h \in Handlings
  BY DEF ToSet
<1>2. \A h \in X : h \in S <=> h \in Takings
  BY <1>1 DEF Takings
<1>3. Answered = Those(handled, S)
  BY DEF Answered
<1> HIDE DEF X, S
<1>4. Those(handled, S) = Those(handled, Takings)
  BY <1>1, <1>2, ThoseSame
<1>5. Those(handled, Takings) \in Seq(Takings)
  <2>1. Those(handled, Takings) \in Seq(Handlings \cap Takings)
    BY ThoseTyped
  <2>2. Handlings \cap Takings = Takings
    BY DEF Takings
  <2> QED  BY <2>1, <2>2
<1> QED  BY <1>3, <1>4, <1>5 DEF Taken

(* Handling a message adds to those when it is taken for an inventory.       *)
LEMMA TakenSteps ==
  ASSUME NEW handlings \in Seq(Handlings), NEW h \in Handlings
  PROVE  /\ Taken(handlings) \in Seq(Takings)
         /\ h.type = "inv" => Taken(Append(handlings, h)) = Append(Taken(handlings), h)
         /\ h.type # "inv" => Taken(Append(handlings, h)) = Taken(handlings)
<1>1. Those(handlings, Takings) \in Seq(Handlings \cap Takings)
  BY ThoseTyped
<1>2. Handlings \cap Takings = Takings /\ (h \in Takings <=> h.type = "inv")
  BY DEF Takings
<1>3. /\ h \in Takings => Those(Append(handlings, h), Takings) = Append(Those(handlings, Takings), h)
      /\ h \notin Takings => Those(Append(handlings, h), Takings) = Those(handlings, Takings)
  BY ThoseNext
<1> QED  BY <1>1, <1>2, <1>3 DEF Taken

(* A request is sent as a message and arrives as it (GetData, sendMessage).  *)
LEMMA RequestIsFrame ==
  ASSUME NEW u \in Asks, NEW memory \in Memories
  PROVE  /\ Request(u) \in Whole /\ Frame(GetData(u), memory) = Request(u)
         /\ \A rest \in Seq(Bytes) :
              /\ Arrived(Request(u) \o rest, memory).payload = ListBytes(u)
              /\ Arrived(Request(u) \o rest, memory).rest = rest
<1>1. ListBytes(u) \in Seq(Bytes) /\ Len(ListBytes(u)) < Power[8] /\ "getdata" \in Types
  BY DEF Asks, Types
<1>2. Request(u) \in Whole
  BY <1>1, FrameWhole DEF Request
<1>3. Frame(GetData(u), memory) = Request(u)
  <2>1. GetData(u).type = "getdata" /\ GetData(u).value = u
    BY DEF GetData
  <2>2. Payload("getdata", u, memory) = ListBytes(u)
    BY DEF Payload, ListBytes
  <2> QED  BY <2>1, <2>2, Zenon DEF Frame, Request
<1>4. ASSUME NEW rest \in Seq(Bytes)
      PROVE  /\ Arrived(Request(u) \o rest, memory).payload = ListBytes(u)
             /\ Arrived(Request(u) \o rest, memory).rest = rest
  <2> DEFINE payload == ListBytes(u)
             type == FoundType("getdata", memory)
             m == Arrived(Request(u) \o rest, memory)
  <2> HIDE DEF payload
  <2>1. payload \in Seq(Bytes) /\ Len(payload) < Power[8]
    BY <1>1 DEF payload
  <2>2. Arrived((HeaderBytes("getdata", Len(payload)) \o payload) \o rest, memory) =
          [type |-> type, payload |-> payload, rest |-> rest]
    BY <1>1, <2>1, FrameArrives
  <2>3. m = [type |-> type, payload |-> payload, rest |-> rest]
    BY <2>2 DEF Request, payload
  <2> HIDE DEF m, type
  <2>4. m.payload = payload /\ m.rest = rest
    BY <2>3
  <2> QED  BY <2>4 DEF m, payload
<1> QED  BY <1>2, <1>3, <1>4

(* The frames of requests, one by one.                                       *)
LEMMA RequestsSteps ==
  ASSUME NEW lists \in Seq(Asks)
  PROVE  /\ Requests(lists) \in Seq(Whole) /\ Len(Requests(lists)) = Len(lists)
         /\ \A k \in 1 .. Len(lists) : Requests(lists)[k] = Request(lists[k])
         /\ \A u \in Asks : Requests(Append(lists, u)) = Append(Requests(lists), Request(u))
<1>1. \A s \in Seq(Asks) : /\ Requests(s) \in Seq(Whole) /\ Len(Requests(s)) = Len(s)
                           /\ \A k \in 1 .. Len(s) : Requests(s)[k] = Request(s[k])
  <2> TAKE s \in Seq(Asks)
  <2> DEFINE n == Len(s)
             r == Requests(s)
  <2>1. n \in Nat /\ \A k \in 1 .. n : s[k] \in Asks
    OBVIOUS
  <2>2. \A k \in 1 .. n : Request(s[k]) \in Whole
    BY <2>1, SomeMemory, RequestIsFrame
  <2>3. r \in [1 .. n -> Whole] /\ \A k \in 1 .. n : r[k] = Request(s[k])
    <3> HIDE DEF n
    <3>1. r = [k \in 1 .. n |-> Request(s[k])]
      BY DEF Requests, n
    <3> HIDE DEF r
    <3> QED  BY <2>2, <3>1, Zenon
  <2> HIDE DEF n, r
  <2>4. r \in Seq(Whole) /\ Len(r) = n
    BY <2>1, <2>3
  <2> QED  BY <2>3, <2>4 DEF n, r
<1>2. ASSUME NEW u \in Asks PROVE Requests(Append(lists, u)) = Append(Requests(lists), Request(u))
  <2> DEFINE more == Append(lists, u)
             n == Len(lists)
             a == Requests(more)
             b == Requests(lists)
             r == Request(u)
  <2>1. more \in Seq(Asks) /\ Len(more) = n + 1 /\ more[n + 1] = u /\ n \in Nat
        /\ \A i \in 1 .. n : more[i] = lists[i]
    OBVIOUS
  <2>2. r \in Whole
    BY SomeMemory, RequestIsFrame
  <2> HIDE DEF more, n
  <2>3. a \in Seq(Whole) /\ Len(a) = n + 1 /\ \A k \in 1 .. n + 1 : a[k] = Request(more[k])
    BY <1>1, <2>1
  <2>4. b \in Seq(Whole) /\ Len(b) = n /\ \A k \in 1 .. n : b[k] = Request(lists[k])
    BY <1>1 DEF n
  <2>5. a[n + 1] = r /\ \A i \in 1 .. n : a[i] = b[i]
    BY <2>1, <2>3, <2>4
  <2> HIDE DEF a, b, r
  <2>6. Append(b, r) \in Seq(Whole) /\ Len(Append(b, r)) = n + 1 /\ Append(b, r)[n + 1] = r
        /\ \A i \in 1 .. n : Append(b, r)[i] = b[i]
    BY <2>2, <2>4
  <2>7. \A i \in 1 .. n + 1 : a[i] = Append(b, r)[i]
    BY <2>1, <2>5, <2>6
  <2> QED  BY <2>3, <2>6, <2>7, SeqEqual DEF a, b, r, more
<1> QED  BY <1>1, <1>2

(* A message of the peer arrives with its payload, under the type that its   *)
(* name shows.                                                               *)
LEMMA TrafficFrame ==
  ASSUME NEW m \in Traffic, NEW written \in Memories
  PROVE  LET payload == Payload(m.type, m.value, written)
         IN  /\ m.type \in Types /\ payload \in Seq(Bytes) /\ Len(payload) < Power[8]
             /\ Frame(m, written) \in Whole
             /\ \A rest \in Seq(Bytes), memory \in Memories :
                  Arrived(Frame(m, written) \o rest, memory) =
                    [type |-> FoundType(m.type, memory), payload |-> payload, rest |-> rest]
<1> DEFINE payload == Payload(m.type, m.value, written)
<1>1. m.type \in Types /\ payload \in Seq(Bytes) /\ Len(payload) < Power[8]
  BY TrafficAssumption
<1>2. Frame(m, written) = HeaderBytes(m.type, Len(payload)) \o payload
  BY Zenon DEF Frame
<1> HIDE DEF payload
<1>3. Frame(m, written) \in Whole
  BY <1>1, <1>2, FrameWhole
<1>4. \A rest \in Seq(Bytes), memory \in Memories :
        Arrived((HeaderBytes(m.type, Len(payload)) \o payload) \o rest, memory) =
          [type |-> FoundType(m.type, memory), payload |-> payload, rest |-> rest]
  BY <1>1, FrameArrives
<1> QED  BY <1>1, <1>2, <1>3, <1>4, Zenon DEF payload

\* Messages and their frames.
Framed(messages, frames) ==
  /\ frames \in Seq(Whole) /\ Len(frames) = Len(messages)
  /\ \A i \in 1 .. Len(messages) : \E memory \in Memories : frames[i] = Frame(messages[i], memory)

\* What the node asks for of what it took for an inventory, and what the peer
\* reads of it.
Answers(list, h) ==
  \E written \in Memories, memory \in Memories :
    /\ memory.beyond = h.beyond
    /\ list =
         Unknown(Parsed("inv", Payload(h.message.type, h.message.value, written), memory).value)
ReadOf(read, list) ==
  \E memory \in Memories :
    memory.beyond = read.beyond /\ read.list = Parsed("getdata", ListBytes(list), memory).value
Answering(lists, taken) ==
  /\ lists \in Seq(Asks) /\ Len(lists) = Len(taken)
  /\ \A k \in 1 .. Len(lists) : Answers(lists[k], taken[k])
ReadIn(lists, reads) ==
  /\ Len(reads) <= Len(lists)
  /\ \A k \in 1 .. Len(reads) : ReadOf(reads[k], lists[k])

Readings ==
  [list : {Parsed("getdata", payload, memory).value : payload \in Seq(Bytes), memory \in Memories},
   beyond : Garbage]

\* What is under way to the node, and to the peer.
ToNode(messages, n, bytes) ==
  \E frames : Framed(messages, frames) /\ bytes = Concat(After(frames, n))
ToPeer(handlings, bytes, reads) ==
  \E lists : /\ Answering(lists, Taken(handlings)) /\ ReadIn(lists, reads)
             /\ bytes = Concat(After(Requests(lists), Len(reads)))

\* The inductive invariant.
IInvInventory ==
  /\ sent \in Seq(Traffic) /\ handled \in Seq(Handlings) /\ asked \in Seq(Readings)
  /\ Len(handled) <= Len(sent)
  /\ ToNode(sent, Len(handled), toNode)
  /\ ToPeer(handled, toPeer, asked)

(* What the peer sends comes last on the way to the node.                    *)
LEMMA SendComes ==
  ASSUME NEW s \in Seq(Traffic), NEW h \in 0 .. Len(s), NEW bytes, ToNode(s, h, bytes),
         NEW m \in Traffic, NEW memory \in Memories
  PROVE  ToNode(Append(s, m), h, bytes \o Frame(m, memory))
<1> DEFINE f == Frame(m, memory)
           more == Append(s, m)
<1>1. PICK frames : Framed(s, frames) /\ bytes = Concat(After(frames, h))
  BY DEF ToNode
<1>2. frames \in Seq(Whole) /\ Len(frames) = Len(s) /\ f \in Whole
  BY <1>1, TrafficFrame DEF Framed
<1> HIDE DEF f
<1>3. After(Append(frames, f), h) = Append(After(frames, h), f)
  BY <1>2, AfterSteps
<1>4. After(frames, h) \in Seq(Seq(Bytes)) /\ f \in Seq(Bytes)
  <2>1. After(frames, h) \in Seq(Whole)
    BY <1>2, AfterSteps
  <2> QED  BY <1>2, <2>1, WholeTexts DEF Whole
<1>5. Concat(After(Append(frames, f), h)) = bytes \o f
  BY <1>1, <1>3, <1>4, ConcatSteps
<1>6. Framed(more, Append(frames, f))
  <2>1. /\ Len(more) = Len(s) + 1 /\ more[Len(s) + 1] = m /\ \A i \in 1 .. Len(s) : more[i] = s[i]
        /\ Len(s) \in Nat
    OBVIOUS
  <2> HIDE DEF more
  <2> DEFINE g == Append(frames, f)
  <2>2. /\ g \in Seq(Whole) /\ Len(g) = Len(s) + 1 /\ g[Len(s) + 1] = f
        /\ \A i \in 1 .. Len(s) : g[i] = frames[i]
    BY <1>2
  <2> HIDE DEF g
  <2>3. ASSUME NEW i \in 1 .. Len(more) PROVE \E mem \in Memories : g[i] = Frame(more[i], mem)
    <3>1. CASE i \in 1 .. Len(s)
      <4>1. \E mem \in Memories : frames[i] = Frame(s[i], mem)
        BY <1>1, <3>1 DEF Framed
      <4> QED  BY <2>1, <2>2, <3>1, <4>1
    <3>2. CASE i = Len(s) + 1
      <4>1. g[i] = f /\ more[i] = m
        BY <2>1, <2>2, <3>2
      <4> QED  BY <4>1, Zenon DEF f
    <3> QED  BY <2>1, <3>1, <3>2
  <2> QED  BY <2>1, <2>2, <2>3 DEF Framed, g
<1> QED  BY <1>5, <1>6, Zenon DEF ToNode, f

(* The node takes one message.                                               *)
LEMMA NodeTakes ==
  ASSUME NEW s \in Seq(Traffic), NEW h \in 0 .. Len(s), NEW bytes, ToNode(s, h, bytes),
         bytes # <<>>, NEW memory \in Memories
  PROVE  LET m == Arrived(bytes, memory)
             e == s[h + 1]
         IN  /\ h < Len(s) /\ e \in Traffic /\ m.type = FoundType(e.type, memory)
             /\ \E written \in Memories : m.payload = Payload(e.type, e.value, written)
             /\ ToNode(s, h + 1, m.rest)
<1>1. PICK frames : Framed(s, frames) /\ bytes = Concat(After(frames, h))
  BY DEF ToNode
<1>2. frames \in Seq(Whole) /\ Len(frames) = Len(s) /\ h \in 0 .. Len(frames)
  BY <1>1 DEF Framed
<1>3. h < Len(s)
  <2>1. h = Len(frames) \/ h < Len(frames)
    BY <1>2
  <2> QED  BY <1>1, <1>2, <2>1, AfterWhole
<1> DEFINE rest == Concat(After(frames, h + 1))
           e == s[h + 1]
<1>4. bytes = frames[h + 1] \o rest /\ rest \in Seq(Bytes)
  BY <1>1, <1>2, <1>3, AfterWhole
<1>5. PICK written \in Memories : frames[h + 1] = Frame(e, written)
  <2>1. h + 1 \in 1 .. Len(s)
    BY <1>3
  <2> QED  BY <1>1, <2>1 DEF Framed
<1>6. e \in Traffic
  BY <1>3
<1> HIDE DEF rest, e
<1> DEFINE p == Payload(e.type, e.value, written)
           found == FoundType(e.type, memory)
           m == Arrived(bytes, memory)
<1>7. m = [type |-> found, payload |-> p, rest |-> rest]
  BY <1>4, <1>5, <1>6, TrafficFrame
<1> HIDE DEF m, p, found
<1>8. m.type = found /\ m.payload = p /\ m.rest = rest
  BY <1>7
<1>9. ToNode(s, h + 1, m.rest)
  BY <1>1, <1>8, Zenon DEF ToNode, rest
<1> QED  BY <1>3, <1>6, <1>8, <1>9, Zenon DEF m, e, p, found

(* A message that is taken for anything else is answered by nothing          *)
(* (onUnknown).                                                              *)
LEMMA OtherAnswersNothing ==
  ASSUME NEW handlings \in Seq(Handlings), NEW h \in Handlings, h.type # "inv", NEW bytes,
         NEW reads, ToPeer(handlings, bytes, reads)
  PROVE  ToPeer(Append(handlings, h), bytes, reads)
<1>1. Taken(Append(handlings, h)) = Taken(handlings)
  BY TakenSteps
<1> QED  BY <1>1, Zenon DEF ToPeer

(* The node answers what it takes for an inventory by one request.           *)
LEMMA InventoryAnswered ==
  ASSUME NEW handlings \in Seq(Handlings), NEW h \in Handlings, h.type = "inv", NEW bytes,
         NEW reads \in Seq(Readings), ToPeer(handlings, bytes, reads), NEW memory \in Memories,
         NEW u \in Asks, Answers(u, h)
  PROVE  ToPeer(Append(handlings, h), bytes \o Frame(GetData(u), memory), reads)
<1> DEFINE old == Taken(handlings)
           n == Len(reads)
<1>1. PICK lists : /\ Answering(lists, old) /\ ReadIn(lists, reads)
                   /\ bytes = Concat(After(Requests(lists), n))
  BY Zenon DEF ToPeer
<1>2. Taken(Append(handlings, h)) = Append(old, h) /\ h \in Takings /\ old \in Seq(Takings)
  BY TakenSteps DEF Takings
<1> HIDE DEF old
<1>4. lists \in Seq(Asks) /\ Len(lists) = Len(old) /\ n <= Len(lists) /\ n \in Nat
  BY <1>1 DEF Answering, ReadIn
<1> DEFINE more == Append(lists, u)
           r == Request(u)
           rs == Requests(lists)
<1>5. rs \in Seq(Whole) /\ Len(rs) = Len(lists) /\ Requests(more) = Append(rs, r) /\ r \in Whole
      /\ Frame(GetData(u), memory) = r
  BY <1>4, RequestsSteps, RequestIsFrame
<1> HIDE DEF r, rs, n
<1>6. n \in 0 .. Len(rs)
  BY <1>4, <1>5
<1>7. After(Append(rs, r), n) = Append(After(rs, n), r) /\ After(rs, n) \in Seq(Whole)
  BY <1>5, <1>6, AfterSteps
<1>8. After(rs, n) \in Seq(Seq(Bytes)) /\ r \in Seq(Bytes)
  BY <1>5, <1>7, WholeTexts DEF Whole
<1>9. Concat(After(Requests(more), n)) = bytes \o Frame(GetData(u), memory)
  <2>1. Concat(Append(After(rs, n), r)) = Concat(After(rs, n)) \o r
    BY <1>8, ConcatSteps
  <2>2. bytes = Concat(After(rs, n))
    BY <1>1 DEF rs
  <2> HIDE DEF more
  <2> QED  BY <1>5, <1>7, <2>1, <2>2
<1> DEFINE new == Append(old, h)
<1>10. /\ more \in Seq(Asks) /\ Len(more) = Len(lists) + 1 /\ more[Len(lists) + 1] = u
       /\ \A i \in 1 .. Len(lists) : more[i] = lists[i]
       /\ Len(lists) \in Nat
  BY <1>4
<1>11. /\ Len(new) = Len(old) + 1 /\ new[Len(old) + 1] = h
       /\ \A i \in 1 .. Len(old) : new[i] = old[i]
  BY <1>2
<1> HIDE DEF more, new
<1>12. Answering(more, new)
  <2>1. ASSUME NEW k \in 1 .. Len(more) PROVE Answers(more[k], new[k])
    <3>1. CASE k \in 1 .. Len(lists)
      <4>1. Answers(lists[k], old[k])
        BY <1>1, <3>1 DEF Answering
      <4>2. more[k] = lists[k] /\ new[k] = old[k]
        BY <1>4, <1>10, <1>11, <3>1
      <4> QED  BY <4>1, <4>2
    <3>2. CASE k = Len(lists) + 1
      <4>1. more[k] = u /\ new[k] = h
        BY <1>4, <1>10, <1>11, <3>2
      <4> QED  BY <4>1
    <3> QED  BY <1>10, <3>1, <3>2
  <2>2. Len(more) = Len(new)
    BY <1>4, <1>10, <1>11
  <2> QED  BY <1>10, <2>1, <2>2 DEF Answering
<1>13. ReadIn(more, reads)
  <2>1. ASSUME NEW k \in 1 .. Len(reads) PROVE ReadOf(reads[k], more[k])
    <3>1. k \in 1 .. Len(lists)
      BY <1>4 DEF n
    <3>2. ReadOf(reads[k], lists[k])
      BY <1>1 DEF ReadIn
    <3> QED  BY <1>10, <3>1, <3>2
  <2>2. Len(reads) <= Len(more)
    BY <1>4, <1>10 DEF n
  <2> QED  BY <2>1, <2>2 DEF ReadIn
<1> QED  BY <1>2, <1>9, <1>12, <1>13, Zenon DEF ToPeer, new, n

(* The peer takes one request.                                               *)
LEMMA PeerTakes ==
  ASSUME NEW handlings, NEW bytes, NEW reads \in Seq(Readings),
         ToPeer(handlings, bytes, reads), bytes # <<>>, NEW memory \in Memories
  PROVE  LET m == Arrived(bytes, memory)
             read == [list |-> Parsed("getdata", m.payload, memory).value,
                      beyond |-> memory.beyond]
         IN  read \in Readings /\ ToPeer(handlings, m.rest, Append(reads, read))
<1> DEFINE n == Len(reads)
<1>1. PICK lists : /\ Answering(lists, Taken(handlings)) /\ ReadIn(lists, reads)
                   /\ bytes = Concat(After(Requests(lists), n))
  BY Zenon DEF ToPeer
<1> DEFINE rs == Requests(lists)
<1>2. lists \in Seq(Asks) /\ n <= Len(lists) /\ n \in Nat /\ rs \in Seq(Whole)
      /\ Len(rs) = Len(lists)
  BY <1>1, RequestsSteps DEF Answering, ReadIn
<1>3. n \in 0 .. Len(rs) /\ (n = Len(rs) \/ n < Len(rs))
  <2> HIDE DEF rs, n
  <2> QED  BY <1>2
<1>4. n < Len(rs)
  <2> HIDE DEF rs, n
  <2> QED  BY <1>1, <1>2, <1>3, AfterWhole DEF rs
<1> DEFINE rest == Concat(After(rs, n + 1))
           u == lists[n + 1]
<1>5. bytes = rs[n + 1] \o rest /\ rest \in Seq(Bytes)
  <2> HIDE DEF rs, n
  <2> QED  BY <1>1, <1>2, <1>3, <1>4, AfterWhole DEF rs
<1>6. u \in Asks /\ rs[n + 1] = Request(u)
  <2>1. n + 1 \in 1 .. Len(lists)
    <3> HIDE DEF rs, n
    <3> QED  BY <1>2, <1>4
  <2> HIDE DEF n
  <2> QED  BY <1>2, <2>1, RequestsSteps
<1> HIDE DEF rest, u, rs
<1> DEFINE m == Arrived(bytes, memory)
           list == Parsed("getdata", m.payload, memory).value
           read == [list |-> list, beyond |-> memory.beyond]
<1>7. m.payload = ListBytes(u) /\ m.rest = rest
  BY <1>5, <1>6, RequestIsFrame
<1> HIDE DEF m
<1>8. list = Parsed("getdata", ListBytes(u), memory).value
  BY <1>7, Zenon
<1> HIDE DEF list
<1>9. read.list = list /\ read.beyond = memory.beyond
  OBVIOUS
<1>10. read \in Readings
  <2>1. ListBytes(u) \in Seq(Bytes) /\ memory.beyond \in Garbage
    BY <1>6 DEF Asks, Memories
  <2>2. \E payload \in Seq(Bytes), mem \in Memories : list = Parsed("getdata", payload, mem).value
    BY <1>8, <2>1
  <2> QED  BY <2>1, <2>2 DEF Readings
<1>a. ReadOf(read, u)
  BY <1>8, <1>9, Zenon DEF ReadOf
<1> HIDE DEF read
<1> DEFINE more == Append(reads, read)
<1>11. /\ Len(more) = n + 1 /\ more[n + 1] = read /\ \A i \in 1 .. n : more[i] = reads[i]
  BY <1>10
<1> HIDE DEF more, n
<1>12. ReadIn(lists, more)
  <2>1. ASSUME NEW k \in 1 .. Len(more) PROVE ReadOf(more[k], lists[k])
    <3>1. CASE k \in 1 .. n
      <4>1. ReadOf(reads[k], lists[k])
        BY <1>1, <3>1 DEF ReadIn, n
      <4> QED  BY <1>11, <3>1, <4>1
    <3>2. CASE k = n + 1
      <4>1. more[k] = read /\ lists[k] = u
        BY <1>11, <3>2 DEF u
      <4> QED  BY <1>a, <4>1
    <3> QED  BY <1>2, <1>11, <3>1, <3>2
  <2>2. Len(more) <= Len(lists)
    BY <1>2, <1>4, <1>11
  <2> QED  BY <2>1, <2>2 DEF ReadIn
<1>13. ToPeer(handlings, m.rest, more)
  <2>1. m.rest = Concat(After(Requests(lists), Len(more)))
    BY <1>7, <1>11, Zenon DEF rest, rs
  <2> QED  BY <1>1, <1>12, <2>1, Zenon DEF ToPeer
<1> QED  BY <1>10, <1>13 DEF m, read, list, more

-----------------------------------------------------------------------------
\* The inductive invariant.

(* At first nothing is sent, under way or read.                              *)
LEMMA NothingYet ==
  /\ <<>> \in Seq(Traffic) /\ <<>> \in Seq(Handlings) /\ <<>> \in Seq(Readings)
  /\ Len(<<>>) <= Len(<<>>)
  /\ ToNode(<<>>, Len(<<>>), <<>>) /\ ToPeer(<<>>, <<>>, <<>>)
<1>1. /\ <<>> \in Seq(Traffic) /\ <<>> \in Seq(Handlings) /\ <<>> \in Seq(Readings)
      /\ <<>> \in Seq(Whole) /\ <<>> \in Seq(Asks) /\ Len(<<>>) = 0
  OBVIOUS
<1>2. \A X : \A s \in Seq(X) : Len(s) = 0 => s = <<>>
  OBVIOUS
<1>3. After(<<>>, 0) = <<>> /\ Concat(<<>>) = <<>> /\ Taken(<<>>) = <<>>
  <2>1. Those(<<>>, Takings) = <<>>
    BY ThoseSteps
  <2>2. After(<<>>, 0) = <<>>
    BY DEF After
  <2> QED  BY <2>1, <2>2, ConcatSteps, Zenon DEF Taken
<1>4. Requests(<<>>) = <<>>
  <2>1. Requests(<<>>) \in Seq(Whole) /\ Len(Requests(<<>>)) = 0
    BY <1>1, RequestsSteps
  <2> QED  BY <1>2, <2>1
<1>5. (\A k : k \notin 1 .. Len(<<>>)) /\ Len(<<>>) <= Len(<<>>)
  BY <1>1
<1>6. Framed(<<>>, <<>>)
  BY <1>1, <1>5 DEF Framed
<1>7. ToNode(<<>>, 0, <<>>)
  BY <1>3, <1>6, Zenon DEF ToNode
<1>8. Answering(<<>>, <<>>) /\ ReadIn(<<>>, <<>>)
  BY <1>1, <1>5 DEF Answering, ReadIn
<1>9. After(Requests(<<>>), Len(<<>>)) = <<>>
  BY <1>1, <1>3, <1>4, Zenon
<1>10. ToPeer(<<>>, <<>>, <<>>)
  BY <1>3, <1>8, <1>9, Zenon DEF ToPeer
<1> QED  BY <1>1, <1>5, <1>7, <1>10, Zenon

(* The invariant holds at first.                                             *)
LEMMA InventoryInitIInv == InventoryInit => IInvInventory
<1> SUFFICES ASSUME InventoryInit PROVE IInvInventory
  OBVIOUS
<1>1. sent = <<>> /\ handled = <<>> /\ toNode = <<>> /\ toPeer = <<>> /\ asked = <<>>
  BY DEF InventoryInit
<1> QED  BY <1>1, NothingYet, Zenon DEF IInvInventory

(* So many messages are handled as were sent, at most.                       *)
LEMMA HandledOfSent ==
  ASSUME IInvInventory
  PROVE  Len(handled) \in 0 .. Len(sent) /\ Len(handled) \in Nat /\ Len(sent) \in Nat
<1>1. sent \in Seq(Traffic) /\ handled \in Seq(Handlings) /\ Len(handled) <= Len(sent)
  BY DEF IInvInventory
<1> QED  BY <1>1

(* The invariant is kept when the peer sends.                                *)
LEMMA SendKeeps ==
  ASSUME IInvInventory, NEW m \in Traffic, NEW memory \in Memories, Send(m, memory)
  PROVE  IInvInventory'
<1> DEFINE n == Len(handled)
           more == Append(sent, m)
<1>1. /\ sent \in Seq(Traffic) /\ handled \in Seq(Handlings) /\ asked \in Seq(Readings)
      /\ ToNode(sent, n, toNode) /\ ToPeer(handled, toPeer, asked)
  BY DEF IInvInventory
<1>2. /\ sent' = more /\ toNode' = toNode \o Frame(m, memory)
      /\ handled' = handled /\ toPeer' = toPeer /\ asked' = asked
  BY DEF Send
<1>3. n \in 0 .. Len(sent) /\ n \in Nat /\ Len(sent) \in Nat
  BY HandledOfSent
<1>4. more \in Seq(Traffic) /\ Len(more) = Len(sent) + 1
  BY <1>1
<1> HIDE DEF n
<1>5. ToNode(more, n, toNode \o Frame(m, memory))
  BY <1>1, <1>3, SendComes
<1> HIDE DEF more
<1>6. n <= Len(more)
  BY <1>3, <1>4
<1>7. /\ sent' \in Seq(Traffic) /\ handled' \in Seq(Handlings) /\ asked' \in Seq(Readings)
      /\ Len(handled') <= Len(sent')
      /\ ToNode(sent', Len(handled'), toNode') /\ ToPeer(handled', toPeer', asked')
  BY <1>1, <1>2, <1>4, <1>5, <1>6, Zenon DEF n
<1> QED  BY <1>7, Zenon DEF IInvInventory

(* The node handles the next message, as what it is taken for.               *)
LEMMA HandleNext ==
  ASSUME IInvInventory, NEW memory \in Memories, toNode # <<>>
  PROVE  LET m == Arrived(toNode, memory)
             e == sent[Len(handled) + 1]
             h == [message |-> e, type |-> m.type, beyond |-> memory.beyond]
         IN  /\ h \in Handlings /\ e \in Traffic /\ m.type = FoundType(e.type, memory)
             /\ \E written \in Memories : m.payload = Payload(e.type, e.value, written)
             /\ Append(handled, h) \in Seq(Handlings)
             /\ Len(Append(handled, h)) <= Len(sent)
             /\ ToNode(sent, Len(Append(handled, h)), m.rest)
<1> DEFINE m == Arrived(toNode, memory)
           n == Len(handled)
           e == sent[n + 1]
           h == [message |-> e, type |-> m.type, beyond |-> memory.beyond]
<1>1. sent \in Seq(Traffic) /\ handled \in Seq(Handlings) /\ ToNode(sent, n, toNode)
  BY DEF IInvInventory
<1>2. n \in 0 .. Len(sent) /\ n \in Nat /\ Len(sent) \in Nat
  BY HandledOfSent
<1>3. /\ n < Len(sent) /\ e \in Traffic /\ m.type = FoundType(e.type, memory)
      /\ \E written \in Memories : m.payload = Payload(e.type, e.value, written)
      /\ ToNode(sent, n + 1, m.rest)
  <2> HIDE DEF n
  <2> QED  BY <1>1, <1>2, NodeTakes
<1>4. h \in Handlings
  <2>1. e.type \in Types /\ memory.beyond \in Garbage
    BY <1>3, TrafficAssumption DEF Memories
  <2>2. m.type \in {FoundType(type, mem) : type \in Types, mem \in Memories}
    BY <1>3, <2>1
  <2> DEFINE found == m.type
  <2> HIDE DEF m, e, found
  <2>3. [message |-> e, type |-> found, beyond |-> memory.beyond] \in Handlings
    BY <1>3, <2>1, <2>2 DEF Handlings, found
  <2> QED  BY <2>3 DEF found
<1> HIDE DEF h, e, m
<1>5. Append(handled, h) \in Seq(Handlings) /\ Len(Append(handled, h)) = n + 1
  BY <1>1, <1>4
<1> DEFINE more == Append(handled, h)
<1> HIDE DEF more
<1>6. Len(more) <= Len(sent) /\ ToNode(sent, Len(more), m.rest) /\ more \in Seq(Handlings)
  <2>1. Len(more) = n + 1 /\ more \in Seq(Handlings)
    BY <1>5 DEF more
  <2> HIDE DEF n
  <2>2. Len(more) <= Len(sent)
    BY <1>2, <1>3, <2>1
  <2> QED  BY <1>3, <2>1, <2>2, Zenon
<1> QED  BY <1>3, <1>4, <1>6, Zenon DEF h, e, m, more

(* The invariant is kept when the node handles what it takes for an          *)
(* inventory (onInv).                                                        *)
LEMMA OnInvKeeps ==
  ASSUME IInvInventory, NEW memory \in Memories, OnInv(memory)
  PROVE  IInvInventory'
<1> DEFINE m == Arrived(toNode, memory)
           u == Unknown(Parsed("inv", m.payload, memory).value)
           e == sent[Len(handled) + 1]
           h == [message |-> e, type |-> m.type, beyond |-> memory.beyond]
           more == Append(handled, h)
<1>1. /\ sent \in Seq(Traffic) /\ handled \in Seq(Handlings) /\ asked \in Seq(Readings)
      /\ ToPeer(handled, toPeer, asked)
  BY DEF IInvInventory
<1>2. /\ toNode # <<>> /\ m.type = "inv" /\ toPeer' = toPeer \o Frame(GetData(u), memory)
      /\ toNode' = m.rest /\ handled' = more /\ sent' = sent /\ asked' = asked
  BY DEF OnInv, Handle
<1>3. /\ h \in Handlings /\ e \in Traffic /\ m.type = FoundType(e.type, memory)
      /\ \E written \in Memories : m.payload = Payload(e.type, e.value, written)
      /\ more \in Seq(Handlings) /\ Len(more) <= Len(sent) /\ ToNode(sent, Len(more), m.rest)
  BY <1>2, HandleNext, Zenon
<1>4. PICK written \in Memories : m.payload = Payload(e.type, e.value, written)
  BY <1>3
<1>5. h.message = e /\ h.type = m.type /\ h.beyond = memory.beyond
  OBVIOUS
<1>6. Answers(u, h)
  BY <1>4, <1>5, Zenon DEF Answers
<1>7. u \in Asks
  <2> DEFINE payload == Payload(e.type, e.value, written)
  <2>1. payload \in Seq(Bytes)
        /\ 9 + Len(Parsed("inv", payload, memory).value)
                 * (4 + HashLength + Len(memory.beyond)) < Power[8]
    <3>1. FoundType(e.type, memory) = "inv"
      BY <1>2, <1>3
    <3> HIDE DEF e
    <3> QED  BY <1>3, <3>1, TrafficAssumption
  <2> HIDE DEF payload
  <2>2. Unknown(Parsed("inv", payload, memory).value) \in Asks
    BY <2>1, RequestFits DEF Spread
  <2> QED  BY <1>4, <2>2, Zenon DEF payload
<1> HIDE DEF u, h
<1>8. ToPeer(more, toPeer \o Frame(GetData(u), memory), asked)
  <2>1. h.type = "inv"
    BY <1>2, <1>5
  <2> HIDE DEF m, e
  <2> QED  BY <1>1, <1>3, <1>6, <1>7, <2>1, InventoryAnswered
<1> HIDE DEF m, more
<1> QED  BY <1>1, <1>2, <1>3, <1>8, Zenon DEF IInvInventory

(* The invariant is kept when the node handles any other message.            *)
LEMMA OnOtherKeeps ==
  ASSUME IInvInventory, NEW memory \in Memories, OnOther(memory)
  PROVE  IInvInventory'
<1> DEFINE m == Arrived(toNode, memory)
           e == sent[Len(handled) + 1]
           h == [message |-> e, type |-> m.type, beyond |-> memory.beyond]
           more == Append(handled, h)
<1>1. /\ sent \in Seq(Traffic) /\ handled \in Seq(Handlings) /\ asked \in Seq(Readings)
      /\ ToPeer(handled, toPeer, asked)
  BY DEF IInvInventory
<1>2. /\ toNode # <<>> /\ m.type # "inv" /\ toPeer' = toPeer
      /\ toNode' = m.rest /\ handled' = more /\ sent' = sent /\ asked' = asked
  BY DEF OnOther, Handle
<1>3. /\ h \in Handlings /\ more \in Seq(Handlings) /\ Len(more) <= Len(sent)
      /\ ToNode(sent, Len(more), m.rest)
  BY <1>2, HandleNext, Zenon
<1>4. h.type # "inv"
  BY <1>2
<1> HIDE DEF m, h
<1>5. ToPeer(more, toPeer, asked)
  BY <1>1, <1>3, <1>4, OtherAnswersNothing
<1> HIDE DEF more
<1> QED  BY <1>1, <1>2, <1>3, <1>5, Zenon DEF IInvInventory

(* The invariant is kept when the peer reads a request.                      *)
LEMMA OnGetDataKeeps ==
  ASSUME IInvInventory, NEW memory \in Memories, OnGetData(memory)
  PROVE  IInvInventory'
<1> DEFINE m == Arrived(toPeer, memory)
           read == [list |-> Parsed("getdata", m.payload, memory).value,
                    beyond |-> memory.beyond]
<1>1. /\ sent \in Seq(Traffic) /\ handled \in Seq(Handlings) /\ asked \in Seq(Readings)
      /\ Len(handled) <= Len(sent)
      /\ ToNode(sent, Len(handled), toNode) /\ ToPeer(handled, toPeer, asked)
  BY DEF IInvInventory
<1>2. /\ toPeer # <<>> /\ asked' = Append(asked, read) /\ toPeer' = m.rest
      /\ sent' = sent /\ handled' = handled /\ toNode' = toNode
  BY DEF OnGetData
<1>3. read \in Readings /\ ToPeer(handled, m.rest, Append(asked, read))
  BY <1>1, <1>2, PeerTakes
<1> HIDE DEF read, m
<1>4. Append(asked, read) \in Seq(Readings)
  BY <1>1, <1>3
<1> QED  BY <1>1, <1>2, <1>3, <1>4, Zenon DEF IInvInventory

(* The invariant is kept by every step.                                      *)
LEMMA InventoryInductive == IInvInventory /\ [InventoryNext]_inventoryVars => IInvInventory'
<1> SUFFICES ASSUME IInvInventory, [InventoryNext]_inventoryVars PROVE IInvInventory'
  OBVIOUS
<1>1. CASE UNCHANGED inventoryVars
  <2>1. sent' = sent /\ handled' = handled /\ toNode' = toNode /\ toPeer' = toPeer /\ asked' = asked
    BY <1>1 DEF inventoryVars
  <2> QED  BY <2>1, Zenon DEF IInvInventory
<1>2. CASE InventoryNext
  BY <1>2, SendKeeps, OnInvKeeps, OnOtherKeeps, OnGetDataKeeps, Zenon DEF InventoryNext
<1> QED  BY <1>1, <1>2

(* The inductive invariant: the bytes under way to the node are the frames   *)
(* of the messages that it has not handled, and those under way to the peer  *)
(* are one request for each inventory that it has, less those that were read *)
(* (sendMessage, handleHeader, handleMessage, onInv).                        *)
THEOREM InventoryInvariance == InventorySpec => []IInvInventory
<1> QED  BY InventoryInitIInv, InventoryInductive, PTL DEF InventorySpec

-----------------------------------------------------------------------------
\* The properties.

(* As many requests are under way as messages were taken for inventories and *)
(* requests not read.                                                        *)
LEMMA AnsweredFollows == IInvInventory => AnsweredInTurn
<1> SUFFICES ASSUME IInvInventory PROVE AnsweredInTurn
  OBVIOUS
<1> DEFINE taken == Taken(handled)
           n == Len(asked)
           due == Len(taken) - n
<1>1. /\ handled \in Seq(Handlings) /\ asked \in Seq(Readings)
      /\ ToPeer(handled, toPeer, asked)
  BY DEF IInvInventory
<1>2. Answered = taken
  BY <1>1, TakenAre
<1>3. PICK lists : /\ Answering(lists, taken) /\ ReadIn(lists, asked)
                   /\ toPeer = Concat(After(Requests(lists), n))
  BY <1>1, Zenon DEF ToPeer
<1> DEFINE rs == Requests(lists)
           left == After(rs, n)
<1>4. /\ rs \in Seq(Whole) /\ Len(rs) = Len(taken) /\ n <= Len(rs) /\ n \in Nat
      /\ Len(rs) \in Nat
  <2>1. lists \in Seq(Asks) /\ Len(lists) = Len(taken) /\ n <= Len(lists) /\ n \in Nat
    BY <1>1, <1>3 DEF Answering, ReadIn
  <2> HIDE DEF taken, n
  <2> QED  BY <2>1, RequestsSteps
<1> HIDE DEF taken, n, rs
<1>5. left \in Seq(Whole) /\ Len(left) = due /\ due \in Nat
  BY <1>4, AfterSteps
<1> HIDE DEF left
<1>6. ASSUME NEW k \in 0 .. due PROVE Left(toPeer, k) = <<>> <=> k = due
  <2>1. k \in 0 .. Len(left)
    BY <1>5
  <2>2. toPeer = Concat(left)
    BY <1>3 DEF left, rs
  <2>3. /\ Left(Concat(left), k) = Concat(After(left, k))
        /\ Concat(After(left, k)) = <<>> <=> k = Len(left)
    BY <1>5, <2>1, LeftWhole
  <2> QED  BY <1>5, <2>2, <2>3, Zenon
<1>7. AnsweredInTurn <=> due \in Nat /\ \A k \in 0 .. due : Left(toPeer, k) = <<>> <=> k = due
  BY <1>2, Zenon DEF AnsweredInTurn, n
<1> QED  BY <1>5, <1>6, <1>7, Zenon

(* Every message that is taken for an inventory is answered by exactly one   *)
(* request, in turn, be it empty or unreadable, and no other message by any, *)
(* for all messages and whatever either end has in memory, behind a name as  *)
(* behind a C string (getTypeFromString, onInv, onUnknown).                  *)
THEOREM AnsweredInTurnHolds == InventorySpec => []AnsweredInTurn
<1>1. InventorySpec => []IInvInventory
  BY InventoryInvariance
<1> QED  BY <1>1, AnsweredFollows, PTL

(* What arrives of a message is read to the last byte.                       *)
LEMMA ReadWhole ==
  ASSUME NEW reader, NEW text, NEW value, Carries(reader, text, value)
  PROVE  reader[Stream(text)] = [value |-> value, stream |-> Stream(<<>>)]
<1>1. text \in Seq(Bytes) /\ <<>> \in Seq(Bytes)
  BY DEF Carries
<1>2. text \o <<>> = text
  BY <1>1, ConcatEmptySeq
<1>3. reader[Stream(text \o <<>>)] = [value |-> value, stream |-> Stream(<<>>)]
  BY <1>1 DEF Carries
<1> QED  BY <1>2, <1>3

(* The next message under way to the node is read as ReadAs has it.          *)
LEMMA ReadableFollows == IInvInventory => MessagesReadable
<1> SUFFICES ASSUME IInvInventory, toNode # <<>>, CleanAll, NEW memory \in Memories
             PROVE  LET m == sent[Len(handled) + 1]
                        arrived == Arrived(toNode, memory)
                        read == Parsed(m.type, arrived.payload, memory)
                    IN  /\ memory.residue = [i \in 1 .. BufferSize |-> 0] => arrived.type = m.type
                        /\ read = [value |-> ReadAs(m.type, m.value, memory),
                                   stream |-> Stream(<<>>)]
                        /\ m.type \in {"tx", "block"} /\ memory.beyond = <<>> =>
                             Payload(m.type, read.value, memory) = arrived.payload
  BY Zenon DEF MessagesReadable
<1> DEFINE n == Len(handled)
           m == sent[n + 1]
           type == m.type
           v == m.value
           arrived == Arrived(toNode, memory)
           read == Parsed(type, arrived.payload, memory)
           as == ReadAs(type, v, memory)
<1>1. sent \in Seq(Traffic) /\ ToNode(sent, n, toNode)
  BY DEF IInvInventory
<1>2. n \in 0 .. Len(sent) /\ n \in Nat
  BY HandledOfSent
<1>3. /\ n < Len(sent) /\ m \in Traffic /\ arrived.type = FoundType(type, memory)
      /\ \E written \in Memories : arrived.payload = Payload(type, v, written)
  <2> HIDE DEF n
  <2> QED  BY <1>1, <1>2, NodeTakes
<1>4. type \in Types /\ v \in CleanPayloads(type)
  <2>1. n + 1 \in DOMAIN sent
    BY <1>1, <1>2, <1>3
  <2>2. m.type \in Types
    BY <1>3, TrafficAssumption
  <2> QED  BY <2>1, <2>2 DEF CleanAll, CleanMessage
<1>5. PICK written \in Memories : arrived.payload = Payload(type, v, written)
  BY <1>3, Zenon
<1> HIDE DEF arrived, m, type, v
<1>6. read = Message(type, memory)[Stream(Payload(type, v, written))]
  BY <1>5, Zenon DEF Parsed
<1> HIDE DEF read, as
<1>7. Carries(Message(type, memory), Payload(type, v, written), as)
  BY <1>4, MessageCarries DEF as
<1>8. read = [value |-> as, stream |-> Stream(<<>>)]
  BY <1>6, <1>7, ReadWhole
<1>9. read.value = as
  BY <1>8
<1>10. ASSUME memory.residue = [i \in 1 .. BufferSize |-> 0] PROVE arrived.type = type
  BY <1>3, <1>4, <1>10, FoundBeforeNULs
<1>11. ASSUME type \in {"tx", "block"}, memory.beyond = <<>>
       PROVE  Payload(type, read.value, memory) = arrived.payload
  <2>1. Payload(type, as, memory) = Payload(type, v, written)
    BY <1>4, <1>11, PayloadSame DEF as
  <2> QED  BY <1>5, <1>9, <2>1, Zenon
<1> QED  BY <1>8, <1>10, <1>11, Zenon DEF m, type, v, arrived, read, as, n

(* The next message under way to the node is found under its type when NULs  *)
(* are behind its name, is read to the last byte as ReadAs has it whatever   *)
(* is in memory, and, a transaction or a block that nothing follows in       *)
(* memory, has the same bytes when it is written again, for all messages     *)
(* (Message::byteRepr, MessageHeader, getTypeFromString, the constructors    *)
(* and payload() of the messages).                                           *)
THEOREM MessagesReadableHolds == InventorySpec => []MessagesReadable
<1>1. InventorySpec => []IInvInventory
  BY InventoryInvariance
<1> QED  BY <1>1, ReadableFollows, PTL

(* A clean resource stays one when its type is changed.                      *)
LEMMA CleanSwap ==
  ASSUME NEW r \in CleanInvVects
  PROVE  r \in Named /\ Swap(r) \in CleanInvVects /\ r[2] = Swap(r)[2] /\ Swap(r)[1] # "invalidRes"
<1>1. r = <<r[1], r[2]>> /\ r[1] \in {"blockRes", "txRes"} /\ r[2] \in CleanHashes
  BY DEF CleanInvVects
<1> DEFINE a == r[1]
           b == r[2]
<1>2. b \in Seq(Bytes)
  BY <1>1 DEF CleanHashes, CleanTextsOf
<1> HIDE DEF a, b
<1>3. Swapped(a) \in {"blockRes", "txRes"}
  BY <1>1 DEF Swapped, a
<1>4. Swap(r) = <<Swapped(a), b>>
  BY DEF Swap, a, b
<1>5. <<Swapped(a), b>> \in CleanInvVects /\ r \in Named
  BY <1>1, <1>2, <1>3 DEF CleanInvVects, Named, a, b
<1> QED  BY <1>3, <1>4, <1>5 DEF a, b

\* What the node has not, under the type by which it knows it.
Absent == {r \in Named : ~Exists(r[1], r[2])}
AbsentAnnounced == {r \in Named : Swap(r) \in Absent}

(* A clean list of resources stays one when its types are changed.           *)
LEMMA CleanLists ==
  ASSUME NEW v \in CleanArrays(CleanInvVects)
  PROVE  /\ v \in Seq(CleanInvVects) /\ v \in Seq(Named) /\ Len(v) < Power[8]
         /\ SwapAll(v) \in Seq(CleanInvVects) /\ SwapAll(v) \in Seq(Named)
<1>1. v \in Seq(CleanInvVects) /\ Len(v) < Power[8]
  BY DEF CleanArrays
<1> DEFINE n == Len(v)
           swapped == SwapAll(v)
<1>2. n \in Nat /\ DOMAIN v = 1 .. n /\ \A i \in 1 .. n : v[i] \in CleanInvVects
  BY <1>1
<1>3. \A i \in 1 .. n : Swap(v[i]) \in CleanInvVects
  BY <1>2, CleanSwap
<1>4. swapped \in [1 .. n -> CleanInvVects]
  <2> HIDE DEF n
  <2> QED  BY <1>2, <1>3, Zenon DEF SwapAll
<1> HIDE DEF n, swapped
<1>5. swapped \in Seq(CleanInvVects)
  BY <1>2, <1>4
<1>6. \A s : s \in Seq(CleanInvVects) => s \in Seq(Named)
  <2>1. \A r \in CleanInvVects : r \in Named
    BY CleanSwap
  <2> DEFINE A == CleanInvVects
             B == Named
  <2> HIDE DEF A, B
  <2>2. \A r \in A : r \in B
    BY <2>1 DEF A, B
  <2>3. \A s : s \in Seq(A) => s \in Seq(B)
    BY <2>2
  <2> QED  BY <2>3 DEF A, B
<1> QED  BY <1>1, <1>5, <1>6 DEF n, swapped

(* The request for what is unknown of a clean inventory, read by the peer    *)
(* or by this program, when nothing follows a C string in memory.            *)
LEMMA CleanAnswer ==
  ASSUME NEW v \in CleanArrays(CleanInvVects), NEW u \in Asks, NEW memory \in Plain,
         u = Unknown(Parsed("inv", ListBytes(v), memory).value), NEW later \in Plain,
         NEW read, read = Parsed("getdata", ListBytes(u), later).value
  PROVE  /\ Len(u) = Len(Those(v, AbsentAnnounced))
         /\ CleanUint(Len(u)) => read = Those(v, AbsentAnnounced)
         /\ ~CleanUint(Len(u)) => read = <<>>
<1> DEFINE list == SwapAll(v)
           all == Those(v, AbsentAnnounced)
<1>1. memory \in Memories /\ later \in Memories
  BY DEF Plain
<1>2. /\ v \in Seq(Named) /\ list \in Seq(CleanInvVects) /\ list \in Seq(Named) /\ Len(v) < Power[8]
  BY CleanLists
<1>3. Parsed("inv", ListBytes(v), memory).value = list
  <2>1. Carries(Array(InvVect(memory)), ListBytes(v), list)
    BY InventoryCarries, Zenon DEF ListBytes
  <2> HIDE DEF list
  <2>2. Array(InvVect(memory))[Stream(ListBytes(v))] = [value |-> list, stream |-> Stream(<<>>)]
    BY <2>1, ReadWhole
  <2>3. Message("inv", memory) = Array(InvVect(memory))
    BY DEF Message
  <2> QED  BY <2>2, <2>3 DEF Parsed
<1> HIDE DEF list
<1>4. u = Those(list, Absent)
  <2>1. u = Unknown(list)
    BY <1>3, Zenon
  <2> DEFINE S == Lacking(list)
             X == ToSet(list)
  <2>2. u = Those(list, S)
    BY <2>1 DEF Unknown, Lacking
  <2>3. list \in Seq(X) /\ \A r \in X : r \in CleanInvVects
    BY <1>2 DEF ToSet
  <2>4. \A r \in X : r[1] # "invalidRes" /\ r \in Named
    <3> TAKE r \in X
    <3>1. r \in CleanInvVects /\ r \in Named
      BY <2>3, CleanSwap
    <3> QED  BY <3>1 DEF CleanInvVects
  <2>5. \A r \in X : r \in S <=> r \in Absent
    BY <2>4 DEF Lacking, Absent
  <2> HIDE DEF S, X
  <2>6. Those(list, S) = Those(list, Absent)
    BY <2>3, <2>5, ThoseSame
  <2> QED  BY <2>2, <2>6
<1>5. SwapAll(u) = all
  <2>1. \A r \in Named : r \in AbsentAnnounced <=> Swap(r) \in Absent
    BY DEF AbsentAnnounced
  <2>2. SwapAll(Those(SwapAll(v), Absent)) = Those(v, AbsentAnnounced)
    BY <1>2, <2>1, ThoseSwapped
  <2> QED  BY <1>4, <2>2 DEF list
<1>6. u \in Seq(CleanInvVects) /\ u \in Seq(Named) /\ Len(u) < Power[8]
  <2>1. u \in Seq(CleanInvVects \cap Absent)
    BY <1>2, <1>4, ThoseTyped
  <2>2. u \in Seq(CleanInvVects)
    BY <2>1
  <2> QED  BY <2>2 DEF Asks
<1>7. Len(u) = Len(all)
  <2> HIDE DEF all
  <2>1. Len(SwapAll(u)) = Len(u)
    BY <1>6, SwapAllTyped
  <2> QED  BY <1>5, <2>1
<1> HIDE DEF all
<1>8. read = Array(InvVect(later))[Stream(ListBytes(u))].value
  <2>1. Message("getdata", later) = Array(InvVect(later))
    BY DEF Message
  <2> QED  BY <2>1, Zenon DEF Parsed
<1>9. ASSUME CleanUint(Len(u)) PROVE read = all
  <2>1. u \in CleanArrays(CleanInvVects)
    BY <1>6, <1>9 DEF CleanArrays
  <2>2. Carries(Array(InvVect(later)), ListBytes(u), SwapAll(u))
    BY <2>1, InventoryCarries, Zenon DEF ListBytes
  <2>3. Array(InvVect(later))[Stream(ListBytes(u))] =
          [value |-> SwapAll(u), stream |-> Stream(<<>>)]
    BY <2>2, ReadWhole
  <2> DEFINE r == Array(InvVect(later))[Stream(ListBytes(u))]
  <2> HIDE DEF r
  <2>4. r.value = all
    BY <1>5, <2>3 DEF r
  <2> QED  BY <1>8, <2>4 DEF r
<1>10. ASSUME ~CleanUint(Len(u)) PROVE read = <<>>
  <2> DEFINE s == Stream(ListBytes(u))
  <2>1. s \in Streams
    BY StreamIn DEF Asks
  <2>2. ReadVarUint(s).value = 0
    BY <1>6, <1>10, ListCount
  <2> HIDE DEF s
  <2>3. read \in Seq(ShownResources(later)) /\ Len(read) = ReadVarUint(s).value
    BY <1>1, <1>8, <2>1, InventoryTyped DEF s
  <2>4. \A X : \A t \in Seq(X) : Len(t) = 0 => t = <<>>
    OBVIOUS
  <2> QED  BY <2>2, <2>3, <2>4
<1> QED  BY <1>7, <1>9, <1>10 DEF all

\* What the property says of one inventory and the reading of its answer.
AsAnnounced(list, read) ==
  LET lacked == Those(list, {r \in ToSet(list) : r[2] \notin KnownTx \cup KnownBlocks})
  IN  /\ read = Those(list, ToSet(read))
      /\ \/ ToSet(lacked) \subseteq ToSet(read)
         \/ read = <<>> /\ \E n \in Len(lacked) .. Len(list) : ~CleanUint(n)

(* What is absent of an inventory, in its order, is what the property asks   *)
(* for; of an unreadable number of resources nothing is read.                *)
LEMMA CleanAnnounced ==
  ASSUME NEW v \in CleanArrays(CleanInvVects), NEW n, NEW read, n = Len(Those(v, AbsentAnnounced)),
         CleanUint(n) => read = Those(v, AbsentAnnounced),
         ~CleanUint(n) => read = <<>>
  PROVE  AsAnnounced(v, read)
<1> DEFINE X == ToSet(v)
           U == AbsentAnnounced
           K == {r \in ToSet(v) : r[2] \notin KnownTx \cup KnownBlocks}
           all == Those(v, U)
           lacked == Those(v, K)
<1>1. v \in Seq(X) /\ \A r \in X : r \in CleanInvVects
  <2>1. v \in Seq(CleanInvVects)
    BY CleanLists
  <2> QED  BY <2>1 DEF ToSet
<1>2. \A r \in X : r \in K => r \in U
  <2> TAKE r \in X
  <2> HAVE r \in K
  <2>1. r \in Named /\ Swap(r) \in CleanInvVects /\ r[2] = Swap(r)[2]
    BY <1>1, CleanSwap
  <2>2. Swap(r) \in Named
    BY <2>1, CleanSwap
  <2>3. ~Exists(Swap(r)[1], Swap(r)[2])
    BY <2>1 DEF Exists
  <2> QED  BY <2>1, <2>2, <2>3 DEF AbsentAnnounced, Absent
<1>3. ToSet(all) = X \cap U /\ ToSet(lacked) = X \cap K
  <2> HIDE DEF U, K, X
  <2> QED  BY <1>1, ThoseMembers DEF X
<1>4. Len(lacked) <= Len(all) /\ Len(all) <= Len(v) /\ Len(lacked) \in Nat /\ Len(all) \in Nat
      /\ Len(v) \in Nat
  <2> HIDE DEF U, K, X
  <2>1. Len(lacked) <= Len(all) /\ Len(all) <= Len(v)
    BY <1>1, <1>2, ThoseFewer, ThoseTyped
  <2>2. all \in Seq(X \cap U) /\ lacked \in Seq(X \cap K)
    BY <1>1, ThoseTyped
  <2> HIDE DEF all, lacked
  <2>3. Len(all) \in Nat /\ Len(lacked) \in Nat /\ Len(v) \in Nat
    BY <1>1, <2>2
  <2> QED  BY <2>1, <2>3
<1>5. CASE CleanUint(n)
  <2>1. read = all
    BY <1>5
  <2>2. \A r \in X : r \in U <=> r \in ToSet(all)
    BY <1>3
  <2>3. all = Those(v, ToSet(all))
    <3> DEFINE A == ToSet(all)
    <3> HIDE DEF X, U, A
    <3>1. Those(v, U) = Those(v, A)
      BY <1>1, <2>2, ThoseSame DEF A
    <3> QED  BY <3>1 DEF A
  <2>4. ToSet(lacked) \subseteq ToSet(all)
    BY <1>2, <1>3
  <2> HIDE DEF all, lacked, X, U
  <2> QED  BY <2>1, <2>3, <2>4, Zenon DEF AsAnnounced, lacked
<1>6. CASE ~CleanUint(n)
  <2>1. read = <<>> /\ n = Len(all)
    BY <1>6
  <2>2. ToSet(<<>>) = {}
    BY DEF ToSet
  <2>3. Those(v, {}) = <<>>
    <3>1. Those(v, {}) \in Seq(X \cap {})
      <4> HIDE DEF X
      <4> QED  BY <1>1, ThoseTyped
    <3>2. \A s \in Seq({}) : s = <<>>
      OBVIOUS
    <3>3. X \cap {} = {}
      OBVIOUS
    <3> QED  BY <3>1, <3>2, <3>3
  <2> HIDE DEF all, lacked
  <2>4. n \in Len(lacked) .. Len(v)
    BY <1>4, <2>1
  <2>5. \E k \in Len(lacked) .. Len(v) : ~CleanUint(k)
    BY <1>6, <2>4
  <2> QED  BY <2>1, <2>2, <2>3, <2>5, Zenon DEF AsAnnounced, lacked
<1> QED  BY <1>5, <1>6

(* What was read of each request is what the inventory announced and the     *)
(* node lacks.                                                               *)
LEMMA AskedFollows == IInvInventory => AskedAsAnnounced
<1> SUFFICES ASSUME IInvInventory, NEW k \in DOMAIN asked, Plainly(k)
             PROVE  AsAnnounced(Answered[k].message.value, asked[k].list)
  BY Zenon DEF AskedAsAnnounced, AsAnnounced
<1> DEFINE taken == Taken(handled)
<1>1. handled \in Seq(Handlings) /\ asked \in Seq(Readings) /\ ToPeer(handled, toPeer, asked)
  BY DEF IInvInventory
<1>2. PICK lists : Answering(lists, taken) /\ ReadIn(lists, asked)
  BY <1>1, Zenon DEF ToPeer
<1>3. /\ k \in 1 .. Len(asked) /\ k \in 1 .. Len(lists) /\ lists[k] \in Asks
      /\ Answers(lists[k], taken[k]) /\ ReadOf(asked[k], lists[k])
  <2>1. /\ lists \in Seq(Asks) /\ Len(asked) <= Len(lists) /\ k \in 1 .. Len(asked)
    BY <1>1, <1>2 DEF Answering, ReadIn
  <2>2. k \in 1 .. Len(lists)
    BY <1>1, <2>1
  <2> HIDE DEF taken
  <2> QED  BY <1>2, <2>1, <2>2 DEF Answering, ReadIn
<1>4. Answered = taken
  BY <1>1, TakenAre
<1> HIDE DEF taken
<1> DEFINE h == taken[k]
           m == h.message
           v == m.value
           u == lists[k]
           read == asked[k].list
<1>5. m.type = "inv" /\ CleanMessage(m) /\ h.beyond = <<>> /\ asked[k].beyond = <<>>
  BY <1>4 DEF Plainly
<1>6. v \in CleanArrays(CleanInvVects)
  <2>1. v \in CleanPayloads("inv")
    BY <1>5 DEF CleanMessage
  <2> QED  BY <2>1 DEF CleanPayloads
<1>7. PICK written \in Memories, memory \in Memories :
        /\ memory.beyond = h.beyond
        /\ u = Unknown(Parsed("inv", Payload(m.type, v, written), memory).value)
  BY <1>3 DEF Answers
<1>8. PICK later \in Memories :
        later.beyond = asked[k].beyond /\ read = Parsed("getdata", ListBytes(u), later).value
  BY <1>3 DEF ReadOf
<1>9. memory \in Plain /\ later \in Plain
  BY <1>5, <1>7, <1>8 DEF Plain
<1>10. u = Unknown(Parsed("inv", ListBytes(v), memory).value)
  <2>1. Payload("inv", v, written) = ListBytes(v)
    BY DEF Payload, ListBytes
  <2> QED  BY <1>5, <1>7, <2>1, Zenon
<1>11. u \in Asks
  BY <1>3
<1> HIDE DEF u, read
<1>12. /\ Len(u) = Len(Those(v, AbsentAnnounced))
       /\ CleanUint(Len(u)) => read = Those(v, AbsentAnnounced)
       /\ ~CleanUint(Len(u)) => read = <<>>
  <2> HIDE DEF v
  <2> QED  BY <1>6, <1>8, <1>9, <1>10, <1>11, CleanAnswer
<1>13. AsAnnounced(v, read)
  <2> DEFINE n == Len(u)
  <2>1. /\ n = Len(Those(v, AbsentAnnounced))
        /\ CleanUint(n) => read = Those(v, AbsentAnnounced)
        /\ ~CleanUint(n) => read = <<>>
    BY <1>12
  <2> HIDE DEF n, v
  <2> QED  BY <1>6, <2>1, CleanAnnounced
<1> QED  BY <1>4, <1>13 DEF read

(* When no bytes follow a C string in the memory of either end, what is      *)
(* asked for of an inventory that is taken for one was announced, in its     *)
(* order and as what it was announced, and nothing is left out that the node *)
(* has not, unless the number of resources begins with whitespace, for all   *)
(* messages that are sent or taken for inventories in between and whatever   *)
(* the node knows (Inv_vect, onInv, readVar_uint).                           *)
THEOREM AskedAsAnnouncedHolds == InventorySpec => []AskedAsAnnounced
<1>1. InventorySpec => []IInvInventory
  BY InventoryInvariance
<1> QED  BY <1>1, AskedFollows, PTL
=============================================================================
