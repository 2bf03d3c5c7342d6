------------------------------- MODULE WireProofs -------------------------------
(***************************************************************************)
(* What the proofs about the byte format rest on, for bytes of any size    *)
(* and any garbage in memory: a number of every width and a text come back *)
(* from their bytes and leave what follows them, what is cut short is      *)
(* blank, and a stream that has failed gives nothing.                      *)
(***************************************************************************)
EXTENDS Wire, SequenceTheorems, TLAPS

\* A stream that has failed has nothing left to extract.
Emptied(stream) == stream.failed => stream = Failed

\* A stream with bytes in it.
Typed(stream) == stream \in [content : Seq(Bytes), failed : BOOLEAN]

\* How many bytes follow the first of a Var_uint.
Width(v) == IF v <= Base - 4 THEN 0 ELSE IF v < Power[2] THEN 2 ELSE IF v < Power[4] THEN 4 ELSE 8

\* The recursive definitions of Wire.
Widen(any, p, k) == Base * p
Shift(any, acc, b) == acc * Base + b
Join(any, text, more) == text \o more
FromOne(any) == 1
FromZero(any) == 0
FromNothing(any) == <<>>
P == INSTANCE Recursion WITH Op <- Widen, Start <- FromOne
D == INSTANCE Recursion WITH Op <- Shift, Start <- FromZero
T == INSTANCE Recursion WITH Op <- Join, Start <- FromNothing

-----------------------------------------------------------------------------
(* A list of one text is that text: readStr appends a single block.          *)
LEMMA FlattenOne ==
  ASSUME NEW S, NEW t \in Seq(S)
  PROVE  FlattenSeq(<<t>>) = t
<1> DEFINE seqs == <<t>>
           One(f) == [i \in 1 .. Len(seqs) |-> IF i = 1 THEN seqs[i] ELSE f[i - 1] \o seqs[i]]
           flatten == CHOOSE f : f = One(f)
           only == [i \in 1 .. Len(seqs) |-> t]
<1>1. Len(seqs) = 1 /\ seqs[1] = t
  OBVIOUS
<1>2. only = One(only)
  BY <1>1
<1>3. flatten = One(flatten)
  <2> HIDE DEF only, One
  <2> QED  BY <1>2
<1>4. flatten[1] = t
  <2> HIDE DEF flatten, seqs
  <2> QED  BY <1>1, <1>3
<1>5. FlattenSeq(seqs) = flatten[Len(seqs)]
  BY <1>1 DEF FlattenSeq
<1> QED  BY <1>1, <1>4, <1>5

(* Garbage holds no NUL, and so is a C string as it is.                      *)
LEMMA GarbageIsCString == ASSUME NEW beyond \in Garbage PROVE CString(beyond) = beyond
<1>1. beyond \in Seq(1 .. Base - 1)
  BY GarbageAssumption
<1>2. \A i \in 1 .. Len(beyond) : beyond[i] # 0
  <2> TAKE i \in 1 .. Len(beyond)
  <2>1. beyond[i] \in 1 .. Base - 1
    BY <1>1, ElementOfSeq
  <2> QED  BY <2>1, BaseAssumption
<1>3. {i \in 1 .. Len(beyond) : beyond[i] = 0} = {}
  BY <1>2
<1> QED  BY <1>3 DEF CString, SelectInSeq

-----------------------------------------------------------------------------
(* No read gives a failed stream that still holds bytes (readUint16,         *)
(* readUint32, readUint64, readVar_uint, readStr).                           *)
LEMMA UintEmpties ==
  ASSUME NEW stream, Emptied(stream), NEW n
  PROVE  Emptied(ReadUint(stream, n).stream)
BY DEF Emptied, ReadUint, ReadBytes, Stream, Failed

LEMMA VarUintEmpties ==
  ASSUME NEW stream, Emptied(stream)
  PROVE  Emptied(ReadVarUint(stream).stream)
<1> DEFINE bytes == SkipWhitespace(stream.content)
           after == Stream(Tail(bytes))
<1>1. Emptied(after) /\ Emptied(Failed)
  BY DEF Emptied, Stream, Failed
<1>2. \A n : Emptied(ReadUint(after, n).stream)
  <2> HIDE DEF after
  <2> QED  BY <1>1, UintEmpties
<1>3. ReadVarUint(stream).stream \in
        {Failed, after, ReadUint(after, 2).stream, ReadUint(after, 4).stream,
         ReadUint(after, 8).stream}
  <2> DEFINE start == Head(bytes)
  <2>1. CASE stream.failed \/ bytes = <<>>
    BY <2>1 DEF ReadVarUint
  <2>2. CASE ~(stream.failed \/ bytes = <<>>)
    <3>1. ReadVarUint(stream) \in
            {[value |-> start, stream |-> after], ReadUint(after, 2), ReadUint(after, 4),
             ReadUint(after, 8)}
      <4> HIDE DEF after
      <4> QED  BY <2>2 DEF ReadVarUint, after
    <3> QED  BY <3>1
  <2> QED  BY <2>1, <2>2
<1> QED  BY <1>1, <1>2, <1>3

LEMMA StrEmpties ==
  ASSUME NEW stream, Emptied(stream), NEW length, NEW beyond
  PROVE  Emptied(ReadStr(stream, length, beyond).stream)
<1>1. Emptied(Failed) /\ Emptied(ReadBytes(stream, length).stream)
  BY DEF Emptied, ReadBytes, Stream, Failed
<1>2. ReadStr(stream, length, beyond).stream \in {Failed, ReadBytes(stream, length).stream}
  BY DEF ReadStr
<1> QED  BY <1>1, <1>2

-----------------------------------------------------------------------------
(* A read of a failed stream leaves it as it is and gives nothing, a text    *)
(* that is announced as empty included: readStr then appends its array,      *)
(* which it has not set.                                                     *)
LEMMA StrOfFailed ==
  ASSUME NEW length \in Nat, NEW beyond \in Garbage
  PROVE  /\ ReadStr(Failed, length, beyond).stream = Failed
         /\ ReadStr(Failed, length, beyond).value \in Garbage \cup {<<>>}
<1>1. Failed.failed /\ Failed.content = <<>> /\ Len(<<>>) = 0
  BY DEF Failed
<1>2. CASE length > 0
  BY <1>1, <1>2 DEF ReadStr
<1>3. CASE length = 0
  <2>1. \A s : ReadBytes(Failed, s).stream = Failed
    BY <1>1 DEF ReadBytes
  <2>2. beyond \in Seq(1 .. Base - 1)
    BY GarbageAssumption
  <2> DEFINE bytes == SubSeq(Failed.content, 1, 0)
             full == IF 0 = 0 THEN 0 ELSE (0 - 1) \div BufferSize
             Block(i) == SubSeq(bytes, (i - 1) * BufferSize + 1,
                                IF i <= full THEN i * BufferSize ELSE 0)
             Array(i) == Block(i) \o IF i = 1 THEN <<>>
                                     ELSE SubSeq(Block(i - 1), Len(Block(i)) + 1, BufferSize)
  <2>3. bytes = <<>> /\ Block(1) = <<>>
    <3>1. \A m \in Nat : SubSeq(<<>>, m + 1, 0) = <<>>
      OBVIOUS
    <3>2. (1 - 1) * BufferSize = 0
      BY BufferSizeAssumption
    <3>3. bytes = <<>>
      BY <1>1, <3>1
    <3>4. Block(1) = SubSeq(<<>>, 0 + 1, 0)
      BY <3>2, <3>3
    <3> QED  BY <3>1, <3>3, <3>4
  <2>4. Array(1) \o beyond = beyond
    <3> HIDE DEF Block
    <3>1. Array(1) = Block(1) \o <<>>
      OBVIOUS
    <3>2. (<<>> \o <<>>) \o beyond = beyond
      BY <2>2
    <3> QED  BY <2>3, <3>1, <3>2
  <2>5. [i \in 1 .. 1 |-> CString(Array(i) \o beyond)] = <<beyond>>
    <3> DEFINE Text(i) == CString(Array(i) \o beyond)
    <3>1. \A i \in 1 .. 1 : Text(i) = beyond
      <4>1. Text(1) = beyond
        <5> HIDE DEF Array
        <5> QED  BY <2>4, GarbageIsCString
      <4>2. 1 .. 1 = {1}
        OBVIOUS
      <4> HIDE DEF Text
      <4> QED  BY <4>1, <4>2
    <3>2. [i \in 1 .. 1 |-> Text(i)] = <<beyond>>
      <4> HIDE DEF Text
      <4> QED  BY <3>1
    <3> QED  BY <3>2
  <2>6. FlattenSeq(<<beyond>>) = beyond
    BY <2>2, FlattenOne
  <2>7. ReadStr(Failed, 0, beyond).value = beyond
    <3> DEFINE texts == [i \in 1 .. full + 1 |-> CString(Array(i) \o beyond)]
    <3>1. ReadStr(Failed, 0, beyond) =
            IF 0 > Len(Failed.content) THEN [value |-> <<>>, stream |-> Failed]
            ELSE [value |-> FlattenSeq(texts), stream |-> ReadBytes(Failed, 0).stream]
      BY DEF ReadStr
    <3>2. texts = <<beyond>>
      <4>1. full + 1 = 1
        OBVIOUS
      <4> HIDE DEF Array, full
      <4> QED  BY <2>5, <4>1
    <3>3. ReadStr(Failed, 0, beyond).value = FlattenSeq(texts)
      <4> HIDE DEF texts
      <4> QED  BY <1>1, <3>1
    <3> HIDE DEF texts
    <3> QED  BY <2>6, <3>2, <3>3
  <2>8. ReadStr(Failed, 0, beyond).stream = Failed
    BY <1>1, <2>1 DEF ReadStr
  <2> QED  BY <1>3, <2>7, <2>8
<1> QED  BY <1>2, <1>3

-----------------------------------------------------------------------------
(* The values that n bytes have are Base times those that n - 1 bytes have.  *)
LEMMA Powers ==
  /\ Power[0] = 1
  /\ \A n \in Nat : Power[n] \in Nat /\ Power[n] > 0 /\ Power[n + 1] = Base * Power[n]
<1>1. P!Closed(0, Nat, Nat)
  BY BaseAssumption DEF P!Closed, Widen, FromOne
<1>2. Power = P!Recursive(0)
  BY DEF Power, P!Recursive, Widen, FromOne
<1>3. /\ Power[0] = 1
      /\ \A n \in Nat : Power[n] \in Nat /\ Power[n + 1] = Base * Power[n]
  BY <1>1, <1>2, P!RecursiveSteps, P!RecursiveTyped DEF Widen, FromOne
<1> DEFINE S == {n \in Nat : Power[n] > 0}
<1>4. 0 \in S
  BY <1>3
<1>5. ASSUME NEW n \in Nat, n \in S PROVE n + 1 \in S
  <2>1. Power[n] \in Nat /\ Power[n] > 0 /\ Base \in Nat /\ Base > 0
    BY <1>3, <1>5, BaseAssumption
  <2>2. Base * Power[n] > 0
    BY <2>1
  <2> QED  BY <1>3, <2>2
<1>6. Nat \subseteq S
  <2> HIDE DEF S
  <2> QED  BY <1>4, <1>5, P!InductionOverNat
<1> QED  BY <1>3, <1>6

(* A number is read from its bytes one after the other, from the most        *)
(* significant one on.                                                       *)
LEMMA Numbers ==
  /\ Number(<<>>) = 0
  /\ \A s \in Seq(Bytes) : Number(s) \in Nat
  /\ \A s \in Seq(Bytes), b \in Bytes : Number(Append(s, b)) = Number(s) * Base + b
<1>1. D!Closed(0, Nat, Bytes)
  BY BaseAssumption DEF D!Closed, Shift, FromZero, Bytes
<1>2. \A s : D!Fold(0, s) = Number(s)
  BY DEF D!Fold, Number, FoldLeft, D!FoldLeft, D!MapThenFoldSet, MapThenFoldSet, D!Max, Max,
         Shift, FromZero
<1>3. Number(<<>>) = 0
  BY <1>2, D!FoldEmpty DEF FromZero
<1>4. ASSUME NEW s \in Seq(Bytes), NEW b \in Bytes
      PROVE  Number(s) \in Nat /\ Number(Append(s, b)) = Number(s) * Base + b
  BY <1>1, <1>2, D!FoldAppend, D!FoldTyped DEF Shift
<1>5. 0 \in Bytes
  BY BaseAssumption DEF Bytes
<1> QED  BY <1>3, <1>4, <1>5

(* Concatenating one more text.                                              *)
LEMMA ConcatSteps ==
  /\ Concat(<<>>) = <<>>
  /\ \A ss \in Seq(Seq(Bytes)) : Concat(ss) \in Seq(Bytes)
  /\ \A ss \in Seq(Seq(Bytes)), s \in Seq(Bytes) : Concat(Append(ss, s)) = Concat(ss) \o s
<1>1. T!Closed(0, Seq(Bytes), Seq(Bytes))
  BY DEF T!Closed, Join, FromNothing
<1>2. \A ss : T!Fold(0, ss) = Concat(ss)
  BY DEF T!Fold, Concat, FoldLeft, T!FoldLeft, T!MapThenFoldSet, MapThenFoldSet, T!Max, Max,
         Join, FromNothing
<1>3. Concat(<<>>) = <<>>
  BY <1>2, T!FoldEmpty DEF FromNothing
<1>4. ASSUME NEW ss \in Seq(Seq(Bytes)), NEW s \in Seq(Bytes)
      PROVE  Concat(ss) \in Seq(Bytes) /\ Concat(Append(ss, s)) = Concat(ss) \o s
  <2>1. T!Fold(0, ss) \in Seq(Bytes)
    BY <1>1, T!FoldTyped
  <2>2. T!Fold(0, Append(ss, s)) = Join(0, T!Fold(0, ss), s)
    BY T!FoldAppend
  <2> QED  BY <1>2, <2>1, <2>2 DEF Join
<1>5. <<>> \in Seq(Bytes)
  OBVIOUS
<1> QED  BY <1>3, <1>4, <1>5

(* Quotient and remainder.                                                   *)
LEMMA Division ==
  ASSUME NEW a \in Nat, NEW b \in Nat, b > 0
  PROVE  /\ a \div b \in Nat /\ a % b \in 0 .. b - 1
         /\ a = b * (a \div b) + (a % b)
OBVIOUS

(* They are the only ones.                                                   *)
LEMMA QuotientUnique ==
  ASSUME NEW a \in Nat, NEW b \in Nat, NEW q \in Nat, NEW r \in Nat, b > 0, r < b,
         a = b * q + r
  PROVE  a \div b = q
<1> DEFINE d == a \div b
           m == a % b
<1>1. d \in Nat /\ m \in Nat /\ m < b /\ a = b * d + m
  BY Division
<1> HIDE DEF d, m
<1>2. CASE d < q
  <2>1. d + 1 <= q
    BY <1>1, <1>2
  <2>2. b * (d + 1) <= b * q
    BY <1>1, <2>1
  <2>3. b * (d + 1) = b * d + b
    BY <1>1
  <2> QED  BY <1>1, <2>2, <2>3
<1>3. CASE q < d
  <2>1. q + 1 <= d
    BY <1>1, <1>3
  <2>2. b * (q + 1) <= b * d
    BY <1>1, <2>1
  <2>3. b * (q + 1) = b * q + b
    BY <1>1
  <2> QED  BY <1>1, <2>2, <2>3
<1> QED  BY <1>1, <1>2, <1>3 DEF d

(* Dividing by one number and then by another is dividing by their product:  *)
(* dropping bytes from the end of a number one by one.                       *)
LEMMA DivisionTwice ==
  ASSUME NEW v \in Nat, NEW p \in Nat, NEW b \in Nat, p > 0, b > 0
  PROVE  (v \div p) \div b = v \div (b * p)
<1> DEFINE a == v \div p
           r == v % p
           c == a \div b
           s == a % b
<1>1. a \in Nat /\ r \in Nat /\ r < p /\ v = p * a + r
  BY Division
<1> HIDE DEF a, r
<1>2. c \in Nat /\ s \in Nat /\ s < b /\ a = b * c + s
  BY <1>1, Division
<1> HIDE DEF c, s
<1>3. v = (b * p) * c + (p * s + r)
  <2>1. p * a = p * (b * c) + p * s
    BY <1>1, <1>2
  <2>2. p * (b * c) = (b * p) * c
    BY <1>2
  <2> QED  BY <1>1, <1>2, <2>1, <2>2
<1>4. p * s + r < b * p
  <2>1. s + 1 <= b
    BY <1>2
  <2>2. p * (s + 1) <= p * b
    BY <1>2, <2>1
  <2>3. p * (s + 1) = p * s + p /\ p * b = b * p
    BY <1>2
  <2> QED  BY <1>1, <1>2, <2>2, <2>3
<1>5. b * p \in Nat /\ b * p > 0 /\ p * s + r \in Nat
  BY <1>1, <1>2
<1>6. v \div (b * p) = c
  <2> DEFINE m == b * p
             t == p * s + r
  <2>1. m \in Nat /\ m > 0 /\ t \in Nat /\ t < m /\ v = m * c + t
    BY <1>3, <1>4, <1>5
  <2> HIDE DEF m, t
  <2>2. v \div m = c
    BY <1>2, <2>1, QuotientUnique
  <2> QED  BY <2>2 DEF m
<1> QED  BY <1>6 DEF c, a

(* The bytes of a number are bytes, and as many as were asked for.           *)
LEMMA DigitsType ==
  ASSUME NEW v \in Nat, NEW n \in Nat
  PROVE  /\ Digits(v, n) \in Seq(Bytes) /\ Len(Digits(v, n)) = n
         /\ \A i \in 1 .. n : Digits(v, n)[i] = (v \div Power[n - i]) % Base
<1>1. ASSUME NEW i \in 1 .. n PROVE (v \div Power[n - i]) % Base \in Bytes
  <2>1. n - i \in Nat
    OBVIOUS
  <2>2. Power[n - i] \in Nat /\ Power[n - i] > 0
    BY <2>1, Powers
  <2>3. v \div Power[n - i] \in Nat
    BY <2>2, Division
  <2> QED  BY <2>3, BaseAssumption, Division DEF Bytes
<1> DEFINE Digit(i) == (v \div Power[n - i]) % Base
<1> HIDE DEF Digit
<1>2. [i \in 1 .. n |-> Digit(i)] \in Seq(Bytes)
  BY <1>1 DEF Digit
<1>3. Digits(v, n) = [i \in 1 .. n |-> Digit(i)]
  BY DEF Digits, Digit
<1>4. Len(Digits(v, n)) = n
  BY <1>3
<1>5. \A i \in 1 .. n : Digits(v, n)[i] = Digit(i)
  BY <1>3
<1> QED  BY <1>2, <1>3, <1>4, <1>5 DEF Digit

(* A number that fits its width is read back from its bytes (byteRepr and    *)
(* the reads of the unsigned types): the first k of them are its quotient by *)
(* what the others are worth.                                                *)
LEMMA NumberOfDigits ==
  ASSUME NEW n \in Nat, NEW v \in Nat, v < Power[n]
  PROVE  Number(Digits(v, n)) = v
<1> DEFINE ds == Digits(v, n)
           S == {k \in Nat : k <= n => Number(SubSeq(ds, 1, k)) = v \div Power[n - k]}
<1>1. ds \in Seq(Bytes) /\ Len(ds) = n
  BY DigitsType
<1>2. 0 \in S
  <2>1. SubSeq(ds, 1, 0) = <<>>
    BY <1>1
  <2>2. v \div Power[n] = 0
    <3>1. Power[n] \in Nat /\ Power[n] > 0
      BY Powers
    <3>2. v = Power[n] * 0 + v
      BY <3>1
    <3> QED  BY <3>1, <3>2, QuotientUnique
  <2>3. n - 0 = n
    OBVIOUS
  <2> QED  BY <2>1, <2>2, <2>3, Numbers
<1>3. ASSUME NEW k \in Nat, k \in S PROVE k + 1 \in S
  <2> SUFFICES ASSUME k + 1 <= n
               PROVE  Number(SubSeq(ds, 1, k + 1)) = v \div Power[n - (k + 1)]
    OBVIOUS
  <2> DEFINE m == n - (k + 1)
             q == v \div Power[m]
  <2>1. m \in Nat /\ n - k = m + 1 /\ k + 1 \in 1 .. n
    OBVIOUS
  <2>2. Power[m] \in Nat /\ Power[m] > 0 /\ Power[n - k] = Base * Power[m]
    BY <2>1, Powers
  <2>3. q \in Nat
    BY <2>2, Division
  <2>4. SubSeq(ds, 1, k + 1) = Append(SubSeq(ds, 1, k), ds[k + 1])
    BY <1>1
  <2>5. ds[k + 1] = q % Base
    BY <2>1, DigitsType
  <2>6. SubSeq(ds, 1, k) \in Seq(Bytes) /\ ds[k + 1] \in Bytes
    BY <1>1, <2>1
  <2>7. Number(SubSeq(ds, 1, k)) = q \div Base
    <3>1. Number(SubSeq(ds, 1, k)) = v \div Power[n - k]
      BY <1>3
    <3> QED  BY <2>2, <3>1, BaseAssumption, DivisionTwice
  <2> HIDE DEF q, ds
  <2>8. Number(SubSeq(ds, 1, k + 1)) = (q \div Base) * Base + (q % Base)
    BY <2>4, <2>5, <2>6, <2>7, Numbers
  <2>9. (q \div Base) * Base + (q % Base) = q
    <3>1. q \div Base \in Nat /\ q = Base * (q \div Base) + (q % Base)
      BY <2>3, BaseAssumption, Division
    <3>2. Base * (q \div Base) = (q \div Base) * Base
      BY <3>1, BaseAssumption
    <3> QED  BY <3>1, <3>2
  <2> QED  BY <2>8, <2>9 DEF q, m
<1>4. n \in S
  <2> HIDE DEF S
  <2> QED  BY <1>2, <1>3, P!InductionOverNat
<1>5. Number(SubSeq(ds, 1, n)) = v \div Power[0]
  BY <1>4
<1>6. v \div 1 = v
  BY QuotientUnique
<1>7. SubSeq(ds, 1, n) = ds
  BY <1>1
<1> QED  BY <1>5, <1>6, <1>7, Powers

-----------------------------------------------------------------------------
(* A wider number has more values.                                           *)
LEMMA PowerSizes ==
  /\ Power[1] = Base /\ Base - 4 < Power[2] /\ Power[2] < Power[4] /\ Power[4] < Power[8]
  /\ \A n \in {1, 2, 4, 8} : Power[n] \in Nat
<1>1. /\ Power[1] = Base /\ Power[2] = Base * Power[1] /\ Power[3] = Base * Power[2]
      /\ Power[4] = Base * Power[3] /\ Power[5] = Base * Power[4] /\ Power[6] = Base * Power[5]
      /\ Power[7] = Base * Power[6] /\ Power[8] = Base * Power[7]
  <2>1. /\ Power[0 + 1] = Base * Power[0] /\ Power[1 + 1] = Base * Power[1]
        /\ Power[2 + 1] = Base * Power[2] /\ Power[3 + 1] = Base * Power[3]
        /\ Power[4 + 1] = Base * Power[4] /\ Power[5 + 1] = Base * Power[5]
        /\ Power[6 + 1] = Base * Power[6] /\ Power[7 + 1] = Base * Power[7]
        /\ Power[0] = 1
    BY Powers
  <2> QED  BY <2>1, BaseAssumption
<1>2. ASSUME NEW p \in Nat, p > 0 PROVE Base * p > p
  <2> DEFINE c == Base - 2
  <2>1. c \in Nat /\ Base = c + 2
    BY BaseAssumption
  <2> HIDE DEF c
  <2>2. (c + 2) * p = c * p + 2 * p
    BY <2>1
  <2>3. c * p \in Nat
    BY <2>1
  <2> QED  BY <1>2, <2>1, <2>2, <2>3
<1>3. \A n \in 1 .. 8 : Power[n] \in Nat /\ Power[n] > 0
  BY Powers
<1>4. \A n \in 1 .. 7 : Power[n + 1] > Power[n]
  <2> TAKE n \in 1 .. 7
  <2>1. Power[n + 1] = Base * Power[n] /\ Power[n] \in Nat /\ Power[n] > 0
    BY Powers
  <2> QED  BY <1>2, <2>1
<1>5. /\ Power[2] > Power[1] /\ Power[3] > Power[2] /\ Power[4] > Power[3]
      /\ Power[5] > Power[4] /\ Power[6] > Power[5] /\ Power[7] > Power[6] /\ Power[8] > Power[7]
  <2>1. /\ Power[1 + 1] > Power[1] /\ Power[2 + 1] > Power[2] /\ Power[3 + 1] > Power[3]
        /\ Power[4 + 1] > Power[4] /\ Power[5 + 1] > Power[5] /\ Power[6 + 1] > Power[6]
        /\ Power[7 + 1] > Power[7]
    BY <1>4
  <2> QED  BY <2>1
<1>6. /\ Power[1] \in Nat /\ Power[2] \in Nat /\ Power[3] \in Nat /\ Power[4] \in Nat
      /\ Power[5] \in Nat /\ Power[6] \in Nat /\ Power[7] \in Nat /\ Power[8] \in Nat
  BY <1>3
<1>7. Power[1] = Base
  BY <1>1
<1> QED  BY <1>5, <1>6, <1>7, BaseAssumption

(* The bytes that announce two, four and eight bytes.                        *)
LEMMA PrefixBytes == Prefixed(2) = Base - 3 /\ Prefixed(4) = Base - 2 /\ Prefixed(8) = Base - 1
<1>1. (CASE 2 = 2 -> 3 [] 2 = 4 -> 2 [] 2 = 8 -> 1) = 3
  OBVIOUS
<1>2. (CASE 4 = 2 -> 3 [] 4 = 4 -> 2 [] 4 = 8 -> 1) = 2
  OBVIOUS
<1>3. (CASE 8 = 2 -> 3 [] 8 = 4 -> 2 [] 8 = 8 -> 1) = 1
  OBVIOUS
<1>4. Prefixed(2) = Base - 3
  BY <1>1 DEF Prefixed
<1>5. Prefixed(4) = Base - 2
  BY <1>2 DEF Prefixed
<1>6. Prefixed(8) = Base - 1
  BY <1>3 DEF Prefixed
<1> QED  BY <1>4, <1>5, <1>6

(* A Var_uint is one byte, or one that announces a width and a number of     *)
(* that width (Var_uint::byteRepr).                                          *)
LEMMA VarUintShape ==
  ASSUME NEW v \in Nat
  PROVE  LET w == Width(v)
         IN  IF w = 0 THEN VarUint(v) = <<v>> /\ v \in Bytes
             ELSE /\ VarUint(v) = <<Prefixed(w)>> \o Digits(v, w)
                  /\ Prefixed(w) \in Bytes /\ Prefixed(w) > Base - 4
                  /\ w \in {2, 4, 8}
<1>1. Prefixed(2) = Base - 3 /\ Prefixed(4) = Base - 2 /\ Prefixed(8) = Base - 1
  BY PrefixBytes
<1>2. CASE v <= Base - 4
  <2>1. VarUint(v) = Digits(v, 1)
    <3>1. ~(v > Base - 4) /\ ~(v >= Power[2]) /\ ~(v >= Power[4])
      BY <1>2, PowerSizes, BaseAssumption
    <3> QED  BY <1>2, <3>1, Zenon DEF VarUint
  <2>2. Digits(v, 1) = <<v>> /\ v \in Bytes
    <3>1. v \in Bytes
      BY <1>2, BaseAssumption DEF Bytes
    <3>2. v \div Power[0] = v
      <4>1. v \div 1 = v
        BY QuotientUnique
      <4> QED  BY <4>1, Powers
    <3>3. v % Base = v
      <4>1. v = Base * 0 + v /\ v < Base /\ Base > 0 /\ Base \in Nat
        BY <3>1, BaseAssumption DEF Bytes
      <4>2. v \div Base = 0
        BY <4>1, QuotientUnique
      <4>3. v = Base * (v \div Base) + (v % Base) /\ v % Base \in 0 .. Base - 1
        BY <4>1, Division
      <4> QED  BY <4>1, <4>2, <4>3
    <3>4. Digits(v, 1)[1] = v /\ Len(Digits(v, 1)) = 1 /\ Digits(v, 1) \in Seq(Bytes)
      <4>1. Digits(v, 1)[1] = (v \div Power[1 - 1]) % Base
        BY DigitsType
      <4>2. 1 - 1 = 0
        OBVIOUS
      <4> QED  BY <3>2, <3>3, <4>1, <4>2, DigitsType
    <3> QED  BY <3>1, <3>4
  <2> QED  BY <1>2, <2>1, <2>2 DEF Width
<1>3. CASE v > Base - 4 /\ v < Power[2]
  <2>1. ~(v <= Base - 4) /\ ~(v >= Power[2]) /\ ~(v >= Power[4])
    BY <1>3, PowerSizes, BaseAssumption
  <2>2. VarUint(v) = <<Prefixed(2)>> \o Digits(v, 2)
    BY <1>3, <2>1, Zenon DEF VarUint
  <2> QED  BY <1>1, <1>3, <2>1, <2>2, BaseAssumption DEF Width, Bytes
<1>4. CASE v >= Power[2] /\ v < Power[4]
  <2>1. ~(v <= Base - 4) /\ ~(v < Power[2]) /\ ~(v >= Power[4])
    BY <1>4, PowerSizes, BaseAssumption
  <2>2. VarUint(v) = <<Prefixed(4)>> \o Digits(v, 4)
    BY <1>4, <2>1, Zenon DEF VarUint
  <2> QED  BY <1>1, <1>4, <2>1, <2>2, BaseAssumption DEF Width, Bytes
<1>5. CASE v >= Power[4]
  <2>1. ~(v <= Base - 4) /\ ~(v < Power[2]) /\ ~(v < Power[4])
    BY <1>5, PowerSizes, BaseAssumption
  <2>2. VarUint(v) = <<Prefixed(8)>> \o Digits(v, 8)
    BY <1>5, <2>1, Zenon DEF VarUint
  <2> QED  BY <1>1, <1>5, <2>1, <2>2, BaseAssumption DEF Width, Bytes
<1>6. \/ v <= Base - 4
      \/ v > Base - 4 /\ v < Power[2]
      \/ v >= Power[2] /\ v < Power[4]
      \/ v >= Power[4]
  BY PowerSizes, BaseAssumption
<1> QED  BY <1>2, <1>3, <1>4, <1>5, <1>6

(* It is a sequence of bytes.                                                *)
LEMMA VarUintType ==
  ASSUME NEW v \in Nat
  PROVE  /\ VarUint(v) \in Seq(Bytes) /\ Len(VarUint(v)) = Width(v) + 1
         /\ Width(v) \in {0, 2, 4, 8}
<1> DEFINE w == Width(v)
<1>1. CASE w = 0
  <2>1. VarUint(v) = <<v>> /\ v \in Bytes
    BY <1>1, VarUintShape
  <2> QED  BY <1>1, <2>1
<1>2. CASE w # 0
  <2>1. /\ VarUint(v) = <<Prefixed(w)>> \o Digits(v, w)
        /\ Prefixed(w) \in Bytes /\ w \in {2, 4, 8}
    BY <1>2, VarUintShape
  <2>2. Digits(v, w) \in Seq(Bytes) /\ Len(Digits(v, w)) = w /\ w \in Nat
    <3>1. w \in Nat
      BY <2>1
    <3> HIDE DEF w
    <3> QED  BY <3>1, DigitsType
  <2>3. <<Prefixed(w)>> \in Seq(Bytes) /\ Len(<<Prefixed(w)>>) = 1
    BY <2>1
  <2> HIDE DEF w
  <2>4. VarUint(v) \in Seq(Bytes) /\ Len(VarUint(v)) = 1 + w
    BY <2>1, <2>2, <2>3, ConcatProperties
  <2> QED  BY <2>1, <2>2, <2>4 DEF w
<1> QED  BY <1>1, <1>2

-----------------------------------------------------------------------------
(* Cutting a sequence where two were joined.                                 *)
LEMMA CutConcat ==
  ASSUME NEW a \in Seq(Bytes), NEW b \in Seq(Bytes)
  PROVE  /\ SubSeq(a \o b, 1, Len(a)) = a
         /\ SubSeq(a \o b, Len(a) + 1, Len(a \o b)) = b
         /\ a \o b \in Seq(Bytes) /\ Len(a \o b) = Len(a) + Len(b)
<1>1. a \o b \in Seq(Bytes) /\ Len(a \o b) = Len(a) + Len(b)
  BY ConcatProperties
<1>2. SubSeq(a \o b, 1, Len(a)) = a
  OBVIOUS
<1>3. SubSeq(a \o b, Len(a) + 1, Len(a) + Len(b)) = b
  OBVIOUS
<1> QED  BY <1>1, <1>2, <1>3

LEMMA CutBehind ==
  ASSUME NEW a \in Seq(Bytes), NEW b \in Seq(Bytes), NEW n \in Len(a) .. Len(a) + Len(b)
  PROVE  SubSeq(a \o b, 1, n) = a \o SubSeq(b, 1, n - Len(a))
<1> DEFINE k == n - Len(a)
<1>1. k \in 0 .. Len(b) /\ n = Len(a) + k /\ n \in Nat
  OBVIOUS
<1>2. SubSeq(b, 1, k) \in Seq(Bytes) /\ Len(SubSeq(b, 1, k)) = k
  BY <1>1
<1>3. /\ SubSeq(a \o b, 1, n) \in Seq(Bytes) /\ Len(SubSeq(a \o b, 1, n)) = n
      /\ a \o SubSeq(b, 1, k) \in Seq(Bytes) /\ Len(a \o SubSeq(b, 1, k)) = n
  <2>1. a \o b \in Seq(Bytes) /\ Len(a \o b) = Len(a) + Len(b)
    BY ConcatProperties
  <2>2. n <= Len(a \o b)
    BY <1>1, <2>1
  <2> HIDE DEF k
  <2> QED  BY <1>1, <1>2, <2>1, <2>2, ConcatProperties, SubSeqProperties
<1>4. ASSUME NEW i \in 1 .. n PROVE SubSeq(a \o b, 1, n)[i] = (a \o SubSeq(b, 1, k))[i]
  <2>1. SubSeq(a \o b, 1, n)[i] = (a \o b)[i]
    BY <1>1
  <2> HIDE DEF k
  <2>2. CASE i <= Len(a)
    BY <1>1, <1>2, <2>1, <2>2
  <2>3. CASE i > Len(a)
    <3> DEFINE j == i - Len(a)
               t == SubSeq(b, 1, k)
    <3>1. j \in 1 .. k /\ ~(i <= Len(a))
      BY <1>1, <2>3
    <3>2. t[j] = b[j]
      BY <1>1, <3>1
    <3>3. t \in Seq(Bytes) /\ Len(t) = k /\ i \in 1 .. Len(a) + k /\ i \in 1 .. Len(a) + Len(b)
      BY <1>1, <1>2
    <3> HIDE DEF t
    <3>4. (a \o t)[i] = t[j]
      BY <3>1, <3>3, ConcatProperties
    <3>5. (a \o b)[i] = b[j]
      BY <3>1, <3>3, ConcatProperties
    <3> HIDE DEF j
    <3>6. SubSeq(a \o b, 1, n)[i] = (a \o t)[i]
      BY <2>1, <3>2, <3>4, <3>5, Zenon
    <3> QED  BY <3>6 DEF t
  <2> QED  BY <1>1, <2>2, <2>3
<1> HIDE DEF k
<1>5. SubSeq(a \o b, 1, n) = a \o SubSeq(b, 1, k)
  BY <1>3, <1>4, SeqEqual
<1> QED  BY <1>5 DEF k

(* Two texts joined are a text.                                              *)
LEMMA Joined ==
  ASSUME NEW s \in Seq(Bytes), NEW t \in Seq(Bytes)
  PROVE  s \o t \in Seq(Bytes)
OBVIOUS

\* Six fields in a row, and the first one before what follows it, and so on.
InARow(a, b, c, d, e, f) == a \o b \o c \o d \o e \o f
EachBeforeRest(a, b, c, d, e, f) == a \o (b \o (c \o (d \o (e \o f))))

(* They are the same bytes.                                                  *)
LEMMA Regroup ==
  ASSUME NEW a \in Seq(Bytes), NEW b \in Seq(Bytes), NEW c \in Seq(Bytes),
         NEW d \in Seq(Bytes), NEW e \in Seq(Bytes), NEW f \in Seq(Bytes)
  PROVE  InARow(a, b, c, d, e, f) = EachBeforeRest(a, b, c, d, e, f)
<1>1. PICK ef \in Seq(Bytes) : ef = e \o f
  BY Joined
<1>2. PICK def \in Seq(Bytes) : def = d \o ef
  BY Joined
<1>3. PICK cdef \in Seq(Bytes) : cdef = c \o def
  BY Joined
<1>4. PICK ab \in Seq(Bytes) : ab = a \o b
  BY Joined
<1>5. PICK abc \in Seq(Bytes) : abc = ab \o c
  BY Joined
<1>6. PICK abcd \in Seq(Bytes) : abcd = abc \o d
  BY Joined
<1>7. (abcd \o e) \o f = abcd \o (e \o f)
  BY SMTT(120)
<1>8. (abc \o d) \o ef = abc \o (d \o ef)
  BY SMTT(120)
<1>9. (ab \o c) \o def = ab \o (c \o def)
  BY SMTT(120)
<1>10. (a \o b) \o cdef = a \o (b \o cdef)
  BY SMTT(120)
<1>11. (abcd \o e) \o f = a \o (b \o cdef)
  BY <1>1, <1>2, <1>3, <1>4, <1>5, <1>6, <1>7, <1>8, <1>9, <1>10, Zenon
<1>12. a \o b \o c \o d \o e \o f = a \o (b \o (c \o (d \o (e \o f))))
  BY <1>1, <1>2, <1>3, <1>4, <1>5, <1>6, <1>11, Zenon
<1> QED  BY <1>12, Zenon DEF InARow, EachBeforeRest

(* As many bytes as were put there come back, and leave the rest.            *)
LEMMA BytesBack ==
  ASSUME NEW a \in Seq(Bytes), NEW rest \in Seq(Bytes)
  PROVE  ReadBytes(Stream(a \o rest), Len(a)) = [value |-> a, stream |-> Stream(rest)]
<1>1. ~Stream(a \o rest).failed /\ Stream(a \o rest).content = a \o rest
  BY DEF Stream
<1>2. Len(a) <= Len(a \o rest)
  BY CutConcat
<1>3. ReadBytes(Stream(a \o rest), Len(a)) =
        [value |-> SubSeq(a \o rest, 1, Len(a)),
         stream |-> Stream(SubSeq(a \o rest, Len(a) + 1, Len(a \o rest)))]
  BY <1>1, <1>2, Zenon DEF ReadBytes
<1> QED  BY <1>3, CutConcat

(* A stream that ends before that gives what it has, and fails.              *)
LEMMA BytesShort ==
  ASSUME NEW a \in Seq(Bytes), NEW n \in Nat, Len(a) < n
  PROVE  ReadBytes(Stream(a), n) = [value |-> a, stream |-> Failed]
<1>1. ~Stream(a).failed /\ Stream(a).content = a /\ ~(n <= Len(a))
  BY DEF Stream
<1> QED  BY <1>1 DEF ReadBytes

(* A number of a fixed width comes back from the bytes that it became        *)
(* (readUint16, readUint32, readUint64).                                     *)
LEMMA UintBack ==
  ASSUME NEW n \in Nat, NEW v \in Nat, v < Power[n], NEW rest \in Seq(Bytes)
  PROVE  ReadUint(Stream(Digits(v, n) \o rest), n) = [value |-> v, stream |-> Stream(rest)]
<1> DEFINE a == Digits(v, n)
<1>1. a \in Seq(Bytes) /\ Len(a) = n /\ Number(a) = v
  BY DigitsType, NumberOfDigits
<1> HIDE DEF a
<1>2. ReadBytes(Stream(a \o rest), n) = [value |-> a, stream |-> Stream(rest)]
  BY <1>1, BytesBack
<1>3. ReadUint(Stream(a \o rest), n) = [value |-> v, stream |-> Stream(rest)]
  BY <1>1, <1>2 DEF ReadUint
<1> QED  BY <1>3 DEF a

(* It is zero when they end before it does.                                  *)
LEMMA UintShort ==
  ASSUME NEW a \in Seq(Bytes), NEW n \in Nat, Len(a) < n
  PROVE  ReadUint(Stream(a), n) = [value |-> 0, stream |-> Failed]
<1>1. ReadBytes(Stream(a), n) = [value |-> a, stream |-> Failed]
  BY BytesShort
<1> QED  BY <1>1 DEF ReadUint

(* Nothing is skipped before a byte that is not whitespace.                  *)
LEMMA NothingSkipped ==
  ASSUME NEW s \in Seq(Bytes), s # <<>>, Head(s) \notin Whitespace
  PROVE  SkipWhitespace(s) = s
<1> DEFINE I == {i \in 1 .. Len(s) : s[i] \notin Whitespace}
<1>1. 1 \in I
  OBVIOUS
<1>2. \A i \in I : 1 <= i
  OBVIOUS
<1>3. Min(I) = 1
  <2>1. \A x \in I : (\A y \in I : x <= y) => x = 1
    BY <1>1, <1>2
  <2> HIDE DEF I
  <2> QED  BY <1>1, <1>2, <2>1 DEF Min
<1>4. SubSeq(s, 1, Len(s)) = s
  OBVIOUS
<1>5. I # {} /\ 1 # 0
  BY <1>1
<1>6. SkipWhitespace(s) = IF (IF I # {} THEN Min(I) ELSE 0) = 0 THEN <<>>
                          ELSE SubSeq(s, IF I # {} THEN Min(I) ELSE 0, Len(s))
  BY Zenon DEF SkipWhitespace, SelectInSeq
<1> HIDE DEF I
<1> QED  BY <1>3, <1>4, <1>5, <1>6

(* Nothing is skipped where there is nothing.                                *)
LEMMA SkippedEmpty == SkipWhitespace(<<>>) = <<>>
<1>1. {i \in 1 .. Len(<<>>) : <<>>[i] \notin Whitespace} = {}
  OBVIOUS
<1>2. SelectInSeq(<<>>, LAMBDA b : b \notin Whitespace) = 0
  BY <1>1 DEF SelectInSeq
<1> QED  BY <1>2 DEF SkipWhitespace

(* Reading a Var_uint whose first byte is its value.                         *)
LEMMA VarUintOfOne ==
  ASSUME NEW start \in Bytes, start <= Base - 4, start \notin Whitespace, NEW rest \in Seq(Bytes)
  PROVE  ReadVarUint(Stream(<<start>> \o rest)) = [value |-> start, stream |-> Stream(rest)]
<1> DEFINE s == <<start>> \o rest
<1>1. s \in Seq(Bytes) /\ s # <<>> /\ Head(s) = start /\ Tail(s) = rest
  OBVIOUS
<1>2. SkipWhitespace(s) = s
  BY <1>1, NothingSkipped
<1>3. ~Stream(s).failed /\ Stream(s).content = s
  BY DEF Stream
<1> HIDE DEF s
<1>4. ~(Stream(s).failed \/ SkipWhitespace(Stream(s).content) = <<>>)
  BY <1>1, <1>2, <1>3
<1>5. /\ Head(SkipWhitespace(Stream(s).content)) = start
      /\ Tail(SkipWhitespace(Stream(s).content)) = rest
  BY <1>1, <1>2, <1>3
<1>6. start # Prefixed(2) /\ start # Prefixed(4)
  BY BaseAssumption DEF Prefixed
<1>7. ReadVarUint(Stream(s)) = [value |-> start, stream |-> Stream(rest)]
  BY <1>4, <1>5, <1>6, Zenon DEF ReadVarUint
<1> QED  BY <1>7 DEF s

(* Reading one whose first byte announces its width.                         *)
LEMMA VarUintOfMore ==
  ASSUME NEW w \in {2, 4, 8}, Prefixed(w) \notin Whitespace, Prefixed(w) \in Bytes,
         NEW rest \in Seq(Bytes)
  PROVE  ReadVarUint(Stream(<<Prefixed(w)>> \o rest)) = ReadUint(Stream(rest), w)
<1> DEFINE start == Prefixed(w)
           s == <<start>> \o rest
<1>1. s \in Seq(Bytes) /\ s # <<>> /\ Head(s) = start /\ Tail(s) = rest
  OBVIOUS
<1>2. SkipWhitespace(s) = s
  BY <1>1, NothingSkipped
<1>3. ~Stream(s).failed /\ Stream(s).content = s
  BY DEF Stream
<1> HIDE DEF s
<1>4. ~(Stream(s).failed \/ SkipWhitespace(Stream(s).content) = <<>>)
  BY <1>1, <1>2, <1>3
<1>5. /\ Head(SkipWhitespace(Stream(s).content)) = start
      /\ Tail(SkipWhitespace(Stream(s).content)) = rest
  BY <1>1, <1>2, <1>3
<1>6. Prefixed(2) = Base - 3 /\ Prefixed(4) = Base - 2 /\ Prefixed(8) = Base - 1
  BY PrefixBytes
<1>7. CASE w = 2
  <2>1. start = Prefixed(2) /\ start # Prefixed(4) /\ ~(start <= Base - 4)
    BY <1>6, <1>7, BaseAssumption
  <2>2. ReadVarUint(Stream(s)) = ReadUint(Stream(rest), 2)
    BY <1>4, <1>5, <2>1, Zenon DEF ReadVarUint
  <2> QED  BY <1>7, <2>2 DEF s
<1>8. CASE w = 4
  <2>1. start = Prefixed(4) /\ start # Prefixed(2) /\ ~(start <= Base - 4)
    BY <1>6, <1>8, BaseAssumption
  <2>2. ReadVarUint(Stream(s)) = ReadUint(Stream(rest), 4)
    BY <1>4, <1>5, <2>1, Zenon DEF ReadVarUint
  <2> QED  BY <1>8, <2>2 DEF s
<1>9. CASE w = 8
  <2>1. start # Prefixed(4) /\ start # Prefixed(2) /\ ~(start <= Base - 4)
    BY <1>6, <1>9, BaseAssumption
  <2>2. ReadVarUint(Stream(s)) = ReadUint(Stream(rest), 8)
    BY <1>4, <1>5, <2>1, Zenon DEF ReadVarUint
  <2> QED  BY <1>9, <2>2 DEF s
<1> QED  BY <1>7, <1>8, <1>9

(* Reading one where there is nothing.                                       *)
LEMMA VarUintOfNone == ReadVarUint(Stream(<<>>)) = [value |-> 0, stream |-> Failed]
<1>1. Stream(<<>>).failed \/ SkipWhitespace(Stream(<<>>).content) = <<>>
  BY SkippedEmpty DEF Stream
<1> QED  BY <1>1, Zenon DEF ReadVarUint

(* A Var_uint whose first byte is not whitespace comes back from the bytes   *)
(* that it became, whatever its width (Var_uint::byteRepr and readVar_uint). *)
LEMMA VarUintBack ==
  ASSUME NEW v \in Nat, v < Power[8], CleanUint(v), NEW rest \in Seq(Bytes)
  PROVE  ReadVarUint(Stream(VarUint(v) \o rest)) = [value |-> v, stream |-> Stream(rest)]
<1> DEFINE w == Width(v)
<1>1. CASE w = 0
  <2>1. VarUint(v) = <<v>> /\ v \in Bytes
    BY <1>1, VarUintShape
  <2>2. v <= Base - 4
    BY <1>1 DEF Width
  <2>3. v \notin Whitespace
    BY <2>1 DEF CleanUint
  <2> QED  BY <2>1, <2>2, <2>3, VarUintOfOne
<1>2. CASE w # 0
  <2>1. /\ VarUint(v) = <<Prefixed(w)>> \o Digits(v, w)
        /\ Prefixed(w) \in Bytes /\ Prefixed(w) > Base - 4 /\ w \in {2, 4, 8} /\ w \in Nat
    BY <1>2, VarUintShape
  <2>2. v < Power[w]
    BY <1>2, PowerSizes, BaseAssumption DEF Width
  <2> HIDE DEF w
  <2>3. Prefixed(w) \notin Whitespace
    BY <2>1, WhitespaceAssumption, BaseAssumption DEF Bytes
  <2>4. Digits(v, w) \in Seq(Bytes)
    BY <2>1, DigitsType
  <2>5. VarUint(v) \o rest = <<Prefixed(w)>> \o (Digits(v, w) \o rest)
    BY <2>1, <2>4
  <2>6. Digits(v, w) \o rest \in Seq(Bytes)
    BY <2>4
  <2>7. ReadVarUint(Stream(VarUint(v) \o rest)) = ReadUint(Stream(Digits(v, w) \o rest), w)
    BY <2>1, <2>3, <2>5, <2>6, VarUintOfMore
  <2> QED  BY <2>1, <2>2, <2>7, UintBack
<1> QED  BY <1>1, <1>2

(* Two numbers that become the same bytes are the same, whitespace or not    *)
(* (Var_uint::byteRepr).                                                     *)
LEMMA VarUintInjective ==
  ASSUME NEW v \in Nat, v < Power[8], NEW u \in Nat, u < Power[8], VarUint(v) = VarUint(u)
  PROVE  v = u
<1> DEFINE w == Width(v)
<1>1. Width(u) = w /\ w \in {0, 2, 4, 8}
  <2>1. \A x, y : VarUint(x) = VarUint(y) => Len(VarUint(x)) = Len(VarUint(y))
    OBVIOUS
  <2>2. \A x, y \in {0, 2, 4, 8} : x + 1 = y + 1 => x = y
    OBVIOUS
  <2> QED  BY <2>1, <2>2, VarUintType
<1>2. CASE w = 0
  <2>1. VarUint(v) = <<v>> /\ VarUint(u) = <<u>>
    BY <1>1, <1>2, VarUintShape
  <2>2. \A x, y : <<x>> = <<y>> => x = y
    OBVIOUS
  <2> QED  BY <2>1, <2>2, Zenon
<1>3. CASE w # 0
  <2>1. /\ VarUint(v) = <<Prefixed(w)>> \o Digits(v, w)
        /\ VarUint(u) = <<Prefixed(w)>> \o Digits(u, w)
        /\ Prefixed(w) \in Bytes
    BY <1>1, <1>3, VarUintShape
  <2>2. v < Power[w] /\ u < Power[w] /\ w \in Nat
    BY <1>1, <1>3, PowerSizes, BaseAssumption DEF Width
  <2> HIDE DEF w
  <2>3. /\ Digits(v, w) \in Seq(Bytes) /\ Digits(u, w) \in Seq(Bytes)
        /\ Number(Digits(v, w)) = v /\ Number(Digits(u, w)) = u
    BY <2>2, DigitsType, NumberOfDigits
  <2>4. <<Prefixed(w)>> \in Seq(Bytes)
    BY <2>1
  <2>5. Digits(v, w) = Digits(u, w)
    BY <2>1, <2>3, <2>4, ConcatSimplifications
  <2> QED  BY <2>3, <2>5
<1> QED  BY <1>2, <1>3

(* Cut short anywhere, it is read as zero and the stream fails.              *)
LEMMA VarUintShort ==
  ASSUME NEW v \in Nat, CleanUint(v), NEW n \in 0 .. Len(VarUint(v)) - 1
  PROVE  ReadVarUint(Stream(SubSeq(VarUint(v), 1, n))) = [value |-> 0, stream |-> Failed]
<1> DEFINE w == Width(v)
           s == SubSeq(VarUint(v), 1, n)
<1>1. VarUint(v) \in Seq(Bytes) /\ Len(VarUint(v)) = w + 1
  BY VarUintType
<1>2. CASE n = 0
  <2>1. s = <<>>
    BY <1>1, <1>2
  <2> QED  BY <2>1, VarUintOfNone
<1>3. CASE n # 0
  <2>1. n \in Nat /\ n >= 1 /\ n < w + 1 /\ w # 0 /\ w \in Nat
    <3>1. w \in {0, 2, 4, 8}
      BY VarUintType
    <3> HIDE DEF w
    <3> QED  BY <1>1, <1>3, <3>1
  <2>2. /\ VarUint(v) = <<Prefixed(w)>> \o Digits(v, w)
        /\ Prefixed(w) \in Bytes /\ Prefixed(w) > Base - 4 /\ w \in {2, 4, 8}
    BY <2>1, VarUintShape
  <2> HIDE DEF w
  <2>3. Digits(v, w) \in Seq(Bytes) /\ Len(Digits(v, w)) = w
    BY <2>1, DigitsType
  <2> DEFINE rest == SubSeq(Digits(v, w), 1, n - 1)
  <2>4. rest \in Seq(Bytes) /\ Len(rest) = n - 1
    BY <2>1, <2>3
  <2>5. s = <<Prefixed(w)>> \o rest
    BY <2>1, <2>2, <2>3
  <2>6. Prefixed(w) \notin Whitespace
    BY <2>2, WhitespaceAssumption, BaseAssumption DEF Bytes
  <2> HIDE DEF s, rest
  <2>7. ReadVarUint(Stream(s)) = ReadUint(Stream(rest), w)
    BY <2>2, <2>4, <2>5, <2>6, VarUintOfMore
  <2>8. Len(rest) < w
    BY <2>1, <2>4
  <2> QED  BY <2>1, <2>4, <2>7, <2>8, UintShort DEF s
<1> QED  BY <1>2, <1>3

-----------------------------------------------------------------------------
(* A text without a NUL is what it is as a C string, with what follows it in *)
(* memory.                                                                   *)
LEMMA TextIsCString ==
  ASSUME NEW text \in Seq(Bytes), 0 \notin ToSet(text), NEW beyond \in Seq(1 .. Base - 1)
  PROVE  CString(text \o beyond) = text \o beyond
<1>1. beyond \in Seq(1 .. Base - 1) /\ beyond \in Seq(Bytes)
  BY BaseAssumption DEF Bytes
<1> DEFINE chars == text \o beyond
<1>2. ASSUME NEW i \in 1 .. Len(chars) PROVE chars[i] # 0
  <2>1. Len(chars) = Len(text) + Len(beyond)
    BY <1>1, ConcatProperties
  <2>2. CASE i <= Len(text)
    <3>1. chars[i] = text[i]
      BY <1>1, <2>1, <2>2, ConcatProperties
    <3>2. text[i] \in ToSet(text)
      BY <2>2 DEF ToSet
    <3> QED  BY <3>1, <3>2
  <2>3. CASE i > Len(text)
    <3>1. chars[i] = beyond[i - Len(text)] /\ i - Len(text) \in 1 .. Len(beyond)
      BY <1>1, <2>1, <2>3, ConcatProperties
    <3>2. beyond[i - Len(text)] \in 1 .. Base - 1
      BY <1>1, <3>1, ElementOfSeq
    <3> QED  BY <3>1, <3>2, BaseAssumption
  <2> QED  BY <2>1, <2>2, <2>3
<1>3. {i \in 1 .. Len(chars) : chars[i] = 0} = {}
  BY <1>2
<1> HIDE DEF chars
<1>4. CString(chars) = chars
  BY <1>3 DEF CString, SelectInSeq
<1> QED  BY <1>4 DEF chars

(* What a C string has of characters is characters.                          *)
LEMMA CStringTyped ==
  ASSUME NEW chars \in Seq(Bytes)
  PROVE  CString(chars) \in Seq(Bytes) /\ Len(CString(chars)) <= Len(chars)
<1> DEFINE S == {i \in 1 .. Len(chars) : chars[i] = 0}
           i == SelectInSeq(chars, LAMBDA b : b = 0)
<1>1. i \in 0 .. Len(chars)
  <2>1. CASE S = {}
    BY <2>1 DEF SelectInSeq
  <2>2. CASE S # {}
    <3>1. i = CHOOSE j \in S : \A k \in S : j <= k
      BY <2>2 DEF SelectInSeq, Min
    <3>2. \E j \in S : \A k \in S : j <= k
      <4>1. S \in SUBSET Nat
        OBVIOUS
      <4> HIDE DEF S
      <4> QED  BY <2>2, <4>1, P!LeastNumber
    <3> QED  BY <3>1, <3>2
  <2> QED  BY <2>1, <2>2
<1>2. CString(chars) = IF i = 0 THEN chars ELSE SubSeq(chars, 1, i - 1)
  BY DEF CString
<1> HIDE DEF i
<1> QED  BY <1>1, <1>2

(* What a text of at most one block becomes: a C string, with what follows   *)
(* the array of readStr in memory.                                           *)
LEMMA StrOfOneBlock ==
  ASSUME NEW text \in Seq(Bytes), Len(text) <= BufferSize, NEW rest \in Seq(Bytes),
         NEW beyond \in Seq(1 .. Base - 1)
  PROVE  /\ ReadStr(Stream(text \o rest), Len(text), beyond).value = CString(text \o beyond)
         /\ ReadStr(Stream(text \o rest), Len(text), beyond).stream = Stream(rest)
<1> DEFINE length == Len(text)
           content == Stream(text \o rest).content
           bytes == SubSeq(content, 1, length)
           full == IF length = 0 THEN 0 ELSE (length - 1) \div BufferSize
           Block(i) == SubSeq(bytes, (i - 1) * BufferSize + 1,
                              IF i <= full THEN i * BufferSize ELSE length)
           Array(i) == Block(i) \o IF i = 1 THEN <<>>
                                   ELSE SubSeq(Block(i - 1), Len(Block(i)) + 1, BufferSize)
           texts == [i \in 1 .. full + 1 |-> CString(Array(i) \o beyond)]
<1>1. content = text \o rest /\ bytes = text /\ length \in Nat /\ ~(length > Len(content))
  <2>1. content = text \o rest
    BY DEF Stream
  <2> QED  BY <2>1, CutConcat
<1>2. ReadStr(Stream(text \o rest), length, beyond) =
        [value |-> FlattenSeq(texts), stream |-> ReadBytes(Stream(text \o rest), length).stream]
  <2>1. ReadStr(Stream(text \o rest), length, beyond) =
          IF length > Len(content) THEN [value |-> <<>>, stream |-> Failed]
          ELSE [value |-> FlattenSeq(texts),
                stream |-> ReadBytes(Stream(text \o rest), length).stream]
    BY DEF ReadStr
  <2> HIDE DEF texts
  <2> QED  BY <1>1, <2>1
<1>3. full = 0
  <2>1. length <= BufferSize /\ BufferSize \in Nat /\ BufferSize > 0
    BY BufferSizeAssumption
  <2>2. CASE length # 0
    <3>1. length - 1 \in Nat /\ length - 1 < BufferSize
      BY <1>1, <2>1, <2>2
    <3>2. (length - 1) \div BufferSize = 0
      <4> DEFINE m == length - 1
      <4>1. m \in Nat /\ m < BufferSize
        BY <3>1
      <4> HIDE DEF m
      <4>2. m \div BufferSize = 0
        <5>1. m = BufferSize * 0 + m
          BY <2>1, <4>1
        <5> QED  BY <2>1, <4>1, <5>1, QuotientUnique
      <4> QED  BY <4>2 DEF m
    <3> QED  BY <3>2
  <2> QED  BY <2>2
<1>4. beyond \in Seq(Bytes)
  BY BaseAssumption DEF Bytes
<1>5. Array(1) = text
  <2>1. (1 - 1) * BufferSize + 1 = 1
    BY BufferSizeAssumption
  <2>2. Block(1) = SubSeq(text, 1, Len(text))
    <3>1. ~(1 <= full)
      BY <1>3
    <3> HIDE DEF full, content
    <3> QED  BY <1>1, <2>1, <3>1
  <2>3. SubSeq(text, 1, Len(text)) = text
    OBVIOUS
  <2>4. Array(1) = Block(1) \o <<>>
    OBVIOUS
  <2> HIDE DEF Array, Block
  <2> QED  BY <2>2, <2>3, <2>4
<1>6. texts = <<CString(text \o beyond)>>
  <2> DEFINE Text(i) == CString(Array(i) \o beyond)
  <2>1. Text(1) = CString(text \o beyond)
    <3> HIDE DEF Array
    <3> QED  BY <1>5
  <2>2. texts = [i \in 1 .. 1 |-> Text(i)]
    <3>1. full + 1 = 1
      BY <1>3
    <3> HIDE DEF Array, full
    <3> QED  BY <3>1
  <2> HIDE DEF Text, texts
  <2>3. [i \in 1 .. 1 |-> Text(i)] = <<Text(1)>>
    OBVIOUS
  <2> QED  BY <2>1, <2>2, <2>3
<1>7. FlattenSeq(texts) = CString(text \o beyond)
  <2>1. CString(text \o beyond) \in Seq(Bytes)
    BY <1>4, Joined, CStringTyped
  <2> HIDE DEF texts
  <2> QED  BY <1>6, <2>1, FlattenOne
<1>8. ReadBytes(Stream(text \o rest), length).stream = Stream(rest)
  BY BytesBack
<1> HIDE DEF texts
<1> QED  BY <1>2, <1>7, <1>8

(* One that holds no NUL comes back.                                         *)
LEMMA StrBack ==
  ASSUME NEW text \in Seq(Bytes), CleanText(text), NEW rest \in Seq(Bytes),
         NEW beyond \in Seq(1 .. Base - 1)
  PROVE  /\ ReadStr(Stream(text \o rest), Len(text), beyond).value = text \o beyond
         /\ ReadStr(Stream(text \o rest), Len(text), beyond).stream = Stream(rest)
<1>1. Len(text) <= BufferSize /\ 0 \notin ToSet(text)
  BY DEF CleanText
<1> QED  BY <1>1, StrOfOneBlock, TextIsCString

(* So does one that follows its length (Var_str::byteRepr, readVar_str).     *)
LEMMA VarStrBack ==
  ASSUME NEW text \in Seq(Bytes), Len(text) < Power[8], CleanUint(Len(text)), CleanText(text),
         NEW beyond \in Seq(1 .. Base - 1)
  PROVE  ReadVarStr(Stream(VarStr(text)), beyond).value = text \o beyond
<1>1. ReadVarUint(Stream(VarUint(Len(text)) \o text)) =
        [value |-> Len(text), stream |-> Stream(text)]
  BY VarUintBack
<1>2. VarStr(text) = VarUint(Len(text)) \o text
  BY DEF VarStr, Str
<1>3. ReadVarStr(Stream(VarStr(text)), beyond) = ReadStr(Stream(text), Len(text), beyond)
  BY <1>1, <1>2 DEF ReadVarStr
<1>4. text \o <<>> = text /\ <<>> \in Seq(Bytes)
  BY ConcatEmptySeq
<1>5. ReadStr(Stream(text \o <<>>), Len(text), beyond).value = text \o beyond
  BY <1>4, StrBack
<1> QED  BY <1>3, <1>4, <1>5

(* A text that is longer than what is left is not read at all.               *)
LEMMA StrShort ==
  ASSUME NEW a \in Seq(Bytes), NEW length \in Nat, Len(a) < length, NEW beyond
  PROVE  ReadStr(Stream(a), length, beyond) = [value |-> <<>>, stream |-> Failed]
<1>1. Stream(a).content = a /\ length > Len(a)
  BY DEF Stream
<1> QED  BY <1>1 DEF ReadStr

-----------------------------------------------------------------------------
(* A failed stream is a stream.                                              *)
LEMMA FailedTyped == Typed(Failed)
BY DEF Typed, Failed

(* So is one with bytes in it.                                               *)
LEMMA StreamTyped == ASSUME NEW s \in Seq(Bytes) PROVE Typed(Stream(s))
BY DEF Typed, Stream

(* So is what read() leaves.                                                 *)
LEMMA BytesTyped ==
  ASSUME NEW s, Typed(s), NEW n \in Nat
  PROVE  Typed(ReadBytes(s, n).stream) /\ ReadBytes(s, n).value \in Seq(Bytes)
<1> DEFINE c == s.content
           rest == SubSeq(c, n + 1, Len(c))
           front == SubSeq(c, 1, n)
<1>1. c \in Seq(Bytes) /\ rest \in Seq(Bytes) /\ (n <= Len(c) => front \in Seq(Bytes))
  <2>1. c \in Seq(Bytes)
    BY DEF Typed
  <2> HIDE DEF c
  <2> QED  BY <2>1
<1>2. CASE s.failed
  <2>1. ReadBytes(s, n) = [value |-> <<>>, stream |-> s]
    BY <1>2 DEF ReadBytes
  <2>2. <<>> \in Seq(Bytes)
    OBVIOUS
  <2> QED  BY <2>1, <2>2
<1>3. CASE ~s.failed /\ n <= Len(s.content)
  <2>1. ReadBytes(s, n) = [value |-> front, stream |-> Stream(rest)]
    BY <1>3, Zenon DEF ReadBytes
  <2> HIDE DEF front, rest
  <2> QED  BY <1>1, <1>3, <2>1, StreamTyped
<1>4. CASE ~s.failed /\ ~(n <= Len(s.content))
  <2>1. ReadBytes(s, n) = [value |-> c, stream |-> Failed]
    BY <1>4, Zenon DEF ReadBytes
  <2> HIDE DEF c
  <2> QED  BY <1>1, <2>1, FailedTyped
<1> QED  BY <1>2, <1>3, <1>4

(* So is what the read of a number leaves, and the number is one.            *)
LEMMA UintTyped ==
  ASSUME NEW s, Typed(s), NEW n \in Nat
  PROVE  Typed(ReadUint(s, n).stream) /\ ReadUint(s, n).value \in Nat
<1> DEFINE r == ReadBytes(s, n)
           number == IF Len(r.value) = n THEN Number(r.value) ELSE 0
<1>1. Typed(r.stream) /\ r.value \in Seq(Bytes)
  BY BytesTyped
<1>2. ReadUint(s, n) = [value |-> number, stream |-> r.stream]
  BY DEF ReadUint
<1>3. number \in Nat
  <2> HIDE DEF r
  <2> QED  BY <1>1, Numbers
<1> HIDE DEF r, number
<1> QED  BY <1>1, <1>2, <1>3

(* What is left when whitespace has been skipped.                            *)
LEMMA SkippedTyped ==
  ASSUME NEW s \in Seq(Bytes)
  PROVE  SkipWhitespace(s) \in Seq(Bytes)
<1> DEFINE I == {j \in 1 .. Len(s) : s[j] \notin Whitespace}
           i == IF I # {} THEN Min(I) ELSE 0
<1>1. CASE i = 0
  <2>1. SkipWhitespace(s) = <<>>
    BY <1>1 DEF SkipWhitespace, SelectInSeq
  <2> QED  BY <2>1
<1>2. CASE i # 0
  <2>1. SkipWhitespace(s) = SubSeq(s, i, Len(s)) /\ I # {}
    BY <1>2 DEF SkipWhitespace, SelectInSeq
  <2>2. i \in I
    <3>1. \E x \in I : \A y \in I : x <= y
      <4>1. I \subseteq Nat
        OBVIOUS
      <4> HIDE DEF I
      <4> QED  BY <2>1, <4>1, P!LeastNumber
    <3>2. Min(I) \in I
      <4> HIDE DEF I
      <4> QED  BY <3>1 DEF Min
    <3> QED  BY <2>1, <3>2
  <2>3. i \in 1 .. Len(s)
    BY <2>2
  <2> HIDE DEF i
  <2> QED  BY <2>1, <2>3
<1> QED  BY <1>1, <1>2

(* A Var_uint is read as a number, whatever the bytes are.                   *)
LEMMA VarUintTyped ==
  ASSUME NEW s, Typed(s)
  PROVE  Typed(ReadVarUint(s).stream) /\ ReadVarUint(s).value \in Nat
<1> DEFINE bytes == SkipWhitespace(s.content)
           start == Head(bytes)
           after == Stream(Tail(bytes))
           r == ReadVarUint(s)
<1>1. CASE s.failed \/ bytes = <<>>
  <2>1. r = [value |-> 0, stream |-> Failed]
    BY <1>1, Zenon DEF ReadVarUint
  <2> QED  BY <2>1, FailedTyped
<1>2. CASE ~(s.failed \/ bytes = <<>>)
  <2>1. bytes \in Seq(Bytes) /\ bytes # <<>>
    BY <1>2, SkippedTyped DEF Typed
  <2>2. start \in Bytes /\ Tail(bytes) \in Seq(Bytes)
    <3> HIDE DEF bytes
    <3> QED  BY <2>1
  <2>3. Typed(after) /\ start \in Nat
    <3>1. \A b \in Bytes : b \in Nat
      BY BaseAssumption DEF Bytes
    <3> HIDE DEF bytes
    <3> QED  BY <2>2, <3>1, StreamTyped
  <2>4. r \in {[value |-> start, stream |-> after], ReadUint(after, 2), ReadUint(after, 4),
              ReadUint(after, 8)}
    BY <1>2, Zenon DEF ReadVarUint
  <2> HIDE DEF r, start, after
  <2>5. ASSUME r = [value |-> start, stream |-> after] PROVE Typed(r.stream) /\ r.value \in Nat
    <3>1. r.stream = after /\ r.value = start
      BY <2>5
    <3> QED  BY <2>3, <3>1
  <2>6. ASSUME NEW n \in Nat, r = ReadUint(after, n) PROVE Typed(r.stream) /\ r.value \in Nat
    BY <2>3, <2>6, UintTyped
  <2> QED  BY <2>4, <2>5, <2>6 DEF r
<1> QED  BY <1>1, <1>2

(* What the read of a text leaves.                                           *)
LEMMA StrTyped ==
  ASSUME NEW s, Typed(s), NEW length \in Nat, NEW beyond
  PROVE  Typed(ReadStr(s, length, beyond).stream)
<1>1. ReadStr(s, length, beyond).stream \in {Failed, ReadBytes(s, length).stream}
  BY DEF ReadStr
<1> QED  BY <1>1, FailedTyped, BytesTyped
================================================================================
