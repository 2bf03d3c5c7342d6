-------------------------- MODULE NetworkBufferProofs --------------------------
(***************************************************************************)
(* Theorems about NetworkBuffer, for bytes of any size, any fields and any *)
(* garbage in memory: fields are read as they were appended, the read      *)
(* position stands between two of them, and a read that fails, fails for   *)
(* good.                                                                   *)
(***************************************************************************)
EXTENDS NetworkBuffer, WireProofs

\* What a read gives that found too few bytes.
BlankValue(f, v) == Shown(f, v) \in IF IsText(f) THEN Garbage \cup {<<>>} ELSE {<<0>>}

\* What a field may be read as that has all its bytes.
Kept(f, v, beyond) ==
  \/ v = f.value
  \/ IsText(f) /\ v = f.value \o beyond

\* The bytes of the fields after the first t.
Unread(a, t) == [i \in 1 .. Len(a) - t |-> Repr(a[t + i])]

\* What is in the stream is what was appended and not read; nothing that is
\* whole is lost when it fails.
Aligned ==
  IF buffer.failed THEN taken = Len(appended)
  ELSE /\ buffer.content = SubSeq(Pending, 1, Len(Pending) - missing)
       /\ missing > 0 => taken < Len(appended)

\* Only the last field may lack bytes, and not more than it has.
LastCut == missing > 0 => appended # <<>> /\ missing <= Len(Repr(appended[Len(appended)]))

\* The inductive invariant.
IInv ==
  /\ TypeOK /\ Typed(buffer) /\ Emptied(buffer)
  /\ LastCut
  /\ AllClean => Aligned
  /\ ReadAsAppended

-----------------------------------------------------------------------------
LEMMA ReadEmpties ==
  ASSUME NEW stream, Emptied(stream), NEW f \in Fields, NEW beyond
  PROVE  Emptied(Read(stream, f, beyond).stream)
<1>1. f.type \in {"Uint16", "Uint32", "Uint64", "Var_uint", "Str", "Var_str"}
  BY FieldsAssumption
<1>2. CASE f.type \in {"Uint16", "Uint32", "Uint64"}
  BY <1>2, UintEmpties DEF Read
<1>3. CASE f.type = "Var_uint"
  BY <1>3, VarUintEmpties DEF Read
<1>4. CASE f.type = "Str"
  BY <1>4, StrEmpties DEF Read
<1>5. CASE f.type = "Var_str"
  <2>1. Emptied(ReadVarUint(stream).stream)
    BY VarUintEmpties
  <2>2. Read(stream, f, beyond) =
          ReadStr(ReadVarUint(stream).stream, ReadVarUint(stream).value, beyond)
    BY <1>5 DEF Read, ReadVarStr
  <2> QED  BY <2>1, <2>2, StrEmpties
<1> QED  BY <1>1, <1>2, <1>3, <1>4, <1>5

-----------------------------------------------------------------------------
LEMMA ReadOfFailed ==
  ASSUME NEW f \in Fields, NEW beyond \in Garbage
  PROVE  /\ Read(Failed, f, beyond).stream = Failed
         /\ BlankValue(f, Read(Failed, f, beyond).value)
<1>1. \/ f.type \in {"Uint16", "Uint32", "Uint64", "Var_uint"}
      \/ f.type \in {"Str", "Var_str"} /\ Len(f.value) \in Nat
  BY FieldsAssumption
<1>2. \A n \in {2, 4, 8} : ReadUint(Failed, n) = [value |-> 0, stream |-> Failed]
  <2>1. \A n : ReadBytes(Failed, n) = [value |-> <<>>, stream |-> Failed]
    BY DEF ReadBytes, Failed
  <2>2. Len(<<>>) = 0
    OBVIOUS
  <2> QED  BY <2>1, <2>2 DEF ReadUint
<1>3. ReadVarUint(Failed) = [value |-> 0, stream |-> Failed]
  BY DEF ReadVarUint, Failed
<1>4. CASE f.type \in {"Uint16", "Uint32", "Uint64", "Var_uint"}
  <2>1. Read(Failed, f, beyond) = [value |-> 0, stream |-> Failed]
    BY <1>2, <1>3, <1>4 DEF Read
  <2> QED  BY <1>4, <2>1 DEF BlankValue, Shown, IsText
<1>5. CASE f.type \in {"Str", "Var_str"}
  <2>1. \E length \in Nat : Read(Failed, f, beyond) = ReadStr(Failed, length, beyond)
    BY <1>1, <1>3, <1>5 DEF Read, ReadVarStr
  <2> QED  BY <1>5, <2>1, StrOfFailed DEF BlankValue, Shown, IsText
<1> QED  BY <1>1, <1>4, <1>5

-----------------------------------------------------------------------------
LEMMA EmptiedInit == Init => Emptied(buffer)
BY DEF Init, Emptied, Stream

LEMMA EmptiedStep == Emptied(buffer) /\ [Next]_vars => Emptied(buffer')
<1> SUFFICES ASSUME Emptied(buffer), [Next]_vars PROVE Emptied(buffer')
  OBVIOUS
<1>1. \A bytes : Emptied(Insert(buffer, bytes))
  BY DEF Insert, Emptied, Stream
<1>2. ASSUME NEW f \in Fields, AppendBytes(f) PROVE Emptied(buffer')
  BY <1>1, <1>2 DEF AppendBytes
<1>3. ASSUME NEW f \in Fields, NEW n, AppendRawData(f, n) PROVE Emptied(buffer')
  BY <1>1, <1>3 DEF AppendRawData
<1>4. ASSUME NEW f \in Fields, NEW beyond \in Garbage, ReadField(f, beyond)
      PROVE  Emptied(buffer')
  BY <1>4, ReadEmpties DEF ReadField
<1>5. CASE UNCHANGED vars
  BY <1>5 DEF vars
<1> QED  BY <1>2, <1>3, <1>4, <1>5 DEF Next

LEMMA FailureStep ==
  ASSUME Emptied(buffer), [Next]_vars, buffer.failed
  PROVE  buffer' = Failed /\ (last' # last => Blank(last'))
<1>1. buffer = Failed
  BY DEF Emptied
<1>2. ASSUME NEW f \in Fields, AppendBytes(f)
      PROVE  buffer' = Failed /\ last' = last
  BY <1>1, <1>2 DEF AppendBytes, Insert
<1>3. ASSUME NEW f \in Fields, NEW n, AppendRawData(f, n)
      PROVE  buffer' = Failed /\ last' = last
  BY <1>3 DEF AppendRawData
<1>4. ASSUME NEW f \in Fields, NEW beyond \in Garbage, ReadField(f, beyond)
      PROVE  buffer' = Failed /\ Blank(last')
  <2>1. buffer' = Failed /\ BlankValue(f, Read(buffer, f, beyond).value)
    BY <1>1, <1>4, ReadOfFailed DEF ReadField
  <2>2. last'.type = f.type /\ last'.got = Shown(f, Read(buffer, f, beyond).value)
    BY <1>4 DEF ReadField
  <2> QED  BY <2>1, <2>2 DEF BlankValue, Blank, IsText
<1>5. CASE UNCHANGED vars
  BY <1>1, <1>5 DEF vars
<1> QED  BY <1>2, <1>3, <1>4, <1>5 DEF Next

(* For any fields, cut short anywhere, and any reader: once a read has       *)
(* failed nothing is left that a later read could take for another field,    *)
(* and later reads are blank (gcount checks of the reads of NetworkBuffer).  *)
THEOREM FailureIsFinalHolds == Spec => FailureIsFinal
<1>1. Emptied(buffer) /\ [Next]_vars =>
        [buffer.failed => buffer' = Failed /\ (last' # last => Blank(last'))]_vars
  BY FailureStep
<1>2. Init => Emptied(buffer)
  BY EmptiedInit
<1>3. Emptied(buffer) /\ [Next]_vars => Emptied(buffer)'
  BY EmptiedStep
<1> QED  BY <1>1, <1>2, <1>3, PTL DEF Spec, FailureIsFinal

-----------------------------------------------------------------------------
(* So is every field.                                                        *)
LEMMA ReprType ==
  ASSUME NEW f \in Fields
  PROVE  Repr(f) \in Seq(Bytes)
<1>1. CASE f.type \in {"Uint16", "Uint32", "Uint64"}
  <2>1. f.value \in Nat
    BY <1>1, FieldsAssumption, PowerSizes
  <2>2. Repr(f) \in {Digits(f.value, 2), Digits(f.value, 4), Digits(f.value, 8)}
    BY <1>1, Zenon DEF Repr
  <2> QED  BY <2>1, <2>2, DigitsType
<1>2. CASE f.type = "Var_uint"
  <2>1. f.value \in Nat
    BY <1>2, FieldsAssumption, PowerSizes
  <2>2. Repr(f) = VarUint(f.value)
    BY <1>2, Zenon DEF Repr
  <2> QED  BY <2>1, <2>2, VarUintType
<1>3. CASE f.type = "Str"
  BY <1>3, FieldsAssumption, Zenon DEF Repr, Str
<1>4. CASE f.type = "Var_str"
  <2>1. f.value \in Seq(Bytes)
    BY <1>4, FieldsAssumption
  <2>2. Repr(f) = VarUint(Len(f.value)) \o f.value
    BY <1>4, Zenon DEF Repr, VarStr, Str
  <2>3. VarUint(Len(f.value)) \in Seq(Bytes)
    BY <2>1, VarUintType
  <2> QED  BY <2>1, <2>2, <2>3
<1>5. f.type \in {"Uint16", "Uint32", "Uint64", "Var_uint", "Str", "Var_str"}
  BY FieldsAssumption
<1> QED  BY <1>1, <1>2, <1>3, <1>4, <1>5

-----------------------------------------------------------------------------
(* What Clean says is enough: whatever follows it, such a field is read as   *)
(* it was appended, and what followed it is left (the reads of               *)
(* NetworkBuffer).                                                           *)
LEMMA ReadBack ==
  ASSUME NEW f \in Fields, Clean(f), NEW rest \in Seq(Bytes), NEW beyond \in Garbage
  PROVE  /\ Read(Stream(Repr(f) \o rest), f, beyond).stream = Stream(rest)
         /\ Kept(f, Read(Stream(Repr(f) \o rest), f, beyond).value, beyond)
<1> DEFINE s == Stream(Repr(f) \o rest)
           Good(r) == r.stream = Stream(rest) /\ Kept(f, r.value, beyond)
<1> SUFFICES Good(Read(s, f, beyond))
  OBVIOUS
<1>a. Good([value |-> f.value, stream |-> Stream(rest)])
  <2> DEFINE r == [value |-> f.value, stream |-> Stream(rest)]
  <2>1. r.value = f.value /\ r.stream = Stream(rest)
    OBVIOUS
  <2> HIDE DEF r
  <2>2. Kept(f, r.value, beyond)
    BY <2>1, Zenon DEF Kept
  <2> QED  BY <2>1, <2>2 DEF r
<1>b. ASSUME IsText(f), NEW r, r.value = f.value \o beyond, r.stream = Stream(rest)
      PROVE  Good(r)
  BY <1>b DEF Kept
<1>c. Repr(f) \in Seq(Bytes)
  BY ReprType
<1> HIDE DEF Good
<1>1. CASE f.type = "Uint16"
  <2>1. f.value \in Nat /\ f.value < Power[2]
    BY <1>1, FieldsAssumption, PowerSizes
  <2>2. Repr(f) = Digits(f.value, 2) /\ Read(s, f, beyond) = ReadUint(s, 2)
    BY <1>1, Zenon DEF Repr, Read
  <2>3. ReadUint(s, 2) = [value |-> f.value, stream |-> Stream(rest)]
    BY <2>1, <2>2, UintBack
  <2> QED  BY <1>a, <2>2, <2>3
<1>2. CASE f.type = "Uint32"
  <2>1. f.value \in Nat /\ f.value < Power[4]
    BY <1>2, FieldsAssumption, PowerSizes
  <2>2. Repr(f) = Digits(f.value, 4) /\ Read(s, f, beyond) = ReadUint(s, 4)
    BY <1>2, Zenon DEF Repr, Read
  <2>3. ReadUint(s, 4) = [value |-> f.value, stream |-> Stream(rest)]
    BY <2>1, <2>2, UintBack
  <2> QED  BY <1>a, <2>2, <2>3
<1>3. CASE f.type = "Uint64"
  <2>1. f.value \in Nat /\ f.value < Power[8]
    BY <1>3, FieldsAssumption, PowerSizes
  <2>2. Repr(f) = Digits(f.value, 8) /\ Read(s, f, beyond) = ReadUint(s, 8)
    BY <1>3, Zenon DEF Repr, Read
  <2>3. ReadUint(s, 8) = [value |-> f.value, stream |-> Stream(rest)]
    BY <2>1, <2>2, UintBack
  <2> QED  BY <1>a, <2>2, <2>3
<1>4. CASE f.type = "Var_uint"
  <2>1. f.value \in Nat /\ f.value < Power[8]
    BY <1>4, FieldsAssumption, PowerSizes
  <2>2. Repr(f) = VarUint(f.value) /\ Read(s, f, beyond) = ReadVarUint(s)
    BY <1>4, Zenon DEF Repr, Read
  <2>3. CleanUint(f.value)
    BY <1>4, Zenon DEF Clean
  <2>4. ReadVarUint(s) = [value |-> f.value, stream |-> Stream(rest)]
    BY <2>1, <2>2, <2>3, VarUintBack
  <2> QED  BY <1>a, <2>2, <2>4
<1>5. CASE f.type = "Str"
  <2>1. f.value \in Seq(Bytes)
    BY <1>5, FieldsAssumption
  <2>2. Repr(f) = f.value /\ Read(s, f, beyond) = ReadStr(s, Len(f.value), beyond)
    BY <1>5, Zenon DEF Repr, Read, Str
  <2>3. CleanText(f.value)
    BY <1>5, Zenon DEF Clean
  <2>5. beyond \in Seq(1 .. Base - 1) /\ s = Stream(f.value \o rest)
    BY <2>2, GarbageAssumption
  <2>4. /\ ReadStr(s, Len(f.value), beyond).value = f.value \o beyond
        /\ ReadStr(s, Len(f.value), beyond).stream = Stream(rest)
    <3> HIDE DEF s
    <3>1. rest \in Seq(Bytes)
      OBVIOUS
    <3> QED  BY <2>1, <2>3, <2>5, <3>1, StrBack, Zenon
  <2> QED  BY <1>5, <1>b, <2>2, <2>4 DEF IsText
<1>6. CASE f.type = "Var_str"
  <2>1. f.value \in Seq(Bytes) /\ Len(f.value) \in Nat /\ Len(f.value) < Power[8]
    BY <1>6, FieldsAssumption
  <2>2. /\ Repr(f) = VarUint(Len(f.value)) \o f.value
        /\ Read(s, f, beyond) = ReadStr(ReadVarUint(s).stream, ReadVarUint(s).value, beyond)
    BY <1>6, Zenon DEF Repr, Read, Str, VarStr, ReadVarStr
  <2>3. CleanText(f.value) /\ CleanUint(Len(f.value))
    BY <1>6, Zenon DEF Clean
  <2>4. VarUint(Len(f.value)) \in Seq(Bytes) /\ f.value \o rest \in Seq(Bytes)
    <3>1. \A v \in Nat : VarUint(v) \in Seq(Bytes)
      BY VarUintType
    <3> QED  BY <2>1, <3>1
  <2>5. Repr(f) \o rest = VarUint(Len(f.value)) \o (f.value \o rest)
    <3> DEFINE size == VarUint(Len(f.value))
    <3>1. size \in Seq(Bytes) /\ Repr(f) = size \o f.value
      BY <2>2, <2>4
    <3> HIDE DEF size
    <3>2. \A a \in Seq(Bytes), b \in Seq(Bytes) : (a \o b) \o rest = a \o (b \o rest)
      BY ConcatAssociative
    <3> QED  BY <2>1, <3>1, <3>2 DEF size
  <2>6. ReadVarUint(s) = [value |-> Len(f.value), stream |-> Stream(f.value \o rest)]
    <3> DEFINE v == Len(f.value)
               more == f.value \o rest
    <3>1. v \in Nat /\ v < Power[8] /\ CleanUint(v) /\ more \in Seq(Bytes)
      BY <2>1, <2>3, <2>4
    <3>2. s = Stream(VarUint(v) \o more)
      BY <2>5
    <3> HIDE DEF v, more, s
    <3>3. ReadVarUint(s) = [value |-> v, stream |-> Stream(more)]
      BY <3>1, <3>2, VarUintBack
    <3> QED  BY <3>3 DEF v, more
  <2>7. Read(s, f, beyond) = ReadStr(Stream(f.value \o rest), Len(f.value), beyond)
    BY <2>2, <2>6
  <2>8. /\ ReadStr(Stream(f.value \o rest), Len(f.value), beyond).value = f.value \o beyond
        /\ ReadStr(Stream(f.value \o rest), Len(f.value), beyond).stream = Stream(rest)
    BY <2>1, <2>3, GarbageAssumption, StrBack
  <2> QED  BY <1>6, <1>b, <2>7, <2>8 DEF IsText
<1>7. f.type \in {"Uint16", "Uint32", "Uint64", "Var_uint", "Str", "Var_str"}
  BY FieldsAssumption
<1> QED  BY <1>1, <1>2, <1>3, <1>4, <1>5, <1>6, <1>7

(* Cut short anywhere, its read fails and is blank.                          *)
LEMMA ReadCut ==
  ASSUME NEW f \in Fields, Clean(f), NEW n \in 0 .. Len(Repr(f)) - 1, NEW beyond \in Garbage
  PROVE  /\ Read(Stream(SubSeq(Repr(f), 1, n)), f, beyond).stream = Failed
         /\ BlankValue(f, Read(Stream(SubSeq(Repr(f), 1, n)), f, beyond).value)
<1> DEFINE a == SubSeq(Repr(f), 1, n)
           s == Stream(a)
           Good(r) == r.stream = Failed /\ BlankValue(f, r.value)
<1> SUFFICES Good(Read(s, f, beyond))
  OBVIOUS
<1>a. ASSUME ~IsText(f) PROVE Good([value |-> 0, stream |-> Failed])
  BY <1>a DEF BlankValue, Shown
<1>b. ASSUME IsText(f) PROVE Good([value |-> <<>>, stream |-> Failed])
  BY <1>b DEF BlankValue, Shown
<1> HIDE DEF Good
<1>1. a \in Seq(Bytes) /\ Len(a) = n /\ n \in Nat /\ n < Len(Repr(f))
  BY ReprType
<1>2. ASSUME NEW w \in {2, 4, 8}, Repr(f) = Digits(f.value, w), Read(s, f, beyond) = ReadUint(s, w),
             f.value \in Nat, ~IsText(f)
      PROVE  Good(Read(s, f, beyond))
  <2>1. Len(Repr(f)) = w /\ w \in Nat
    <3>1. \A v \in Nat, k \in Nat : Len(Digits(v, k)) = k
      BY DigitsType
    <3> QED  BY <1>2, <3>1
  <2>2. Len(a) < w
    BY <1>1, <2>1
  <2> HIDE DEF a
  <2>3. ReadUint(s, w) = [value |-> 0, stream |-> Failed]
    BY <1>1, <2>1, <2>2, UintShort
  <2> QED  BY <1>2, <1>a, <2>3
<1>3. CASE f.type = "Uint16"
  <2>1. f.value \in Nat /\ ~IsText(f)
    BY <1>3, FieldsAssumption, PowerSizes DEF IsText
  <2>2. Repr(f) = Digits(f.value, 2) /\ Read(s, f, beyond) = ReadUint(s, 2)
    BY <1>3, Zenon DEF Repr, Read
  <2> QED  BY <1>2, <2>1, <2>2
<1>4. CASE f.type = "Uint32"
  <2>1. f.value \in Nat /\ ~IsText(f)
    BY <1>4, FieldsAssumption, PowerSizes DEF IsText
  <2>2. Repr(f) = Digits(f.value, 4) /\ Read(s, f, beyond) = ReadUint(s, 4)
    BY <1>4, Zenon DEF Repr, Read
  <2> QED  BY <1>2, <2>1, <2>2
<1>5. CASE f.type = "Uint64"
  <2>1. f.value \in Nat /\ ~IsText(f)
    BY <1>5, FieldsAssumption, PowerSizes DEF IsText
  <2>2. Repr(f) = Digits(f.value, 8) /\ Read(s, f, beyond) = ReadUint(s, 8)
    BY <1>5, Zenon DEF Repr, Read
  <2> QED  BY <1>2, <2>1, <2>2
<1>6. CASE f.type = "Var_uint"
  <2>1. f.value \in Nat /\ ~IsText(f)
    BY <1>6, FieldsAssumption, PowerSizes DEF IsText
  <2>2. Repr(f) = VarUint(f.value) /\ Read(s, f, beyond) = ReadVarUint(s)
    BY <1>6, Zenon DEF Repr, Read
  <2>3. CleanUint(f.value)
    BY <1>6, Zenon DEF Clean
  <2>4. ReadVarUint(s) = [value |-> 0, stream |-> Failed]
    BY <2>1, <2>2, <2>3, VarUintShort
  <2> QED  BY <1>a, <2>1, <2>2, <2>4
<1>7. CASE f.type = "Str"
  <2>1. f.value \in Seq(Bytes) /\ IsText(f)
    BY <1>7, FieldsAssumption DEF IsText
  <2>2. Repr(f) = f.value /\ Read(s, f, beyond) = ReadStr(s, Len(f.value), beyond)
    BY <1>7, Zenon DEF Repr, Read, Str
  <2> HIDE DEF a
  <2>3. Read(s, f, beyond) = [value |-> <<>>, stream |-> Failed]
    BY <1>1, <2>1, <2>2, StrShort
  <2> QED  BY <1>b, <2>1, <2>3
<1>8. CASE f.type = "Var_str"
  <2>1. f.value \in Seq(Bytes) /\ Len(f.value) \in Nat /\ Len(f.value) < Power[8] /\ IsText(f)
    BY <1>8, FieldsAssumption DEF IsText
  <2>2. /\ Repr(f) = VarUint(Len(f.value)) \o f.value
        /\ Read(s, f, beyond) = ReadStr(ReadVarUint(s).stream, ReadVarUint(s).value, beyond)
    BY <1>8, Zenon DEF Repr, Read, Str, VarStr, ReadVarStr
  <2>3. CleanText(f.value) /\ CleanUint(Len(f.value))
    BY <1>8, Zenon DEF Clean
  <2> DEFINE size == VarUint(Len(f.value))
  <2>4. size \in Seq(Bytes) /\ Len(size) \in Nat
    <3>1. \A v \in Nat : VarUint(v) \in Seq(Bytes)
      BY VarUintType
    <3>2. size \in Seq(Bytes)
      BY <2>1, <3>1
    <3> HIDE DEF size
    <3> QED  BY <3>2
  <2>5. Len(Repr(f)) = Len(size) + Len(f.value)
    <3> HIDE DEF size
    <3>1. Len(size \o f.value) = Len(size) + Len(f.value)
      BY <2>1, <2>4, ConcatProperties
    <3> QED  BY <2>2, <3>1 DEF size
  <2>6. CASE n < Len(size)
    <3>1. a = SubSeq(size, 1, n)
      <4> HIDE DEF size
      <4>1. SubSeq(size \o f.value, 1, n) = SubSeq(size, 1, n)
        BY <1>1, <2>1, <2>4, <2>6
      <4> QED  BY <2>2, <4>1 DEF size
    <3>2. n \in 0 .. Len(size) - 1
      BY <1>1, <2>4, <2>6
    <3>3. ReadVarUint(s) = [value |-> 0, stream |-> Failed]
      BY <2>1, <2>3, <3>1, <3>2, VarUintShort
    <3>4. Read(s, f, beyond) = ReadStr(Failed, 0, beyond)
      BY <2>2, <3>3
    <3>5. /\ ReadStr(Failed, 0, beyond).stream = Failed
          /\ ReadStr(Failed, 0, beyond).value \in Garbage \cup {<<>>}
      BY StrOfFailed
    <3> QED  BY <2>1, <3>4, <3>5 DEF BlankValue, Shown, Good
  <2>7. CASE ~(n < Len(size))
    <3> DEFINE text == SubSeq(f.value, 1, n - Len(size))
    <3>1. n - Len(size) \in Nat /\ n - Len(size) < Len(f.value)
      <4> HIDE DEF size, a
      <4> QED  BY <1>1, <2>1, <2>4, <2>5, <2>7
    <3>2. text \in Seq(Bytes) /\ Len(text) = n - Len(size)
      <4> DEFINE m == n - Len(size)
      <4>1. m \in Nat /\ m < Len(f.value)
        BY <3>1
      <4> HIDE DEF m, size
      <4>2. SubSeq(f.value, 1, m) \in Seq(Bytes) /\ Len(SubSeq(f.value, 1, m)) = m
        BY <2>1, <4>1
      <4> QED  BY <4>2 DEF m
    <3>3. a = size \o text
      <4> HIDE DEF size
      <4>1. SubSeq(size \o f.value, 1, n) = size \o SubSeq(f.value, 1, n - Len(size))
        <5>1. Len(size \o f.value) = Len(size) + Len(f.value)
          BY <2>1, <2>4, ConcatProperties
        <5>2. n \in Len(size) .. Len(size) + Len(f.value)
          BY <1>1, <2>1, <2>4, <2>7, <3>1, <5>1
        <5> QED  BY <2>1, <2>4, <5>2, CutBehind
      <4> QED  BY <2>2, <4>1 DEF size
    <3> HIDE DEF text
    <3>4. ReadVarUint(s) = [value |-> Len(f.value), stream |-> Stream(text)]
      BY <2>1, <2>3, <3>2, <3>3, VarUintBack
    <3>5. Len(text) < Len(f.value)
      BY <3>1, <3>2
    <3>6. Read(s, f, beyond) = [value |-> <<>>, stream |-> Failed]
      BY <2>1, <2>2, <3>2, <3>4, <3>5, StrShort
    <3> QED  BY <1>b, <2>1, <3>6
  <2> QED  BY <2>6, <2>7
<1>9. f.type \in {"Uint16", "Uint32", "Uint64", "Var_uint", "Str", "Var_str"}
  BY FieldsAssumption
<1> QED  BY <1>3, <1>4, <1>5, <1>6, <1>7, <1>8, <1>9

-----------------------------------------------------------------------------
(* The fields that are left, as bytes.                                       *)
LEMMA UnreadType ==
  ASSUME NEW a \in Seq(Fields), NEW t \in 0 .. Len(a)
  PROVE  /\ Unread(a, t) \in Seq(Seq(Bytes)) /\ Len(Unread(a, t)) = Len(a) - t
         /\ \A i \in 1 .. Len(a) - t : Unread(a, t)[i] = Repr(a[t + i])
<1> DEFINE n == Len(a) - t
           R(i) == Repr(a[t + i])
<1>1. n \in Nat
  OBVIOUS
<1>2. \A i \in 1 .. n : R(i) \in Seq(Bytes)
  <2> TAKE i \in 1 .. n
  <2>1. t + i \in 1 .. Len(a)
    OBVIOUS
  <2>2. a[t + i] \in Fields
    BY <2>1
  <2> QED  BY <2>2, ReprType
<1>3. Unread(a, t) = [i \in 1 .. n |-> R(i)]
  BY DEF Unread
<1> HIDE DEF n, R
<1>4. /\ [i \in 1 .. n |-> R(i)] \in Seq(Seq(Bytes)) /\ Len([i \in 1 .. n |-> R(i)]) = n
      /\ \A i \in 1 .. n : [j \in 1 .. n |-> R(j)][i] = R(i)
  BY <1>1, <1>2
<1> QED  BY <1>3, <1>4 DEF n, R

(* An appended field comes after what is left.                               *)
LEMMA UnreadAppend ==
  ASSUME NEW a \in Seq(Fields), NEW t \in 0 .. Len(a), NEW f \in Fields
  PROVE  Concat(Unread(Append(a, f), t)) = Concat(Unread(a, t)) \o Repr(f)
<1> DEFINE b == Append(a, f)
           u == Unread(a, t)
           v == Unread(b, t)
<1>1. b \in Seq(Fields) /\ Len(b) = Len(a) + 1 /\ t \in 0 .. Len(b) /\ b[Len(a) + 1] = f
  OBVIOUS
<1>2. \A i \in 1 .. Len(a) : b[i] = a[i]
  OBVIOUS
<1>3. u \in Seq(Seq(Bytes)) /\ Len(u) = Len(a) - t /\ \A i \in 1 .. Len(a) - t : u[i] = Repr(a[t + i])
  BY UnreadType
<1> HIDE DEF b
<1>4. v \in Seq(Seq(Bytes)) /\ Len(v) = Len(b) - t /\ \A i \in 1 .. Len(b) - t : v[i] = Repr(b[t + i])
  BY <1>1, UnreadType
<1> HIDE DEF u, v
<1>5. Len(v) = Len(u) + 1 /\ Len(u) \in Nat
  BY <1>1, <1>3, <1>4
<1>6. \A i \in 1 .. Len(u) : v[i] = u[i]
  <2> TAKE i \in 1 .. Len(u)
  <2>1. i \in 1 .. Len(a) - t /\ i \in 1 .. Len(b) - t /\ t + i \in 1 .. Len(a)
    BY <1>1, <1>3
  <2> QED  BY <1>2, <1>3, <1>4, <2>1
<1>7. v[Len(u) + 1] = Repr(f)
  <2>1. Len(u) + 1 \in 1 .. Len(b) - t /\ t + (Len(u) + 1) = Len(a) + 1
    BY <1>1, <1>3
  <2> QED  BY <1>1, <1>4, <2>1
<1>8. Repr(f) \in Seq(Bytes)
  BY ReprType
<1>9. v = Append(u, Repr(f))
  <2>1. Append(u, Repr(f)) \in Seq(Seq(Bytes)) /\ Len(Append(u, Repr(f))) = Len(u) + 1
    BY <1>3, <1>8
  <2>2. \A i \in 1 .. Len(u) + 1 : v[i] = Append(u, Repr(f))[i]
    BY <1>3, <1>5, <1>6, <1>7, <1>8
  <2> QED  BY <1>4, <1>5, <2>1, <2>2, SeqEqual
<1> QED  BY <1>3, <1>8, <1>9, ConcatSteps DEF u, v, b

(* The field to be read comes before what is left after it: by induction     *)
(* over the fields that follow it.                                           *)
LEMMA UnreadFirst ==
  ASSUME NEW a \in Seq(Fields), NEW t \in 0 .. Len(a) - 1
  PROVE  Concat(Unread(a, t)) = Repr(a[t + 1]) \o Concat(Unread(a, t + 1))
<1> DEFINE S == {n \in Nat : n <= Len(a) - (t + 1) =>
                   Concat(Unread(SubSeq(a, 1, t + 1 + n), t)) =
                     Repr(a[t + 1]) \o Concat(Unread(SubSeq(a, 1, t + 1 + n), t + 1))}
<1>1. t \in Nat /\ t + 1 \in Nat /\ t + 1 <= Len(a) /\ Len(a) \in Nat
  OBVIOUS
<1>a. \A k \in 0 .. Len(a) : SubSeq(a, 1, k) \in Seq(Fields) /\ Len(SubSeq(a, 1, k)) = k
  OBVIOUS
<1>b. \A k \in 0 .. Len(a) - 1 : SubSeq(a, 1, k + 1) = Append(SubSeq(a, 1, k), a[k + 1])
  OBVIOUS
<1>c. \A s \in Seq(Fields) : Unread(s, Len(s)) = <<>>
  <2> TAKE s \in Seq(Fields)
  <2>1. Len(s) \in 0 .. Len(s)
    OBVIOUS
  <2>2. Unread(s, Len(s)) \in Seq(Seq(Bytes)) /\ Len(Unread(s, Len(s))) = Len(s) - Len(s)
    BY <2>1, UnreadType
  <2>3. Len(s) - Len(s) = 0
    OBVIOUS
  <2> QED  BY <2>2, <2>3
<1>2. 0 \in S
  <2> DEFINE s == SubSeq(a, 1, t)
             l == SubSeq(a, 1, t + 1)
  <2>1. s \in Seq(Fields) /\ Len(s) = t /\ l \in Seq(Fields) /\ Len(l) = t + 1
    BY <1>1, <1>a
  <2>2. l = Append(s, a[t + 1]) /\ a[t + 1] \in Fields
    BY <1>1, <1>b
  <2> HIDE DEF s, l
  <2>3. Unread(s, t) = <<>> /\ Unread(l, t + 1) = <<>>
    BY <1>c, <2>1
  <2>4. Concat(Unread(l, t)) = Concat(Unread(s, t)) \o Repr(a[t + 1])
    <3> DEFINE f == a[t + 1]
    <3>1. f \in Fields /\ l = Append(s, f) /\ t \in 0 .. Len(s)
      BY <1>1, <2>1, <2>2
    <3> HIDE DEF f
    <3>2. Concat(Unread(l, t)) = Concat(Unread(s, t)) \o Repr(f)
      BY <2>1, <3>1, UnreadAppend
    <3> QED  BY <3>2 DEF f
  <2>5. Repr(a[t + 1]) \in Seq(Bytes)
    BY <2>2, ReprType
  <2>6. Concat(Unread(l, t)) = Repr(a[t + 1]) \o Concat(Unread(l, t + 1))
    BY <2>3, <2>4, <2>5, ConcatSteps
  <2>7. t + 1 + 0 = t + 1
    BY <1>1
  <2> QED  BY <2>6, <2>7 DEF l
<1>3. ASSUME NEW n \in Nat, n \in S PROVE n + 1 \in S
  <2> SUFFICES ASSUME n + 1 <= Len(a) - (t + 1)
               PROVE  Concat(Unread(SubSeq(a, 1, t + 1 + (n + 1)), t)) =
                        Repr(a[t + 1]) \o Concat(Unread(SubSeq(a, 1, t + 1 + (n + 1)), t + 1))
    OBVIOUS
  <2> DEFINE k == t + 1 + n
             s == SubSeq(a, 1, k)
             l == SubSeq(a, 1, k + 1)
             last1 == a[k + 1]
  <2>1. k \in 0 .. Len(a) - 1 /\ t + 1 + (n + 1) = k + 1 /\ t \in 0 .. k /\ t + 1 \in 0 .. k
    BY <1>1
  <2>2. Concat(Unread(s, t)) = Repr(a[t + 1]) \o Concat(Unread(s, t + 1))
    BY <1>3
  <2> HIDE DEF k
  <2>3. s \in Seq(Fields) /\ Len(s) = k /\ l = Append(s, last1) /\ last1 \in Fields
    <3>1. k \in 0 .. Len(a) /\ k + 1 \in 1 .. Len(a)
      BY <2>1
    <3> QED  BY <1>a, <1>b, <2>1, <3>1
  <2> HIDE DEF s, l, last1
  <2>4. /\ Concat(Unread(l, t)) = Concat(Unread(s, t)) \o Repr(last1)
        /\ Concat(Unread(l, t + 1)) = Concat(Unread(s, t + 1)) \o Repr(last1)
    BY <2>1, <2>3, UnreadAppend
  <2>5. /\ Repr(a[t + 1]) \in Seq(Bytes) /\ Repr(last1) \in Seq(Bytes)
        /\ Concat(Unread(s, t + 1)) \in Seq(Bytes)
    <3>1. a[t + 1] \in Fields
      BY <1>1
    <3>2. Unread(s, t + 1) \in Seq(Seq(Bytes))
      BY <2>1, <2>3, UnreadType
    <3> QED  BY <2>3, <3>1, <3>2, ReprType, ConcatSteps
  <2>6. \A x \in Seq(Bytes), y \in Seq(Bytes), z \in Seq(Bytes) : (x \o y) \o z = x \o (y \o z)
    <3> TAKE x \in Seq(Bytes), y \in Seq(Bytes), z \in Seq(Bytes)
    <3> QED  OBVIOUS
  <2>7. Concat(Unread(l, t)) = Repr(a[t + 1]) \o Concat(Unread(l, t + 1))
    <3> DEFINE x == Repr(a[t + 1])
               y == Concat(Unread(s, t + 1))
    <3>1. Concat(Unread(l, t)) = (x \o y) \o Repr(last1) /\ x \in Seq(Bytes) /\ y \in Seq(Bytes)
      BY <2>2, <2>4, <2>5
    <3> HIDE DEF x, y
    <3>2. (x \o y) \o Repr(last1) = x \o (y \o Repr(last1))
      BY <2>5, <2>6, <3>1
    <3> QED  BY <2>4, <3>1, <3>2 DEF x, y
  <2> QED  BY <2>1, <2>7 DEF l
<1>4. Len(a) - (t + 1) \in S
  <2>1. Len(a) - (t + 1) \in Nat
    OBVIOUS
  <2> HIDE DEF S
  <2> QED  BY <1>2, <1>3, <2>1, P!InductionOverNat
<1>5. t + 1 + (Len(a) - (t + 1)) = Len(a) /\ SubSeq(a, 1, Len(a)) = a
  OBVIOUS
<1>6. Concat(Unread(SubSeq(a, 1, t + 1 + (Len(a) - (t + 1))), t)) =
        Repr(a[t + 1]) \o Concat(Unread(SubSeq(a, 1, t + 1 + (Len(a) - (t + 1))), t + 1))
  BY <1>1, <1>4
<1> QED  BY <1>5, <1>6

(* The last field is part of what is left.                                   *)
LEMMA UnreadLast ==
  ASSUME NEW a \in Seq(Fields), NEW t \in 0 .. Len(a) - 1
  PROVE  Len(Repr(a[Len(a)])) <= Len(Concat(Unread(a, t)))
<1> DEFINE n == Len(a) - 1
           s == SubSeq(a, 1, n)
           f == a[n + 1]
<1>1. n \in Nat /\ n + 1 = Len(a) /\ t \in 0 .. n
  OBVIOUS
<1>2. s \in Seq(Fields) /\ Len(s) = n /\ f \in Fields /\ a = Append(s, f)
  <2>1. SubSeq(a, 1, n + 1) = a
    OBVIOUS
  <2>2. SubSeq(a, 1, n + 1) = Append(SubSeq(a, 1, n), a[n + 1])
    <3>1. \A k \in 0 .. Len(a) - 1 : SubSeq(a, 1, k + 1) = Append(SubSeq(a, 1, k), a[k + 1])
      OBVIOUS
    <3> HIDE DEF n
    <3>2. n \in 0 .. Len(a) - 1
      BY <1>1
    <3> QED  BY <3>1, <3>2
  <2> QED  BY <1>1, <2>1, <2>2
<1> HIDE DEF n, s, f
<1>3. Concat(Unread(a, t)) = Concat(Unread(s, t)) \o Repr(f)
  BY <1>1, <1>2, UnreadAppend
<1>4. Repr(f) \in Seq(Bytes) /\ Concat(Unread(s, t)) \in Seq(Bytes)
  <2>1. Unread(s, t) \in Seq(Seq(Bytes))
    BY <1>1, <1>2, UnreadType
  <2> QED  BY <1>2, <2>1, ReprType, ConcatSteps
<1>5. Len(Concat(Unread(s, t)) \o Repr(f)) = Len(Concat(Unread(s, t))) + Len(Repr(f))
  BY <1>4, ConcatProperties
<1>6. Len(Repr(f)) \in Nat /\ Len(Concat(Unread(s, t))) \in Nat
  BY <1>4
<1>7. f = a[Len(a)]
  BY <1>1 DEF f
<1> QED  BY <1>3, <1>5, <1>6, <1>7

-----------------------------------------------------------------------------
(* What the read of any field leaves, whatever the bytes are.                *)
LEMMA ReadTyped ==
  ASSUME NEW s, Typed(s), NEW f \in Fields, NEW beyond
  PROVE  Typed(Read(s, f, beyond).stream)
<1>1. CASE f.type \in {"Uint16", "Uint32", "Uint64"}
  <2>1. Read(s, f, beyond) \in {ReadUint(s, 2), ReadUint(s, 4), ReadUint(s, 8)}
    BY <1>1, Zenon DEF Read
  <2>2. \A n \in Nat : Typed(ReadUint(s, n).stream)
    BY UintTyped
  <2> QED  BY <2>1, <2>2
<1>2. CASE f.type = "Var_uint"
  <2>1. Read(s, f, beyond) = ReadVarUint(s)
    BY <1>2, Zenon DEF Read
  <2> QED  BY <2>1, VarUintTyped
<1>3. CASE f.type = "Str"
  <2>1. Read(s, f, beyond) = ReadStr(s, Len(f.value), beyond)
    BY <1>3, Zenon DEF Read
  <2>2. Len(f.value) \in Nat
    BY <1>3, FieldsAssumption
  <2> QED  BY <2>1, <2>2, StrTyped
<1>4. CASE f.type = "Var_str"
  <2>1. Read(s, f, beyond) = ReadStr(ReadVarUint(s).stream, ReadVarUint(s).value, beyond)
    BY <1>4, Zenon DEF Read, ReadVarStr
  <2> DEFINE stream == ReadVarUint(s).stream
             length == ReadVarUint(s).value
  <2>2. Typed(stream) /\ length \in Nat
    BY VarUintTyped
  <2> HIDE DEF stream, length
  <2>3. Typed(ReadStr(stream, length, beyond).stream)
    BY <2>2, StrTyped
  <2> QED  BY <2>1, <2>3 DEF stream, length
<1>5. f.type \in {"Uint16", "Uint32", "Uint64", "Var_uint", "Str", "Var_str"}
  BY FieldsAssumption
<1> QED  BY <1>1, <1>2, <1>3, <1>4, <1>5

(* What is read from an empty stream leaves it empty, whether it fails or    *)
(* not: an empty text does not.                                              *)
LEMMA ReadNothing ==
  ASSUME NEW f \in Fields, NEW beyond
  PROVE  Read(Stream(<<>>), f, beyond).stream \in {Failed, Stream(<<>>)}
<1> DEFINE s == Stream(<<>>)
<1>1. ASSUME NEW n \in Nat
      PROVE  ReadBytes(s, n).stream \in {Failed, s}
  <2>1. CASE n = 0
    <3>1. ReadBytes(Stream(<<>> \o <<>>), Len(<<>>)) = [value |-> <<>>, stream |-> Stream(<<>>)]
      <4>1. <<>> \in Seq(Bytes)
        OBVIOUS
      <4> QED  BY <4>1, BytesBack
    <3>2. <<>> \o <<>> = <<>> /\ Len(<<>>) = 0
      OBVIOUS
    <3> QED  BY <2>1, <3>1, <3>2
  <2>2. CASE n # 0
    <3>1. <<>> \in Seq(Bytes) /\ Len(<<>>) < n
      BY <2>2
    <3>2. ReadBytes(Stream(<<>>), n) = [value |-> <<>>, stream |-> Failed]
      BY <3>1, BytesShort
    <3> QED  BY <3>2
  <2> QED  BY <2>1, <2>2
<1>2. ASSUME NEW n \in Nat PROVE ReadUint(s, n).stream \in {Failed, s}
  <2>1. ReadUint(s, n).stream = ReadBytes(s, n).stream
    BY DEF ReadUint
  <2> QED  BY <1>1, <2>1
<1>3. ReadVarUint(s) = [value |-> 0, stream |-> Failed]
  BY VarUintOfNone
<1>4. ASSUME NEW n \in Nat PROVE ReadStr(s, n, beyond).stream \in {Failed, s}
  <2>1. ReadStr(s, n, beyond).stream \in {Failed, ReadBytes(s, n).stream}
    BY DEF ReadStr
  <2> QED  BY <1>1, <2>1
<1>5. CASE f.type \in {"Uint16", "Uint32", "Uint64"}
  <2>1. Read(s, f, beyond) \in {ReadUint(s, 2), ReadUint(s, 4), ReadUint(s, 8)}
    BY <1>5, Zenon DEF Read
  <2> QED  BY <1>2, <2>1
<1>6. CASE f.type = "Var_uint"
  <2>1. Read(s, f, beyond) = ReadVarUint(s)
    BY <1>6, Zenon DEF Read
  <2> QED  BY <1>3, <2>1
<1>7. CASE f.type = "Str"
  <2>1. Read(s, f, beyond) = ReadStr(s, Len(f.value), beyond)
    BY <1>7, Zenon DEF Read
  <2>2. Len(f.value) \in Nat
    BY <1>7, FieldsAssumption
  <2> QED  BY <1>4, <2>1, <2>2
<1>8. CASE f.type = "Var_str"
  <2>1. Read(s, f, beyond) = ReadStr(Failed, 0, beyond)
    <3>1. Read(s, f, beyond) = ReadStr(ReadVarUint(s).stream, ReadVarUint(s).value, beyond)
      BY <1>8, Zenon DEF Read, ReadVarStr
    <3>2. ReadVarUint(s).stream = Failed /\ ReadVarUint(s).value = 0
      BY <1>3
    <3> HIDE DEF s
    <3> QED  BY <3>1, <3>2
  <2>2. ReadStr(Failed, 0, beyond).stream \in {Failed, ReadBytes(Failed, 0).stream}
    BY DEF ReadStr
  <2>3. ReadBytes(Failed, 0).stream = Failed
    BY DEF ReadBytes, Failed
  <2> QED  BY <2>1, <2>2, <2>3
<1>9. f.type \in {"Uint16", "Uint32", "Uint64", "Var_uint", "Str", "Var_str"}
  BY FieldsAssumption
<1> QED  BY <1>5, <1>6, <1>7, <1>8, <1>9

-----------------------------------------------------------------------------
(* What is pending is what was appended after the fields that were read.     *)
LEMMA PendingIsUnread == Pending = Concat(Unread(appended, taken))
BY DEF Pending, Unread

(* Cutting nothing off.                                                      *)
LEMMA WholeSubSeq == ASSUME NEW s \in Seq(Bytes) PROVE SubSeq(s, 1, Len(s) - 0) = s
OBVIOUS

(* Cutting it further on.                                                    *)
LEMMA CutSecond ==
  ASSUME NEW a \in Seq(Bytes), NEW b \in Seq(Bytes), NEW k \in 0 .. Len(b)
  PROVE  SubSeq(a \o b, 1, Len(a) + k) = a \o SubSeq(b, 1, k)
OBVIOUS

(* Nothing is in a new buffer.                                               *)
LEMMA InitIInv == Init => IInv
<1> SUFFICES ASSUME Init PROVE IInv
  OBVIOUS
<1>1. /\ buffer.content = <<>> /\ buffer.failed = FALSE /\ appended = <<>> /\ missing = 0
      /\ taken = 0 /\ last.due = FALSE
  BY DEF Init, Stream, NoRead
<1>2. TypeOK /\ Typed(buffer) /\ Emptied(buffer)
  <2>1. <<>> \in Seq(Fields) /\ <<>> \in Seq(Bytes) /\ Len(<<>>) = 0
    OBVIOUS
  <2>2. Typed(buffer)
    BY <2>1, StreamTyped DEF Init
  <2>3. TypeOK
    <3>1. Len(appended) <= MaxFields /\ taken \in 0 .. Len(appended)
      BY <1>1, <2>1, MaxFieldsAssumption
    <3>2. missing \in Nat /\ appended \in Seq(Fields) /\ last.due \in BOOLEAN
      BY <1>1, <2>1
    <3>3. buffer.content \in Seq(Bytes) /\ buffer.failed \in BOOLEAN
      BY <2>2 DEF Typed
    <3> QED  BY <3>1, <3>2, <3>3 DEF TypeOK
  <2> QED  BY <1>1, <2>2, <2>3 DEF Emptied
<1>3. LastCut /\ ReadAsAppended
  BY <1>1 DEF LastCut, ReadAsAppended
<1>4. Aligned
  <2>1. Unread(<<>>, 0) = <<>>
    <3>1. <<>> \in Seq(Fields) /\ 0 \in 0 .. Len(<<>>) /\ Len(<<>>) - 0 = 0
      OBVIOUS
    <3>2. Unread(<<>>, 0) \in Seq(Seq(Bytes)) /\ Len(Unread(<<>>, 0)) = 0
      BY <3>1, UnreadType
    <3> QED  BY <3>2
  <2>2. Pending = <<>>
    BY <1>1, <2>1, PendingIsUnread, ConcatSteps
  <2>3. SubSeq(<<>>, 1, Len(<<>>) - 0) = <<>>
    OBVIOUS
  <2> QED  BY <1>1, <2>2, <2>3 DEF Aligned
<1> QED  BY <1>2, <1>3, <1>4 DEF IInv

(* Fields that are all clean were all clean before one was appended.         *)
LEMMA CleanBefore ==
  ASSUME appended \in Seq(Fields), NEW f \in Fields, appended' = Append(appended, f), AllClean'
  PROVE  AllClean
<1> SUFFICES ASSUME NEW i \in DOMAIN appended PROVE Clean(appended[i])
  BY DEF AllClean
<1>1. i \in DOMAIN appended' /\ appended'[i] = appended[i]
  OBVIOUS
<1> QED  BY <1>1 DEF AllClean

(* Both appends: of the first n bytes of a field, which may be all of them.  *)
LEMMA AppendKeeps ==
  ASSUME IInv, NEW f \in Fields, NEW n \in 0 .. Len(Repr(f)),
         missing = 0, Len(appended) < MaxFields, ~buffer.failed,
         buffer' = Insert(buffer, SubSeq(Repr(f), 1, n)),
         appended' = Append(appended, f),
         missing' = Len(Repr(f)) - n,
         UNCHANGED <<taken, last>>
  PROVE  IInv'
<1> DEFINE r == Repr(f)
           part == SubSeq(r, 1, n)
<1>1. /\ buffer.content \in Seq(Bytes) /\ appended \in Seq(Fields) /\ taken \in 0 .. Len(appended)
      /\ TypeOK /\ ReadAsAppended /\ (AllClean => Aligned)
  BY DEF IInv, TypeOK
<1>2. r \in Seq(Bytes) /\ part \in Seq(Bytes) /\ Len(part) = n /\ n \in Nat /\ Len(r) \in Nat
  BY ReprType
<1>3. buffer' = Stream(buffer.content \o part) /\ buffer.content \o part \in Seq(Bytes)
  BY <1>1, <1>2 DEF Insert
<1>4. Typed(buffer') /\ ~buffer'.failed /\ buffer'.content = buffer.content \o part
  <2> DEFINE c == buffer.content \o part
  <2>1. c \in Seq(Bytes) /\ buffer' = Stream(c)
    BY <1>3
  <2> HIDE DEF c
  <2>2. Typed(Stream(c)) /\ ~Stream(c).failed /\ Stream(c).content = c
    BY <2>1, StreamTyped DEF Stream
  <2> QED  BY <2>1, <2>2 DEF c
<1>5. Len(appended') = Len(appended) + 1 /\ appended' \in Seq(Fields) /\ appended'[Len(appended')] = f
  BY <1>1
<1>6. TypeOK'
  <2>1. missing' \in Nat
    BY <1>2
  <2>2. Len(appended') <= MaxFields
    BY <1>1, <1>5, MaxFieldsAssumption
  <2>3. taken' \in 0 .. Len(appended')
    BY <1>1, <1>5
  <2> QED  BY <1>1, <1>4, <1>5, <2>1, <2>2, <2>3 DEF TypeOK, Typed
<1>7. LastCut'
  <2>1. missing' <= Len(r) /\ appended' # <<>>
    BY <1>2, <1>5
  <2> QED  BY <1>5, <2>1 DEF LastCut
<1>8. ASSUME AllClean' PROVE Aligned'
  <2>1. buffer.content = SubSeq(Pending, 1, Len(Pending) - missing)
    BY <1>1, <1>8, CleanBefore DEF Aligned
  <2>2. Pending \in Seq(Bytes)
    BY <1>1, PendingIsUnread, UnreadType, ConcatSteps
  <2>3. buffer.content = Pending
    BY <2>1, <2>2, WholeSubSeq
  <2>4. Pending' = Pending \o r
    <3>1. Pending' = Concat(Unread(appended', taken'))
      BY DEF Pending, Unread
    <3> QED  BY <1>1, <3>1, PendingIsUnread, UnreadAppend
  <2>5. SubSeq(Pending', 1, Len(Pending') - missing') = Pending \o part
    <3> DEFINE p == Pending
               s == p \o r
    <3>1. /\ p \in Seq(Bytes) /\ Len(p) \in Nat
          /\ Len(s) = Len(p) + Len(r) /\ Len(s) - missing' = Len(p) + n
      <4>1. Len(p \o r) = Len(p) + Len(r)
        BY <1>2, <2>2, ConcatProperties
      <4> HIDE DEF p, r
      <4> QED  BY <1>2, <2>2, <4>1 DEF p, r
    <3> HIDE DEF p, r
    <3>2. SubSeq(p \o r, 1, Len(p) + n) = p \o SubSeq(r, 1, n)
      <4>1. r \in Seq(Bytes) /\ n \in 0 .. Len(r)
        BY <1>2 DEF r
      <4> QED  BY <3>1, <4>1, CutSecond
    <3> QED  BY <2>4, <3>1, <3>2 DEF p
  <2>6. taken' < Len(appended')
    BY <1>1, <1>5
  <2> QED  BY <1>4, <2>3, <2>5, <2>6 DEF Aligned
<1>9. ReadAsAppended'
  <2> SUFFICES ASSUME AllClean', last'.due
               PROVE  Faithful(last')
    BY DEF ReadAsAppended
  <2>1. AllClean
    BY <1>1, CleanBefore
  <2> QED  BY <1>1, <2>1 DEF ReadAsAppended
<1> QED  BY <1>4, <1>6, <1>7, <1>8, <1>9 DEF IInv, Emptied

(* appendBytes.                                                              *)
LEMMA AppendBytesKeeps == ASSUME IInv, NEW f \in Fields, AppendBytes(f) PROVE IInv'
<1>1. CASE buffer.failed
  <2>1. buffer' = buffer /\ appended' = appended /\ UNCHANGED <<missing, taken, last>>
    BY <1>1 DEF AppendBytes, Insert
  <2> QED  BY <2>1 DEF IInv, TypeOK, Aligned, LastCut, AllClean, Pending, ReadAsAppended
<1>2. CASE ~buffer.failed
  <2> DEFINE n == Len(Repr(f))
  <2>1. /\ missing = 0 /\ Len(appended) < MaxFields /\ buffer' = Insert(buffer, Repr(f))
        /\ appended' = Append(appended, f) /\ missing' = 0 /\ UNCHANGED <<taken, last>>
    BY <1>2 DEF AppendBytes
  <2>2. SubSeq(Repr(f), 1, n) = Repr(f) /\ n \in Nat
    BY ReprType
  <2>3. n \in 0 .. Len(Repr(f)) /\ Len(Repr(f)) - n = 0
    BY <2>2
  <2> HIDE DEF n
  <2> QED  BY <1>2, <2>1, <2>2, <2>3, AppendKeeps
<1> QED  BY <1>1, <1>2

(* appendRawData, and the constructor from bytes.                            *)
LEMMA AppendRawDataKeeps ==
  ASSUME IInv, NEW f \in Fields, NEW n \in 0 .. Len(Repr(f)) - 1, AppendRawData(f, n)
  PROVE  IInv'
<1>1. n \in 0 .. Len(Repr(f))
  BY ReprType
<1> QED  BY <1>1, AppendKeeps DEF AppendRawData

(* A read that is due, from a stream that has not failed, finds its field    *)
(* whole or finds the last one, cut short.                                   *)
LEMMA DueRead ==
  ASSUME IInv, AllClean, NEW f \in Fields, NEW beyond \in Garbage, ~buffer.failed,
         taken < Len(appended), f = appended[taken + 1]
  PROVE  LET r == Read(buffer, f, beyond)
             left == Concat(Unread(appended, taken + 1))
         IN  \/ /\ r.stream = Stream(SubSeq(left, 1, Len(left) - missing))
                /\ missing > 0 => taken + 1 < Len(appended)
                /\ Kept(f, r.value, beyond)
             \/ /\ r.stream = Failed /\ missing > 0 /\ taken + 1 = Len(appended)
                /\ BlankValue(f, r.value)
<1> DEFINE left == Concat(Unread(appended, taken + 1))
           bytes == Repr(f)
           m == missing
<1>1. /\ appended \in Seq(Fields) /\ taken \in 0 .. Len(appended) - 1 /\ m \in Nat /\ taken \in Nat
      /\ Len(appended) \in Nat
  BY DEF IInv, TypeOK
<1>2. Clean(f)
  BY <1>1 DEF AllClean
<1>3. Pending = bytes \o left
  BY <1>1, PendingIsUnread, UnreadFirst
<1>4. bytes \in Seq(Bytes) /\ left \in Seq(Bytes) /\ Len(bytes) \in Nat /\ Len(left) \in Nat
  <2>1. Unread(appended, taken + 1) \in Seq(Seq(Bytes))
    BY <1>1, UnreadType
  <2>2. left \in Seq(Bytes)
    BY <2>1, ConcatSteps
  <2> HIDE DEF left
  <2> QED  BY <2>2, ReprType
<1>5. Len(Pending) = Len(bytes) + Len(left)
  BY <1>3, <1>4, ConcatProperties
<1>6. buffer = Stream(SubSeq(Pending, 1, Len(Pending) - m))
  <2>1. buffer.content = SubSeq(Pending, 1, Len(Pending) - m)
    BY DEF IInv, Aligned
  <2>2. buffer = [content |-> buffer.content, failed |-> FALSE]
    BY DEF IInv, Typed
  <2> QED  BY <2>1, <2>2 DEF Stream
<1> HIDE DEF left, bytes, m
<1>7. CASE m = 0 \/ taken + 1 < Len(appended)
  <2> DEFINE rest == SubSeq(left, 1, Len(left) - m)
  <2>1. m <= Len(left)
    <3>1. CASE m = 0
      BY <1>4, <3>1
    <3>2. CASE m # 0
      <4>1. taken + 1 \in 0 .. Len(appended) - 1
        BY <1>1, <1>7, <3>2
      <4>2. Len(Repr(appended[Len(appended)])) <= Len(left)
        BY <1>1, <4>1, UnreadLast DEF left
      <4>3. m <= Len(Repr(appended[Len(appended)]))
        BY <1>1, <3>2 DEF IInv, LastCut, m
      <4>4. Len(Repr(appended[Len(appended)])) \in Nat
        <5>1. appended[Len(appended)] \in Fields
          BY <1>1
        <5> QED  BY <5>1, ReprType
      <4> QED  BY <1>1, <1>4, <4>2, <4>3, <4>4
    <3> QED  BY <3>1, <3>2
  <2>2. rest \in Seq(Bytes) /\ SubSeq(bytes \o left, 1, Len(bytes) + (Len(left) - m)) = bytes \o rest
    <3> DEFINE k == Len(left) - m
    <3>1. k \in 0 .. Len(left)
      BY <1>1, <1>4, <2>1
    <3> HIDE DEF k
    <3>2. SubSeq(left, 1, k) \in Seq(Bytes)
      BY <1>4, <3>1
    <3>3. SubSeq(bytes \o left, 1, Len(bytes) + k) = bytes \o SubSeq(left, 1, k)
      BY <1>4, <3>1
    <3> QED  BY <3>2, <3>3 DEF k
  <2>3. Len(Pending) - m = Len(bytes) + (Len(left) - m)
    BY <1>1, <1>4, <1>5
  <2> HIDE DEF rest
  <2>4. buffer = Stream(bytes \o rest)
    BY <1>3, <1>6, <2>2, <2>3
  <2>5. /\ Read(buffer, f, beyond).stream = Stream(rest)
        /\ Kept(f, Read(buffer, f, beyond).value, beyond)
    BY <1>2, <2>2, <2>4, ReadBack DEF bytes
  <2> QED  BY <1>1, <1>7, <2>5 DEF rest, left, m
<1>8. CASE m # 0 /\ ~(taken + 1 < Len(appended))
  <2> DEFINE n == Len(bytes) - m
  <2>1. taken + 1 = Len(appended)
    BY <1>1, <1>8
  <2>2. left = <<>>
    <3>1. Len(appended) \in 0 .. Len(appended) /\ Len(appended) - Len(appended) = 0
      BY <1>1
    <3>2. /\ Unread(appended, Len(appended)) \in Seq(Seq(Bytes))
          /\ Len(Unread(appended, Len(appended))) = 0
      BY <1>1, <3>1, UnreadType
    <3>3. Unread(appended, Len(appended)) = <<>>
      BY <3>2
    <3> QED  BY <2>1, <3>3, ConcatSteps DEF left
  <2>3. m <= Len(bytes) /\ n \in 0 .. Len(bytes) - 1
    <3>1. m <= Len(bytes)
      BY <1>1, <1>8, <2>1 DEF IInv, LastCut, m, bytes
    <3> QED  BY <1>1, <1>4, <1>8, <3>1
  <2>4. Pending = bytes /\ Len(Pending) - m = n
    BY <1>3, <1>4, <2>2
  <2> HIDE DEF n
  <2>5. buffer = Stream(SubSeq(bytes, 1, n))
    BY <1>6, <2>4
  <2>6. Read(buffer, f, beyond).stream = Failed /\ BlankValue(f, Read(buffer, f, beyond).value)
    BY <1>2, <2>3, <2>5, ReadCut DEF bytes
  <2> QED  BY <1>1, <1>8, <2>1, <2>6 DEF m
<1> QED  BY <1>7, <1>8

(* The reads.                                                                *)
LEMMA ReadFieldKeeps ==
  ASSUME IInv, NEW f \in Fields, NEW beyond \in Garbage, ReadField(f, beyond)
  PROVE  IInv'
<1> DEFINE r == Read(buffer, f, beyond)
           due == taken < Len(appended)
<1>1. /\ due => f = appended[taken + 1]
      /\ buffer' = r.stream /\ UNCHANGED <<appended, missing>>
      /\ taken' = IF due THEN taken + 1 ELSE taken
      /\ last' = [type |-> f.type, wanted |-> Shown(f, f.value), got |-> Shown(f, r.value),
                  due |-> due]
  BY DEF ReadField, Due
<1>2. /\ TypeOK /\ Typed(buffer) /\ Emptied(buffer) /\ LastCut /\ (AllClean => Aligned)
      /\ appended \in Seq(Fields) /\ taken \in 0 .. Len(appended) /\ missing \in Nat
  BY DEF IInv, TypeOK
<1>3. Typed(buffer') /\ Emptied(buffer')
  BY <1>1, <1>2, ReadTyped, ReadEmpties
<1>4. TypeOK' /\ LastCut'
  <2>1. taken' \in 0 .. Len(appended)
    BY <1>1, <1>2
  <2>2. last'.due \in BOOLEAN
    BY <1>1
  <2>3. buffer'.content \in Seq(Bytes) /\ buffer'.failed \in BOOLEAN
    BY <1>3 DEF Typed
  <2>4. UNCHANGED <<appended, missing>>
    BY <1>1
  <2> QED  BY <1>2, <2>1, <2>2, <2>3, <2>4 DEF TypeOK, LastCut
<1>5. ASSUME AllClean', ~due PROVE Aligned' /\ ReadAsAppended'
  <2>1. AllClean /\ Aligned /\ taken = Len(appended) /\ taken' = taken
    BY <1>1, <1>2, <1>5 DEF AllClean
  <2>2. ReadAsAppended'
    BY <1>1, <1>5 DEF ReadAsAppended
  <2>3. CASE buffer.failed
    <3>1. buffer'.failed
      <4>1. buffer = Failed
        BY <1>2, <2>3 DEF Emptied
      <4> QED  BY <1>1, <4>1, ReadOfFailed DEF Failed
    <3> QED  BY <1>1, <2>1, <2>2, <3>1 DEF Aligned
  <2>4. CASE ~buffer.failed
    <3>1. Pending = <<>> /\ missing = 0
      <4>1. Len(appended) \in 0 .. Len(appended) /\ Len(appended) - Len(appended) = 0
        BY <1>2
      <4>2. /\ Unread(appended, Len(appended)) \in Seq(Seq(Bytes))
            /\ Len(Unread(appended, Len(appended))) = 0
        BY <1>2, <4>1, UnreadType
      <4>3. Unread(appended, Len(appended)) = <<>>
        BY <4>2
      <4>4. missing = 0
        BY <1>2, <2>1, <2>4 DEF Aligned
      <4> QED  BY <2>1, <4>3, <4>4, ConcatSteps, PendingIsUnread
    <3>2. SubSeq(<<>>, 1, Len(<<>>) - 0) = <<>>
      OBVIOUS
    <3>3. buffer = Stream(<<>>)
      <4>1. buffer.content = <<>>
        BY <2>1, <2>4, <3>1, <3>2 DEF Aligned
      <4>2. buffer = [content |-> buffer.content, failed |-> FALSE]
        BY <1>2, <2>4 DEF Typed
      <4> QED  BY <4>1, <4>2 DEF Stream
    <3>4. buffer' \in {Failed, Stream(<<>>)}
      BY <1>1, <3>3, ReadNothing
    <3>5. Pending' = Pending /\ missing' = missing /\ taken' = Len(appended')
      BY <1>1, <2>1 DEF Pending
    <3>6. buffer'.failed \/ buffer'.content = <<>>
      BY <3>4 DEF Failed, Stream
    <3>7. Aligned'
      <4>1. SubSeq(Pending', 1, Len(Pending') - missing') = <<>> /\ ~(missing' > 0)
        BY <3>1, <3>2, <3>5
      <4> QED  BY <3>5, <3>6, <4>1 DEF Aligned
    <3> QED  BY <2>2, <3>7
  <2> QED  BY <2>3, <2>4
<1>6. ASSUME AllClean', due PROVE Aligned' /\ ReadAsAppended'
  <2> DEFINE left == Concat(Unread(appended, taken + 1))
  <2>1. AllClean /\ Aligned /\ ~buffer.failed /\ taken' = taken + 1 /\ last'.due
    <3>1. AllClean /\ Aligned
      BY <1>1, <1>2, <1>6 DEF AllClean
    <3>2. due /\ taken # Len(appended)
      BY <1>2, <1>6
    <3>3. ~buffer.failed
      BY <3>1, <3>2 DEF Aligned
    <3>4. last'.due = due
      BY <1>1
    <3> QED  BY <1>1, <3>1, <3>2, <3>3, <3>4
  <2>2. Pending' = left /\ missing' = missing /\ Len(appended') = Len(appended)
    BY <1>1, <2>1 DEF Pending, Unread
  <2> HIDE DEF left
  <2>3. \/ /\ r.stream = Stream(SubSeq(left, 1, Len(left) - missing))
           /\ missing > 0 => taken + 1 < Len(appended)
           /\ Kept(f, r.value, beyond)
        \/ /\ r.stream = Failed /\ missing > 0 /\ taken + 1 = Len(appended)
           /\ BlankValue(f, r.value)
    BY <1>1, <1>6, <2>1, DueRead DEF left
  <2>4. /\ last'.type = f.type /\ last'.wanted = Shown(f, f.value) /\ last'.got = Shown(f, r.value)
        /\ IsText(last') = IsText(f)
    BY <1>1 DEF IsText
  <2> HIDE DEF r
  <2>5. CASE /\ r.stream = Stream(SubSeq(left, 1, Len(left) - missing))
             /\ missing > 0 => taken + 1 < Len(appended)
             /\ Kept(f, r.value, beyond)
    <3>1. ~buffer'.failed /\ buffer'.content = SubSeq(left, 1, Len(left) - missing)
      <4> DEFINE c == SubSeq(left, 1, Len(left) - missing)
      <4>1. buffer' = Stream(c)
        BY <1>1, <2>5
      <4> HIDE DEF c
      <4>2. ~buffer'.failed /\ buffer'.content = c
        BY <4>1 DEF Stream
      <4> QED  BY <4>2 DEF c
    <3>2. Aligned'
      BY <2>1, <2>2, <2>5, <3>1 DEF Aligned
    <3>3. Faithful(last')
      <4>1. CASE r.value = f.value
        BY <2>4, <4>1 DEF Faithful
      <4>2. CASE IsText(f) /\ r.value = f.value \o beyond
        <5>1. last'.got = last'.wanted \o beyond
          BY <2>4, <4>2 DEF Shown
        <5> QED  BY <2>4, <4>2, <5>1 DEF Faithful
      <4> QED  BY <2>5, <4>1, <4>2 DEF Kept
    <3> QED  BY <3>2, <3>3 DEF ReadAsAppended
  <2>6. CASE /\ r.stream = Failed /\ missing > 0 /\ taken + 1 = Len(appended)
             /\ BlankValue(f, r.value)
    <3>1. buffer'.failed /\ taken' = Len(appended') /\ missing' > 0
      BY <1>1, <2>1, <2>2, <2>6 DEF Failed
    <3>2. Blank(last')
      BY <2>4, <2>6 DEF Blank, BlankValue
    <3> QED  BY <3>1, <3>2 DEF Aligned, ReadAsAppended
  <2> QED  BY <2>3, <2>5, <2>6
<1>7. ~AllClean' => ReadAsAppended'
  BY DEF ReadAsAppended
<1> QED  BY <1>3, <1>4, <1>5, <1>6, <1>7 DEF IInv

(* The invariant is inductive.                                               *)
LEMMA Inductive == IInv /\ [Next]_vars => IInv'
<1> SUFFICES ASSUME IInv, [Next]_vars PROVE IInv'
  OBVIOUS
<1>1. CASE UNCHANGED vars
  BY <1>1 DEF vars, IInv, TypeOK, Aligned, LastCut, AllClean, Pending, ReadAsAppended
<1>2. CASE Next
  <2>1. PICK f \in Fields :
          \/ AppendBytes(f)
          \/ \E n \in 0 .. Len(Repr(f)) - 1 : AppendRawData(f, n)
          \/ \E beyond \in Garbage : ReadField(f, beyond)
    BY <1>2 DEF Next
  <2> QED  BY <2>1, AppendBytesKeeps, AppendRawDataKeeps, ReadFieldKeeps
<1> QED  BY <1>1, <1>2

(* The inductive invariant holds.                                            *)
THEOREM Invariance == Spec => []IInv
BY InitIInv, Inductive, PTL DEF Spec

(* The buffer holds bytes, and no more fields are read than were appended.   *)
THEOREM TypeOKHolds == Spec => []TypeOK
<1>1. IInv => TypeOK
  BY DEF IInv
<1> QED  BY Invariance, <1>1, PTL

(* For bytes of any size and any fields of the width of their type, cut      *)
(* short anywhere, the read position always stands between two fields        *)
(* (byteRepr and the reads of NetworkBuffer).                                *)
THEOREM FieldsAlignedHolds == Spec => []FieldsAligned
<1>1. IInv => FieldsAligned
  BY DEF IInv, Aligned, FieldsAligned
<1> QED  BY Invariance, <1>1, PTL

(* For any fields and any reader that reads them in their order: what is     *)
(* read is what was appended, or blank when the bytes have ended (the reads  *)
(* of NetworkBuffer).                                                        *)
THEOREM ReadAsAppendedHolds == Spec => []ReadAsAppended
<1>1. IInv => ReadAsAppended
  BY DEF IInv
<1> QED  BY Invariance, <1>1, PTL
================================================================================
