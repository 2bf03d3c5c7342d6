----------------------------- MODULE NetworkBuffer -----------------------------
(***************************************************************************)
(* One NetworkBuffer: fields are appended at one end and read from the     *)
(* other, by a reader that knows which types to expect.  Wire has the      *)
(* bytes.                                                                  *)
(***************************************************************************)
EXTENDS Wire

CONSTANTS
  Fields,    \* values, with their types, that may be appended
  MaxFields  \* bound: how many of them

ASSUME FieldsAssumption ==
  \A f \in Fields :
    \/ f \in [type : {"Uint16"}, value : 0 .. Power[2] - 1]
    \/ f \in [type : {"Uint32"}, value : 0 .. Power[4] - 1]
    \/ f \in [type : {"Uint64", "Var_uint"}, value : 0 .. Power[8] - 1]
    \/ f \in [type : {"Str", "Var_str"}, value : Seq(Bytes)] /\ Len(f.value) < Power[8]
ASSUME MaxFieldsAssumption == MaxFields \in Nat

VARIABLES
  buffer,    \* the stringstream
  appended,  \* history: the fields appended, oldest first
  missing,   \* history: how many bytes of the last of them were not appended
  taken,     \* history: how many fields have been read
  last       \* history: the last read, what it was for and what it gave

vars == <<buffer, appended, missing, taken, last>>

IsText(f) == f.type \in {"Str", "Var_str"}

\* Values of the two sorts, made comparable.
Shown(f, v) == IF IsText(f) THEN v ELSE <<v>>
NoRead == [type |-> "none", wanted |-> <<>>, got |-> <<>>, due |-> FALSE]

-----------------------------------------------------------------------------
\* A field that arrives on a failed stream is lost without a word.
AppendBytes(f) ==
  /\ missing = 0 /\ Len(appended) < MaxFields
  /\ buffer' = Insert(buffer, Repr(f))
  /\ appended' = IF buffer.failed THEN appended ELSE Append(appended, f)
  /\ UNCHANGED <<missing, taken, last>>

\* Raw bytes, and the bytes a NetworkBuffer is constructed from, may end in the
\* middle of a field: of a message that was cut short, or of no message at all.
AppendRawData(f, n) ==
  /\ missing = 0 /\ Len(appended) < MaxFields /\ ~buffer.failed
  /\ buffer' = Insert(buffer, SubSeq(Repr(f), 1, n))
  /\ appended' = Append(appended, f)
  /\ missing' = Len(Repr(f)) - n
  /\ UNCHANGED <<taken, last>>

\* The types are read in the order in which they were appended; a reader that
\* has had them all may still ask for more.
Due(f) == taken < Len(appended) => f = appended[taken + 1]

ReadField(f, beyond) ==
  LET r == Read(buffer, f, beyond)
  IN  /\ Due(f)
      /\ buffer' = r.stream
      /\ last' = [type |-> f.type, wanted |-> Shown(f, f.value), got |-> Shown(f, r.value),
                  due |-> taken < Len(appended)]
      /\ taken' = IF taken < Len(appended) THEN taken + 1 ELSE taken
      /\ UNCHANGED <<appended, missing>>

Init ==
  /\ buffer = Stream(<<>>)
  /\ appended = <<>>
  /\ missing = 0
  /\ taken = 0
  /\ last = NoRead

Next == \E f \in Fields :
  \/ AppendBytes(f)
  \/ \E n \in 0 .. Len(Repr(f)) - 1 : AppendRawData(f, n)
  \/ \E beyond \in Garbage : ReadField(f, beyond)

Spec == Init /\ [][Next]_vars

-----------------------------------------------------------------------------
\* A field that the format carries unharmed.
Clean(f) ==
  CASE f.type \in {"Uint16", "Uint32", "Uint64"} -> TRUE
    [] f.type = "Var_uint" -> CleanUint(f.value)
    [] f.type = "Str" -> CleanText(f.value)
    [] f.type = "Var_str" -> CleanUint(Len(f.value)) /\ CleanText(f.value)

AllClean == \A i \in DOMAIN appended : Clean(appended[i])

\* A text may have grown by what followed it in memory.
Faithful(read) ==
  \/ read.got = read.wanted
  \/ IsText(read) /\ \E t \in Garbage : read.got = read.wanted \o t

\* What a read gives that found too few bytes, an unset text included.
Blank(read) == read.got \in IF IsText(read) THEN Garbage \cup {<<>>} ELSE {<<0>>}

Pending == Concat([i \in 1 .. Len(appended) - taken |-> Repr(appended[taken + i])])

\* Type invariant.
TypeOK ==
  /\ buffer.content \in Seq(Bytes) /\ buffer.failed \in BOOLEAN
  /\ appended \in Seq(Fields) /\ Len(appended) <= MaxFields
  /\ missing \in Nat
  /\ taken \in 0 .. Len(appended)
  /\ last.due \in BOOLEAN

(* The read position always stands between two fields: what is left in the   *)
(* stream is what was appended and not read, to the byte, across every width *)
(* of Var_uint (byteRepr and the reads of NetworkBuffer).                    *)
FieldsAligned ==
  AllClean /\ ~buffer.failed =>
    buffer.content = SubSeq(Pending, 1, Len(Pending) - missing)

(* Fields are read as they were appended, or as blank when the bytes end     *)
(* before the field does: never as something else (the reads of              *)
(* NetworkBuffer).                                                           *)
ReadAsAppended ==
  AllClean /\ last.due =>
    \/ Faithful(last)
    \/ missing > 0 /\ taken = Len(appended) /\ Blank(last)

(* A read that fails, fails for good: it leaves nothing behind that a later  *)
(* read could take for another field, and later reads are blank (gcount      *)
(* checks of the reads of NetworkBuffer).                                    *)
FailureIsFinal ==
  [][buffer.failed =>
       /\ buffer' = Failed
       /\ last' # last => Blank(last')]_vars

(* What networkbuffer.hpp:37 says of readVar_uint, "Read a                   *)
(* networkable::Var_uint from the buffer", without a condition on its value. *)
VarUintRead ==
  last.due /\ last.type = "Var_uint" /\ missing = 0
    /\ (\A i \in DOMAIN appended : appended[i].type = "Var_uint")
    => last.got = last.wanted
=============================================================================
