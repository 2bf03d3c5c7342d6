-------------------------------- MODULE FixedStr --------------------------------
(***************************************************************************)
(* Texts of a fixed length, hashes above all, and the memory that a class  *)
(* shows where it has not set it.                                          *)
(***************************************************************************)
EXTENDS Wire

CONSTANTS
  HashLength,  \* bytes of a hash, 32
  Residues     \* what an array may hold before it is set: any bytes, often an older text

ASSUME HashLengthAssumption == HashLength \in Nat \ {0}
ASSUME ResiduesAssumption == Residues \subseteq [1 .. BufferSize -> Bytes] /\ Residues # {}

\* What memory holds beyond a C string, and in an array that is not set.
Memories == [beyond : Garbage, residue : Residues]

\* FixedStr copies a text into an array; the rest of the array is not set and
\* shows what was there before.  (A longer text would leave the array: that is
\* undefined, and excluded here.)
Fill(text, size, memory) ==
  [i \in 1 .. size |-> IF i <= Len(text) THEN text[i] ELSE memory.residue[i]]
=============================================================================
