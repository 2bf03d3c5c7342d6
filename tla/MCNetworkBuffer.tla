---------------------------- MODULE MCNetworkBuffer ----------------------------
(* A byte of 8 values: 5, 6 and 7 announce 2, 4 and 8 bytes, 1 is a space.   *)
EXTENDS NetworkBuffer

MCWhitespace == {1}
MCGarbage == {<<>>, <<3>>}

Of(type, values) == {[type |-> type, value |-> v] : v \in values}

\* The values where the width of a Var_uint changes, one that begins with a
\* space, and texts that fill the array of readStr or hold a NUL.
MCFields ==
  Of("Uint16", {63}) \cup Of("Uint32", {64}) \cup Of("Uint64", {4096})
    \cup Of("Var_uint", {1, 4, 5, 64, 4096})
    \cup Of("Str", {<<1, 2>>, <<2, 0>>})
    \cup Of("Var_str", {<<>>, <<4, 2>>})
MCNumbers == Of("Var_uint", {0, 1, 4, 5})
=============================================================================
