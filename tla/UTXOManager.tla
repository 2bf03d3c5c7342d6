------------------------------ MODULE UTXOManager ------------------------------
(***************************************************************************)
(* The database of unspent outputs, byte by byte: the key of an output is  *)
(* the bytes of its TransactionIdentifier, its value those of a UTXOdata.  *)
(* LevelDB is external: a map that survives its process, open in one       *)
(* process at a time, whose operations do not fail.                        *)
(***************************************************************************)
EXTENDS FixedStr

VARIABLES
  db,     \* the database
  added   \* history: what was added for each output and not spent since

\* What is read of an output that is not there, or of memory that was not set,
\* depends on none of the fields that the pool looks at: any memory will do.
AnyMemory == CHOOSE memory \in Memories : TRUE

-----------------------------------------------------------------------------
\* The constructor of UTXOdata takes the value as an int.
AsInt(value) ==
  LET low == value % Power[4]
  IN  IF 2 * low < Power[4] THEN low ELSE low + Power[8] - Power[4]

KeyWithoutIndex(id) == Fill(id.hash, HashLength, AnyMemory)   \* mutation
Key(id) == Fill(id.hash, HashLength, AnyMemory) \o VarUint(id.index)

Flag(b) == Digits(IF b THEN 1 ELSE 0, 2)

\* UTXOdata::byteRepr: the hash is written as the text that it is.
DataBytesHeightFirst(d) ==   \* mutation
  Digits(d.height, 4) \o Flag(d.coinbase) \o Digits(AsInt(d.value), 8)
    \o Str(d.signingHash) \o Flag(d.fromMempool) \o VarStr(d.script)
DataBytes(d) ==
  Digits(AsInt(d.value), 8) \o Flag(d.coinbase) \o Digits(d.height, 4)
    \o Str(d.signingHash) \o Flag(d.fromMempool) \o VarStr(d.script)

\* The constructor from a NetworkBuffer reads the hash into an array; that
\* nothing follows it in memory is what Fill excludes.
DataFrom(bytes, memory) ==
  LET value == ReadUint(Stream(bytes), 8)
      coinbase == ReadUint(value.stream, 2)
      height == ReadUint(coinbase.stream, 4)
      signingHash == ReadStr(height.stream, HashLength, <<>>)
      fromMempool == ReadUint(signingHash.stream, 2)
      script == ReadVarStr(fromMempool.stream, memory.beyond)
  IN  [value |-> value.value, coinbase |-> coinbase.value # 0, height |-> height.value,
       signingHash |-> Fill(signingHash.value, HashLength, memory),
       fromMempool |-> fromMempool.value # 0, script |-> script.value]

DBExists(database, id) == Key(id) \in DOMAIN database

GetData(database, id, memory) ==
  DataFrom(IF DBExists(database, id) THEN database[Key(id)] ELSE <<>>, memory)

-----------------------------------------------------------------------------
Add(id, d) ==
  /\ db' = [k \in DOMAIN db \cup {Key(id)} |-> IF k = Key(id) THEN DataBytes(d) ELSE db[k]]
  /\ added' = [i \in DOMAIN added \cup {id} |-> IF i = id THEN d ELSE added[i]]

Spend(id) ==
  /\ db' = [k \in DOMAIN db \ {Key(id)} |-> db[k]]
  /\ added' = [i \in DOMAIN added \ {id} |-> added[i]]

-----------------------------------------------------------------------------
\* The data that the format carries: an amount that fits an int, a signing hash
\* of full length, which is not the empty one of Transaction::signingHash, and a
\* script without OP_FALSE, which is a NUL.
CleanData(d) ==
  /\ 2 * d.value < Power[4]
  /\ Len(d.signingHash) = HashLength /\ CleanText(d.signingHash)
  /\ CleanUint(Len(d.script)) /\ CleanText(d.script)

(* The database has the outputs that were added and not spent, each under    *)
(* its own key, and reads back what was added for it, in this process or in  *)
(* a later one; only the script grows by what follows it in memory.  Of data *)
(* that the format does not carry, whether it was a coinbase and its height  *)
(* survive all the same (add, spend, getData, exists, UTXOdata).             *)
StoredAsAdded ==
  /\ DOMAIN db = {Key(id) : id \in DOMAIN added}
  /\ \A id \in DOMAIN added, memory \in Memories :
       LET data == GetData(db, id, memory)
       IN  /\ data.coinbase = added[id].coinbase
           /\ data.height = added[id].height
           /\ CleanData(added[id]) =>
                data = [added[id] EXCEPT !.script = @ \o memory.beyond]
=============================================================================
