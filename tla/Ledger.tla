-------------------------------- MODULE Ledger --------------------------------
(***************************************************************************)
(* The pool over its database, through lives of the process: Mempool with  *)
(* its UTXOManager.  No code calls add or spend yet; they are public, and  *)
(* stand here for a process that has the database between two lives of the *)
(* node.                                                                   *)
(***************************************************************************)
EXTENDS Mempool, UTXOManager

CONSTANTS
  Storable,  \* outputs that may be added to the database
  Data       \* what may be added for them

\* What the pool looks at of what is stored.
Facts(d) == [coinbase |-> d.coinbase, height |-> d.height]

ASSUME StorableAssumption ==
  /\ Storable \subseteq [hash : Seq(Bytes), index : 0 .. Power[4] - 1]
  /\ \A id \in Storable : Len(id.hash) = HashLength
ASSUME DataAssumption ==
  /\ Data \subseteq [value : 0 .. Power[8] - 1, coinbase : BOOLEAN, height : 0 .. Power[4] - 1,
                     signingHash : Seq(Bytes), fromMempool : BOOLEAN, script : Seq(Bytes)]
  /\ \A d \in Data : Len(d.script) < Power[8]
\* Mempool allows for any of it in the database.
ASSUME DatabasesAssumption ==
  \A S \in SUBSET Storable : [S -> {Facts(d) : d \in Data}] \subseteq Databases

\* What the pool is told of the outputs in a database.
Told(database) ==
  [id \in {i \in Storable : DBExists(database, i)} |->
     Facts(GetData(database, id, AnyMemory))]

PoolStep == PoolNext /\ UNCHANGED <<db, added>>

AddOutput(id, d) ==
  /\ ~running
  /\ Add(id, d)
  /\ unspent' = Told(db')
  /\ UNCHANGED <<running, pool, currentHeight>>

SpendOutput(id) ==
  /\ ~running
  /\ Spend(id)
  /\ unspent' = Told(db')
  /\ UNCHANGED <<running, pool, currentHeight>>

LedgerInit ==
  /\ db = Nothing /\ added = Nothing
  /\ unspent = Nothing
  /\ Init

LedgerNext ==
  \/ PoolStep
  \/ \E id \in Storable : SpendOutput(id) \/ \E d \in Data : AddOutput(id, d)

LedgerSpec == LedgerInit /\ [][LedgerNext]_<<vars, db, added>>

-----------------------------------------------------------------------------
(* Whatever was added and spent, in whatever life, the pool finds a database *)
(* that Mempool allows for: what it reads of an output is what was stored of *)
(* one, so that all that holds of Mempool holds here (UTXOdata, getData).    *)
ImplementsMempool == Spec
=============================================================================
