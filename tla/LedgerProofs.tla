------------------------------ MODULE LedgerProofs ------------------------------
(***************************************************************************)
(* Theorems about Mempool, for any outputs, transactions, databases and    *)
(* heights, and about Ledger, which puts the bytes of UTXOManager under    *)
(* it, for any outputs and data that may be stored.                        *)
(*                                                                         *)
(* One inductive invariant holds all of Mempool: nothing is accepted, so   *)
(* every entry was made by an orphan, and what the database has cannot     *)
(* change while there is one.  Another one holds the database: what was    *)
(* added is there in the bytes that it became.                             *)
(***************************************************************************)
EXTENDS Ledger, WireProofs, FiniteSetTheorems, FunctionTheorems

\* A process that has ended leaves nothing of its pool.
PoolLost == ~running => mainPool = Nothing /\ orphans = Nothing /\ orphanUsingUTXO = Nothing

-----------------------------------------------------------------------------
(* Nothing has no key, and Put adds one.                                     *)
LEMMA PutMap ==
  /\ DOMAIN Nothing = {}
  /\ \A f, key, value :
       /\ DOMAIN Put(f, key, value) = DOMAIN f \cup {key}
       /\ Put(f, key, value)[key] = value
       /\ \A k \in DOMAIN f : k # key => Put(f, key, value)[k] = f[k]
BY DEF Nothing, Put

(* The sums of validate are equal, so that no transaction is worth adding.   *)
LEMMA NeverWorth == ASSUME NEW l PROVE ~Worth(l)
BY DEF Worth, InputValue, OutputValue

(* A transaction that lacks no output changes nothing when it is added.      *)
LEMMA AddRegularIdle == ASSUME NEW tx, AddRegular(tx) PROVE UNCHANGED vars
BY NeverWorth DEF AddRegular

(* A sequence without repetitions has as many elements as places.            *)
LEMMA DistinctElements ==
  ASSUME NEW S, NEW s \in Seq(S),
         \A i, j \in DOMAIN s : s[i] = s[j] => i = j
  PROVE  IsFiniteSet(ToSet(s)) /\ Cardinality(ToSet(s)) = Len(s)
<1>1. Len(s) \in Nat /\ DOMAIN s = 1 .. Len(s) /\ s \in [1 .. Len(s) -> S]
  BY LenProperties
<1>2. s \in [1 .. Len(s) -> ToSet(s)]
  BY <1>1 DEF ToSet
<1>3. s \in Injection(1 .. Len(s), ToSet(s))
  BY <1>1, <1>2 DEF Injection, IsInjective
<1>4. s \in Surjection(1 .. Len(s), ToSet(s))
  BY <1>1, <1>2 DEF Surjection, ToSet
<1>5. ExistsBijection(1 .. Len(s), ToSet(s))
  BY <1>3, <1>4 DEF ExistsBijection, Bijection
<1>6. IsFiniteSet(1 .. Len(s)) /\ Cardinality(1 .. Len(s)) = Len(s)
  BY <1>1, FS_Interval
<1> QED  BY <1>5, <1>6, FS_Bijection

(* What a transaction is linked to: the inputs that are there, each once,    *)
(* and the others are what it waits for.                                     *)
LEMMA Linked ==
  ASSUME NEW tx \in Transactions
  PROVE  /\ Link(tx).tx = tx
         /\ IsLinked(Link(tx))
         /\ OrphanDeps(Link(tx)) = {u \in ToSet(tx.inputs) : Lacking(u)}
BY DEF Link, IsLinked, OrphanDeps, Lacking

(* A transaction that lacks no output and names none twice is no orphan.     *)
LEMMA OrphanLacks ==
  ASSUME NEW tx \in Transactions, IsOrphan(Link(tx))
  PROVE  \/ \E u \in ToSet(tx.inputs) : Lacking(u)
         \/ \E i, j \in DOMAIN tx.inputs : i # j /\ tx.inputs[i] = tx.inputs[j]
<1> DEFINE mempoolDeps == Link(tx).mempoolDeps
           dependencies == Link(tx).dependencies
<1> SUFFICES ASSUME \A u \in ToSet(tx.inputs) : ~Lacking(u),
                    \A i, j \in DOMAIN tx.inputs : tx.inputs[i] = tx.inputs[j] => i = j
             PROVE  FALSE
  OBVIOUS
<1>1. tx.inputs \in Seq(UTXOs)
  BY TransactionsAssumption
<1>2. IsFiniteSet(ToSet(tx.inputs)) /\ Cardinality(ToSet(tx.inputs)) = Len(tx.inputs)
  BY <1>1, DistinctElements
<1>3. /\ mempoolDeps \cup dependencies = ToSet(tx.inputs)
      /\ mempoolDeps \cap dependencies = {}
  BY DEF Link, Lacking
<1>4. IsFiniteSet(mempoolDeps) /\ IsFiniteSet(dependencies)
  BY <1>2, <1>3, FS_Subset
<1>5. Cardinality(mempoolDeps) \in Nat /\ Cardinality(dependencies) \in Nat
  BY <1>4, FS_CardinalityType
<1>6. Cardinality(ToSet(tx.inputs)) = Cardinality(mempoolDeps) + Cardinality(dependencies) - 0
  BY <1>3, <1>4, FS_Union, FS_EmptySet
<1>7. Cardinality(dependencies) + Cardinality(mempoolDeps) = Len(tx.inputs)
  BY <1>2, <1>5, <1>6
<1>8. Link(tx).tx = tx
  BY Linked
<1> QED  BY <1>7, <1>8 DEF IsOrphan

-----------------------------------------------------------------------------
\* validate compares two sums that are both 0, so that nothing gets further: the
\* shape of what AddRegular would do is never met.
NoneRegular == mainPool = Nothing

IInv ==
  TypeOK /\ PoolLost /\ NoneRegular /\ WaitingNamed /\ OrphansLack

\* Without transactions in the pool there is nothing to say of them.
LEMMA EmptyPool ==
  ASSUME running \in BOOLEAN, currentHeight \in Heights, unspent \in Databases,
         mainPool = Nothing, orphans = Nothing, orphanUsingUTXO = Nothing
  PROVE  IInv
BY PutMap DEF IInv, TypeOK, PoolLost, NoneRegular, WaitingNamed,
              OrphansLack

LEMMA InvariantInit == Init => IInv
BY EmptyPool DEF Init

LEMMA EndsStep == ASSUME IInv, Ends PROVE IInv'
BY PutMap DEF Ends, Forgotten, IInv, TypeOK, PoolLost, NoneRegular, WaitingNamed, OrphansLack

LEMMA StartStep == ASSUME IInv, Start PROVE IInv'
BY PutMap DEF Start, Forgotten, IInv, TypeOK, PoolLost, NoneRegular, WaitingNamed, OrphansLack

LEMMA DatabaseChangesStep == ASSUME IInv, DatabaseChanges PROVE IInv'
BY PutMap DEF DatabaseChanges, pool, IInv, TypeOK, PoolLost, NoneRegular, WaitingNamed, OrphansLack

LEMMA ChangeHeightStep == ASSUME IInv, ChangeHeight PROVE IInv'
BY DEF ChangeHeight, pool, IInv, TypeOK, PoolLost, NoneRegular, WaitingNamed, OrphansLack, Lacking

\* A new orphan: its entries take the place of older ones, which stay orphans.
LEMMA AddOrphanStep ==
  ASSUME IInv, NEW tx \in Transactions, AddOrphan(tx) PROVE IInv'
<1> DEFINE l == Link(tx)
<1>1. PICK stray \in SUBSET Stray : WaitFor(l, OrphanDeps(l) \cup stray)
  BY DEF AddOrphan
<1> DEFINE outputs == OrphanDeps(l) \cup stray
<1>2. /\ running /\ IsOrphan(l) /\ tx.hash \notin DOMAIN orphans
      /\ orphans' = Put(orphans, tx.hash, l)
      /\ UNCHANGED <<running, mainPool, currentHeight, unspent>>
  BY DEF AddOrphan
<1>3. l.tx = tx /\ IsLinked(l) /\ OrphanDeps(l) = {u \in ToSet(tx.inputs) : Lacking(u)}
  BY Linked
<1>4. /\ DOMAIN orphans' = DOMAIN orphans \cup {tx.hash}
      /\ orphans'[tx.hash] = l
      /\ \A h \in DOMAIN orphans : orphans'[h] = orphans[h]
  BY <1>2 DEF Put
<1>5. /\ DOMAIN orphanUsingUTXO' = DOMAIN orphanUsingUTXO \cup outputs
      /\ \A u \in outputs : orphanUsingUTXO'[u] = tx.hash
      /\ \A u \in DOMAIN orphanUsingUTXO \ outputs : orphanUsingUTXO'[u] = orphanUsingUTXO[u]
  BY <1>1, <1>3 DEF WaitFor
<1>6. \A u : Lacking(u)' <=> Lacking(u)
  BY <1>2 DEF Lacking
<1>7. TypeOK'
  <2>1. \A h \in DOMAIN orphans' : IsLinked(orphans'[h]) /\ orphans'[h].tx.hash = h
    BY <1>3, <1>4 DEF IInv, TypeOK
  <2>2. \A u \in DOMAIN orphanUsingUTXO' : orphanUsingUTXO'[u] \in TxHashes
    BY <1>5 DEF IInv, TypeOK, TxHashes
  <2> QED  BY <1>2, <2>1, <2>2 DEF IInv, TypeOK
<1>8. PoolLost' /\ NoneRegular'
  BY <1>2 DEF IInv, PoolLost, NoneRegular
<1>9. WaitingNamed'
  BY <1>3, <1>4, <1>5, <1>6 DEF IInv, WaitingNamed
<1>10. OrphansLack'
  <2>1. \/ \E u \in ToSet(tx.inputs) : Lacking(u)
        \/ \E i, j \in DOMAIN tx.inputs : i # j /\ tx.inputs[i] = tx.inputs[j]
    BY <1>2, OrphanLacks
  <2> QED  BY <2>1, <1>3, <1>4, <1>6 DEF IInv, OrphansLack
<1> QED  BY <1>7, <1>8, <1>9, <1>10 DEF IInv

LEMMA StutterStep == ASSUME IInv, UNCHANGED vars PROVE IInv'
BY DEF vars, pool, IInv, TypeOK, PoolLost, NoneRegular, WaitingNamed,
       OrphansLack, Lacking

LEMMA InvariantStep == IInv /\ [Next]_vars => IInv'
<1> SUFFICES ASSUME IInv, [Next]_vars PROVE IInv'
  OBVIOUS
<1>1. ASSUME NEW tx \in Transactions, AddTransaction(tx) PROVE IInv'
  <2>1. CASE AddUnchecked(tx)
    BY <2>1, StutterStep DEF AddUnchecked
  <2>2. CASE AddOrphan(tx)
    BY <2>2, AddOrphanStep
  <2>3. CASE FaultInOrphanDeps(tx)
    BY <2>3, EndsStep DEF FaultInOrphanDeps
  <2>4. CASE AddOrphanAgain(tx)
    BY <2>4, StutterStep DEF AddOrphanAgain
  <2>5. CASE AddRegular(tx)
    BY <2>5, AddRegularIdle, StutterStep
  <2> QED  BY <1>1, <2>1, <2>2, <2>3, <2>4, <2>5 DEF AddTransaction
<1>2. CASE ChangeHeight
  BY <1>2, ChangeHeightStep
<1>3. CASE Stop
  BY <1>3, EndsStep DEF Stop
<1>4. CASE Start
  BY <1>4, StartStep
<1>5. CASE DatabaseChanges
  BY <1>5, DatabaseChangesStep
<1>6. CASE UNCHANGED vars
  BY <1>6, StutterStep
<1> QED  BY <1>1, <1>2, <1>3, <1>4, <1>5, <1>6 DEF Next, PoolNext

LEMMA Invariant == Spec => []IInv
BY InvariantInit, InvariantStep, PTL DEF Spec

(* Both pools are kept under the hashes of what they hold (HashMemory).      *)
THEOREM TypeCorrect == Spec => []TypeOK
<1>1. IInv => TypeOK
  BY DEF IInv
<1> QED  BY <1>1, Invariant, PTL

(* Every entry of orphanUsingUTXO leads to an orphan that still lacks the    *)
(* output, or is of an output that no input named (addTransaction).          *)
THEOREM WaitingNamedHolds == Spec => []WaitingNamed
<1>1. IInv => WaitingNamed
  BY DEF IInv
<1> QED  BY <1>1, Invariant, PTL

(* What was found when an orphan was linked is never stale (isOrphan).       *)
THEOREM OrphansLackHolds == Spec => []OrphansLack
<1>1. IInv => OrphansLack
  BY DEF IInv
<1> QED  BY <1>1, Invariant, PTL

-----------------------------------------------------------------------------
Place == [h \in TxHashes |-> Type(h)]

(* A pool without transactions is where TransactionPool starts.              *)
LEMMA EmptyPlace ==
  ASSUME mainPool = Nothing, orphans = Nothing PROVE Place = TP!Empty
BY PutMap DEF Place, Type, TP!Empty

LEMMA SamePlace ==
  ASSUME UNCHANGED <<running, pool>> PROVE UNCHANGED TP!vars
BY DEF pool, TP!vars, Type

\* Every step of the pool is one of TransactionPool's, or changes no place.
LEMMA PoolMoves == IInv /\ [Next]_vars => [TP!Next]_(TP!vars)
<1> SUFFICES ASSUME IInv, [Next]_vars PROVE TP!Next \/ UNCHANGED TP!vars
  OBVIOUS
<1>1. ASSUME Ends, running PROVE TP!Stop
  <2>1. Place' = TP!Empty
    BY <1>1, PutMap DEF Ends, Forgotten, Place, Type, TP!Empty
  <2> QED  BY <1>1, <2>1 DEF Ends, Place, TP!Stop
<1>2. ASSUME NEW tx \in Transactions, AddOrphan(tx) PROVE TP!Take(tx.hash)
  <2>1. /\ tx.hash \notin DOMAIN mainPool /\ tx.hash \notin DOMAIN orphans
        /\ mainPool' = mainPool /\ running /\ running' = running
        /\ DOMAIN orphans' = DOMAIN orphans \cup {tx.hash}
    BY <1>2, PutMap DEF AddOrphan, IInv, NoneRegular
  <2>2. Type(tx.hash) = "Unknown" /\ Type(tx.hash)' = "Orphan"
    BY <2>1 DEF Type
  <2>3. \A h \in TxHashes : h # tx.hash => Type(h)' = Type(h)
    BY <2>1 DEF Type
  <2>4. tx.hash \in TxHashes
    BY DEF TxHashes
  <2>5. Place' = [Place EXCEPT ![tx.hash] = "Orphan"]
    BY <2>2, <2>3, <2>4 DEF Place
  <2> QED  BY <2>1, <2>2, <2>4, <2>5 DEF Place, TP!Take
<1>3. ASSUME NEW tx \in Transactions, AddTransaction(tx) PROVE TP!Next \/ UNCHANGED TP!vars
  <2>1. CASE AddUnchecked(tx)
    BY <2>1, SamePlace DEF AddUnchecked, vars
  <2>2. CASE AddOrphan(tx)
    BY <1>2, <2>2 DEF TP!Next, TxHashes
  <2>3. CASE FaultInOrphanDeps(tx)
    BY <1>1, <2>3 DEF FaultInOrphanDeps, TP!Next
  <2>4. CASE AddOrphanAgain(tx)
    BY <2>4, SamePlace DEF AddOrphanAgain, vars
  <2>5. CASE AddRegular(tx)
    BY <2>5, AddRegularIdle, SamePlace DEF vars
  <2> QED  BY <1>3, <2>1, <2>2, <2>3, <2>4, <2>5 DEF AddTransaction
<1>4. CASE ChangeHeight
  BY <1>4, SamePlace DEF ChangeHeight
<1>5. CASE Stop
  BY <1>1, <1>5 DEF Stop, TP!Next
<1>6. CASE Start
  <2>1. Place' = TP!Empty
    BY <1>6, PutMap DEF Start, Forgotten, Place, Type, TP!Empty
  <2> QED  BY <1>6, <2>1 DEF Start, Place, TP!Start, TP!Next
<1>7. CASE DatabaseChanges
  BY <1>7, SamePlace DEF DatabaseChanges
<1>8. CASE UNCHANGED vars
  BY <1>8, SamePlace DEF vars
<1> QED  BY <1>3, <1>4, <1>5, <1>6, <1>7, <1>8 DEF Next, PoolNext

(* The pool keeps one place for each transaction until its process ends, as  *)
(* TransactionPool promises (addTransaction, type).                          *)
THEOREM PoolImplemented == Spec => ImplementsPool
<1>1. Init => TP!Init
  <2> SUFFICES ASSUME Init PROVE TP!Init
    OBVIOUS
  <2>1. Place = TP!Empty
    BY EmptyPlace DEF Init
  <2> QED  BY <2>1 DEF Init, Place, TP!Init
<1> QED  BY <1>1, Invariant, PoolMoves, PTL DEF Spec, TP!Spec, ImplementsPool

-----------------------------------------------------------------------------
\* The inductive invariant of the database: each output that was added has its
\* own entry, with the bytes that its data became.
Holds(database, contents) ==
  /\ DOMAIN contents \subseteq Storable
  /\ \A id \in DOMAIN contents : contents[id] \in Data
  /\ DOMAIN database = {Key(id) : id \in DOMAIN contents}
  /\ \A id \in DOMAIN contents : database[Key(id)] = DataBytes(contents[id])
Stored == Holds(db, added)

(* A text of full length fills the array.                                    *)
LEMMA FillFull ==
  ASSUME NEW text \in Seq(Bytes), Len(text) = HashLength, NEW memory
  PROVE  Fill(text, HashLength, memory) = text
<1> DEFINE filled == [i \in 1 .. Len(text) |-> IF i <= Len(text) THEN text[i] ELSE memory.residue[i]]
<1>1. \A i \in 1 .. Len(text) : filled[i] = text[i]
  OBVIOUS
<1>2. filled = [i \in 1 .. Len(text) |-> text[i]]
  OBVIOUS
<1>3. [i \in 1 .. Len(text) |-> text[i]] = text
  OBVIOUS
<1>4. Fill(text, HashLength, memory) = filled
  BY DEF Fill
<1> QED  BY <1>2, <1>3, <1>4

(* No two outputs have the same key: the hash has a fixed length, and the    *)
(* index comes back from its bytes (TransactionIdentifier::byteRepr).        *)
LEMMA KeyInjective ==
  ASSUME NEW id \in Storable, NEW other \in Storable, Key(id) = Key(other)
  PROVE  id = other
<1>1. /\ id.hash \in Seq(Bytes) /\ other.hash \in Seq(Bytes)
      /\ Len(id.hash) = HashLength /\ Len(other.hash) = HashLength
      /\ id.index \in 0 .. Power[4] - 1 /\ other.index \in 0 .. Power[4] - 1
      /\ id = [hash |-> id.hash, index |-> id.index]
      /\ other = [hash |-> other.hash, index |-> other.index]
  BY StorableAssumption
<1>2. /\ id.index \in Nat /\ id.index < Power[8]
      /\ other.index \in Nat /\ other.index < Power[8]
  BY <1>1, PowerSizes
<1> DEFINE a == VarUint(id.index)
           b == VarUint(other.index)
<1>3. a \in Seq(Bytes) /\ b \in Seq(Bytes)
  BY <1>2, VarUintType
<1>4. id.hash \o a = other.hash \o b
  BY <1>1, FillFull DEF Key
<1> HIDE DEF a, b
<1>5. id.hash = other.hash
  <2>1. SubSeq(id.hash \o a, 1, HashLength) = id.hash
    BY <1>1, <1>3, CutConcat
  <2>2. SubSeq(other.hash \o b, 1, HashLength) = other.hash
    BY <1>1, <1>3, CutConcat
  <2> QED  BY <1>4, <2>1, <2>2
<1>6. a = b
  BY <1>1, <1>3, <1>4, <1>5, ConcatSimplifications
<1>7. id.index = other.index
  BY <1>2, <1>6, VarUintInjective DEF a, b
<1> QED  BY <1>1, <1>5, <1>7

-----------------------------------------------------------------------------
(* The amount that is stored is a number of eight bytes, and the one that    *)
(* was given when that fits an int (the constructor of UTXOdata).            *)
LEMMA IntAmounts ==
  ASSUME NEW v \in 0 .. Power[8] - 1
  PROVE  /\ AsInt(v) \in Nat /\ AsInt(v) < Power[8]
         /\ 2 * v < Power[4] => AsInt(v) = v
<1> DEFINE a == Power[4]
           b == Power[8]
           low == v % a
<1>1. a \in Nat /\ b \in Nat /\ a < b /\ a > 0
  BY PowerSizes, Powers
<1>2. v \in Nat /\ low \in 0 .. a - 1 /\ v = a * (v \div a) + low /\ v \div a \in Nat
  <2>1. v \in Nat
    BY <1>1
  <2> HIDE DEF a
  <2> QED  BY <1>1, <2>1, Division
<1>3. AsInt(v) = IF 2 * low < a THEN low ELSE low + b - a
  BY DEF AsInt
<1>4. ASSUME 2 * v < a PROVE low = v
  <2> HIDE DEF a, low
  <2>1. v < a
    BY <1>1, <1>2, <1>4
  <2>2. v = a * 0 + v
    BY <1>1, <1>2
  <2>3. v \div a = 0
    BY <1>1, <1>2, <2>1, <2>2, QuotientUnique
  <2> QED  BY <1>1, <1>2, <2>3
<1> HIDE DEF a, b, low
<1>5. AsInt(v) \in Nat /\ AsInt(v) < b
  BY <1>1, <1>2, <1>3
<1>6. 2 * v < a => AsInt(v) = v
  BY <1>1, <1>2, <1>3, <1>4
<1> QED  BY <1>5, <1>6 DEF a, b

(* A truth is read back from its two bytes.                                  *)
LEMMA FlagBack ==
  ASSUME NEW b \in BOOLEAN, NEW rest \in Seq(Bytes)
  PROVE  LET read == ReadUint(Stream(Flag(b) \o rest), 2)
         IN  (read.value # 0) = b /\ read.stream = Stream(rest) /\ Flag(b) \in Seq(Bytes)
<1> DEFINE n == IF b THEN 1 ELSE 0
<1>1. n \in Nat /\ n < Power[2] /\ (n # 0) = b
  BY PowerSizes, BaseAssumption
<1> HIDE DEF n
<1>2. ReadUint(Stream(Digits(n, 2) \o rest), 2) = [value |-> n, stream |-> Stream(rest)]
  BY <1>1, UintBack
<1>3. Digits(n, 2) \in Seq(Bytes)
  BY <1>1, DigitsType
<1>4. Flag(b) = Digits(n, 2)
  BY DEF Flag, n
<1> QED  BY <1>1, <1>2, <1>3, <1>4

(* What is read of data that was written: whether it was a coinbase, and its *)
(* height, whatever the rest of it; all of it when the format carries it     *)
(* (UTXOdata::byteRepr, UTXOdata).                                           *)
LEMMA DataBack ==
  ASSUME NEW d \in Data, NEW memory \in Memories
  PROVE  LET read == DataFrom(DataBytes(d), memory)
         IN  /\ read.coinbase = d.coinbase /\ read.height = d.height
             /\ CleanData(d) => read = [d EXCEPT !.script = @ \o memory.beyond]
<1> DEFINE amount == Digits(AsInt(d.value), 8)
           coinbase == Flag(d.coinbase)
           height == Digits(d.height, 4)
           hash == d.signingHash
           fromMempool == Flag(d.fromMempool)
           script == VarStr(d.script)
           behindHash == fromMempool \o script
           behindHeight == hash \o behindHash
           behindCoinbase == height \o behindHeight
           behindAmount == coinbase \o behindCoinbase
           read == DataFrom(DataBytes(d), memory)
           r1 == ReadUint(Stream(DataBytes(d)), 8)
           r2 == ReadUint(r1.stream, 2)
           r3 == ReadUint(r2.stream, 4)
           r4 == ReadStr(r3.stream, HashLength, <<>>)
           r5 == ReadUint(r4.stream, 2)
           r6 == ReadVarStr(r5.stream, memory.beyond)
<1>1. /\ d \in [value : 0 .. Power[8] - 1, coinbase : BOOLEAN, height : 0 .. Power[4] - 1,
                signingHash : Seq(Bytes), fromMempool : BOOLEAN, script : Seq(Bytes)]
      /\ Len(d.script) < Power[8]
  BY DataAssumption
<1>2. /\ d.value \in 0 .. Power[8] - 1 /\ d.coinbase \in BOOLEAN
      /\ hash \in Seq(Bytes) /\ d.fromMempool \in BOOLEAN /\ d.script \in Seq(Bytes)
  BY <1>1
<1>3. d.height \in Nat /\ d.height < Power[4]
  <2>1. d.height \in 0 .. Power[4] - 1
    BY <1>1
  <2> QED  BY <2>1, PowerSizes
<1>4. /\ amount \in Seq(Bytes) /\ coinbase \in Seq(Bytes) /\ height \in Seq(Bytes)
      /\ fromMempool \in Seq(Bytes) /\ script \in Seq(Bytes)
  <2>1. amount \in Seq(Bytes)
    BY <1>2, IntAmounts, DigitsType
  <2>2. height \in Seq(Bytes)
    BY <1>3, DigitsType
  <2>3. coinbase \in Seq(Bytes) /\ fromMempool \in Seq(Bytes)
    <3>1. <<>> \in Seq(Bytes)
      OBVIOUS
    <3> QED  BY <1>2, <3>1, FlagBack
  <2>4. script \in Seq(Bytes)
    <3>1. VarUint(Len(d.script)) \in Seq(Bytes)
      BY <1>2, VarUintType
    <3>2. script = VarUint(Len(d.script)) \o d.script
      BY DEF VarStr, Str
    <3> HIDE DEF script
    <3> QED  BY <1>2, <3>1, <3>2, Joined
  <2> QED  BY <2>1, <2>2, <2>3, <2>4
<1>5. /\ DataBytes(d) = amount \o behindAmount
      /\ behindHash \in Seq(Bytes) /\ behindHeight \in Seq(Bytes)
      /\ behindCoinbase \in Seq(Bytes) /\ behindAmount \in Seq(Bytes)
  <2>1. DataBytes(d) = InARow(amount, coinbase, height, hash, fromMempool, script)
    BY Zenon DEF DataBytes, Str, InARow
  <2>2. EachBeforeRest(amount, coinbase, height, hash, fromMempool, script)
          = amount \o behindAmount
    BY Zenon DEF EachBeforeRest
  <2> HIDE DEF amount, coinbase, height, hash, fromMempool, script, behindHash, behindAmount
  <2>3. behindHash \in Seq(Bytes)
    BY <1>4, Joined DEF behindHash
  <2>4. behindHeight \in Seq(Bytes)
    BY <1>2, <2>3, Joined
  <2> HIDE DEF behindHeight
  <2>5. behindCoinbase \in Seq(Bytes)
    BY <1>4, <2>4, Joined
  <2> HIDE DEF behindCoinbase
  <2>6. behindAmount \in Seq(Bytes)
    BY <1>4, <2>5, Joined DEF behindAmount
  <2>7. DataBytes(d) = amount \o behindAmount
    <3>1. InARow(amount, coinbase, height, hash, fromMempool, script)
            = EachBeforeRest(amount, coinbase, height, hash, fromMempool, script)
      <4>1. hash \in Seq(Bytes)
        BY <1>2
      <4> QED  BY <1>4, <4>1, Regroup
    <3> QED  BY <2>1, <2>2, <3>1, Zenon
  <2> QED  BY <2>3, <2>4, <2>5, <2>6, <2>7
<1>6. read = [value |-> r1.value, coinbase |-> r2.value # 0, height |-> r3.value,
              signingHash |-> Fill(r4.value, HashLength, memory),
              fromMempool |-> r5.value # 0, script |-> r6.value]
  BY Zenon DEF DataFrom
<1>7. r1 = [value |-> AsInt(d.value), stream |-> Stream(behindAmount)]
  <2> HIDE DEF behindAmount
  <2> QED  BY <1>2, <1>5, IntAmounts, UintBack
<1> HIDE DEF r1
<1>8. (r2.value # 0) = d.coinbase /\ r2.stream = Stream(behindCoinbase)
  <2>1. r1.stream = Stream(coinbase \o behindCoinbase)
    BY <1>7
  <2> HIDE DEF behindCoinbase
  <2> QED  BY <1>2, <1>5, <2>1, FlagBack
<1> HIDE DEF r2
<1>9. r3 = [value |-> d.height, stream |-> Stream(behindHeight)]
  <2>1. r2.stream = Stream(height \o behindHeight)
    BY <1>8
  <2> HIDE DEF behindHeight
  <2> QED  BY <1>3, <1>5, <2>1, UintBack
<1> HIDE DEF r3
<1>10. ASSUME CleanData(d) PROVE read = [d EXCEPT !.script = @ \o memory.beyond]
  <2>1. AsInt(d.value) = d.value
    BY <1>2, <1>10, IntAmounts DEF CleanData
  <2>2. r4.value = hash /\ r4.stream = Stream(behindHash)
    <3>1. r3.stream = Stream(hash \o behindHash) /\ Len(hash) = HashLength /\ CleanText(hash)
      BY <1>9, <1>10 DEF CleanData
    <3>2. <<>> \in Seq(1 .. Base - 1) /\ hash \o <<>> = hash
      BY <1>2, ConcatEmptySeq
    <3>3. hash \in Seq(Bytes) /\ behindHash \in Seq(Bytes)
      BY <1>2, <1>5
    <3> HIDE DEF behindHash, hash
    <3>4. /\ ReadStr(Stream(hash \o behindHash), Len(hash), <<>>).value = hash \o <<>>
          /\ ReadStr(Stream(hash \o behindHash), Len(hash), <<>>).stream = Stream(behindHash)
      BY <3>1, <3>2, <3>3, StrBack
    <3> QED  BY <3>1, <3>2, <3>4, Zenon DEF r4
  <2> HIDE DEF r4
  <2>3. (r5.value # 0) = d.fromMempool /\ r5.stream = Stream(script)
    <3>1. r4.stream = Stream(fromMempool \o script)
      BY <2>2
    <3> HIDE DEF script
    <3> QED  BY <1>2, <1>4, <3>1, FlagBack
  <2> HIDE DEF r5
  <2>4. r6.value = d.script \o memory.beyond
    <3>1. memory.beyond \in Seq(1 .. Base - 1)
      BY GarbageAssumption DEF Memories
    <3>2. CleanUint(Len(d.script)) /\ CleanText(d.script) /\ r5.stream = Stream(VarStr(d.script))
      BY <1>10, <2>3 DEF CleanData
    <3> QED  BY <1>1, <1>2, <3>1, <3>2, VarStrBack
  <2>5. Fill(r4.value, HashLength, memory) = d.signingHash
    BY <1>2, <1>10, <2>2, FillFull DEF CleanData
  <2>6. read = [value |-> d.value, coinbase |-> d.coinbase, height |-> d.height,
                signingHash |-> d.signingHash, fromMempool |-> d.fromMempool,
                script |-> d.script \o memory.beyond]
    BY <1>6, <1>7, <1>8, <1>9, <2>1, <2>3, <2>4, <2>5
  <2>7. \A new : [d EXCEPT !.script = new] =
          [value |-> d.value, coinbase |-> d.coinbase, height |-> d.height,
           signingHash |-> d.signingHash, fromMempool |-> d.fromMempool, script |-> new]
    BY <1>1
  <2> QED  BY <2>6, <2>7, Zenon
<1>11. read.coinbase = d.coinbase /\ read.height = d.height
  BY <1>6, <1>8, <1>9
<1> HIDE DEF read
<1> QED  BY <1>10, <1>11 DEF read

-----------------------------------------------------------------------------
(* So it reads back what was added (getData, exists).                        *)
LEMMA StoredReadBack == Stored => StoredAsAdded
<1> SUFFICES ASSUME Stored PROVE StoredAsAdded
  OBVIOUS
<1>1. DOMAIN db = {Key(id) : id \in DOMAIN added}
  BY DEF Stored, Holds
<1>2. ASSUME NEW id \in DOMAIN added, NEW memory \in Memories
      PROVE  LET data == GetData(db, id, memory)
             IN  /\ data.coinbase = added[id].coinbase
                 /\ data.height = added[id].height
                 /\ CleanData(added[id]) =>
                      data = [added[id] EXCEPT !.script = @ \o memory.beyond]
  <2>1. added[id] \in Data /\ db[Key(id)] = DataBytes(added[id]) /\ Key(id) \in DOMAIN db
    BY DEF Stored, Holds
  <2>2. GetData(db, id, memory) = DataFrom(DataBytes(added[id]), memory)
    BY <2>1 DEF GetData, DBExists
  <2>3. LET data == DataFrom(DataBytes(added[id]), memory)
        IN  /\ data.coinbase = added[id].coinbase
            /\ data.height = added[id].height
            /\ CleanData(added[id]) =>
                 data = [added[id] EXCEPT !.script = @ \o memory.beyond]
    BY <2>1, DataBack
  <2> QED  BY <2>2, <2>3, Zenon
<1> QED  BY <1>1, <1>2, Zenon DEF StoredAsAdded

(* Some memory follows what was not set.                                     *)
LEMMA MemoryIsAny == AnyMemory \in Memories
<1>1. PICK beyond \in Garbage : TRUE
  BY GarbageAssumption
<1>2. PICK residue \in Residues : TRUE
  BY ResiduesAssumption
<1>3. [beyond |-> beyond, residue |-> residue] \in Memories
  BY DEF Memories
<1> QED  BY <1>3 DEF AnyMemory

(* And the pool is told of what was added, and of nothing else: the key of   *)
(* an output leads to no other one (getData, exists).                        *)
LEMMA ToldAsStored ==
  ASSUME NEW database, NEW contents, Holds(database, contents)
  PROVE  /\ Told(database) = [id \in DOMAIN contents |-> Facts(contents[id])]
         /\ Told(database) \in Databases
<1> DEFINE there == {i \in Storable : DBExists(database, i)}
           facts == {Facts(d) : d \in Data}
<1>1. /\ DOMAIN contents \subseteq Storable
      /\ \A id \in DOMAIN contents : contents[id] \in Data
      /\ DOMAIN database = {Key(id) : id \in DOMAIN contents}
      /\ \A id \in DOMAIN contents : database[Key(id)] = DataBytes(contents[id])
  BY DEF Holds
<1>2. there = DOMAIN contents
  <2>1. ASSUME NEW i \in Storable, DBExists(database, i) PROVE i \in DOMAIN contents
    <3>1. PICK id \in DOMAIN contents : Key(i) = Key(id)
      BY <1>1, <2>1 DEF DBExists
    <3>2. i = id
      BY <1>1, <3>1, KeyInjective
    <3> QED  BY <3>1, <3>2
  <2>2. ASSUME NEW i \in DOMAIN contents PROVE i \in Storable /\ DBExists(database, i)
    BY <1>1 DEF DBExists
  <2> QED  BY <2>1, <2>2
<1>3. ASSUME NEW id \in DOMAIN contents
      PROVE  /\ Facts(GetData(database, id, AnyMemory)) = Facts(contents[id])
             /\ Facts(contents[id]) \in facts
  <2>1. GetData(database, id, AnyMemory) = DataFrom(DataBytes(contents[id]), AnyMemory)
    BY <1>1 DEF GetData, DBExists
  <2>2. contents[id] \in Data
    BY <1>1
  <2> DEFINE data == DataFrom(DataBytes(contents[id]), AnyMemory)
  <2>3. data.coinbase = contents[id].coinbase /\ data.height = contents[id].height
    BY <2>2, MemoryIsAny, DataBack
  <2> HIDE DEF data
  <2>4. Facts(data) = Facts(contents[id])
    BY <2>3 DEF Facts
  <2> QED  BY <2>1, <2>2, <2>4, Zenon DEF data
<1>4. Told(database) = [id \in DOMAIN contents |-> Facts(contents[id])]
  <2>1. Told(database) = [id \in there |-> Facts(GetData(database, id, AnyMemory))]
    BY DEF Told
  <2> HIDE DEF there
  <2> QED  BY <1>2, <1>3, <2>1
<1>5. Told(database) \in [DOMAIN contents -> facts]
  <2> HIDE DEF facts
  <2> QED  BY <1>3, <1>4
<1> HIDE DEF facts
<1>6. [DOMAIN contents -> facts] \subseteq Databases
  BY <1>1, DatabasesAssumption DEF facts
<1> QED  BY <1>4, <1>5, <1>6

-----------------------------------------------------------------------------
(* The invariant holds of an empty database.                                 *)
LEMMA NothingStored == Holds(Nothing, Nothing)
<1>1. {Key(id) : id \in {}} = {}
  OBVIOUS
<1> QED  BY <1>1, PutMap DEF Holds

LEMMA StoredInit == LedgerInit => Stored
BY NothingStored DEF LedgerInit, Stored

(* An output that is added gets an entry of its own (add).                   *)
LEMMA AddStep ==
  ASSUME Stored, NEW id \in Storable, NEW d \in Data, AddOutput(id, d)
  PROVE  Stored'
<1>1. /\ DOMAIN added \subseteq Storable
      /\ \A i \in DOMAIN added : added[i] \in Data
      /\ DOMAIN db = {Key(i) : i \in DOMAIN added}
      /\ \A i \in DOMAIN added : db[Key(i)] = DataBytes(added[i])
  BY DEF Stored, Holds
<1>2. /\ db' = [k \in DOMAIN db \cup {Key(id)} |-> IF k = Key(id) THEN DataBytes(d) ELSE db[k]]
      /\ added' = [i \in DOMAIN added \cup {id} |-> IF i = id THEN d ELSE added[i]]
  BY DEF AddOutput, Add
<1>3. DOMAIN added' = DOMAIN added \cup {id} /\ DOMAIN db' = DOMAIN db \cup {Key(id)}
  BY <1>2
<1>4. DOMAIN added' \subseteq Storable /\ \A i \in DOMAIN added' : added'[i] \in Data
  BY <1>1, <1>2, <1>3
<1>5. DOMAIN db' = {Key(i) : i \in DOMAIN added'}
  BY <1>1, <1>3
<1>6. ASSUME NEW i \in DOMAIN added' PROVE db'[Key(i)] = DataBytes(added'[i])
  <2>1. CASE i = id
    BY <1>2, <2>1
  <2>2. CASE i # id
    <3>1. i \in DOMAIN added /\ i \in Storable
      BY <1>1, <1>3, <2>2
    <3>2. Key(i) # Key(id)
      BY <2>2, <3>1, KeyInjective
    <3> QED  BY <1>1, <1>2, <2>2, <3>1, <3>2
  <2> QED  BY <2>1, <2>2
<1> QED  BY <1>4, <1>5, <1>6, Zenon DEF Stored, Holds

(* One that is spent loses its own (spend).                                  *)
LEMMA SpendStep ==
  ASSUME Stored, NEW id \in Storable, SpendOutput(id)
  PROVE  Stored'
<1>1. /\ DOMAIN added \subseteq Storable
      /\ \A i \in DOMAIN added : added[i] \in Data
      /\ DOMAIN db = {Key(i) : i \in DOMAIN added}
      /\ \A i \in DOMAIN added : db[Key(i)] = DataBytes(added[i])
  BY DEF Stored, Holds
<1>2. /\ db' = [k \in DOMAIN db \ {Key(id)} |-> db[k]]
      /\ added' = [i \in DOMAIN added \ {id} |-> added[i]]
  BY DEF SpendOutput, Spend
<1>3. DOMAIN added' = DOMAIN added \ {id} /\ DOMAIN db' = DOMAIN db \ {Key(id)}
  BY <1>2
<1>4. DOMAIN added' \subseteq Storable /\ \A i \in DOMAIN added' : added'[i] \in Data
  BY <1>1, <1>2, <1>3
<1>5. \A i \in DOMAIN added' : i \in DOMAIN added /\ Key(i) # Key(id)
  BY <1>1, <1>3, KeyInjective
<1>6. DOMAIN db' = {Key(i) : i \in DOMAIN added'}
  BY <1>1, <1>3, <1>5
<1>7. \A i \in DOMAIN added' : db'[Key(i)] = DataBytes(added'[i])
  BY <1>1, <1>2, <1>3, <1>5
<1> QED  BY <1>4, <1>6, <1>7, Zenon DEF Stored, Holds

LEMMA StoredStep == Stored /\ [LedgerNext]_<<vars, db, added>> => Stored'
<1> SUFFICES ASSUME Stored, [LedgerNext]_<<vars, db, added>> PROVE Stored'
  OBVIOUS
<1>1. ASSUME UNCHANGED <<db, added>> PROVE Stored'
  BY <1>1 DEF Stored, Holds
<1>2. CASE PoolStep
  BY <1>1, <1>2 DEF PoolStep
<1>3. ASSUME NEW id \in Storable, SpendOutput(id) PROVE Stored'
  BY <1>3, SpendStep
<1>4. ASSUME NEW id \in Storable, NEW d \in Data, AddOutput(id, d) PROVE Stored'
  BY <1>4, AddStep
<1>5. CASE UNCHANGED <<vars, db, added>>
  BY <1>1, <1>5
<1> QED  BY <1>2, <1>3, <1>4, <1>5 DEF LedgerNext

LEMMA StoredInvariant == LedgerSpec => []Stored
BY StoredInit, StoredStep, PTL DEF LedgerSpec

(* The database has the outputs that were added and not spent, each under    *)
(* its own key, and reads back what was added for it (UTXOManager).          *)
THEOREM StoredAsAddedHolds == LedgerSpec => []StoredAsAdded
BY StoredInvariant, StoredReadBack, PTL

-----------------------------------------------------------------------------
(* A database that changes is one that Mempool allows for.                   *)
LEMMA LedgerStep == Stored' /\ [LedgerNext]_<<vars, db, added>> => [Next]_vars
<1> SUFFICES ASSUME Stored', [LedgerNext]_<<vars, db, added>> PROVE [Next]_vars
  OBVIOUS
<1>1. Told(db') \in Databases
  <2>1. Holds(db', added')
    BY DEF Stored
  <2> QED  BY <2>1, ToldAsStored
<1>2. CASE PoolStep
  BY <1>2 DEF PoolStep, Next
<1>3. ASSUME NEW id \in Storable, SpendOutput(id) PROVE Next
  <2>1. DatabaseChanges
    BY <1>1, <1>3 DEF SpendOutput, DatabaseChanges
  <2> QED  BY <2>1 DEF Next
<1>4. ASSUME NEW id \in Storable, NEW d \in Data, AddOutput(id, d) PROVE Next
  <2>1. DatabaseChanges
    BY <1>1, <1>4 DEF AddOutput, DatabaseChanges
  <2> QED  BY <2>1 DEF Next
<1>5. CASE UNCHANGED <<vars, db, added>>
  BY <1>5
<1> QED  BY <1>2, <1>3, <1>4, <1>5 DEF LedgerNext

(* The pool starts as in Mempool.                                            *)
LEMMA LedgerStarts == LedgerInit => Init
BY DEF LedgerInit

(* Mempool over the bytes of UTXOManager is Mempool over any database: what  *)
(* the pool is told of an output is what was stored of it (getData).         *)
THEOREM MempoolImplemented == LedgerSpec => ImplementsMempool
BY LedgerStarts, StoredInvariant, LedgerStep, PTL DEF LedgerSpec, Spec, ImplementsMempool

(* All that holds of Mempool holds over the bytes of UTXOManager.            *)
THEOREM PoolOverDatabase ==
  LedgerSpec => /\ [](TypeOK /\ WaitingNamed /\ OrphansLack)
                /\ ImplementsPool
<1>1. LedgerSpec => Spec
  BY MempoolImplemented DEF ImplementsMempool
<1>2. IInv => TypeOK /\ WaitingNamed /\ OrphansLack
  BY DEF IInv
<1> QED  BY <1>1, <1>2, Invariant, PoolImplemented, PTL
=============================================================================
