-------------------------------- MODULE Mempool --------------------------------
(***************************************************************************)
(* The pool of transactions that are in no block: Mempool, and the         *)
(* LinkedTransaction that it makes of each Transaction.  `unspent` is what *)
(* UTXOManager answers (Ledger puts its database under it).  The pool      *)
(* lives as long as its process; the database outlives it.                 *)
(*                                                                         *)
(* An orphan is linked once, in its constructor, so that isOrphan() never  *)
(* changes: updateOrphan of a hash among the orphans does nothing, and of  *)
(* any other it throws (OrphansLack is why).                               *)
(***************************************************************************)
EXTENDS Naturals, Integers, Sequences, SequencesExt, FiniteSetsExt

CONSTANTS
  UTXOs,        \* outputs that inputs may name: a hash and an index each
  Transactions, \* what may be added: hash, inputs, output values, size
  Databases,    \* what the database may hold: outputs, with what is stored of them
  Heights,      \* values that currentHeight may have, unset memory included
  Stray,        \* outputs that memory behind the inputs may look like
  Spends        \* the pairs of transaction and output whose scripts come to true

ASSUME TransactionsAssumption ==
  \A tx \in Transactions : tx.inputs \in Seq(UTXOs) /\ tx.outputs \in Seq(Nat)
ASSUME HeightsAssumption == Heights \subseteq Int

VARIABLES
  running,          \* the process with this pool has not ended
  mainPool,         \* mainPool, by hash
  orphans,          \* orphans, by hash
  orphanUsingUTXO,  \* orphanUsingUTXO, by output
  currentHeight,    \* currentHeight, which no constructor sets
  unspent           \* the outputs stored, with their data

pool == <<mainPool, orphans, orphanUsingUTXO>>
vars == <<running, pool, currentHeight, unspent>>

MAX_BLOCK_SIZE == 2048
COINBASE_MATURITY == 42

Nothing == [x \in {} |-> x]
Put(f, key, value) == [k \in DOMAIN f \cup {key} |-> IF k = key THEN value ELSE f[k]]
Outputs(tx) == {[hash |-> tx.hash, index |-> i - 1] : i \in DOMAIN tx.outputs}

-----------------------------------------------------------------------------
\* Transaction::check.
Check(tx) ==
  /\ tx.inputs # <<>> /\ tx.outputs # <<>>
  /\ tx.size <= MAX_BLOCK_SIZE
  /\ \A i \in DOMAIN tx.outputs : tx.outputs[i] > 0

LinkToPool(tx) ==   \* mutation
  LET mempoolDeps == {u \in ToSet(tx.inputs) : u.hash \in DOMAIN mainPool}
  IN  [tx |-> tx, mempoolDeps |-> mempoolDeps, dependencies |-> {}]
\* LinkedTransaction's constructor.  That the pool has the output of an input is
\* not looked at, only that it has the transaction.
Link(tx) ==
  LET mempoolDeps == {u \in ToSet(tx.inputs) : u.hash \in DOMAIN mainPool}
  IN  [tx |-> tx, mempoolDeps |-> mempoolDeps,
       dependencies |-> (ToSet(tx.inputs) \ mempoolDeps) \cap DOMAIN unspent]

\* Sets are compared with a vector: a transaction that names an output twice is
\* an orphan for good.
IsOrphan(l) ==
  Cardinality(l.dependencies) + Cardinality(l.mempoolDeps) # Len(l.tx.inputs)

AllInputs(l) == ToSet(l.tx.inputs)   \* mutation
OrphanDeps(l) == ToSet(l.tx.inputs) \ (l.dependencies \cup l.mempoolDeps)

\* The results of std::accumulate are dropped.
InputValue(l) == 0
OutputValue(tx) == 0

\* What the database has not is read as blank, and so as no coinbase.
IsSpendable(u) ==
  u \in DOMAIN unspent /\ unspent[u].coinbase
    => currentHeight - unspent[u].height >= COINBASE_MATURITY

\* LinkedTransaction::validate up to the scripts.
Worth(l) ==
  /\ Check(l.tx) /\ ~IsOrphan(l) /\ l.tx.hash \notin DOMAIN mainPool
  /\ InputValue(l) > OutputValue(l.tx)
  /\ \A u \in ToSet(l.tx.inputs) : IsSpendable(u)

\* The input at which validateScript stops: one whose script does not come to
\* true, or one of the dependencies, whose script is looked for in the pool.
ScriptStopsAt(l) ==
  SelectInSeq(l.tx.inputs, LAMBDA u :
    u \in l.dependencies \/ <<l.tx.hash, u>> \notin Spends)

\* Mempool::type.
Type(hash) ==
  IF hash \in DOMAIN mainPool THEN "Regular"
  ELSE IF hash \in DOMAIN orphans THEN "Orphan" ELSE "Unknown"

-----------------------------------------------------------------------------
Forgotten ==
  mainPool' = Nothing /\ orphans' = Nothing /\ orphanUsingUTXO' = Nothing

\* An exception or a fault that nothing handles.
Ends == running' = FALSE /\ Forgotten /\ UNCHANGED <<currentHeight, unspent>>

AddUnchecked(tx) ==
  running /\ ~Check(tx) /\ UNCHANGED vars

WaitForDep(l, outputs) ==   \* mutation
  orphanUsingUTXO' =
    [u \in DOMAIN orphanUsingUTXO \cup outputs |->
       IF u \in outputs THEN u.hash ELSE orphanUsingUTXO[u]]
WaitFor(l, outputs) ==
  orphanUsingUTXO' =
    [u \in DOMAIN orphanUsingUTXO \cup outputs |->
       IF u \in outputs THEN l.tx.hash ELSE orphanUsingUTXO[u]]

AddOrphanEvicting(tx) ==   \* mutation
  LET l == Link(tx)
  IN  /\ running /\ Check(tx) /\ IsOrphan(l)
      /\ tx.hash \notin DOMAIN orphans
      /\ orphans' = Put([h \in {h \in DOMAIN orphans :
                           \A u \in OrphanDeps(l) \cap DOMAIN orphanUsingUTXO :
                             h # orphanUsingUTXO[u]} |-> orphans[h]], tx.hash, l)
      /\ WaitFor(l, OrphanDeps(l))
      /\ UNCHANGED <<running, mainPool, currentHeight, unspent>>
\* getOrphanDeps walks from the beginning of one vector to the end of another: it
\* has met every input by then and takes what lies between for outputs, unless
\* the process faults first (FaultInOrphanDeps).
AddOrphan(tx) ==
  LET l == Link(tx)
  IN  /\ running /\ Check(tx) /\ IsOrphan(l)
      /\ tx.hash \notin DOMAIN orphans
      /\ orphans' = Put(orphans, tx.hash, l)
      /\ \E stray \in SUBSET Stray : WaitFor(l, OrphanDeps(l) \cup stray)
      /\ UNCHANGED <<running, mainPool, currentHeight, unspent>>

FaultInOrphanDeps(tx) ==
  /\ running /\ Check(tx) /\ IsOrphan(Link(tx))
  /\ tx.hash \notin DOMAIN orphans
  /\ Ends

AddOrphanAgain(tx) ==
  /\ running /\ Check(tx) /\ IsOrphan(Link(tx))
  /\ tx.hash \in DOMAIN orphans
  /\ UNCHANGED vars

\* registerTransaction asks, output by output, which orphan waits for it; where
\* none does, the lookup of no name throws.  (The scripts have been run by then,
\* which changes the transaction and with it its hash; this is left out, because
\* nothing gets this far: Worth compares 0 with 0.)
Register(l) ==
  IF Outputs(l.tx) \subseteq DOMAIN orphanUsingUTXO
  THEN /\ mainPool' = Put(mainPool, l.tx.hash, l)
       /\ orphanUsingUTXO' =
            [u \in DOMAIN orphanUsingUTXO \ Outputs(l.tx) |-> orphanUsingUTXO[u]]
       /\ UNCHANGED <<running, orphans, currentHeight, unspent>>
  ELSE Ends

AddRegular(tx) ==
  LET l == Link(tx)
      stop == ScriptStopsAt(l)
  IN  /\ running /\ Check(tx) /\ ~IsOrphan(l)
      /\ IF tx.hash \in DOMAIN mainPool \/ ~Worth(l) THEN UNCHANGED vars
         ELSE IF stop = 0 THEN Register(l)
         ELSE IF tx.inputs[stop] \in l.dependencies THEN Ends
         ELSE UNCHANGED vars

AddTransaction(tx) ==
  \/ AddUnchecked(tx)
  \/ AddOrphan(tx) \/ FaultInOrphanDeps(tx) \/ AddOrphanAgain(tx)
  \/ AddRegular(tx)

\* incrementHeight and decrementHeight.
ChangeHeight ==
  /\ running
  /\ currentHeight' \in {currentHeight + 1, currentHeight - 1} \cap Heights
  /\ UNCHANGED <<running, pool, unspent>>

Stop == running /\ Ends

\* The constructor of Mempool, in another process.
Start ==
  /\ ~running /\ running' = TRUE
  /\ Forgotten
  /\ currentHeight' \in Heights
  /\ UNCHANGED unspent

\* The database is open in one process at a time: it changes between two.
DatabaseChanges ==
  ~running /\ unspent' \in Databases /\ UNCHANGED <<running, pool, currentHeight>>

Init ==
  /\ running = TRUE
  /\ mainPool = Nothing /\ orphans = Nothing /\ orphanUsingUTXO = Nothing
  /\ currentHeight \in Heights
  /\ unspent \in Databases

PoolNext == (\E tx \in Transactions : AddTransaction(tx)) \/ ChangeHeight \/ Stop \/ Start
Next == PoolNext \/ DatabaseChanges

Spec == Init /\ [][Next]_vars

-----------------------------------------------------------------------------
TxHashes == {tx.hash : tx \in Transactions}

\* An output that an input names and that is not there.
Lacking(u) == u \notin DOMAIN unspent /\ u.hash \notin DOMAIN mainPool

IsLinked(l) == l.tx \in Transactions /\ l.dependencies \cup l.mempoolDeps \subseteq ToSet(l.tx.inputs)

\* Type invariant.  Both pools are kept under the hashes of what they hold.
TypeOK ==
  /\ running \in BOOLEAN
  /\ \A h \in DOMAIN mainPool : IsLinked(mainPool[h]) /\ mainPool[h].tx.hash = h
  /\ \A h \in DOMAIN orphans : IsLinked(orphans[h]) /\ orphans[h].tx.hash = h
  /\ \A u \in DOMAIN orphanUsingUTXO : orphanUsingUTXO[u] \in TxHashes
  /\ currentHeight \in Heights
  /\ unspent \in Databases

(* Every entry of orphanUsingUTXO leads to an orphan in the pool that names  *)
(* the output and still lacks it: the lookup in updateOrphan finds one, and  *)
(* no entry outlives the lack (addTransaction, getOrphanDeps).               *)
WaitingNamed ==
  \A u \in DOMAIN orphanUsingUTXO :
    LET h == orphanUsingUTXO[u]
    IN  /\ h \in DOMAIN orphans
        /\ u \in Stray \/ (Lacking(u) /\ u \in ToSet(orphans[h].tx.inputs))

(* An orphan is one for a reason that holds as long as the process: it lacks *)
(* an output, or names one twice.  So what was found when it was linked is   *)
(* never stale, and updateOrphan has nothing to do (LinkedTransaction's      *)
(* constructor, isOrphan, updateOrphan).                                     *)
OrphansLack ==
  \A h \in DOMAIN orphans :
    LET inputs == orphans[h].tx.inputs
    IN  \/ \E u \in ToSet(inputs) : Lacking(u)
        \/ \E i, j \in DOMAIN inputs : i # j /\ inputs[i] = inputs[j]

(* What mempool.hpp:79 says of orphanUsingUTXO, "There by design can't be    *)
(* more than one Transaction using a specified output": one entry for each   *)
(* output leads to every orphan that waits for it.                           *)
EachAwaited ==
  \A h \in DOMAIN orphans : \A u \in ToSet(orphans[h].tx.inputs) :
    Lacking(u) => u \in DOMAIN orphanUsingUTXO /\ orphanUsingUTXO[u] = h

(* The pool keeps what TransactionPool promises, type() being the place of a *)
(* transaction: one place for each, until the process ends (addTransaction,  *)
(* registerTransaction, type).                                               *)
TP == INSTANCE TransactionPool
        WITH Hashes <- TxHashes, up <- running, place <- [h \in TxHashes |-> Type(h)]
ImplementsPool == TP!Spec
=============================================================================
