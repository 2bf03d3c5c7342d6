---------------------------- MODULE TransactionPool ----------------------------
(***************************************************************************)
(* What the pool of transactions promises to a node: each transaction that *)
(* it takes is in one place, as a regular transaction or as an orphan, and *)
(* stays there until the process ends, except that an orphan may become    *)
(* regular.  (Mempool::type, Mempool::addTransaction.)                     *)
(***************************************************************************)
CONSTANT Hashes  \* hashes that transactions may have

VARIABLES
  up,    \* the process runs
  place  \* what type() says of each hash

vars == <<up, place>>

Places == {"Regular", "Orphan", "Unknown"}
Empty == [h \in Hashes |-> "Unknown"]

Init == up = TRUE /\ place = Empty

Take(h) ==
  /\ up /\ place[h] = "Unknown"
  /\ \E p \in {"Regular", "Orphan"} : place' = [place EXCEPT ![h] = p]
  /\ UNCHANGED up

Promote(h) ==
  /\ up /\ place[h] = "Orphan"
  /\ place' = [place EXCEPT ![h] = "Regular"]
  /\ UNCHANGED up

\* The pool is kept in memory only.
Stop == up /\ up' = FALSE /\ place' = Empty
Start == ~up /\ up' = TRUE /\ place' = Empty

Next == (\E h \in Hashes : Take(h) \/ Promote(h)) \/ Stop \/ Start

Spec == Init /\ [][Next]_vars
=============================================================================
