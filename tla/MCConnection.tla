----------------------------- MODULE MCConnection -----------------------------
(* Connection on one outbound and one accepted connection, from one endpoint *)
(* or from two, one transaction that the mempool knows and one hash that     *)
(* nothing knows.                                                            *)
EXTENDS Connection

MCVersions == {0}
MCRemotes == {[c \in Conns |-> "there"], [c \in Conns |-> c]}

Res(type, hash) == [type |-> type, hash |-> hash]

\* One mixed payload, of which only the block entry is to be asked for.  The
\* empty one, which is answered all the same, comes with the blank reads.
MCInvs ==
  {<<Res("txRes", "known"), Res("blockRes", "known"), Res("invalidRes", "new")>>}
\* Inventories come on the bound connection, whose queue goes out behind the
\* acknowledgment; the accepted one, whose queue goes out behind nothing, has none.
MCMaxInvs == [c \in Conns |-> IF c \in Outbound THEN 2 ELSE 0]
=============================================================================
