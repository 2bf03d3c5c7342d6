------------------------------- MODULE MCLedger -------------------------------
(* Two outputs of one transaction may be in the database; a transaction that *)
(* spends one, two that spend its output, one that names an output twice and *)
(* one that is not worth linking.                                            *)
EXTENDS Ledger

MCWhitespace == {3}
MCGarbage == {<<>>, <<5>>}
MCResidues == {<<0, 0, 0, 0>>, <<7, 2, 0, 5>>}

H1 == <<2, 2>>
H2 == <<4, 2>>
H3 == <<4, 4>>
H4 == <<6, 6>>
H5 == <<6, 1>>
H6 == <<5, 5>>
H7 == <<5, 4>>
Out(hash, index) == [hash |-> hash, index |-> index]
Tx(hash, inputs, outputs) ==
  [hash |-> hash, inputs |-> inputs, outputs |-> outputs, size |-> 100]

\* The second index takes three bytes.
MCStorable == {Out(H1, 0), Out(H1, 5)}
MCTransactions ==
  {Tx(H2, <<Out(H1, 0)>>, <<2>>), Tx(H3, <<Out(H2, 0)>>, <<1>>),
   Tx(H4, <<Out(H2, 0), Out(H1, 5)>>, <<1, 1>>), Tx(H5, <<Out(H1, 0), Out(H1, 0)>>, <<1>>),
   Tx(H6, <<Out(H1, 5)>>, <<1, 0>>), Tx(H7, <<Out(H4, 1), Out(H2, 0)>>, <<3>>)}
MCUTXOs == MCStorable \cup {Out(H2, 0), Out(H4, 1)}
MCStray == {Out(<<>>, 0)}
MCHeights == {45, 46}
MCSpends == {<<H2, Out(H1, 0)>>, <<H3, Out(H2, 0)>>}

Datum(value, coinbase, signingHash, script) ==
  [value |-> value, coinbase |-> coinbase, height |-> 4, signingHash |-> signingHash,
   fromMempool |-> FALSE, script |-> script]
\* The last two are not carried: no signing hash, an amount beyond int.
MCData ==
  {Datum(5, FALSE, H5, <<1, 2>>), Datum(2047, TRUE, H1, <<>>),
   Datum(5, TRUE, <<>>, <<1, 2>>), Datum(2048, FALSE, H5, <<>>)}

MCDatabases ==
  UNION {[S -> [coinbase : BOOLEAN, height : {4}]] : S \in SUBSET MCStorable}
=============================================================================
