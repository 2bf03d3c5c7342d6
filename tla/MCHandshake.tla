------------------------------ MODULE MCHandshake ------------------------------
(* Handshake between one bound and one accepted connection.                  *)
EXTENDS Handshake

MCVersions == {0}
MCInvs == {}
MCMaxInvs == [c \in Conns |-> 0]
MCRemotes == {[c \in Conns |-> c]}
MCTraffic == {Hail(0, "nodepeer"), Other("whoamiack")}
=============================================================================
