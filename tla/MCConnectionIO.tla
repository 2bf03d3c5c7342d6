---------------------------- MODULE MCConnectionIO ----------------------------
(* ConnectionIO on one connection: a peer that may send a WhoAmI, its        *)
(* acknowledgment, an Inv and a GetAddr, in any order.                       *)
EXTENDS ConnectionIO

MCVersions == {0}
MCInv == <<[type |-> "txRes", hash |-> "new"]>>
MCInvs == {MCInv}
MCMaxInvs == [c \in Conns |-> 1]
MCRemotes == {[c \in Conns |-> c]}
MCTraffic == {Hail(0, "nodepeer"), Other("whoamiack"), Announce(MCInv), Other("getaddr")}
=============================================================================
