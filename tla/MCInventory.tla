------------------------------ MODULE MCInventory ------------------------------
(* A byte of 8 values; hashes and addresses of two bytes, names of up to     *)
(* four.  The names keep what matters of the real ones: whoamiack begins     *)
(* with whoami, getaddr ends with addr, getblocks holds block, four begin    *)
(* with get.  An inventory of three has a count that is taken for a space.   *)
EXTENDS Inventory

MCWhitespace == {3}
MCGarbage == {<<>>, <<5>>}
\* NULs, what a whoamiack has left, and what a getaddr has left with the name inv
\* behind it, where a name of up to three bytes leaves it to be seen.
MCResidues == {<<0, 0, 0, 0>>, <<1, 2, 3, 0>>, <<4, 2, 1, 5>>}

MCNames ==
  [whoami |-> <<1, 2>>, whoamiack |-> <<1, 2, 3>>, addr |-> <<2, 1>>,
   getaddr |-> <<4, 2, 1>>, inv |-> <<5>>, getdata |-> <<4, 3>>, block |-> <<6>>,
   getblocks |-> <<4, 6, 7>>, getmempool |-> <<4, 7>>, notfound |-> <<3, 2>>, tx |-> <<3, 3>>]

H1 == <<2, 2>>
H2 == <<4, 2>>
H3 == <<4, 4>>
MCKnownTx == {H1}
MCKnownBlocks == {H2}

\* Two hashes that the node has, one that it has not, one that holds a NUL.
Resources == ({"txRes", "blockRes"} \X {H1, H2, H3}) \cup {<<"txRes", <<2, 0>>>>}
Inv(list) == [type |-> "inv", value |-> list]
Lacked == <<"txRes", H3>>
MCInventories ==
  {Inv(list) : list \in BoundedSeq(Resources, 1) \cup {<<r, Lacked>> : r \in Resources}
                          \cup {<<r, r, r>> : r \in {Lacked, <<"blockRes", H1>>}}
                          \cup {<<Lacked, Lacked, <<"blockRes", H1>>, Lacked>>}}

\* One message of each other type; numbers and texts at their boundaries.
Somewhere == <<4095, <<6, 1>>, 63>>
Nowhere == <<0, <<0, 0>>, 0>>   \* the address that a WhoAmI has of this program
Halfway == <<5, <<6, 0>>, 63>>
Spending == <<1, <<>>, << <<<<H1, 64>>, <<1, 2>>>>, <<<<H2, 0>>, <<>>>> >>, << <<5, <<7>>>> >>>>
Header == <<0, << <<1>> >>, H1, H2, 6, 4, 77, 7>>
MCOthers ==
  {[type |-> t, value |-> <<>>] : t \in {"whoamiack", "getaddr", "getmempool"}} \cup
  {[type |-> "whoami", value |-> <<0, Nowhere, << <<1, 4>>, <<2>> >>>>],
   [type |-> "addr", value |-> <<Somewhere, Halfway>>],
   [type |-> "getdata", value |-> << <<"txRes", H3>> >>],
   [type |-> "notfound", value |-> << <<"blockRes", H3>> >>],
   [type |-> "getblocks", value |-> << <<H1, H3>>, H2>>],
   [type |-> "tx", value |-> Spending],
   [type |-> "block", value |-> <<Header, <<Spending>>>>]}
MCTraffic == MCInventories \cup MCOthers
MCShortTraffic == {Inv(list) : list \in BoundedSeq(Resources, 1)}
=============================================================================
