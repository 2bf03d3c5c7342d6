------------------------------- MODULE Inventory -------------------------------
(***************************************************************************)
(* Messages on their way, byte by byte: a peer sends messages of every     *)
(* type, the node reads header after header and payload after payload,     *)
(* answers each inventory by the GetData of what it lacks, and the peer    *)
(* reads these.  Both ends run this program.  The handshake is over, so    *)
(* that requests leave in the order in which they were made (Connection    *)
(* has the others), and each read meets what it was started for            *)
(* (ConnectionIO has the others).                                          *)
(***************************************************************************)
EXTENDS Records

CONSTANTS
  Names,       \* the type names, as texts
  Traffic,     \* messages that the peer may send
  KnownTx,     \* hashes for which transactionExists
  KnownBlocks, \* hashes for which blockExists
  MaxSent      \* bound: how many messages the peer sends

Types == {"whoami", "whoamiack", "getaddr", "addr", "inv", "getblocks", "getmempool",
          "getdata", "notfound", "block", "tx"}

VARIABLES
  sent,     \* history: the messages that the peer has sent, oldest first
  handled,  \* history: those the node has handled, each with the type that it
            \* was found under and what followed its C strings in memory
  toNode,   \* bytes under way to the node
  toPeer,   \* bytes under way to the peer
  asked     \* history: the list read in each GetData, and what followed likewise

inventoryVars == <<sent, handled, toNode, toPeer, asked>>

MAGIC == 422021

-----------------------------------------------------------------------------
\* getTypeAsString, for types whose codes are their names here.
TypeAsString(type) == Names[type]

\* getTypeFromString looks for one name after the other, anywhere in the text.
Searched == <<"whoamiack", "whoami", "getaddr", "addr", "inv", "getblocks", "getmempool",
              "getdata", "notfound", "block", "tx">>
Occurs(name, text) ==
  \E i \in 0 .. Len(text) - Len(name) : SubSeq(text, i + 1, i + Len(name)) = name
TypeFromString(text) ==
  LET i == SelectInSeq(Searched, LAMBDA type : Occurs(TypeAsString(type), text))
  IN  IF i = 0 THEN "unknown" ELSE Searched[i]

\* The type under which a message is found, by what its array shows of its name.
FoundType(type, memory) == TypeFromString(Fill(TypeAsString(type), NameLength, memory))

\* Message::byteRepr: the name is padded with NULs to its twelve bytes.
Padded(name) == [i \in 1 .. NameLength |-> IF i <= Len(name) THEN name[i] ELSE 0]
HeaderBytes(type, length) ==
  Concat(<<Digits(MAGIC, 4), Padded(TypeAsString(type)), Digits(length, 8)>>)
Frame(m, memory) ==
  LET payload == Payload(m.type, m.value, memory)
  IN  HeaderBytes(m.type, Len(payload)) \o payload

\* handleHeader and handleMessage on the bytes that have arrived.
Arrived(bytes, memory) ==
  LET header == MessageHeader(memory)[Stream(SubSeq(bytes, 1, HeaderSize))].value
      after == SubSeq(bytes, HeaderSize + 1, Len(bytes))
  IN  [type |-> TypeFromString(header[2]),
       payload |-> SubSeq(after, 1, header[3]),
       rest |-> SubSeq(after, header[3] + 1, Len(after))]

\* The constructor of a message from its payload.
Parsed(type, payload, memory) == Message(type, memory)[Stream(payload)]

\* Those of a sequence that are in a set.
Those(seq, S) ==
  FoldLeft(LAMBDA those, e : IF e \in S THEN Append(those, e) ELSE those, <<>>, seq)

Exists(type, hash) == hash \in IF type = "txRes" THEN KnownTx ELSE KnownBlocks
Unknown(list) ==
  Those(list, {r \in ToSet(list) : r[1] # "invalidRes" /\ ~Exists(r[1], r[2])})
GetData(list) == [type |-> "getdata", value |-> list]

ASSUME NamesAssumption ==
  /\ Names \in [Types -> Seq(Bytes \ {0})]
  /\ \A type \in Types : Len(Names[type]) \in 1 .. NameLength
\* A name is found under its own type when NULs follow it in its array.
ASSUME FoundAssumption == \A type \in Types : TypeFromString(Padded(Names[type])) = type
\* A payload has a length that its header can hold.  So has the request for all
\* that a payload is read as, when it is taken for an inventory.
ASSUME TrafficAssumption ==
  \A m \in Traffic, written \in Memories, memory \in Memories :
    LET payload == Payload(m.type, m.value, written)
    IN  /\ m.type \in Types /\ payload \in Seq(Bytes) /\ Len(payload) < Power[8]
        /\ FoundType(m.type, memory) = "inv" =>
             9 + Len(Parsed("inv", payload, memory).value)
                   * (4 + HashLength + Len(memory.beyond)) < Power[8]

-----------------------------------------------------------------------------
Send(m, memory) ==
  /\ Len(sent) < MaxSent
  /\ sent' = Append(sent, m)
  /\ toNode' = toNode \o Frame(m, memory)
  /\ UNCHANGED <<handled, toPeer, asked>>

\* The message that was sent next is handled as what it was taken for.
Handle(type, memory) ==
  handled' = Append(handled, [message |-> sent[Len(handled) + 1], type |-> type,
                              beyond |-> memory.beyond])

OnInvSilent(memory) ==   \* mutation
  /\ toNode # <<>>
  /\ LET m == Arrived(toNode, memory)
         unknown == Unknown(Parsed("inv", m.payload, memory).value)
     IN  /\ m.type = "inv" /\ Handle(m.type, memory)
         /\ toPeer' = IF unknown = <<>> THEN toPeer
                      ELSE toPeer \o Frame(GetData(unknown), memory)
         /\ toNode' = m.rest
  /\ UNCHANGED <<sent, asked>>
OnInv(memory) ==
  /\ toNode # <<>>
  /\ LET m == Arrived(toNode, memory)
         unknown == Unknown(Parsed("inv", m.payload, memory).value)
     IN  /\ m.type = "inv" /\ Handle(m.type, memory)
         /\ toPeer' = toPeer \o Frame(GetData(unknown), memory)
         /\ toNode' = m.rest
  /\ UNCHANGED <<sent, asked>>

\* Any other type: a whoami or a whoamiack finds the status Ack, the rest is
\* the warning of onUnknown.
OnOther(memory) ==
  /\ toNode # <<>>
  /\ LET m == Arrived(toNode, memory)
     IN  m.type # "inv" /\ Handle(m.type, memory) /\ toNode' = m.rest
  /\ UNCHANGED <<sent, toPeer, asked>>

\* The constructor of GetData; no handler of the program uses it yet.
OnGetData(memory) ==
  /\ toPeer # <<>>
  /\ LET m == Arrived(toPeer, memory)
     IN  /\ asked' = Append(asked, [list |-> Parsed("getdata", m.payload, memory).value,
                                    beyond |-> memory.beyond])
         /\ toPeer' = m.rest
  /\ UNCHANGED <<sent, handled, toNode>>

InventoryInit ==
  sent = <<>> /\ handled = <<>> /\ toNode = <<>> /\ toPeer = <<>> /\ asked = <<>>

InventoryNext == \E memory \in Memories :
  \/ \E m \in Traffic : Send(m, memory)
  \/ OnInv(memory) \/ OnOther(memory) \/ OnGetData(memory)

InventorySpec == InventoryInit /\ [][InventoryNext]_inventoryVars

-----------------------------------------------------------------------------
CleanMessage(m) == m.value \in CleanPayloads(m.type)
CleanAll == \A i \in DOMAIN sent : CleanMessage(sent[i])

\* The messages that were taken for inventories.
Answered == Those(handled, {h \in ToSet(handled) : h.type = "inv"})

\* An inventory that was taken as one, and nothing followed a C string in memory.
Plainly(k) ==
  /\ Answered[k].message.type = "inv" /\ CleanMessage(Answered[k].message)
  /\ Answered[k].beyond = <<>> /\ asked[k].beyond = <<>>

\* What is left of bytes after so many messages.
Left(bytes, n) ==
  FoldLeft(LAMBDA left, i : Arrived(left, CHOOSE memory \in Memories : TRUE).rest, bytes,
           [i \in 1 .. n |-> i])

\* What a constructor makes of a clean value.  A text grows by what follows it in
\* memory; an array that is filled up to a NUL shows what it held before; the
\* types of resources change places; the target of a block is written as 0.
TextsRead(v, memory) == [i \in DOMAIN v |-> v[i] \o memory.beyond]
Grown(pair, memory) == <<pair[1], pair[2] \o memory.beyond>>
AddressRead(v, memory) ==
  <<v[1], Fill(CString(v[2] \o memory.beyond), IPLength, memory), v[3]>>
ResourceRead(v, memory) ==
  Grown(<<IF v[1] = "blockRes" THEN "txRes" ELSE "blockRes", v[2]>>, memory)
TransactionRead(v, memory) ==
  <<v[1], TextsRead(v[2], memory), [i \in DOMAIN v[3] |-> Grown(v[3][i], memory)],
    [i \in DOMAIN v[4] |-> Grown(v[4][i], memory)]>>
BlockHeaderRead(v, memory) ==
  <<v[1], TextsRead(v[2], memory), v[3], v[4], v[5], v[6], 0, v[8]>>
ReadAs(type, v, memory) ==
  CASE type = "whoami" -> <<v[1], AddressRead(v[2], memory), TextsRead(v[3], memory)>>
    [] type \in {"whoamiack", "getaddr", "getmempool", "getblocks"} -> v
    [] type = "addr" -> [i \in DOMAIN v |-> AddressRead(v[i], memory)]
    [] type \in {"inv", "getdata", "notfound"} ->
         [i \in DOMAIN v |-> ResourceRead(v[i], memory)]
    [] type = "block" ->
         <<BlockHeaderRead(v[1], memory), [i \in DOMAIN v[2] |-> TransactionRead(v[2][i], memory)]>>
    [] type = "tx" -> TransactionRead(v, memory)

(* What is asked for of an inventory was announced in it, in its order and   *)
(* as what it was announced, and nothing is left out that the node has not,  *)
(* whatever was sent or taken for an inventory in between: the two changes   *)
(* of type, of the announcement and of the request, undo each other.  The    *)
(* exception is a request for a number of resources that begins with         *)
(* whitespace, of which nothing is read (Inv_vect, onInv, readVar_uint).     *)
AskedAsAnnounced ==
  \A k \in DOMAIN asked : Plainly(k) =>
    LET list == Answered[k].message.value
        lacked == Those(list, {r \in ToSet(list) : r[2] \notin KnownTx \cup KnownBlocks})
        read == asked[k].list
    IN  /\ read = Those(list, ToSet(read))
        /\ \/ ToSet(lacked) \subseteq ToSet(read)
           \/ read = <<>> /\ \E n \in Len(lacked) .. Len(list) : ~CleanUint(n)

(* Every message that is taken for an inventory, be it one or another whose  *)
(* name shows through with one in its array, is answered by exactly one      *)
(* whole request, in turn, be it empty or unreadable; no other message is    *)
(* answered, not even an inventory that is taken for something else (onInv,  *)
(* onUnknown, getTypeFromString).                                            *)
AnsweredInTurn ==
  LET due == Len(Answered) - Len(asked)
  IN  due \in Nat /\ \A n \in 0 .. due : Left(toPeer, n) = <<>> <=> n = due

(* The bytes under way are always whole messages.  The next of them is found *)
(* under its type when NULs are behind its name in memory; its constructor   *)
(* reads it to the last byte whatever memory holds, and differs from what    *)
(* was sent in the ways of ReadAs and no other.  A transaction or a block    *)
(* that nothing follows in memory has the same bytes when it is written      *)
(* again, and so the same hash (Message::byteRepr, MessageHeader,            *)
(* getTypeFromString, the constructors and payload() of the messages).       *)
MessagesReadable ==
  toNode # <<>> /\ CleanAll => \A memory \in Memories :
    LET m == sent[Len(handled) + 1]
        arrived == Arrived(toNode, memory)
        read == Parsed(m.type, arrived.payload, memory)
    IN  /\ memory.residue = [i \in 1 .. BufferSize |-> 0] => arrived.type = m.type
        /\ read = [value |-> ReadAs(m.type, m.value, memory), stream |-> Stream(<<>>)]
        /\ m.type \in {"tx", "block"} /\ memory.beyond = <<>> =>
             Payload(m.type, read.value, memory) = arrived.payload

(* What node.hpp:52 says of transactionExists, "Checks if a transaction is   *)
(* known": a transaction that is announced and known is not asked for        *)
(* (onInv).                                                                  *)
AsksOnlyUnknown ==
  \A k \in DOMAIN asked : Plainly(k) =>
    \A i \in DOMAIN asked[k].list :
      ~(asked[k].list[i][1] = "txRes" /\ asked[k].list[i][2] \in KnownTx)
=============================================================================
